------------------------ MODULE SecretsScannerProofs ------------------------
(***************************************************************************)
(* Proofs for SecretsScanner: what is redacted, what is counted and what a *)
(* finding is named after, for every forest of JSON values, every set of   *)
(* patterns and every configuration of the plugin.                         *)
(***************************************************************************)
EXTENDS SecretsScanner, FiniteSetTheorems, FunctionTheorems, SequenceTheorems, WellFoundedInduction, TLAPS

-----------------------------------------------------------------------------
(* The forest of values *)

\* What holds of the roots and passes on to what a container holds, holds of
\* every value.
LEMMA ForestInduction ==
    ASSUME NEW S, S \subseteq Node, Root \subseteq S, \A n \in S : Children[n] \subseteq S
    PROVE  S = Node
  BY ScannerAssumption DEF IsForest

\* A set with the containers of all its members.
Upward(S) == \A x \in Node : Children[x] \cap S # {} => x \in S

\* A value and the containers it is in.
Up(n) == {m \in Node : \A S \in SUBSET Node : n \in S /\ Upward(S) => m \in S}

\* Up(n) is the least such set with n.
LEMMA UpLeast ==
    ASSUME NEW n \in Node
    PROVE  /\ Up(n) \in SUBSET Node /\ n \in Up(n) /\ Upward(Up(n))
           /\ \A S \in SUBSET Node : n \in S /\ Upward(S) => Up(n) \subseteq S
           /\ \A m \in Up(n) : Up(m) \subseteq Up(n)
  <1>1. Up(n) \in SUBSET Node /\ n \in Up(n)
    BY DEF Up
  <1>2. \A S \in SUBSET Node : n \in S /\ Upward(S) => Up(n) \subseteq S
    BY DEF Up
  <1>3. Upward(Up(n))
    <2> SUFFICES ASSUME NEW x \in Node, NEW c \in Children[x], c \in Up(n) PROVE x \in Up(n)
      BY DEF Upward
    <2>1. ASSUME NEW S \in SUBSET Node, n \in S, Upward(S) PROVE x \in S
      <3>1. c \in S
        BY <2>1 DEF Up
      <3>2. QED
        BY <2>1, <3>1 DEF Upward
    <2>2. QED
      BY <2>1 DEF Up
  <1>4. \A m \in Up(n) : Up(m) \subseteq Up(n)
    BY <1>1, <1>3 DEF Up
  <1>5. QED
    BY <1>1, <1>2, <1>3, <1>4

\* A root is in no container, and what is in a container is in what that is in.
LEMMA UpStep ==
    /\ \A r \in Root : Up(r) = {r}
    /\ \A n \in Node : \A c \in Children[n] : c \in Node /\ Up(c) = {c} \cup Up(n)
  <1>0. Root \subseteq Node /\ Children \in [Node -> SUBSET Node] /\ IsForest
    BY ScannerAssumption
  <1>1. ASSUME NEW r \in Root PROVE Up(r) = {r}
    <2>1. {r} \in SUBSET Node /\ Upward({r})
      BY <1>0 DEF IsForest, Upward
    <2>2. QED
      BY <1>0, <2>1, UpLeast
  <1>2. ASSUME NEW n \in Node, NEW c \in Children[n] PROVE c \in Node /\ Up(c) = {c} \cup Up(n)
    <2>0. c \in Node
      BY <1>0
    <2>1. Up(n) \in SUBSET Node /\ n \in Up(n) /\ Upward(Up(n))
      BY UpLeast
    <2>2. {c} \cup Up(n) \in SUBSET Node /\ Upward({c} \cup Up(n))
      <3>1. ASSUME NEW x \in Node, c \in Children[x] PROVE x = n
        BY <1>0, <3>1 DEF IsForest
      <3>2. ASSUME NEW x \in Node, Children[x] \cap ({c} \cup Up(n)) # {} PROVE x \in {c} \cup Up(n)
        BY <2>1, <3>1, <3>2 DEF Upward
      <3>3. QED
        BY <2>0, <2>1, <3>2 DEF Upward
    <2>3. Up(c) \subseteq {c} \cup Up(n)
      BY <2>0, <2>2, UpLeast
    <2>4. c \in Up(c) /\ Upward(Up(c)) /\ \A m \in Up(c) : Up(m) \subseteq Up(c)
      BY <2>0, UpLeast
    <2>5. n \in Up(c)
      BY <2>4 DEF Upward
    <2>6. QED
      BY <2>0, <2>3, <2>4, <2>5
  <1>3. QED
    BY <1>1, <1>2

\* Every value is in a root; the way to it from a container goes through one of
\* what the container holds.
LEMMA UpPath ==
    ASSUME NEW n \in Node
    PROVE  /\ Up(n) \cap Root # {}
           /\ \A m \in Up(n) \ {n} : Children[m] \cap Up(n) # {}
  <1>0. Root \subseteq Node /\ Children \in [Node -> SUBSET Node]
    BY ScannerAssumption
  <1> DEFINE S == {x \in Node : /\ Up(x) \cap Root # {}
                                /\ \A m \in Up(x) \ {x} : Children[m] \cap Up(x) # {}}
  <1>1. Root \subseteq S
    BY <1>0, UpStep
  <1>2. ASSUME NEW x \in S PROVE Children[x] \subseteq S
    <2> SUFFICES ASSUME NEW c \in Children[x] PROVE c \in S
      OBVIOUS
    <2>1. c \in Node /\ Up(c) = {c} \cup Up(x)
      BY UpStep
    <2>2. ASSUME NEW m \in Up(c) \ {c} PROVE Children[m] \cap Up(c) # {}
      <3>1. m \in Up(x)
        BY <2>1
      <3>2. CASE m = x
        BY <2>1, <3>2
      <3>3. CASE m # x
        BY <2>1, <3>1, <3>3
      <3>4. QED
        BY <3>2, <3>3
    <2>3. QED
      BY <2>1, <2>2
  <1>3. S = Node
    BY <1>1, <1>2, ForestInduction
  <1>4. QED
    BY <1>3

\* No value is in itself, directly or not.
LEMMA UpAcyclic ==
    ASSUME NEW n \in Node, NEW c \in Children[n]
    PROVE  c \notin Up(n)
  <1>0. Root \subseteq Node /\ Children \in [Node -> SUBSET Node] /\ IsForest
    BY ScannerAssumption
  <1>1. ASSUME NEW x \in Node PROVE x \notin Children[x]
    <2> SUFFICES ASSUME x \in Children[x] PROVE FALSE
      OBVIOUS
    <2> DEFINE S == Node \ {x}
    <2>1. Root \subseteq S
      BY <1>0 DEF IsForest
    <2>2. \A y \in S : Children[y] \subseteq S
      BY <1>0 DEF IsForest
    <2>3. S = Node
      BY <2>1, <2>2, ForestInduction
    <2>4. QED
      BY <2>3
  <1> DEFINE S == {x \in Node : \A m \in Up(x) \ {x} : x \notin Up(m)}
  <1>2. Root \subseteq S
    BY <1>0, UpStep
  <1>3. ASSUME NEW x \in S PROVE Children[x] \subseteq S
    <2> SUFFICES ASSUME NEW d \in Children[x], NEW m \in Up(d) \ {d}, d \in Up(m) PROVE FALSE
      BY <1>0
    <2>1. d \in Node /\ Up(d) = {d} \cup Up(x) /\ d # x
      BY <1>1, UpStep
    <2>2. m \in Up(x) /\ Up(m) \subseteq Up(x)
      BY <2>1, UpLeast
    <2>3. d \in Up(x) /\ x \in Up(d)
      BY <2>1, <2>2, UpLeast
    <2>4. QED
      BY <2>1, <2>3
  <1>4. S = Node
    BY <1>2, <1>3, ForestInduction
  <1>5. c # n /\ n \in Up(c)
    BY <1>0, <1>1, UpStep, UpLeast
  <1>6. QED
    BY <1>4, <1>5

\* The path of a value continues those of the containers it is in.
LEMMA PathContinues ==
    ASSUME NEW n \in Node, NEW m \in Up(n)
    PROVE  path_starts_with(Path[n], Path[m])
  <1>0. /\ Root \subseteq Node /\ Children \in [Node -> SUBSET Node]
        /\ \A x \in Node : Len(Path[x]) \in Nat
        /\ \A x \in Node : \A c \in Children[x] : path_starts_with(Path[c], Path[x])
    BY ScannerAssumption
  <1> DEFINE S == {x \in Node : \A y \in Up(x) : y \in Node /\ path_starts_with(Path[x], Path[y])}
  <1>1. ASSUME NEW x \in Node PROVE path_starts_with(Path[x], Path[x])
    BY <1>0 DEF path_starts_with
  <1>2. Root \subseteq S
    BY <1>0, <1>1, UpStep
  <1>3. ASSUME NEW x \in S PROVE Children[x] \subseteq S
    <2> SUFFICES ASSUME NEW c \in Children[x], NEW y \in Up(c)
                 PROVE  y \in Node /\ path_starts_with(Path[c], Path[y])
      BY <1>0
    <2>1. c \in Node /\ Up(c) = {c} \cup Up(x) /\ path_starts_with(Path[c], Path[x])
      BY <1>0, UpStep
    <2>2. CASE y = c
      BY <1>1, <2>1, <2>2
    <2>3. CASE y \in Up(x)
      <3>1. y \in Node /\ path_starts_with(Path[x], Path[y])
        BY <2>3
      <3>2. Len(Path[x]) \in Nat /\ Len(Path[y]) \in Nat /\ Len(Path[c]) \in Nat
        BY <1>0, <2>1, <3>1
      <3>3. QED
        BY <2>1, <3>1, <3>2 DEF path_starts_with
    <2>4. QED
      BY <2>1, <2>2, <2>3
  <1>4. S = Node
    BY <1>2, <1>3, ForestInduction
  <1>5. QED
    BY <1>4

\* No selected field hides behind a container that is not entered
\* (should_traverse_field_path).
LEMMA EligibleReached ==
    ASSUME config \in Config, NEW n \in Eligible, NEW m \in Up(n), m \notin Leaf
    PROVE  ShouldTraverse(m)
  <1>0. /\ n \in Node /\ ShouldScan(n) /\ n \notin Root /\ m \in Node
        /\ Len(Path[n]) \in Nat /\ Len(Path[m]) \in Nat
        /\ \A a \in config.allow \cup config.deny : Len(a) \in Nat
    <2>1. n \in Leaf /\ n \in Node /\ ShouldScan(n)
      BY DEF Eligible, Leaf
    <2>2. n \notin Root
      BY <2>1, UpStep
    <2>3. m \in Node
      BY <2>1, UpLeast
    <2>4. \A x \in Node : Len(Path[x]) \in Nat
      BY ScannerAssumption
    <2>5. config.allow \cup config.deny \subseteq Seq(STRING)
      BY ScannerAssumption
    <2>6. \A a \in config.allow \cup config.deny : Len(a) \in Nat
      BY <2>5
    <2>7. QED
      BY <2>1, <2>2, <2>3, <2>4, <2>6
  <1>1. path_starts_with(Path[n], Path[m])
    BY <1>0, PathContinues
  <1>2. ~PathIsDenied(Path[n]) /\ Allowed(Path[n])
    BY <1>0 DEF ShouldScan
  <1>3. ~PathIsDenied(Path[m])
    <2> SUFFICES ASSUME NEW d \in config.deny, path_starts_with(Path[m], d) PROVE FALSE
      BY DEF PathIsDenied
    <2>1. path_starts_with(Path[n], d)
      <3>1. Len(d) \in Nat
        BY <1>0
      <3>2. QED
        BY <1>0, <1>1, <3>1 DEF path_starts_with
    <2>2. QED
      BY <1>2, <2>1 DEF PathIsDenied
  <1>4. Allowed(Path[m]) \/ \E a \in config.allow : path_starts_with(a, Path[m])
    <2>1. CASE config.allow = {}
      BY <2>1 DEF Allowed
    <2>2. CASE config.allow # {}
      <3>1. PICK a \in config.allow : path_starts_with(Path[n], a)
        BY <1>2, <2>2 DEF Allowed
      <3>2. Len(a) \in Nat
        BY <1>0
      <3>3. CASE Len(a) <= Len(Path[m])
        <4>1. path_starts_with(Path[m], a)
          BY <1>0, <1>1, <3>1, <3>2, <3>3 DEF path_starts_with
        <4>2. QED
          BY <4>1 DEF Allowed
      <3>4. CASE Len(Path[m]) <= Len(a)
        <4>1. path_starts_with(a, Path[m])
          BY <1>0, <1>1, <3>1, <3>2, <3>4 DEF path_starts_with
        <4>2. QED
          BY <4>1
      <3>5. QED
        BY <1>0, <3>2, <3>3, <3>4
    <2>3. QED
      BY <2>1, <2>2
  <1>5. QED
    BY <1>3, <1>4 DEF ShouldTraverse

-----------------------------------------------------------------------------
(* The selection among overlapping matches *)

\* What a match is made of.
LEMMA CandidateFields ==
    ASSUME NEW c \in Candidate
    PROVE  /\ c.name \in Pattern /\ c.start \in Nat /\ c.end \in Nat /\ c.start < c.end /\ c.end <= Length
           /\ Rank(c) \in Nat
           /\ Span(c) = {p \in Nat : c.start <= p /\ p < c.end}
           /\ Span(c) \subseteq Position
           /\ Length \in Nat
  <1>1. Length \in Nat /\ Specificity \in [Pattern -> Nat]
    BY ScannerAssumption
  <1>2. c.name \in Pattern /\ c.start \in Position /\ c.end \in 1..Length /\ c.start < c.end
    BY DEF Candidate
  <1>3. c.start \in Nat /\ c.end \in Nat /\ c.end <= Length
    BY <1>1, <1>2 DEF Position
  <1>4. Rank(c) \in Nat
    BY <1>1, <1>2 DEF Rank
  <1>5. Span(c) = {p \in Nat : c.start <= p /\ p < c.end} /\ Span(c) \subseteq Position
    BY <1>1, <1>3 DEF Span, Position
  <1>6. QED
    BY <1>1, <1>2, <1>3, <1>4, <1>5

\* What the matches of K are merged to: stretches in order, each beginning with
\* a match that no other reaches into, joined by matches that reach over every
\* place in it, holding every match, and named after the most specific one.
InOrder(sel)    == \A i, j \in 1..Len(sel) : i < j => sel[i].end <= sel[j].start
Begins(sel, K)  == \A i \in 1..Len(sel) :
                      /\ \E d \in K : d.start = sel[i].start
                      /\ \A d \in K : ~(d.start < sel[i].start /\ sel[i].start < d.end)
Joined(sel, K)  == \A i \in 1..Len(sel) : \A p \in Nat :
                      sel[i].start < p /\ p < sel[i].end => \E d \in K : d.start < p /\ p < d.end
Within(d, s)    == s.start <= d.start /\ d.end <= s.end
Holds(sel, K)   == \A d \in K : \E i \in 1..Len(sel) : Within(d, sel[i])
Named(sel, K)   == \A i \in 1..Len(sel) : \A d \in K : Within(d, sel[i]) => Rank(sel[i]) <= Rank(d)

Chosen(sel, K) ==
    /\ sel \in Seq(Candidate)
    /\ K \subseteq Candidate
    /\ InOrder(sel)
    /\ Begins(sel, K)
    /\ Joined(sel, K)
    /\ Holds(sel, K)
    /\ Named(sel, K)

\* A match that begins where the last stretch has ended is a stretch of its own.
LEMMA SelectAppends ==
    ASSUME NEW sel, NEW K, Chosen(sel, K), NEW c \in Candidate,
           \A d \in K : d.start <= c.start,
           sel # <<>> => c.start >= sel[Len(sel)].end
    PROVE  Chosen(Append(sel, c), K \cup {c})
  <1> DEFINE n == Len(sel)
             new == Append(sel, c)
  <1>0. /\ sel \in Seq(Candidate) /\ n \in Nat /\ \A i \in 1..n : sel[i] \in Candidate
        /\ K \subseteq Candidate
    BY DEF Chosen
  <1>1. new \in Seq(Candidate) /\ Len(new) = n + 1 /\ new[n + 1] = c /\ \A i \in 1..n : new[i] = sel[i]
    BY <1>0
  <1>2. 1..(n + 1) = 1..n \cup {n + 1} /\ \A i \in 1..n : i < n + 1 /\ i # n + 1
    BY <1>0
  <1> HIDE DEF new
  <1>t. /\ \A d \in K \cup {c} : d.start \in Nat /\ d.end \in Nat /\ d.start < d.end /\ Rank(d) \in Nat
        /\ \A i \in 1..n : sel[i].start \in Nat /\ sel[i].end \in Nat /\ sel[i].start < sel[i].end /\ Rank(sel[i]) \in Nat
    BY <1>0, CandidateFields
  <1>3. \A i \in 1..n : sel[i].end <= c.start
    <2> SUFFICES ASSUME NEW i \in 1..n PROVE sel[i].end <= c.start
      OBVIOUS
    <2>1. n \in 1..n /\ sel # <<>>
      BY <1>0
    <2>2. sel[n].end <= c.start
      BY <1>t, <2>1
    <2>3. i = n \/ sel[i].end <= sel[n].start
      BY <1>0, <2>1 DEF Chosen, InOrder
    <2>4. QED
      BY <1>t, <2>1, <2>2, <2>3
  <1>4. InOrder(new)
    BY <1>0, <1>1, <1>2, <1>3 DEF Chosen, InOrder
  <1>5. \A d \in K : d.end <= c.start
    <2> SUFFICES ASSUME NEW d \in K PROVE d.end <= c.start
      OBVIOUS
    <2>1. PICK i \in 1..n : Within(d, sel[i])
      BY DEF Chosen, Holds
    <2>2. QED
      BY <1>t, <1>3, <2>1 DEF Within
  <1>6. Begins(new, K \cup {c})
    <2>1. ASSUME NEW i \in 1..n
          PROVE  /\ \E d \in K \cup {c} : d.start = new[i].start
                 /\ \A d \in K \cup {c} : ~(d.start < new[i].start /\ new[i].start < d.end)
      <3>1. /\ \E d \in K : d.start = sel[i].start
            /\ \A d \in K : ~(d.start < sel[i].start /\ sel[i].start < d.end)
        BY DEF Chosen, Begins
      <3>2. ~(c.start < sel[i].start)
        BY <1>3, <1>t
      <3>3. QED
        BY <1>1, <3>1, <3>2
    <2>2. /\ \E d \in K \cup {c} : d.start = new[n + 1].start
          /\ \A d \in K \cup {c} : ~(d.start < new[n + 1].start /\ new[n + 1].start < d.end)
      BY <1>1, <1>5, <1>t
    <2>3. QED
      BY <1>1, <1>2, <2>1, <2>2 DEF Begins
  <1>7. Joined(new, K \cup {c})
    <2>1. ASSUME NEW i \in 1..n, NEW p \in Nat, new[i].start < p, p < new[i].end
          PROVE  \E d \in K \cup {c} : d.start < p /\ p < d.end
      BY <1>1, <2>1 DEF Chosen, Joined
    <2>2. ASSUME NEW p \in Nat, new[n + 1].start < p, p < new[n + 1].end
          PROVE  \E d \in K \cup {c} : d.start < p /\ p < d.end
      BY <1>1, <2>2
    <2>3. QED
      BY <1>1, <1>2, <2>1, <2>2 DEF Joined
  <1>8. Holds(new, K \cup {c})
    <2>1. ASSUME NEW d \in K PROVE \E i \in 1..(n + 1) : Within(d, new[i])
      BY <1>1, <1>2 DEF Chosen, Holds
    <2>2. Within(c, new[n + 1])
      BY <1>1, <1>t DEF Within
    <2>3. QED
      BY <1>1, <1>2, <2>1, <2>2 DEF Holds
  <1>9. Named(new, K \cup {c})
    <2>1. ASSUME NEW i \in 1..n, NEW d \in K \cup {c}, Within(d, new[i]) PROVE Rank(new[i]) <= Rank(d)
      <3>1. d # c
        BY <1>1, <1>3, <1>t, <2>1 DEF Within
      <3>2. QED
        BY <1>1, <2>1, <3>1 DEF Chosen, Named
    <2>2. ASSUME NEW d \in K \cup {c}, Within(d, new[n + 1]) PROVE Rank(new[n + 1]) <= Rank(d)
      <3>1. d = c
        BY <1>1, <1>5, <1>t, <2>2 DEF Within
      <3>2. QED
        BY <1>1, <1>t, <3>1
    <2>3. QED
      BY <1>1, <1>2, <2>1, <2>2 DEF Named
  <1>10. Chosen(new, K \cup {c})
    BY <1>0, <1>1, <1>4, <1>6, <1>7, <1>8, <1>9 DEF Chosen
  <1>11. QED
    BY <1>10 DEF new

\* A match that begins within the last stretch becomes part of it.
LEMMA SelectMerges ==
    ASSUME NEW sel, NEW K, Chosen(sel, K), NEW c \in Candidate,
           \A d \in K : d.start <= c.start,
           sel # <<>>, c.start < sel[Len(sel)].end
    PROVE  Chosen([sel EXCEPT ![Len(sel)] = Merge(@, c)], K \cup {c})
  <1> DEFINE n == Len(sel)
             last == sel[n]
             m == Merge(last, c)
             new == [sel EXCEPT ![n] = m]
  <1>0. /\ sel \in Seq(Candidate) /\ n \in Nat /\ n \in 1..n /\ \A i \in 1..n : sel[i] \in Candidate
        /\ K \subseteq Candidate
    BY DEF Chosen
  <1>1. Len(new) = n /\ new[n] = m /\ (\A i \in 1..n : i # n => new[i] = sel[i]) /\ 1..Len(new) = 1..n
    BY <1>0
  <1>l. last \in Candidate
    BY <1>0
  <1>s. PICK d0 \in K : d0.start = last.start
    BY <1>0 DEF Chosen, Begins
  <1>m. /\ m.start = last.start
        /\ m.end = IF c.end > last.end THEN c.end ELSE last.end
        /\ m.name = IF Wins(c, last) THEN c.name ELSE last.name
    BY DEF Merge
  <1>n. new \in Seq({m} \cup Candidate)
    <2> DEFINE C == {m} \cup Candidate
    <2>1. sel \in Seq(C) /\ m \in C
      BY <1>0
    <2> HIDE DEF C, m
    <2>2. QED
      BY <1>0, <2>1
  <1>t. /\ \A d \in K \cup {c} : d.start \in Nat /\ d.end \in Nat /\ d.start < d.end /\ Rank(d) \in Nat
        /\ \A i \in 1..n : sel[i].start \in Nat /\ sel[i].end \in Nat /\ sel[i].start < sel[i].end /\ Rank(sel[i]) \in Nat
    BY <1>0, CandidateFields
  <1>u. last.start \in Nat /\ last.end \in Nat /\ last.start < last.end /\ Rank(last) \in Nat
    BY <1>0, <1>t
  <1>v. c.start \in Nat /\ c.end \in Nat /\ c.start < c.end /\ Rank(c) \in Nat
        /\ last.start <= c.start /\ c.start < last.end
    BY <1>s, <1>t
  <1>r. Rank(m) = IF Wins(c, last) THEN Rank(c) ELSE Rank(last)
    BY <1>m DEF Rank
  <1>r1. Rank(m) \in Nat /\ Rank(m) <= Rank(c) /\ Rank(m) <= Rank(last)
    BY <1>r, <1>u, <1>v DEF Wins
  <1>e. m.end \in Nat /\ m.end >= c.end /\ m.end >= last.end
    BY <1>m, <1>u, <1>v
  <1>c. m \in Candidate
    <2>1. c.name \in Pattern /\ last.name \in Pattern /\ c.end <= Length /\ last.end <= Length /\ Length \in Nat
      BY <1>l, CandidateFields
    <2>2. m \in [name : Pattern, start : Position, end : 1..Length]
      <3>1. last.start \in Position
        BY <1>u, <2>1 DEF Position
      <3>2. (IF c.end > last.end THEN c.end ELSE last.end) \in 1..Length
        BY <1>u, <1>v, <2>1
      <3>3. (IF Wins(c, last) THEN c.name ELSE last.name) \in Pattern
        BY <2>1
      <3>4. QED
        BY <3>1, <3>2, <3>3 DEF Merge
    <2>3. m.start < m.end
      BY <1>m, <1>u, <1>e
    <2>4. QED
      BY <2>2, <2>3 DEF Candidate
  <1>2. new \in Seq(Candidate)
    <2>1. {m} \cup Candidate = Candidate
      BY <1>c
    <2>2. QED
      BY <1>n, <2>1
  <1>d. Len(sel) = n /\ sel[n] = last
    OBVIOUS
  <1> HIDE DEF new, m, last, n
  <1>3. \A i \in 1..n : i < n => sel[i].end <= last.start
    BY <1>0, <1>d DEF Chosen, InOrder
  <1>4. InOrder(new)
    <2> SUFFICES ASSUME NEW i \in 1..n, NEW j \in 1..n, i < j PROVE new[i].end <= new[j].start
      BY <1>1 DEF InOrder
    <2>1. i # n /\ i < n
      BY <1>0
    <2>2. new[i] = sel[i]
      BY <1>1, <2>1
    <2>3. CASE j = n
      BY <1>1, <1>m, <1>3, <2>1, <2>2, <2>3
    <2>4. CASE j # n
      <3>1. sel[i].end <= sel[j].start
        BY <1>d DEF Chosen, InOrder
      <3>2. QED
        BY <1>1, <2>2, <2>4, <3>1
    <2>5. QED
      BY <2>3, <2>4
  <1>5. \A i \in 1..n : new[i].start = sel[i].start
    BY <1>1, <1>m, <1>d
  <1>6. Begins(new, K \cup {c})
    <2> SUFFICES ASSUME NEW i \in 1..n
                 PROVE  /\ \E d \in K \cup {c} : d.start = sel[i].start
                        /\ \A d \in K \cup {c} : ~(d.start < sel[i].start /\ sel[i].start < d.end)
      BY <1>1, <1>5 DEF Begins
    <2>1. /\ \E d \in K : d.start = sel[i].start
          /\ \A d \in K : ~(d.start < sel[i].start /\ sel[i].start < d.end)
      BY <1>d DEF Chosen, Begins
    <2>2. ~(c.start < sel[i].start)
      BY <1>t, <2>1
    <2>3. QED
      BY <2>1, <2>2
  <1>7. Joined(new, K \cup {c})
    <2> SUFFICES ASSUME NEW i \in 1..n, NEW p \in Nat, new[i].start < p, p < new[i].end
                 PROVE  \E d \in K \cup {c} : d.start < p /\ p < d.end
      BY <1>1 DEF Joined
    <2>1. CASE p < sel[i].end
      <3>1. \E d \in K : d.start < p /\ p < d.end
        BY <1>5, <1>d, <2>1 DEF Chosen, Joined
      <3>2. QED
        BY <3>1
    <2>2. CASE ~(p < sel[i].end)
      <3>1. i = n
        BY <1>1, <2>2
      <3>2. last.end <= p /\ p < m.end
        BY <1>1, <1>d, <1>u, <2>2, <3>1
      <3>3. c.start < p /\ p < c.end
        BY <1>m, <1>u, <1>v, <3>2
      <3>4. QED
        BY <3>3
    <2>3. QED
      BY <2>1, <2>2
  <1>8. Holds(new, K \cup {c})
    <2> SUFFICES ASSUME NEW d \in K \cup {c} PROVE \E i \in 1..n : Within(d, new[i])
      BY <1>1 DEF Holds
    <2>1. CASE d = c
      <3>1. Within(c, m)
        BY <1>m, <1>v, <1>e DEF Within
      <3>2. QED
        BY <1>0, <1>1, <2>1, <3>1
    <2>2. CASE d \in K
      <3>1. PICK i \in 1..n : Within(d, sel[i])
        BY <1>d, <2>2 DEF Chosen, Holds
      <3>2. CASE i = n
        <4>1. Within(d, m)
          BY <1>m, <1>e, <1>u, <1>t, <1>d, <3>1, <3>2 DEF Within
        <4>2. QED
          BY <1>0, <1>1, <4>1
      <3>3. CASE i # n
        BY <1>1, <3>1, <3>3
      <3>4. QED
        BY <3>2, <3>3
    <2>3. QED
      BY <2>1, <2>2
  <1>9. Named(new, K \cup {c})
    <2> SUFFICES ASSUME NEW i \in 1..n, NEW d \in K \cup {c}, Within(d, new[i]) PROVE Rank(new[i]) <= Rank(d)
      BY <1>1 DEF Named
    <2>1. CASE i # n
      <3>1. new[i] = sel[i] /\ sel[i].end <= last.start
        BY <1>0, <1>1, <1>3, <2>1
      <3>2. d # c
        BY <1>t, <1>u, <1>v, <3>1 DEF Within
      <3>3. QED
        BY <1>d, <3>1, <3>2 DEF Chosen, Named
    <2>2. CASE i = n /\ d = c
      BY <1>1, <1>r1, <2>2
    <2>3. CASE i = n /\ d \in K
      <3>1. new[i] = m /\ last.start <= d.start
        BY <1>1, <1>m, <2>3 DEF Within
      <3>2. PICK j \in 1..n : Within(d, sel[j])
        BY <1>d, <2>3 DEF Chosen, Holds
      <3>3. j = n
        <4> SUFFICES ASSUME j # n PROVE FALSE
          OBVIOUS
        <4>1. sel[j].end <= last.start
          BY <1>0, <1>3
        <4>2. d.start \in Nat /\ d.end \in Nat /\ d.start < d.end
          BY <1>t
        <4>3. d.end <= sel[j].end /\ sel[j].end \in Nat
          BY <1>t, <3>2 DEF Within
        <4>4. QED
          BY <1>u, <3>1, <4>1, <4>2, <4>3
      <3>4. Rank(last) <= Rank(d)
        BY <1>d, <2>3, <3>2, <3>3 DEF Chosen, Named
      <3>5. QED
        BY <1>r1, <1>t, <1>u, <3>1, <3>4
    <2>4. QED
      BY <2>1, <2>2, <2>3
  <1>10. Chosen(new, K \cup {c})
    BY <1>0, <1>2, <1>4, <1>6, <1>7, <1>8, <1>9 DEF Chosen
  <1>11. new = [sel EXCEPT ![Len(sel)] = Merge(@, c)]
    BY <1>0 DEF new, m, last, n
  <1>12. QED
    BY <1>10, <1>11

\* Select keeps the stretches as long as the matches come in order of their
\* starts.
LEMMA SelectStep ==
    ASSUME NEW sel, NEW K, Chosen(sel, K), NEW c \in Candidate, \A d \in K : d.start <= c.start
    PROVE  Chosen(Select(sel, c), K \cup {c})
  <1>1. CASE sel = <<>> \/ c.start >= sel[Len(sel)].end
    <2>1. Select(sel, c) = Append(sel, c)
      BY <1>1 DEF Select
    <2>2. sel # <<>> => c.start >= sel[Len(sel)].end
      BY <1>1
    <2>3. QED
      BY <2>1, <2>2, SelectAppends
  <1>2. CASE ~(sel = <<>> \/ c.start >= sel[Len(sel)].end)
    <2>1. Select(sel, c) = [sel EXCEPT ![Len(sel)] = Merge(@, c)]
      BY <1>2 DEF Select
    <2>2. sel # <<>> /\ sel[Len(sel)] \in Candidate
      BY <1>2 DEF Chosen
    <2>3. c.start < sel[Len(sel)].end
      BY <1>2, <2>2, CandidateFields
    <2>4. Chosen([sel EXCEPT ![Len(sel)] = Merge(@, c)], K \cup {c})
      BY <2>2, <2>3, SelectMerges
    <2>5. QED
      BY <2>1, <2>4
  <1>3. QED
    BY <1>1, <1>2

\* Where the stretches of the matches in K begin, and the places they cover.
Starts(K)  == {c.start : c \in {c \in K : ~\E d \in K : d.start < c.start /\ c.start < d.end}}
Covered(K) == UNION {Span(c) : c \in K}

\* The stretches of the selection are those of the matches: they begin and end
\* in the same places.
LEMMA ChosenStretches ==
    ASSUME NEW sel, NEW K, Chosen(sel, K)
    PROVE  /\ Starts(K) = {sel[i].start : i \in 1..Len(sel)}
           /\ Covered(K) = UNION {Span(sel[i]) : i \in 1..Len(sel)}
           /\ sel = <<>> <=> K = {}
  <1> DEFINE n == Len(sel)
  <1>0. /\ sel \in Seq(Candidate) /\ n \in Nat /\ \A i \in 1..n : sel[i] \in Candidate
        /\ K \subseteq Candidate
    BY DEF Chosen
  <1>t. /\ \A d \in K : d.start \in Nat /\ d.end \in Nat /\ d.start < d.end
        /\ \A d \in K : Span(d) = {p \in Nat : d.start <= p /\ p < d.end}
        /\ \A i \in 1..n : sel[i].start \in Nat /\ sel[i].end \in Nat /\ sel[i].start < sel[i].end
        /\ \A i \in 1..n : Span(sel[i]) = {p \in Nat : sel[i].start <= p /\ p < sel[i].end}
    BY <1>0, CandidateFields
  <1>1. ASSUME NEW i \in 1..n PROVE sel[i].start \in Starts(K)
    <2>1. PICK d \in K : d.start = sel[i].start
      BY DEF Chosen, Begins
    <2>2. ~\E e \in K : e.start < d.start /\ d.start < e.end
      BY <2>1 DEF Chosen, Begins
    <2>3. QED
      BY <2>1, <2>2 DEF Starts
  <1>2. ASSUME NEW d \in K, ~\E e \in K : e.start < d.start /\ d.start < e.end
        PROVE  \E i \in 1..n : sel[i].start = d.start
    <2>1. PICK i \in 1..n : Within(d, sel[i])
      BY DEF Chosen, Holds
    <2>2. sel[i].start <= d.start /\ d.end <= sel[i].end
      BY <2>1 DEF Within
    <2>3. CASE sel[i].start < d.start
      <3>1. d.start < sel[i].end
        BY <1>t, <2>2
      <3>2. \E e \in K : e.start < d.start /\ d.start < e.end
        BY <1>t, <2>3, <3>1 DEF Chosen, Joined
      <3>3. QED
        BY <1>2, <3>2
    <2>4. QED
      BY <1>t, <2>2, <2>3
  <1>3. Starts(K) = {sel[i].start : i \in 1..n}
    BY <1>1, <1>2 DEF Starts
  <1>4. ASSUME NEW i \in 1..n, NEW p \in Span(sel[i]) PROVE p \in Covered(K)
    <2>1. p \in Nat /\ sel[i].start <= p /\ p < sel[i].end
      BY <1>t
    <2>2. PICK d \in K : d.start <= p /\ p < d.end
      <3>1. CASE p = sel[i].start
        <4>1. PICK d \in K : d.start = sel[i].start
          BY DEF Chosen, Begins
        <4>2. QED
          BY <1>t, <2>1, <3>1, <4>1
      <3>2. CASE p # sel[i].start
        <4>1. sel[i].start < p
          BY <1>t, <2>1, <3>2
        <4>2. PICK d \in K : d.start < p /\ p < d.end
          BY <2>1, <4>1 DEF Chosen, Joined
        <4>3. QED
          BY <1>t, <2>1, <4>2
      <3>3. QED
        BY <3>1, <3>2
    <2>3. p \in Span(d)
      BY <1>t, <2>1, <2>2
    <2>4. QED
      BY <2>3 DEF Covered
  <1>5. ASSUME NEW d \in K, NEW p \in Span(d) PROVE \E i \in 1..n : p \in Span(sel[i])
    <2>1. PICK i \in 1..n : Within(d, sel[i])
      BY DEF Chosen, Holds
    <2>2. p \in Nat /\ d.start <= p /\ p < d.end
      BY <1>t
    <2>3. sel[i].start <= p /\ p < sel[i].end
      BY <1>t, <2>1, <2>2 DEF Within
    <2>4. QED
      BY <1>t, <2>2, <2>3
  <1>6. Covered(K) = UNION {Span(sel[i]) : i \in 1..n}
    BY <1>4, <1>5 DEF Covered
  <1>7. sel = <<>> <=> K = {}
    <2>1. sel = <<>> <=> n = 0
      BY <1>0
    <2>2. n # 0 => 1 \in 1..n
      BY <1>0
    <2>3. n # 0 => K # {}
      BY <2>2 DEF Chosen, Begins
    <2>4. n = 0 => 1..n = {}
      OBVIOUS
    <2>5. n = 0 => K = {}
      BY <2>4 DEF Chosen, Holds
    <2>6. QED
      BY <2>1, <2>3, <2>5
  <1>8. QED
    BY <1>3, <1>6, <1>7

\* There are as many selected matches as stretches.
LEMMA ChosenCount ==
    ASSUME NEW sel, NEW K, Chosen(sel, K), NEW l
    PROVE  LET R == {<<l, p>> : p \in Starts(K)} IN
           IsFiniteSet(R) /\ Cardinality(R) = Len(sel)
  <1> DEFINE n == Len(sel)
             R == {<<l, p>> : p \in Starts(K)}
             f == [i \in 1..n |-> <<l, sel[i].start>>]
  <1>0. /\ sel \in Seq(Candidate) /\ n \in Nat /\ \A i \in 1..n : sel[i] \in Candidate
    BY DEF Chosen
  <1>1. R = {<<l, sel[i].start>> : i \in 1..n}
    BY ChosenStretches
  <1>2. f \in [1..n -> R]
    BY <1>1
  <1>3. ASSUME NEW i \in 1..n, NEW j \in 1..n, f[i] = f[j] PROVE i = j
    <2>1. sel[i].start = sel[j].start
      BY <1>3
    <2>2. /\ sel[i].start \in Nat /\ sel[i].end \in Nat /\ sel[i].start < sel[i].end
          /\ sel[j].start \in Nat /\ sel[j].end \in Nat /\ sel[j].start < sel[j].end
      BY <1>0, CandidateFields
    <2>3. /\ i < j => sel[i].end <= sel[j].start
          /\ j < i => sel[j].end <= sel[i].start
      BY DEF Chosen, InOrder
    <2>4. QED
      BY <1>0, <2>1, <2>2, <2>3
  <1>4. \A r \in R : \E i \in 1..n : f[i] = r
    BY <1>1
  <1> HIDE DEF f, R, n
  <1>5. f \in Bijection(1..n, R)
    BY <1>2, <1>3, <1>4, Fun_IsBij
  <1>6. ExistsBijection(1..n, R)
    BY <1>5 DEF ExistsBijection
  <1>7. Cardinality(R) = n
    BY <1>0, <1>6, FS_CountingElements
  <1>8. IsFiniteSet(R)
    BY <1>0, <1>6, FS_NatBijection
  <1>9. QED
    BY <1>7, <1>8 DEF R, n

\* A finding is named after the most specific match that meets it.
LEMMA ChosenNamed ==
    ASSUME NEW sel, NEW K, Chosen(sel, K), NEW i \in 1..Len(sel), NEW c \in K,
           Span(c) \cap Span(sel[i]) # {}
    PROVE  Rank(sel[i]) <= Rank(c)
  <1>0. /\ sel \in Seq(Candidate) /\ \A j \in 1..Len(sel) : sel[j] \in Candidate
        /\ Len(sel) \in Nat /\ c \in Candidate
    BY DEF Chosen
  <1>1. PICK j \in 1..Len(sel) : Within(c, sel[j])
    BY DEF Chosen, Holds
  <1>2. PICK p \in Span(c) : p \in Span(sel[i])
    OBVIOUS
  <1>3. /\ p \in Nat /\ c.start <= p /\ p < c.end /\ c.start \in Nat /\ c.end \in Nat
        /\ sel[i].start <= p /\ p < sel[i].end /\ sel[i].start \in Nat /\ sel[i].end \in Nat
    BY <1>0, <1>2, CandidateFields
  <1>4. /\ sel[j].start \in Nat /\ sel[j].end \in Nat
        /\ sel[j].start <= c.start /\ c.end <= sel[j].end
    BY <1>0, <1>1, CandidateFields DEF Within
  <1>5. /\ i < j => sel[i].end <= sel[j].start
        /\ j < i => sel[j].end <= sel[i].start
    BY DEF Chosen, InOrder
  <1>6. i = j
    BY <1>0, <1>3, <1>4, <1>5
  <1>7. QED
    BY <1>1, <1>6 DEF Chosen, Named

-----------------------------------------------------------------------------
(* Types *)

\* Select returns matches.
LEMMA SelectType ==
    ASSUME NEW sel \in Seq(Candidate), NEW c \in Candidate
    PROVE  Select(sel, c) \in Seq(Candidate)
  <1>1. CASE sel = <<>> \/ c.start >= sel[Len(sel)].end
    BY <1>1 DEF Select
  <1>2. CASE ~(sel = <<>> \/ c.start >= sel[Len(sel)].end)
    <2> DEFINE last == sel[Len(sel)]
               m == Merge(last, c)
    <2>1. Len(sel) \in 1..Len(sel) /\ last \in Candidate
      BY <1>2
    <2>2. /\ c.name \in Pattern /\ c.start \in Nat /\ c.end \in Nat /\ c.start < c.end /\ c.end <= Length
          /\ last.name \in Pattern /\ last.start \in Nat /\ last.end \in Nat
          /\ last.start < last.end /\ last.end <= Length /\ Length \in Nat
      BY <2>1, CandidateFields
    <2> HIDE DEF last
    <2>3. m \in [name : Pattern, start : Position, end : 1..Length]
      <3>1. last.start \in Position
        BY <2>2 DEF Position
      <3>2. (IF c.end > last.end THEN c.end ELSE last.end) \in 1..Length
        BY <2>2
      <3>3. (IF Wins(c, last) THEN c.name ELSE last.name) \in Pattern
        BY <2>2
      <3>4. QED
        BY <3>1, <3>2, <3>3 DEF Merge
    <2>4. m.start < m.end
      BY <2>2 DEF Merge
    <2>5. m \in Candidate
      BY <2>3, <2>4 DEF Candidate
    <2>6. Select(sel, c) = [sel EXCEPT ![Len(sel)] = m]
      BY <1>2 DEF Select, last
    <2> HIDE DEF m
    <2>7. QED
      BY <2>1, <2>5, <2>6
  <1>3. QED
    BY <1>1, <1>2

\* One step of the handler keeps the types.
LEMMA TypeStep == TypeOK /\ [Next]_vars => TypeOK'
  <1> SUFFICES ASSUME TypeOK, [Next]_vars PROVE TypeOK'
    OBVIOUS
  <1> USE DEF TypeOK
  <1>0. /\ Length \in Nat /\ Root \subseteq Node /\ NoLeaf \notin Node
        /\ Children \in [Node -> SUBSET Node]
        /\ \A p \in Payload : p \in [Leaf -> SUBSET Candidate]
    BY ScannerAssumption
  <1>1. ASSUME NEW p \in Payload, Handle(p) PROVE TypeOK'
    BY <1>0, <1>1 DEF Handle, textVars
  <1>2. ASSUME NEW n \in Node, Enter(n) PROVE TypeOK'
    <2>1. frontier' \subseteq Node
      BY <1>0, <1>2 DEF Enter
    <2>2. QED
      BY <1>2, <2>1 DEF Enter, textVars
  <1>3. ASSUME NEW n \in Node, ScanText(n) PROVE TypeOK'
    <2>1. n \in Leaf /\ Found(n) \subseteq Candidate /\ frontier' \subseteq Node
      BY <1>3 DEF ScanText, Found
    <2>2. UNCHANGED <<config, text, copied, count, next, cursor>>
      BY <1>3 DEF ScanText, textVars
    <2>3. /\ pc' \in {pc, "select"} /\ leaf' \in {leaf, n} /\ rest' \in {rest, Found(n)}
          /\ selected' \in {selected, <<>>}
      BY <1>3 DEF ScanText, textVars
    <2>4. selected' \in Seq(Candidate)
      <3>1. <<>> \in Seq(Candidate) /\ selected \in Seq(Candidate)
        OBVIOUS
      <3>2. QED
        BY <2>3, <3>1, Zenon
    <2>5. QED
      BY <2>1, <2>2, <2>3, <2>4
  <1>4. ASSUME NEW c \in rest, Consider(c) PROVE TypeOK'
    <2>1. selected' \in Seq(Candidate)
      BY <1>4, SelectType DEF Consider
    <2>2. QED
      BY <1>4, <2>1 DEF Consider
  <1>5. CASE Detected
    <2>1. copied' \in {copied, [copied EXCEPT ![leaf] = {}]}
      BY <1>5 DEF Detected
    <2>2. copied' \in [Leaf -> SUBSET Position]
      BY <2>1
    <2>3. pc' \in {"redact", "walk"} /\ count' = count + Len(selected)
      BY <1>5 DEF Detected
    <2>4. QED
      BY <1>0, <1>5, <2>2, <2>3 DEF Detected
  <1>6. CASE CopyUpToMatch
    <2>1. next \in 1..Len(selected) /\ selected[next] \in Candidate
      BY <1>6 DEF CopyUpToMatch
    <2> DEFINE m == selected[next]
    <2>2. m.start \in Nat /\ m.end \in Nat /\ m.start < m.end /\ m.end <= Length
      BY <2>1, CandidateFields
    <2> HIDE DEF m
    <2>3. cursor .. m.start - 1 \subseteq Position /\ m.end \in 0..Length
      BY <1>0, <2>2 DEF Position
    <2>4. copied' = [copied EXCEPT ![leaf] = @ \cup (cursor .. m.start - 1)]
      BY <1>6 DEF CopyUpToMatch, m
    <2>5. copied' \in [Leaf -> SUBSET Position]
      <3> DEFINE D == cursor .. m.start - 1
      <3>1. D \subseteq Position /\ copied' = [copied EXCEPT ![leaf] = @ \cup D]
        BY <2>3, <2>4
      <3> HIDE DEF D
      <3>2. QED
        BY <3>1
    <2>6. QED
      BY <1>6, <2>3, <2>5 DEF CopyUpToMatch, m
  <1>7. CASE CopyTail
    <2>1. cursor .. Length - 1 \subseteq Position
      BY <1>0 DEF Position
    <2>2. copied' \in [Leaf -> SUBSET Position]
      <3> DEFINE D == cursor .. Length - 1
      <3>1. D \subseteq Position /\ copied' = [copied EXCEPT ![leaf] = @ \cup D]
        BY <1>7, <2>1 DEF CopyTail
      <3> HIDE DEF D
      <3>2. QED
        BY <3>1
    <2>3. QED
      BY <1>7, <2>2 DEF CopyTail, textVars
  <1>8. CASE Decide
    BY <1>8 DEF Decide, textVars
  <1>9. CASE Done
    BY <1>0, <1>9 DEF Done
  <1>10. CASE UNCHANGED vars
    BY <1>10 DEF vars
  <1>11. QED
    BY <1>1, <1>2, <1>3, <1>4, <1>5, <1>6, <1>7, <1>8, <1>9, <1>10 DEF Next

\* The handler's state keeps its types, and a selected match has the shape of a
\* match (MatchCandidate, detect_and_redact).
THEOREM TypeCorrect == Spec => []TypeOK
  <1>1. Init => TypeOK
    BY ScannerAssumption DEF Init, TypeOK
  <1>2. QED
    BY <1>1, TypeStep, PTL DEF Spec

-----------------------------------------------------------------------------
(* The walk *)

Active == pc \in {"select", "redact"}

\* Nothing that waits for the walk is in something else that waits, and the leaf
\* at hand is a selected one that no container waits for any more.
WalkInv ==
    /\ pc \in {"idle", "denied", "modified", "allowed"} => frontier = {}
    /\ pc = "idle" => text = [n \in Leaf |-> {}] /\ copied = [n \in Leaf |-> Position] /\ count = 0
    /\ \A m, n \in frontier : m \in Up(n) => m = n
    /\ Active => leaf \in Eligible /\ Up(leaf) \cap frontier = {}

\* The selected leaves the walk is done with.
Scanned == {n \in Eligible : Up(n) \cap frontier = {} /\ ~(pc = "select" /\ n = leaf)}

\* Walking on, the handler never comes to a value twice.
LEMMA WalkStep == TypeOK /\ WalkInv /\ [Next]_vars => WalkInv'
  <1> SUFFICES ASSUME TypeOK, WalkInv, [Next]_vars PROVE WalkInv'
    OBVIOUS
  <1>0. /\ Root \subseteq Node /\ Children \in [Node -> SUBSET Node] /\ frontier \subseteq Node
        /\ Leaf \subseteq Node
    BY ScannerAssumption DEF TypeOK, Leaf
  <1>1. ASSUME NEW p \in Payload, Handle(p) PROVE WalkInv'
    <2>1. pc' = "walk" /\ frontier' = Root
      BY <1>1 DEF Handle
    <2>2. \A m, n \in Root : m \in Up(n) => m = n
      BY UpStep
    <2>3. QED
      BY <2>1, <2>2 DEF WalkInv, Active
  <1>2. ASSUME NEW n \in Node, Enter(n) PROVE WalkInv'
    <2>1. pc = "walk" /\ pc' = "walk" /\ n \in frontier
      BY <1>2 DEF Enter
    <2>2. frontier' \subseteq (frontier \ {n}) \cup Children[n]
      BY <1>2 DEF Enter
    <2>3. ASSUME NEW x \in (frontier \ {n}) \cup Children[n], NEW y \in (frontier \ {n}) \cup Children[n],
                 x \in Up(y)
          PROVE  x = y
      <3>1. CASE x \in frontier \ {n} /\ y \in frontier \ {n}
        BY <2>3, <3>1 DEF WalkInv
      <3>2. CASE x \in frontier \ {n} /\ y \in Children[n]
        <4>1. x = y \/ x \in Up(n)
          BY <2>3, <3>2, UpStep
        <4>2. QED
          BY <2>1, <3>2, <4>1 DEF WalkInv
      <3>3. CASE x \in Children[n] /\ y \in frontier \ {n}
        <4>1. n \in Up(x) /\ y \in Node /\ Up(x) \subseteq Up(y)
          BY <1>0, <2>3, <3>3, UpStep, UpLeast
        <4>2. QED
          BY <2>1, <3>3, <4>1 DEF WalkInv
      <3>4. CASE x \in Children[n] /\ y \in Children[n]
        <4>1. x = y \/ x \in Up(n)
          BY <2>3, <3>4, UpStep
        <4>2. QED
          BY <3>4, <4>1, UpAcyclic
      <3>5. QED
        BY <3>1, <3>2, <3>3, <3>4
    <2>4. QED
      BY <2>1, <2>2, <2>3 DEF WalkInv, Active
  <1>3. ASSUME NEW n \in Node, ScanText(n) PROVE WalkInv'
    <2>1. pc = "walk" /\ n \in frontier /\ n \in Leaf /\ frontier' = frontier \ {n} /\ config' = config
      BY <1>3 DEF ScanText
    <2>2. CASE pc' = "walk"
      BY <2>1, <2>2 DEF WalkInv, Active
    <2>3. CASE ShouldScan(n) /\ pc' = "select" /\ leaf' = n
      <3>1. n \in Eligible
        BY <2>1, <2>3 DEF Eligible
      <3>2. Eligible' = Eligible
        BY <2>1 DEF Eligible, ShouldScan, PathIsDenied, Allowed
      <3>3. Up(n) \cap frontier' = {}
        BY <2>1 DEF WalkInv
      <3>4. QED
        BY <2>1, <2>3, <3>1, <3>2, <3>3 DEF WalkInv, Active
    <2>4. QED
      BY <1>3, <2>1, <2>2, <2>3 DEF ScanText
  <1>4. ASSUME config' = config PROVE Eligible' = Eligible
    BY <1>4 DEF Eligible, ShouldScan, PathIsDenied, Allowed
  <1>5. ASSUME NEW c \in rest, Consider(c) PROVE WalkInv'
    BY <1>4, <1>5 DEF Consider, WalkInv, Active
  <1>6. CASE Detected
    BY <1>4, <1>6 DEF Detected, WalkInv, Active
  <1>7. CASE CopyUpToMatch
    BY <1>4, <1>7 DEF CopyUpToMatch, WalkInv, Active
  <1>8. CASE CopyTail
    BY <1>4, <1>8 DEF CopyTail, WalkInv, Active
  <1>9. CASE Decide
    BY <1>4, <1>9 DEF Decide, WalkInv, Active
  <1>10. CASE Done
    BY <1>10 DEF Done, WalkInv, Active
  <1>11. CASE UNCHANGED vars
    BY <1>4, <1>11 DEF vars, WalkInv, Active
  <1>12. QED
    BY <1>1, <1>2, <1>3, <1>5, <1>6, <1>7, <1>8, <1>9, <1>10, <1>11 DEF Next

\* While the walk goes on, what is done grows only by the leaf at hand.
LEMMA ScannedSteps ==
    ASSUME TypeOK, WalkInv, [Next]_vars
    PROVE  /\ \A p \in Payload : Handle(p) => Scanned' = {}
           /\ \A n \in Node : Enter(n) \/ ScanText(n) => Scanned' = Scanned
           /\ \A c \in rest : Consider(c) => Scanned' = Scanned
           /\ Detected => Scanned' = Scanned \cup {leaf} /\ leaf \notin Scanned
           /\ CopyUpToMatch \/ CopyTail \/ Decide \/ UNCHANGED vars => Scanned' = Scanned
  <1>0. /\ Root \subseteq Node /\ Children \in [Node -> SUBSET Node] /\ frontier \subseteq Node
        /\ Leaf \subseteq Node /\ Eligible \subseteq Leaf
    BY ScannerAssumption DEF TypeOK, Leaf, Eligible
  <1>e. config' = config => Eligible' = Eligible
    BY DEF Eligible, ShouldScan, PathIsDenied, Allowed
  <1>1. ASSUME NEW p \in Payload, Handle(p) PROVE Scanned' = {}
    <2>1. frontier' = Root /\ Eligible' = Eligible
      BY <1>1, <1>e DEF Handle
    <2>2. \A n \in Eligible : Up(n) \cap Root # {}
      BY <1>0, UpPath
    <2>3. QED
      BY <2>1, <2>2 DEF Scanned
  <1>2. ASSUME NEW n \in Node, Enter(n) PROVE Scanned' = Scanned
    <2>1. pc = "walk" /\ pc' = "walk" /\ n \in frontier /\ n \notin Leaf /\ Eligible' = Eligible
      BY <1>2, <1>e DEF Enter
    <2>2. ASSUME NEW x \in Eligible PROVE Up(x) \cap frontier = {} <=> Up(x) \cap frontier' = {}
      <3>0. x \in Node /\ x # n /\ x \in Leaf
        BY <1>0, <2>1
      <3>1. CASE n \in Up(x)
        <4>1. ShouldTraverse(n)
          BY <2>1, <3>1, EligibleReached DEF TypeOK
        <4>2. Children[n] \subseteq frontier'
          BY <1>2, <4>1 DEF Enter
        <4>3. Children[n] \cap Up(x) # {}
          BY <3>0, <3>1, UpPath
        <4>4. QED
          BY <2>1, <3>1, <4>2, <4>3
      <3>2. CASE n \notin Up(x)
        <4>1. Children[n] \cap Up(x) = {}
          BY <3>0, <3>2, UpLeast DEF Upward
        <4>2. QED
          BY <1>2, <3>2, <4>1 DEF Enter
      <3>3. QED
        BY <3>1, <3>2
    <2>3. QED
      BY <2>1, <2>2 DEF Scanned
  <1>3. ASSUME NEW n \in Node, ScanText(n) PROVE Scanned' = Scanned
    <2>1. pc = "walk" /\ n \in frontier /\ n \in Leaf /\ frontier' = frontier \ {n} /\ Eligible' = Eligible
      BY <1>3, <1>e DEF ScanText
    <2>2. ASSUME NEW x \in Eligible, n \in Up(x) PROVE x = n
      <3>1. x # n => Children[n] # {}
        BY <1>0, <2>2, UpPath
      <3>2. QED
        BY <2>1, <3>1 DEF Leaf
    <2>3. CASE ~ShouldScan(n) /\ pc' = "walk"
      <3>1. n \notin Eligible
        BY <2>3 DEF Eligible
      <3>2. QED
        BY <2>1, <2>2, <2>3, <3>1 DEF Scanned
    <2>4. CASE pc' = "select" /\ leaf' = n
      <3>1. n \in Up(n)
        BY UpLeast
      <3>2. \A x \in Eligible : x # n => (Up(x) \cap frontier' = {} <=> Up(x) \cap frontier = {})
        BY <2>1, <2>2
      <3>3. QED
        BY <2>1, <2>4, <3>1, <3>2 DEF Scanned
    <2>5. QED
      BY <1>3, <2>1, <2>3, <2>4 DEF ScanText
  <1>4. ASSUME NEW c \in rest, Consider(c) PROVE Scanned' = Scanned
    BY <1>4, <1>e DEF Consider, Scanned
  <1>5. ASSUME Detected PROVE Scanned' = Scanned \cup {leaf} /\ leaf \notin Scanned
    <2>1. pc = "select" /\ pc' # "select" /\ frontier' = frontier /\ Eligible' = Eligible
      BY <1>5, <1>e DEF Detected
    <2>2. leaf \in Eligible /\ Up(leaf) \cap frontier = {}
      BY <2>1 DEF WalkInv, Active
    <2>3. QED
      BY <2>1, <2>2 DEF Scanned
  <1>6. ASSUME CopyUpToMatch PROVE Scanned' = Scanned
    BY <1>6, <1>e DEF CopyUpToMatch, Scanned
  <1>7. ASSUME CopyTail PROVE Scanned' = Scanned
    BY <1>7, <1>e DEF CopyTail, Scanned
  <1>8. ASSUME Decide PROVE Scanned' = Scanned
    BY <1>8, <1>e DEF Decide, Scanned
  <1>9. ASSUME UNCHANGED vars PROVE Scanned' = Scanned
    BY <1>9, <1>e DEF vars, Scanned
  <1>10. QED
    BY <1>1, <1>2, <1>3, <1>4, <1>5, <1>6, <1>7, <1>8, <1>9

-----------------------------------------------------------------------------
(* The scan of one text *)

\* The matches considered so far are merged to the selection; the others start
\* no earlier. The matches are redacted when all are considered.
SelectionInv ==
    Active =>
        /\ rest \subseteq Found(leaf)
        /\ Chosen(selected, Found(leaf) \ rest)
        /\ \A d \in Found(leaf) \ rest : \A e \in rest : d.start <= e.start
        /\ pc = "redact" => rest = {}

\* Every match considered becomes part of the selection.
LEMMA SelectionStep == TypeOK /\ WalkInv /\ SelectionInv /\ [Next]_vars => SelectionInv'
  <1> SUFFICES ASSUME TypeOK, WalkInv, SelectionInv, [Next]_vars PROVE SelectionInv'
    OBVIOUS
  <1>f. ASSUME config' = config, text' = text PROVE \A n : Found(n)' = Found(n)
    BY <1>f DEF Found
  <1>1. ASSUME NEW p \in Payload, Handle(p) PROVE SelectionInv'
    BY <1>1 DEF Handle, SelectionInv, Active
  <1>2. ASSUME NEW n \in Node, Enter(n) PROVE SelectionInv'
    BY <1>2 DEF Enter, SelectionInv, Active
  <1>3. ASSUME NEW n \in Node, ScanText(n) PROVE SelectionInv'
    <2>1. CASE pc' = "walk"
      BY <2>1 DEF SelectionInv, Active
    <2>2. CASE pc' = "select" /\ leaf' = n /\ rest' = Found(n) /\ selected' = <<>>
      <3>1. Found(leaf)' = Found(n)
        BY <1>3, <2>2 DEF Found, ScanText
      <3>2. Chosen(<<>>, {})
        <4>1. <<>> \in Seq(Candidate) /\ Len(<<>>) = 0 /\ 1..0 = {}
          OBVIOUS
        <4>2. QED
          BY <4>1 DEF Chosen, InOrder, Begins, Joined, Holds, Named
      <3>3. (Found(leaf) \ rest)' = {}
        BY <2>2, <3>1
      <3>4. Chosen(selected, Found(leaf) \ rest)'
        BY <2>2, <3>2, <3>3
      <3>5. QED
        BY <2>2, <3>1, <3>3, <3>4 DEF SelectionInv, Active
    <2>3. QED
      BY <1>3, <2>1, <2>2 DEF ScanText
  <1>4. ASSUME NEW c \in rest, Consider(c) PROVE SelectionInv'
    <2> DEFINE K == Found(leaf) \ rest
    <2>1. /\ pc = "select" /\ pc' = "select" /\ leaf' = leaf /\ rest' = rest \ {c}
          /\ selected' = Select(selected, c) /\ Found(leaf)' = Found(leaf)
      BY <1>4 DEF Consider, Found
    <2>2. rest \subseteq Found(leaf) /\ Chosen(selected, K) /\ \A d \in K : \A e \in rest : d.start <= e.start
      BY <2>1 DEF SelectionInv, Active
    <2>3. (Found(leaf) \ rest)' = K \cup {c}
      BY <2>1, <2>2
    <2>4. \A d \in rest : d.start \in Nat
      BY CandidateFields DEF TypeOK
    <2>5. \A d \in rest \ {c} : c.start <= d.start
      BY <1>4, <2>4 DEF Consider, Precedes
    <2>6. c \in Candidate /\ \A d \in K : d.start <= c.start
      BY <2>2 DEF TypeOK
    <2> HIDE DEF K
    <2>7. Chosen(Select(selected, c), K \cup {c})
      BY <2>2, <2>6, SelectStep
    <2>8. Chosen(selected, Found(leaf) \ rest)'
      BY <2>1, <2>3, <2>7
    <2>9. \A d \in K \cup {c} : \A e \in rest \ {c} : d.start <= e.start
      BY <2>2, <2>5
    <2>10. QED
      BY <2>1, <2>2, <2>3, <2>8, <2>9 DEF SelectionInv, Active
  <1>5. ASSUME UNCHANGED <<config, text, leaf, rest, selected>>, Active,
               pc' = "redact" /\ pc # "redact" => rest = {}
        PROVE  SelectionInv'
    <2>1. Found(leaf)' = Found(leaf)
      BY <1>5 DEF Found
    <2>2. Chosen(selected, Found(leaf) \ rest)'
      BY <1>5, <2>1 DEF SelectionInv
    <2>3. QED
      BY <1>5, <2>1, <2>2 DEF SelectionInv
  <1>6. CASE Detected
    BY <1>5, <1>6 DEF Detected, Active
  <1>7. CASE CopyUpToMatch
    BY <1>5, <1>7 DEF CopyUpToMatch, Active
  <1>8. CASE CopyTail
    BY <1>8 DEF CopyTail, SelectionInv, Active
  <1>9. CASE Decide
    BY <1>9 DEF Decide, SelectionInv, Active
  <1>10. CASE Done
    BY <1>10 DEF Done, SelectionInv, Active
  <1>11. CASE UNCHANGED vars
    <2>1. Active' => Active
      BY <1>11 DEF vars, Active
    <2>2. CASE Active
      BY <1>5, <1>11, <2>2 DEF vars
    <2>3. QED
      BY <2>1, <2>2 DEF SelectionInv
  <1>12. QED
    BY <1>1, <1>2, <1>3, <1>4, <1>6, <1>7, <1>8, <1>9, <1>10, <1>11 DEF Next

-----------------------------------------------------------------------------
(* The findings *)

\* The stretches of matches in the leaves of S, each with its leaf.
Regions(S) == UNION {{<<n, p>> : p \in Starts(Found(n))} : n \in S}

\* There are finitely many stretches in a payload.
LEMMA RegionsFinite ==
    ASSUME TypeOK, NEW S \in SUBSET Leaf
    PROVE  IsFiniteSet(Regions(S))
  <1>1. IsFiniteSet(Node) /\ Leaf \subseteq Node /\ Length \in Nat
    BY ScannerAssumption DEF Leaf
  <1>2. IsFiniteSet(Position)
    BY <1>1, FS_Interval DEF Position
  <1>3. IsFiniteSet(Node \X Position)
    BY <1>1, <1>2, FS_Product
  <1>4. \A n \in Leaf : Found(n) \subseteq Candidate
    BY DEF TypeOK, Found
  <1>5. \A n \in Leaf : Starts(Found(n)) \subseteq Position
    BY <1>4 DEF Starts, Candidate
  <1>6. Regions(S) \subseteq Node \X Position
    BY <1>1, <1>5 DEF Regions
  <1>7. QED
    BY <1>3, <1>6, FS_Subset

\* The findings are the stretches in the leaves that were scanned; there are
\* none only if there was no match.
CountInv ==
    /\ count = Cardinality(Regions(Scanned))
    /\ count = 0 => \A n \in Scanned : Found(n) = {}

\* The payload is denied by the count, and passes as it came only without one.
DecisionInv ==
    /\ Decided => (pc = "denied" <=> ShouldBlock)
    /\ pc = "allowed" /\ config.redact => count = 0

\* The count grows by the stretches of the leaf that was scanned.
LEMMA CountStep ==
    TypeOK /\ WalkInv /\ SelectionInv /\ CountInv /\ [Next]_vars => CountInv'
  <1> SUFFICES ASSUME TypeOK, WalkInv, SelectionInv, CountInv, [Next]_vars PROVE CountInv'
    OBVIOUS
  <1>0. Scanned \subseteq Leaf
    BY DEF Scanned, Eligible
  <1>1. ASSUME UNCHANGED <<config, text, count>>, Scanned' = Scanned PROVE CountInv'
    <2>1. \A n : Found(n)' = Found(n)
      BY <1>1 DEF Found
    <2>2. Regions(Scanned)' = Regions(Scanned)
      BY <1>1, <2>1 DEF Regions
    <2>3. QED
      BY <1>1, <2>1, <2>2 DEF CountInv
  <1>2. ASSUME NEW p \in Payload, Handle(p) PROVE CountInv'
    <2>1. Scanned' = {} /\ count' = 0
      BY <1>2, ScannedSteps DEF Handle
    <2>2. Regions(Scanned)' = {}
      BY <2>1 DEF Regions
    <2>3. QED
      BY <2>1, <2>2, FS_EmptySet DEF CountInv
  <1>3. ASSUME NEW n \in Node, Enter(n) PROVE CountInv'
    BY <1>1, <1>3, ScannedSteps DEF Enter
  <1>4. ASSUME NEW n \in Node, ScanText(n) PROVE CountInv'
    BY <1>1, <1>4, ScannedSteps DEF ScanText
  <1>5. ASSUME NEW c \in rest, Consider(c) PROVE CountInv'
    BY <1>1, <1>5, ScannedSteps DEF Consider
  <1>6. CASE Detected
    <2> DEFINE R == {<<leaf, p>> : p \in Starts(Found(leaf))}
               Q == Regions(Scanned)
    <2>1. /\ Scanned' = Scanned \cup {leaf} /\ leaf \notin Scanned /\ pc = "select" /\ rest = {}
          /\ count' = count + Len(selected)
      BY <1>6, ScannedSteps DEF Detected
    <2>2. Chosen(selected, Found(leaf))
      <3>1. Chosen(selected, Found(leaf) \ rest) /\ Found(leaf) \ rest = Found(leaf)
        BY <2>1 DEF SelectionInv, Active
      <3>2. QED
        BY <3>1
    <2>3. IsFiniteSet(R) /\ Cardinality(R) = Len(selected)
      BY <2>2, ChosenCount
    <2>4. IsFiniteSet(Q) /\ Cardinality(Q) = count
      BY <1>0, RegionsFinite DEF CountInv
    <2>5. \A n : Found(n)' = Found(n)
      BY <1>6 DEF Detected, Found
    <2>6. Regions(Scanned)' = Q \cup R
      BY <2>1, <2>5 DEF Regions
    <2>7. Q \cap R = {}
      BY <2>1 DEF Regions
    <2> HIDE DEF Q, R
    <2>8. Cardinality(Q \cup R) = Cardinality(Q) + Cardinality(R) - 0
      BY <2>3, <2>4, <2>7, FS_Union, FS_EmptySet
    <2>9. Len(selected) \in Nat /\ count \in Nat
      BY DEF TypeOK
    <2>10. (count = Cardinality(Regions(Scanned)))'
      <3>1. Cardinality(Q \cup R) = count + Len(selected)
        BY <2>3, <2>4, <2>8, <2>9
      <3>2. Cardinality(Regions(Scanned)') = Cardinality(Q \cup R)
        BY <2>6
      <3>3. QED
        BY <2>1, <3>1, <3>2
    <2>11. ASSUME count' = 0 PROVE \A n \in Scanned' : Found(n)' = {}
      <3>1. count = 0 /\ Len(selected) = 0
        BY <2>1, <2>9, <2>11
      <3>2. selected = <<>>
        BY <3>1 DEF TypeOK
      <3>3. Found(leaf) = {}
        BY <2>2, <3>2, ChosenStretches
      <3>4. QED
        BY <2>1, <2>5, <3>1, <3>3 DEF CountInv
    <2>12. QED
      BY <2>10, <2>11 DEF CountInv
  <1>7. CASE CopyUpToMatch
    BY <1>1, <1>7, ScannedSteps DEF CopyUpToMatch
  <1>8. CASE CopyTail
    BY <1>1, <1>8, ScannedSteps DEF CopyTail
  <1>9. CASE Decide
    BY <1>1, <1>9, ScannedSteps DEF Decide
  <1>10. CASE Done
    <2>1. \A n \in Leaf : Found(n)' = {}
      BY <1>10 DEF Done, Found
    <2>2. Scanned' \subseteq Leaf
      BY DEF Scanned, Eligible
    <2>3. \A n \in Leaf : Starts(Found(n)') = {}
      BY <2>1 DEF Starts
    <2>4. Regions(Scanned)' = {}
      <3>1. Regions(Scanned)' = UNION {{<<n, p>> : p \in Starts(Found(n)')} : n \in Scanned'}
        BY DEF Regions, Starts
      <3>2. QED
        BY <2>2, <2>3, <3>1
    <2>5. count' = 0
      BY <1>10 DEF Done
    <2>6. QED
      BY <2>1, <2>2, <2>4, <2>5, FS_EmptySet DEF CountInv
  <1>11. CASE UNCHANGED vars
    BY <1>1, <1>11, ScannedSteps DEF vars
  <1>12. QED
    BY <1>2, <1>3, <1>4, <1>5, <1>6, <1>7, <1>8, <1>9, <1>10, <1>11 DEF Next

\* The decision stands until the plugin manager has it.
LEMMA DecisionStep == TypeOK /\ DecisionInv /\ [Next]_vars => DecisionInv'
  <1> SUFFICES ASSUME TypeOK, DecisionInv, [Next]_vars PROVE DecisionInv'
    OBVIOUS
  <1>1. CASE Decide
    <2>1. UNCHANGED <<config, count>> /\ (ShouldBlock' <=> ShouldBlock)
      BY <1>1 DEF Decide, ShouldBlock
    <2>2. pc' = "denied" <=> ShouldBlock
      BY <1>1 DEF Decide
    <2>3. pc' = "allowed" /\ config.redact => count = 0
      BY <1>1 DEF Decide, TypeOK
    <2>4. QED
      BY <2>1, <2>2, <2>3 DEF DecisionInv
  <1>2. CASE UNCHANGED vars
    BY <1>2 DEF vars, DecisionInv, Decided, ShouldBlock
  <1>3. CASE pc' \notin {"denied", "modified", "allowed"}
    BY <1>3 DEF DecisionInv, Decided
  <1>4. ASSUME Next, ~Decide PROVE pc' \notin {"denied", "modified", "allowed"}
    <2>1. ASSUME NEW p \in Payload, Handle(p) PROVE pc' = "walk"
      BY <2>1 DEF Handle
    <2>2. ASSUME NEW n \in Node, Enter(n) PROVE pc' = "walk"
      BY <2>2 DEF Enter
    <2>3. ASSUME NEW n \in Node, ScanText(n) PROVE pc' \in {"walk", "select"}
      BY <2>3 DEF ScanText
    <2>4. ASSUME NEW c \in rest, Consider(c) PROVE pc' = "select"
      BY <2>4 DEF Consider
    <2>5. ASSUME Detected PROVE pc' \in {"redact", "walk"}
      BY <2>5 DEF Detected
    <2>6. ASSUME CopyUpToMatch PROVE pc' = "redact"
      BY <2>6 DEF CopyUpToMatch
    <2>7. ASSUME CopyTail PROVE pc' = "walk"
      BY <2>7 DEF CopyTail
    <2>8. ASSUME Done PROVE pc' = "idle"
      BY <2>8 DEF Done
    <2>9. QED
      BY <1>4, <2>1, <2>2, <2>3, <2>4, <2>5, <2>6, <2>7, <2>8 DEF Next
  <1>5. QED
    BY <1>1, <1>2, <1>3, <1>4

-----------------------------------------------------------------------------
(* The redaction *)

\* The places of a text before q that no stretch of the selection covers.
Clear(sel, q) == {p \in Nat : p < q /\ \A i \in 1..Len(sel) : p \notin Span(sel[i])}

\* A scanned leaf has lost exactly the places its matches cover and any other
\* leaf has lost none; the leaf that is being redacted has the copy so far.
CopyInv ==
    /\ config.redact =>
          \A n \in Leaf : ~(pc = "redact" /\ n = leaf) =>
              copied[n] = IF n \in Scanned THEN Position \ Covered(Found(n)) ELSE Position
    /\ pc = "redact" =>
          /\ next <= Len(selected) + 1
          /\ cursor = IF next = 1 THEN 0 ELSE selected[next - 1].end
          /\ copied[leaf] = Clear(selected, cursor)

\* The next stretch is left out of the copy and all before it is in.
LEMMA ClearNext ==
    ASSUME NEW sel, NEW K, Chosen(sel, K), NEW k \in 1..Len(sel), NEW q \in Nat,
           q = IF k = 1 THEN 0 ELSE sel[k - 1].end
    PROVE  Clear(sel, sel[k].end) = Clear(sel, q) \cup (q .. sel[k].start - 1)
  <1> DEFINE n == Len(sel)
  <1>0. sel \in Seq(Candidate) /\ n \in Nat /\ \A i \in 1..n : sel[i] \in Candidate
    BY DEF Chosen
  <1>t. /\ \A i \in 1..n : sel[i].start \in Nat /\ sel[i].end \in Nat /\ sel[i].start < sel[i].end
        /\ \A i \in 1..n : Span(sel[i]) = {p \in Nat : sel[i].start <= p /\ p < sel[i].end}
    BY <1>0, CandidateFields
  <1>o. \A i, j \in 1..n : i < j => sel[i].end <= sel[j].start
    BY DEF Chosen, InOrder
  <1>1. \A i \in 1..n : i < k => sel[i].end <= q
    <2> SUFFICES ASSUME NEW i \in 1..n, i < k PROVE sel[i].end <= q
      OBVIOUS
    <2>1. k - 1 \in 1..n /\ q = sel[k - 1].end /\ (i = k - 1 \/ i < k - 1)
      BY <1>0
    <2>2. sel[k - 1].start < sel[k - 1].end /\ sel[k - 1].start \in Nat /\ sel[i].end \in Nat
      BY <1>t, <2>1
    <2>3. i < k - 1 => sel[i].end <= sel[k - 1].start
      BY <1>o, <2>1
    <2>4. QED
      BY <2>1, <2>2, <2>3
  <1>2. q <= sel[k].start
    <2>1. k = 1 => q = 0
      OBVIOUS
    <2>2. k # 1 => k - 1 \in 1..n /\ k - 1 < k /\ q = sel[k - 1].end
      BY <1>0
    <2>3. k # 1 => sel[k - 1].end <= sel[k].start
      BY <1>o, <2>2
    <2>4. QED
      BY <1>t, <2>1, <2>2, <2>3
  <1>3. \A i \in 1..n : k < i => sel[k].end <= sel[i].start
    BY <1>o
  <1>4. ASSUME NEW p \in Clear(sel, sel[k].end) PROVE p \in Clear(sel, q) \cup (q .. sel[k].start - 1)
    <2>1. p \in Nat /\ p < sel[k].end /\ p \notin Span(sel[k]) /\ \A i \in 1..n : p \notin Span(sel[i])
      BY DEF Clear
    <2>2. p < sel[k].start
      BY <1>t, <2>1
    <2>3. CASE p < q
      BY <2>1, <2>3 DEF Clear
    <2>4. CASE q <= p
      BY <1>t, <2>1, <2>2, <2>4
    <2>5. QED
      BY <2>1, <2>3, <2>4
  <1>5. ASSUME NEW p \in Clear(sel, q) PROVE p \in Clear(sel, sel[k].end)
    BY <1>2, <1>t DEF Clear
  <1>6. ASSUME NEW p \in q .. sel[k].start - 1 PROVE p \in Clear(sel, sel[k].end)
    <2>1. p \in Nat /\ q <= p /\ p < sel[k].start /\ p < sel[k].end
      BY <1>t
    <2>2. ASSUME NEW i \in 1..n PROVE p \notin Span(sel[i])
      <3>0. sel[i].start \in Nat /\ sel[i].end \in Nat /\ sel[k].start \in Nat /\ sel[k].end \in Nat
        BY <1>t
      <3>s. p \in Span(sel[i]) => sel[i].start <= p /\ p < sel[i].end
        BY <1>t
      <3>1. CASE i < k
        <4>1. sel[i].end <= p
          BY <1>1, <2>1, <3>0, <3>1
        <4>2. QED
          BY <2>1, <3>s, <3>0, <4>1
      <3>2. CASE i = k
        BY <1>t, <2>1, <3>2
      <3>3. CASE k < i
        <4>1. p < sel[i].start
          BY <1>3, <2>1, <3>0, <3>3
        <4>2. QED
          BY <2>1, <3>s, <3>0, <4>1
      <3>4. QED
        BY <1>0, <3>1, <3>2, <3>3
    <2>3. QED
      BY <2>1, <2>2 DEF Clear
  <1>7. QED
    BY <1>4, <1>5, <1>6

\* With the tail the copy has every place no match covers.
LEMMA ClearTail ==
    ASSUME NEW sel, NEW K, Chosen(sel, K), sel # <<>>
    PROVE  Clear(sel, sel[Len(sel)].end) \cup (sel[Len(sel)].end .. Length - 1) = Position \ Covered(K)
  <1> DEFINE n == Len(sel)
             q == sel[n].end
  <1>0. sel \in Seq(Candidate) /\ n \in Nat /\ n \in 1..n /\ \A i \in 1..n : sel[i] \in Candidate
    BY DEF Chosen
  <1>t. /\ \A i \in 1..n : sel[i].start \in Nat /\ sel[i].end \in Nat /\ sel[i].start < sel[i].end
        /\ \A i \in 1..n : Span(sel[i]) = {p \in Nat : sel[i].start <= p /\ p < sel[i].end}
    BY <1>0, CandidateFields
  <1>l. Length \in Nat /\ q \in Nat /\ q <= Length
    BY <1>0, CandidateFields
  <1>p. Position = {p \in Nat : p < Length}
    BY <1>l DEF Position
  <1>1. \A i \in 1..n : sel[i].end <= q
    <2> SUFFICES ASSUME NEW i \in 1..n PROVE sel[i].end <= q
      OBVIOUS
    <2>1. i # n => i < n
      BY <1>0
    <2>2. i < n => sel[i].end <= sel[n].start
      BY <1>0 DEF Chosen, InOrder
    <2>3. QED
      BY <1>0, <1>t, <2>1, <2>2
  <1>2. Covered(K) = UNION {Span(sel[i]) : i \in 1..n}
    BY ChosenStretches
  <1> HIDE DEF q, n
  <1>3. ASSUME NEW p \in Nat, q <= p PROVE \A i \in 1..n : p \notin Span(sel[i])
    BY <1>1, <1>3, <1>t, <1>l
  <1>4. Clear(sel, q) = {p \in Nat : p < q /\ \A i \in 1..n : p \notin Span(sel[i])}
    BY DEF Clear, n
  <1>5. q .. Length - 1 = {p \in Nat : q <= p /\ p < Length}
    BY <1>l
  <1>6. Clear(sel, q) \cup (q .. Length - 1) = Position \ Covered(K)
    <2>1. ASSUME NEW p \in Clear(sel, q) PROVE p \in Position \ Covered(K)
      BY <1>2, <1>4, <1>l, <1>p
    <2>2. ASSUME NEW p \in q .. Length - 1 PROVE p \in Position \ Covered(K)
      <3>1. p \in Nat /\ q <= p /\ p < Length
        BY <1>5
      <3>2. QED
        BY <1>2, <1>3, <1>p, <3>1
    <2>3. ASSUME NEW p \in Position \ Covered(K) PROVE p \in Clear(sel, q) \cup (q .. Length - 1)
      <3>1. p \in Nat /\ p < Length /\ \A i \in 1..n : p \notin Span(sel[i])
        BY <1>2, <1>p
      <3>2. QED
        BY <1>4, <1>5, <1>l, <3>1
    <2>4. QED
      BY <2>1, <2>2, <2>3
  <1>7. QED
    BY <1>6 DEF q, n

\* The copy leaves out what is matched, leaf by leaf.
LEMMA CopyStep ==
    TypeOK /\ WalkInv /\ SelectionInv /\ CopyInv /\ [Next]_vars => CopyInv'
  <1> SUFFICES ASSUME TypeOK, WalkInv, SelectionInv, CopyInv, [Next]_vars PROVE CopyInv'
    OBVIOUS
  <1>0. /\ Scanned \subseteq Leaf /\ Scanned' \subseteq Leaf
        /\ Covered({}) = {}
        /\ Active => leaf \in Leaf
    BY DEF Scanned, Eligible, Covered, WalkInv
  <1>1. ASSUME UNCHANGED <<config, text, copied>>, Scanned' = Scanned, pc # "redact", pc' # "redact"
        PROVE  CopyInv'
    <2>1. \A n : Found(n)' = Found(n)
      BY <1>1 DEF Found
    <2>2. QED
      BY <1>1, <2>1 DEF CopyInv
  <1>2. ASSUME NEW p \in Payload, Handle(p) PROVE CopyInv'
    <2>1. Scanned' = {} /\ pc' = "walk" /\ copied' = [n \in Leaf |-> Position]
      BY <1>2, ScannedSteps DEF Handle
    <2>2. QED
      BY <2>1 DEF CopyInv
  <1>3. ASSUME NEW n \in Node, Enter(n) PROVE CopyInv'
    BY <1>1, <1>3, ScannedSteps DEF Enter
  <1>4. ASSUME NEW n \in Node, ScanText(n) PROVE CopyInv'
    BY <1>1, <1>4, ScannedSteps DEF ScanText
  <1>5. ASSUME NEW c \in rest, Consider(c) PROVE CopyInv'
    BY <1>1, <1>5, ScannedSteps DEF Consider
  <1>6. CASE Detected
    <2>1. /\ Scanned' = Scanned \cup {leaf} /\ leaf \notin Scanned /\ pc = "select" /\ rest = {}
          /\ leaf' = leaf /\ selected' = selected /\ next' = 1 /\ cursor' = 0 /\ config' = config
          /\ \A n : Found(n)' = Found(n)
      BY <1>6, ScannedSteps DEF Detected, Found
    <2>2. leaf \in Leaf /\ selected \in Seq(Candidate) /\ copied \in [Leaf -> SUBSET Position]
      BY <1>0, <2>1 DEF Active, TypeOK
    <2>3. CASE config.redact /\ selected # <<>>
      <3>1. pc' = "redact" /\ copied' = [copied EXCEPT ![leaf] = {}]
        BY <1>6, <2>3 DEF Detected
      <3>2. Clear(selected, 0) = {}
        BY DEF Clear
      <3>3. ASSUME NEW n \in Leaf, n # leaf
            PROVE  copied'[n] = IF n \in Scanned' THEN Position \ Covered(Found(n)') ELSE Position
        BY <2>1, <2>2, <2>3, <3>1, <3>3 DEF CopyInv
      <3>4. copied'[leaf] = {}
        BY <2>2, <3>1
      <3>5. 1 <= Len(selected) + 1
        BY <2>2
      <3>6. QED
        BY <2>1, <3>1, <3>2, <3>3, <3>4, <3>5 DEF CopyInv
    <2>4. CASE ~(config.redact /\ selected # <<>>)
      <3>1. pc' = "walk" /\ copied' = copied
        BY <1>6, <2>4 DEF Detected
      <3>2. CASE ~config.redact
        BY <2>1, <3>1, <3>2 DEF CopyInv
      <3>3. CASE selected = <<>>
        <4>1. Chosen(selected, Found(leaf) \ rest) /\ Found(leaf) \ rest = Found(leaf)
          BY <2>1 DEF SelectionInv, Active
        <4>2. Found(leaf) = {}
          BY <3>3, <4>1, ChosenStretches
        <4>3. Position = Position \ Covered(Found(leaf))
          BY <1>0, <4>2
        <4>4. ASSUME config.redact, NEW n \in Leaf
              PROVE  copied'[n] = IF n \in Scanned' THEN Position \ Covered(Found(n)') ELSE Position
          <5>1. copied[n] = IF n \in Scanned THEN Position \ Covered(Found(n)) ELSE Position
            BY <2>1, <4>4 DEF CopyInv
          <5>2. QED
            BY <2>1, <3>1, <4>3, <5>1
        <4>5. QED
          BY <2>1, <3>1, <4>4 DEF CopyInv
      <3>4. QED
        BY <2>4, <3>2, <3>3
    <2>5. QED
      BY <2>3, <2>4
  <1>k. pc = "redact" => /\ Chosen(selected, Found(leaf)) /\ leaf \in Leaf /\ leaf \in Scanned
                         /\ copied \in [Leaf -> SUBSET Position] /\ next \in Nat \ {0} /\ cursor \in Nat
    <2> SUFFICES ASSUME pc = "redact"
                 PROVE  /\ Chosen(selected, Found(leaf)) /\ leaf \in Leaf /\ leaf \in Scanned
                        /\ copied \in [Leaf -> SUBSET Position] /\ next \in Nat \ {0} /\ cursor \in Nat
      OBVIOUS
    <2>1. Chosen(selected, Found(leaf) \ rest) /\ Found(leaf) \ rest = Found(leaf)
      BY DEF SelectionInv, Active
    <2>2. leaf \in Scanned
      BY DEF WalkInv, Active, Scanned
    <2>3. Chosen(selected, Found(leaf))
      BY <2>1
    <2>4. leaf \in Leaf
      BY <1>0 DEF Active
    <2>5. copied \in [Leaf -> SUBSET Position] /\ next \in Nat \ {0} /\ cursor \in Nat
      BY ScannerAssumption DEF TypeOK
    <2>6. QED
      BY <2>2, <2>3, <2>4, <2>5
  <1>7. CASE CopyUpToMatch
    <2>1. /\ pc = "redact" /\ pc' = "redact" /\ Scanned' = Scanned /\ leaf' = leaf /\ selected' = selected
          /\ next <= Len(selected) /\ next' = next + 1 /\ cursor' = selected[next].end /\ config' = config
          /\ copied' = [copied EXCEPT ![leaf] = @ \cup (cursor .. selected[next].start - 1)]
          /\ \A n : Found(n)' = Found(n)
      BY <1>7, ScannedSteps DEF CopyUpToMatch, Found
    <2>2. next \in 1..Len(selected) /\ cursor = IF next = 1 THEN 0 ELSE selected[next - 1].end
      BY <1>k, <2>1 DEF CopyInv, TypeOK
    <2>3. Clear(selected, selected[next].end) = Clear(selected, cursor) \cup (cursor .. selected[next].start - 1)
      BY <1>k, <2>1, <2>2, ClearNext
    <2> DEFINE D == cursor .. selected[next].start - 1
               E == selected[next].end
    <2> HIDE DEF D, E
    <2>4. copied' = [copied EXCEPT ![leaf] = @ \cup D] /\ Clear(selected, E) = Clear(selected, cursor) \cup D
          /\ cursor' = E
      BY <2>1, <2>3 DEF D, E
    <2>5. copied'[leaf] = Clear(selected, E)
      BY <1>k, <2>1, <2>4 DEF CopyInv
    <2>6. \A n \in Leaf : n # leaf => copied'[n] = copied[n]
      BY <1>k, <2>1, <2>4
    <2>7. next' <= Len(selected) + 1 /\ next' # 1 /\ next' - 1 = next
      BY <1>k, <2>1, <2>2
    <2>8. (config.redact => \A n \in Leaf : ~(pc = "redact" /\ n = leaf) =>
              copied[n] = IF n \in Scanned THEN Position \ Covered(Found(n)) ELSE Position)'
      BY <2>1, <2>6 DEF CopyInv
    <2>9. cursor' = IF next' = 1 THEN 0 ELSE selected'[next' - 1].end
      BY <2>1, <2>7
    <2>10. QED
      BY <2>1, <2>4, <2>5, <2>7, <2>8, <2>9 DEF CopyInv
  <1>8. CASE CopyTail
    <2>1. /\ pc = "redact" /\ pc' = "walk" /\ Scanned' = Scanned /\ config' = config
          /\ next > Len(selected)
          /\ copied' = [copied EXCEPT ![leaf] = @ \cup (cursor .. Length - 1)]
          /\ \A n : Found(n)' = Found(n)
      BY <1>8, ScannedSteps DEF CopyTail, Found
    <2>2. Len(selected) \in Nat /\ next = Len(selected) + 1 /\ next - 1 = Len(selected)
      BY <1>k, <2>1 DEF CopyInv, TypeOK
    <2>3. Clear(selected, cursor) \cup (cursor .. Length - 1) = Position \ Covered(Found(leaf))
      <3>1. CASE selected = <<>>
        <4>1. next = 1 /\ cursor = 0 /\ Found(leaf) = {}
          BY <1>k, <2>1, <2>2, <3>1, ChosenStretches DEF CopyInv
        <4>2. Clear(selected, 0) = {}
          BY DEF Clear
        <4>3. QED
          BY <1>0, <4>1, <4>2 DEF Position
      <3>2. CASE selected # <<>>
        <4>1. cursor = selected[Len(selected)].end
          <5>1. Len(selected) # 0
            BY <3>2 DEF TypeOK
          <5>2. QED
            BY <2>1, <2>2, <5>1 DEF CopyInv
        <4>2. QED
          BY <1>k, <2>1, <3>2, <4>1, ClearTail
      <3>3. QED
        BY <3>1, <3>2
    <2> DEFINE D == cursor .. Length - 1
    <2> HIDE DEF D
    <2>4. copied' = [copied EXCEPT ![leaf] = @ \cup D] /\ Clear(selected, cursor) \cup D = Position \ Covered(Found(leaf))
      BY <2>1, <2>3 DEF D
    <2>5. copied'[leaf] = Position \ Covered(Found(leaf))
      BY <1>k, <2>1, <2>4 DEF CopyInv
    <2>6. \A n \in Leaf : n # leaf => copied'[n] = copied[n]
      BY <1>k, <2>1, <2>4
    <2>7. ASSUME config.redact, NEW n \in Leaf
          PROVE  copied'[n] = IF n \in Scanned' THEN Position \ Covered(Found(n)') ELSE Position
      <3>1. CASE n = leaf
        BY <1>k, <2>1, <2>5, <3>1
      <3>2. CASE n # leaf
        BY <2>1, <2>6, <2>7, <3>2 DEF CopyInv
      <3>3. QED
        BY <3>1, <3>2
    <2>8. QED
      BY <2>1, <2>7 DEF CopyInv
  <1>9. CASE Decide
    <2>1. pc' # "redact"
      BY <1>9 DEF Decide
    <2>2. QED
      BY <1>1, <1>9, <2>1, ScannedSteps DEF Decide
  <1>10. CASE Done
    <2>1. /\ \A n \in Leaf : Found(n)' = {}
          /\ pc' = "idle" /\ copied' = [n \in Leaf |-> Position]
      BY <1>10 DEF Done, Found
    <2>2. \A n \in Leaf : Position \ Covered(Found(n)') = Position
      BY <1>0, <2>1
    <2>3. QED
      BY <2>1, <2>2 DEF CopyInv
  <1>11. CASE UNCHANGED vars
    <2>1. Scanned' = Scanned /\ \A n : Found(n)' = Found(n)
      BY <1>11, ScannedSteps DEF vars, Found
    <2>2. QED
      BY <1>11, <2>1 DEF vars, CopyInv
  <1>12. QED
    BY <1>2, <1>3, <1>4, <1>5, <1>6, <1>7, <1>8, <1>9, <1>10, <1>11 DEF Next

-----------------------------------------------------------------------------
(* The results *)

ScannerInv ==
    /\ TypeOK
    /\ WalkInv
    /\ SelectionInv
    /\ CountInv
    /\ CopyInv
    /\ DecisionInv

\* The conjunction is inductive.
LEMMA ScannerInvariant == Spec => []ScannerInv
  <1>1. Init => ScannerInv
    <2> SUFFICES ASSUME Init PROVE ScannerInv
      OBVIOUS
    <2>1. TypeOK
      BY ScannerAssumption DEF Init, TypeOK
    <2>2. /\ Scanned \subseteq Leaf /\ Covered({}) = {} /\ Starts({}) = {}
          /\ \A n \in Leaf : Found(n) = {}
      BY DEF Init, Scanned, Eligible, Covered, Starts, Found
    <2>3. WalkInv
      BY DEF Init, WalkInv, Active
    <2>4. SelectionInv
      BY DEF Init, SelectionInv, Active
    <2>5. CountInv
      <3>1. Regions(Scanned) = {}
        BY <2>2 DEF Regions
      <3>2. QED
        BY <2>2, <3>1, FS_EmptySet DEF Init, CountInv
    <2>6. CopyInv
      <3>1. \A n \in Leaf : copied[n] = Position /\ Position = Position \ Covered(Found(n))
        BY <2>2 DEF Init
      <3>2. QED
        BY <3>1 DEF Init, CopyInv
    <2>7. DecisionInv
      BY DEF Init, DecisionInv, Decided
    <2>8. QED
      BY <2>1, <2>3, <2>4, <2>5, <2>6, <2>7 DEF ScannerInv
  <1>2. ScannerInv /\ [Next]_vars => ScannerInv'
    BY TypeStep, WalkStep, SelectionStep, CountStep, CopyStep, DecisionStep DEF ScannerInv
  <1>3. QED
    BY <1>1, <1>2, PTL DEF Spec

\* When the walk is over every selected leaf was scanned.
LEMMA AllScanned == ScannerInv /\ Decided => Scanned = Eligible
  BY DEF ScannerInv, WalkInv, Decided, Scanned

\* A redacting plugin lets a payload through with exactly the matched places of
\* the selected fields removed, in every payload, for every configuration and
\* forest of values (detect_and_redact, scan_json_value_inner).
THEOREM SecretsRedactedExactly == Spec => []RedactionExact
  <1>1. ScannerInv => RedactionExact
    <2> SUFFICES ASSUME ScannerInv, pc \in {"modified", "allowed"}, config.redact, NEW n \in Leaf
                 PROVE  Passed(n) = IF n \in Eligible THEN Position \ Matched(n) ELSE Position
      BY DEF RedactionExact
    <2>1. Scanned = Eligible
      BY AllScanned DEF Decided
    <2>2. Matched(n) = Covered(Found(n))
      BY DEF Matched, Covered
    <2>3. CASE pc = "modified"
      <3>1. copied[n] = IF n \in Scanned THEN Position \ Covered(Found(n)) ELSE Position
        BY <2>3 DEF ScannerInv, CopyInv
      <3>2. QED
        BY <2>1, <2>2, <2>3, <3>1 DEF Passed
    <2>4. CASE pc = "allowed"
      <3>1. n \in Scanned => Found(n) = {}
        BY <2>4 DEF ScannerInv, DecisionInv, CountInv
      <3>2. n \in Scanned => Covered(Found(n)) = {}
        BY <3>1 DEF Covered
      <3>3. QED
        BY <2>1, <2>2, <2>4, <3>2 DEF Passed
    <2>5. QED
      BY <2>3, <2>4
  <1>2. QED
    BY <1>1, ScannerInvariant, PTL

\* A payload is denied exactly if blocking is on and its separate stretches of
\* matches reach the threshold, however many patterns match in each
\* (detect_and_redact, should_block).
THEOREM BlockedByRegions == Spec => []BlocksByRegions
  <1>1. ScannerInv => BlocksByRegions
    <2> SUFFICES ASSUME ScannerInv, Decided PROVE BlocksByRegions
      BY DEF BlocksByRegions
    <2>1. Scanned = Eligible
      BY AllScanned
    <2>2. \A n : RegionStarts(n) = Starts(Found(n))
      BY DEF RegionStarts, Starts
    <2>3. Regions(Eligible) = UNION {{<<n, p>> : p \in RegionStarts(n)} : n \in Eligible}
      BY <2>2 DEF Regions
    <2>4. count = Cardinality(Regions(Eligible))
      BY <2>1 DEF ScannerInv, CountInv
    <2>5. pc = "denied" <=> config.block /\ count >= config.min
      BY DEF ScannerInv, DecisionInv, ShouldBlock
    <2>6. QED
      BY <2>3, <2>4, <2>5 DEF BlocksByRegions
  <1>2. QED
    BY <1>1, ScannerInvariant, PTL

\* A finding is named after the most specific pattern that matched in its
\* stretch, whatever the order of the merges (detect_and_redact).
THEOREM FindingsNamedBySpecificity == Spec => []MostSpecificNamed
  <1>1. ScannerInv => MostSpecificNamed
    <2> SUFFICES ASSUME ScannerInv, pc = "select", NEW i \in 1..Len(selected),
                        NEW c \in Found(leaf) \ rest, Span(c) \cap Span(selected[i]) # {}
                 PROVE  Rank(selected[i]) <= Rank(c)
      BY DEF MostSpecificNamed
    <2>1. Chosen(selected, Found(leaf) \ rest)
      BY DEF ScannerInv, SelectionInv, Active
    <2>2. QED
      BY <2>1, ChosenNamed
  <1>2. QED
    BY <1>1, ScannerInvariant, PTL

\* The copy of a text never goes back: the slices detect_and_redact takes are in
\* order and within the text, so that none of them panics.
SlicesInOrder ==
    pc = "redact" /\ next <= Len(selected) => cursor <= selected[next].start

\* CopyUpToMatch's slice always exists (detect_and_redact).
THEOREM SlicesAlwaysInOrder == Spec => []SlicesInOrder
  <1>1. ScannerInv => SlicesInOrder
    <2> SUFFICES ASSUME ScannerInv, pc = "redact", next <= Len(selected)
                 PROVE  cursor <= selected[next].start
      BY DEF SlicesInOrder
    <2>1. Chosen(selected, Found(leaf) \ rest)
      BY DEF ScannerInv, SelectionInv, Active
    <2>2. /\ selected \in Seq(Candidate) /\ next \in Nat \ {0} /\ next \in 1..Len(selected)
          /\ cursor = IF next = 1 THEN 0 ELSE selected[next - 1].end
      BY DEF ScannerInv, TypeOK, CopyInv
    <2>3. selected[next].start \in Nat
      BY <2>2, CandidateFields
    <2>4. next # 1 => next - 1 \in 1..Len(selected) /\ next - 1 < next
      BY <2>2
    <2>5. next # 1 => selected[next - 1].end <= selected[next].start
      BY <2>1, <2>2, <2>4 DEF Chosen, InOrder
    <2>6. QED
      BY <2>2, <2>3, <2>5
  <1>2. QED
    BY <1>1, ScannerInvariant, PTL
=============================================================================
