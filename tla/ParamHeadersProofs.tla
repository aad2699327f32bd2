------------------------- MODULE ParamHeadersProofs -------------------------
(***************************************************************************)
(* Proofs for ParamHeaders and what it is composed of: the headers of a    *)
(* backend's connection (HeaderForwarding), the walk through a schema, and *)
(* the integer a header value denotes (IntegerHeader). For every tree of   *)
(* schema nodes, every configuration and request, every base and limit.    *)
(***************************************************************************)
EXTENDS ParamHeaders, SequenceTheorems, WellFoundedInduction, TLAPS

-----------------------------------------------------------------------------
(* Natural numbers *)

\* A nonempty set of natural numbers has a least one.
LEMMA LeastNat ==
    ASSUME NEW T, T \subseteq Nat, T # {}
    PROVE  \E x \in T : \A y \in T : x <= y
  <1> DEFINE R == {p \in Nat \X Nat : p[1] < p[2]}
  <1>1. IsWellFoundedOn(R, Nat)
    BY NatLessThanWellFounded DEF OpToRel
  <1> HIDE DEF R
  <1>2. PICK x \in T : \A y \in T : ~ (<<y, x>> \in R)
    BY <1>1, WFMin, Zenon
  <1>3. ASSUME NEW y \in T PROVE x <= y
    <2>1. x \in Nat /\ y \in Nat
      OBVIOUS
    <2>2. y < x => <<y, x>> \in R
      BY <2>1 DEF R
    <2>3. QED
      BY <1>2, <2>1, <2>2
  <1>4. QED
    BY <1>3

\* What holds of 0 and passes on to the next number holds of all of them.
LEMMA NatSetInduction ==
    ASSUME NEW T, 0 \in T, \A n \in Nat : n \in T => n + 1 \in T
    PROVE  Nat \subseteq T
  <1> SUFFICES ASSUME Nat \ T # {} PROVE FALSE
    OBVIOUS
  <1>1. PICK x \in Nat \ T : \A y \in Nat \ T : x <= y
    BY LeastNat
  <1>2. x - 1 \in Nat /\ x - 1 \in T
    BY <1>1
  <1>3. QED
    BY <1>1, <1>2

\* A nonempty set of positions has a first and a last one.
LEMMA FirstAndLast ==
    ASSUME NEW n \in Nat, NEW T, T \subseteq 1..n, T # {}
    PROVE  /\ \E i \in T : \A j \in T : i <= j
           /\ \E i \in T : \A j \in T : j <= i
  <1>0. T \subseteq Nat /\ \A i \in T : n - i \in Nat
    OBVIOUS
  <1>1. \E i \in T : \A j \in T : i <= j
    BY <1>0, LeastNat
  <1>2. \E i \in T : \A j \in T : j <= i
    <2> DEFINE U == {n - i : i \in T}
    <2>1. U \subseteq Nat /\ U # {}
      BY <1>0
    <2>2. PICK u \in U : \A w \in U : u <= w
      BY <2>1, LeastNat
    <2>3. PICK i \in T : u = n - i
      OBVIOUS
    <2>4. ASSUME NEW j \in T PROVE j <= i
      <3>1. n - j \in U
        OBVIOUS
      <3>2. n - i <= n - j
        BY <2>2, <2>3, <3>1
      <3>3. QED
        BY <3>2
    <2>5. QED
      BY <2>4
  <1>3. QED
    BY <1>1, <1>2

-----------------------------------------------------------------------------
(* Recursion over the natural numbers *)

\* g starts with a and takes n steps.
Follows(g, a, step, n) ==
    /\ g \in [Nat -> Nat]
    /\ g[0] = a
    /\ \A k \in 0..(n - 1) : g[k + 1] = step[k][g[k]]

\* What follows for n + 1 steps does so for n, and then takes one more.
LEMMA FollowsNext ==
    ASSUME NEW a, NEW step, NEW n \in Nat, NEW g
    PROVE  Follows(g, a, step, n + 1) <=> Follows(g, a, step, n) /\ g[n + 1] = step[n][g[n]]
  <1>1. 0..((n + 1) - 1) = 0..(n - 1) \cup {n}
    OBVIOUS
  <1>2. QED
    BY <1>1 DEF Follows

\* A first value and a step give a sequence of values.
LEMMA Recursion ==
    ASSUME NEW a \in Nat, NEW step \in [Nat -> [Nat -> Nat]]
    PROVE  \E g \in [Nat -> Nat] : \A n \in Nat : Follows(g, a, step, n)
  <1> DEFINE T == {n \in Nat : \E g : Follows(g, a, step, n)}
             U == {n \in Nat : \A g, h : Follows(g, a, step, n) /\ Follows(h, a, step, n) => g[n] = h[n]}
  <1>1. 0 \in T
    <2>1. Follows([k \in Nat |-> a], a, step, 0)
      BY DEF Follows
    <2>2. QED
      BY <2>1
  <1>2. ASSUME NEW n \in Nat, n \in T PROVE n + 1 \in T
    <2>1. PICK g : Follows(g, a, step, n)
      BY <1>2
    <2>2. g \in [Nat -> Nat] /\ step[n][g[n]] \in Nat
      BY <2>1 DEF Follows
    <2> DEFINE v == step[n][g[n]]
               h == [k \in Nat |-> IF k = n + 1 THEN v ELSE g[k]]
    <2> HIDE DEF v
    <2>v. v \in Nat /\ n + 1 \in Nat /\ \A k \in 0..n : k \in Nat /\ k # n + 1
      BY <2>2 DEF v
    <2>3. h \in [Nat -> Nat] /\ h[n + 1] = v /\ \A k \in 0..n : h[k] = g[k]
      BY <2>2, <2>v
    <2> HIDE DEF h
    <2>4. ASSUME NEW k \in 0..(n - 1) PROVE h[k + 1] = step[k][h[k]]
      <3>1. k \in 0..n /\ k + 1 \in 0..n /\ g[k + 1] = step[k][g[k]]
        BY <2>1 DEF Follows
      <3>2. QED
        BY <2>3, <3>1
    <2>5. Follows(h, a, step, n)
      <3>1. h[0] = a
        BY <2>1, <2>3 DEF Follows
      <3>2. QED
        BY <2>3, <2>4, <3>1 DEF Follows
    <2>6. h[n + 1] = step[n][h[n]]
      <3>1. h[n] = g[n]
        BY <2>3
      <3>2. QED
        BY <2>3, <3>1 DEF v
    <2>7. Follows(h, a, step, n + 1)
      BY <2>5, <2>6, FollowsNext, Zenon
    <2>8. QED
      BY <2>7
  <1>3. Nat \subseteq T
    <2> HIDE DEF T
    <2>1. QED
      BY <1>1, <1>2, NatSetInduction
  <1>4. 0 \in U
    BY DEF Follows
  <1>5. ASSUME NEW n \in Nat, n \in U PROVE n + 1 \in U
    <2> SUFFICES ASSUME NEW g, NEW h, Follows(g, a, step, n + 1), Follows(h, a, step, n + 1)
                 PROVE  g[n + 1] = h[n + 1]
      OBVIOUS
    <2>0. \A f : Follows(f, a, step, n + 1) => Follows(f, a, step, n) /\ f[n + 1] = step[n][f[n]]
      BY FollowsNext
    <2>1. /\ Follows(g, a, step, n) /\ g[n + 1] = step[n][g[n]]
          /\ Follows(h, a, step, n) /\ h[n + 1] = step[n][h[n]]
      BY <2>0
    <2>2. g[n] = h[n]
      BY <1>5, <2>1
    <2>3. QED
      BY <2>1, <2>2
  <1>6. Nat \subseteq U
    <2> HIDE DEF U
    <2>1. QED
      BY <1>4, <1>5, NatSetInduction
  <1> DEFINE part(n) == CHOOSE g : Follows(g, a, step, n)
             all == [n \in Nat |-> part(n)[n]]
  <1>7. ASSUME NEW n \in Nat PROVE Follows(part(n), a, step, n)
    BY <1>3
  <1> HIDE DEF part
  <1>8. all \in [Nat -> Nat] /\ all[0] = a
    BY <1>7 DEF Follows
  <1>9. ASSUME NEW k \in Nat PROVE all[k + 1] = step[k][all[k]]
    <2>1. Follows(part(k), a, step, k) /\ Follows(part(k + 1), a, step, k + 1)
      BY <1>7
    <2>2. Follows(part(k + 1), a, step, k) /\ part(k + 1)[k + 1] = step[k][part(k + 1)[k]]
      BY <2>1, FollowsNext
    <2>3. part(k + 1)[k] = part(k)[k]
      BY <1>6, <2>1, <2>2
    <2>4. all[k] = part(k)[k] /\ all[k + 1] = part(k + 1)[k + 1]
      OBVIOUS
    <2>5. QED
      BY <2>2, <2>3, <2>4
  <1> HIDE DEF all
  <1>10. ASSUME NEW n \in Nat PROVE Follows(all, a, step, n)
    <2>1. \A k \in 0..(n - 1) : all[k + 1] = step[k][all[k]]
      BY <1>9
    <2>2. QED
      BY <1>8, <2>1 DEF Follows
  <1>11. QED
    BY <1>8, <1>10

-----------------------------------------------------------------------------
(* The integer of a header value *)

\* The recursion of Power.
LEMMA PowerDef ==
    /\ Power \in [Nat -> Nat]
    /\ Power[0] = 1
    /\ \A k \in Nat : Power[k + 1] = Base * Power[k]
  <1>0. Base \in Nat
    BY IntegerHeaderAssumption
  <1> DEFINE step == [k \in Nat |-> [x \in Nat |-> Base * x]]
  <1>1. step \in [Nat -> [Nat -> Nat]]
    BY <1>0
  <1>2. PICK g \in [Nat -> Nat] : \A n \in Nat : Follows(g, 1, step, n)
    <2> HIDE DEF step
    <2>1. QED
      BY <1>1, Recursion
  <1>3. g[0] = 1 /\ \A k \in Nat : g[k + 1] = Base * g[k]
    <2>1. ASSUME NEW k \in Nat PROVE g[k + 1] = step[k][g[k]]
      <3> HIDE DEF step
      <3>1. QED
        BY <1>2, FollowsNext
    <2>2. g[0] = 1
      BY <1>2 DEF Follows
    <2>3. QED
      BY <2>1, <2>2
  <1> HIDE DEF step
  <1>4. g = [k \in Nat |-> IF k = 0 THEN 1 ELSE Base * g[k - 1]]
    <2>1. ASSUME NEW k \in Nat, k # 0 PROVE g[k] = Base * g[k - 1]
      <3>1. k - 1 \in Nat /\ (k - 1) + 1 = k
        BY <2>1
      <3>2. QED
        BY <1>3, <3>1
    <2>2. QED
      BY <1>3, <2>1
  <1>5. Power = [k \in Nat |-> IF k = 0 THEN 1 ELSE Base * Power[k - 1]]
    BY <1>4 DEF Power
  <1>6. Power[0] = 1
    BY <1>5
  <1>7. ASSUME NEW k \in Nat PROVE Power[k + 1] = Base * Power[k]
    <2>1. k + 1 \in Nat /\ k + 1 # 0 /\ (k + 1) - 1 = k
      OBVIOUS
    <2>2. QED
      BY <1>5, <2>1
  <1>8. Power \in [Nat -> Nat]
    <2> DEFINE T == {k \in Nat : Power[k] \in Nat}
    <2>1. 0 \in T
      BY <1>6
    <2>2. \A k \in Nat : k \in T => k + 1 \in T
      BY <1>0, <1>7
    <2>3. Nat \subseteq T
      <3> HIDE DEF T
      <3>1. QED
        BY <2>1, <2>2, NatSetInduction
    <2>4. QED
      BY <1>5, <2>3
  <1>9. QED
    BY <1>6, <1>7, <1>8

\* Products of natural numbers are at least their factors, and grow with them.
LEMMA Products ==
    /\ \A p, q \in Nat : p * q \in Nat /\ (q >= 1 => p <= p * q)
    /\ \A p, q, x \in Nat : p * q + x \in Nat
    /\ \A b, p, k \in Nat : b >= 2 /\ p > k => b * p > k + 1
    /\ \A b, p, q \in Nat : b * (p * q) = p * (b * q)
    /\ \A p, q, k \in Nat : p <= q => p * k <= q * k
  <1>1. \A p, q \in Nat : p * q \in Nat /\ (q >= 1 => p <= p * q)
    OBVIOUS
  <1>2. \A b, p, k \in Nat : b >= 2 /\ p > k => b * p > k + 1
    OBVIOUS
  <1>3. \A b, p, q \in Nat : b * (p * q) = p * (b * q)
    OBVIOUS
  <1>4. \A p, q, k \in Nat : p <= q => p * k <= q * k
    OBVIOUS
  <1>5. \A p, q, x \in Nat : p * q + x \in Nat
    OBVIOUS
  <1>6. QED
    BY <1>1, <1>2, <1>3, <1>4, <1>5

\* Powers are positive, grow, and add up in the exponent.
LEMMA PowerFacts ==
    /\ \A k \in Nat : Power[k] \in Nat /\ Power[k] > k
    /\ \A i, j \in Nat : Power[i + j] = Power[i] * Power[j]
    /\ \A i, j \in Nat : i <= j => Power[i] <= Power[j]
  <1>0. /\ Base \in Nat /\ Base >= 2 /\ Power[0] = 1
        /\ \A k \in Nat : Power[k] \in Nat /\ Power[k + 1] = Base * Power[k]
    BY PowerDef, IntegerHeaderAssumption
  <1>1. \A k \in Nat : Power[k] > k
    <2> DEFINE T == {k \in Nat : Power[k] > k}
    <2>1. 0 \in T
      BY <1>0
    <2>2. ASSUME NEW k \in Nat, k \in T PROVE k + 1 \in T
      <3>1. Power[k] \in Nat /\ Power[k] > k /\ Power[k + 1] = Base * Power[k]
        BY <1>0, <2>2
      <3>2. Base * Power[k] > k + 1
        BY <1>0, <3>1, Products
      <3>3. QED
        BY <3>1, <3>2
    <2>3. Nat \subseteq T
      <3> HIDE DEF T
      <3>1. QED
        BY <2>1, <2>2, NatSetInduction
    <2>4. QED
      BY <2>3
  <1>2. ASSUME NEW i \in Nat PROVE \A j \in Nat : Power[i + j] = Power[i] * Power[j]
    <2> DEFINE T == {j \in Nat : Power[i + j] = Power[i] * Power[j]}
    <2>1. 0 \in T
      BY <1>0
    <2>2. ASSUME NEW j \in Nat, j \in T PROVE j + 1 \in T
      <3>1. /\ Power[i + j] = Power[i] * Power[j] /\ Power[i] \in Nat /\ Power[j] \in Nat
            /\ Power[j + 1] = Base * Power[j]
        BY <1>0, <2>2
      <3>2. Power[i + (j + 1)] = Base * Power[i + j]
        <4>1. i + j \in Nat /\ i + (j + 1) = (i + j) + 1
          OBVIOUS
        <4>2. QED
          BY <1>0, <4>1
      <3>3. Base * (Power[i] * Power[j]) = Power[i] * (Base * Power[j])
        BY <1>0, <3>1, Products
      <3>4. Power[i + (j + 1)] = Power[i] * Power[j + 1]
        BY <3>1, <3>2, <3>3, Zenon
      <3>5. QED
        BY <3>4
    <2>3. Nat \subseteq T
      <3> HIDE DEF T
      <3>1. QED
        BY <2>1, <2>2, NatSetInduction
    <2>4. QED
      BY <2>3
  <1>3. ASSUME NEW i \in Nat, NEW j \in Nat, i <= j PROVE Power[i] <= Power[j]
    <2>1. j - i \in Nat /\ i + (j - i) = j
      BY <1>3
    <2>2. Power[i] \in Nat /\ Power[j - i] \in Nat /\ Power[j - i] > j - i
      BY <1>0, <1>1, <2>1
    <2>3. Power[j - i] >= 1
      BY <2>1, <2>2
    <2>4. Power[i + (j - i)] = Power[i] * Power[j - i]
      BY <1>2, <2>1, Zenon
    <2>5. Power[i] <= Power[i] * Power[j - i]
      BY <2>2, <2>3, Products
    <2>6. QED
      BY <2>1, <2>4, <2>5
  <1>4. QED
    BY <1>0, <1>1, <1>2, <1>3

\* MAX_SAFE_INTEGER has a length.
LEMMA SafeLengthIs ==
    SafeLength \in Nat \ {0} /\ Power[SafeLength - 1] <= MaxSafe /\ MaxSafe < Power[SafeLength]
  <1> DEFINE T == {k \in Nat : MaxSafe < Power[k]}
  <1>0. MaxSafe \in Nat \ {0} /\ \A k \in Nat : Power[k] \in Nat
    BY PowerFacts, IntegerHeaderAssumption
  <1>1. T \subseteq Nat /\ MaxSafe \in T
    BY <1>0, PowerFacts
  <1>2. PICK x \in T : \A y \in T : x <= y
    <2> HIDE DEF T
    <2>1. QED
      BY <1>1, LeastNat
  <1>3. x \in 1..MaxSafe
    BY <1>0, <1>1, <1>2, PowerDef
  <1>4. x - 1 \in Nat /\ x - 1 \notin T
    BY <1>2, <1>3
  <1>5. Power[x - 1] <= MaxSafe /\ MaxSafe < Power[x]
    BY <1>0, <1>4
  <1>6. SafeLength \in 1..MaxSafe /\ Power[SafeLength - 1] <= MaxSafe /\ MaxSafe < Power[SafeLength]
    BY <1>3, <1>5 DEF SafeLength
  <1>7. QED
    BY <1>0, <1>6

Digits == Seq(0..(Base - 1))

\* The recursion of Number: without digits it is 0, and one more digit shifts
\* the digits before it by one place.
LEMMA NumberDef ==
    ASSUME NEW d \in Digits
    PROVE  \E f \in [0..Len(d) -> Nat] :
              /\ f[0] = 0
              /\ \A k \in 1..Len(d) : f[k] = f[k - 1] * Base + d[k]
              /\ Number(d) = f[Len(d)]
  <1>0. Base \in Nat /\ Len(d) \in Nat /\ DOMAIN d = 1..Len(d) /\ \A k \in 1..Len(d) : d[k] \in Nat
    BY IntegerHeaderAssumption DEF Digits
  <1> DEFINE next(k) == IF k + 1 \in 1..Len(d) THEN d[k + 1] ELSE 0
             step == [k \in Nat |-> [x \in Nat |-> x * Base + next(k)]]
  <1>1. step \in [Nat -> [Nat -> Nat]]
    <2>1. \A k \in Nat : next(k) \in Nat
      BY <1>0
    <2> HIDE DEF next
    <2>2. \A x, y \in Nat : x * Base + y \in Nat
      BY <1>0, Products
    <2>3. \A k, x \in Nat : x * Base + next(k) \in Nat
      BY <2>1, <2>2
    <2>4. QED
      BY <2>3
  <1>2. PICK g \in [Nat -> Nat] : \A n \in Nat : Follows(g, 0, step, n)
    <2> HIDE DEF step
    <2>1. QED
      BY <1>1, Recursion
  <1>3. g[0] = 0
    BY <1>2 DEF Follows
  <1>4. ASSUME NEW k \in 1..Len(d) PROVE g[k] = g[k - 1] * Base + d[k]
    <2>1. k - 1 \in Nat /\ (k - 1) + 1 = k
      BY <1>0
    <2>g. g[k - 1] \in Nat
      BY <2>1
    <2>2. g[k] = step[k - 1][g[k - 1]]
      <3> HIDE DEF step
      <3>1. ASSUME NEW n \in Nat PROVE g[n + 1] = step[n][g[n]]
        <4>1. Follows(g, 0, step, n + 1)
          BY <1>2
        <4>2. QED
          <5>1. n \in 0..((n + 1) - 1)
            OBVIOUS
          <5>2. QED
            BY <4>1, <5>1 DEF Follows
      <3>2. QED
        BY <2>1, <3>1
    <2>3. next(k - 1) = d[k]
      BY <1>0, <2>1
    <2> HIDE DEF next
    <2>4. step[k - 1][g[k - 1]] = g[k - 1] * Base + next(k - 1)
      BY <2>1, <2>g
    <2>5. QED
      BY <2>2, <2>3, <2>4
  <1> HIDE DEF step
  <1> DEFINE F(f) == f = [k \in 0..Len(d) |-> IF k = 0 THEN 0 ELSE f[k - 1] * Base + d[k]]
             h == [k \in 0..Len(d) |-> g[k]]
  <1>5. F(h)
    <2>1. ASSUME NEW k \in 0..Len(d) PROVE h[k] = IF k = 0 THEN 0 ELSE h[k - 1] * Base + d[k]
      <3>1. CASE k = 0
        BY <1>3, <3>1
      <3>2. CASE k # 0
        <4>1. k \in 1..Len(d) /\ k - 1 \in 0..Len(d)
          BY <1>0, <3>2
        <4>2. QED
          BY <1>4, <3>2, <4>1
      <3>3. QED
        BY <3>1, <3>2
    <2>2. QED
      BY <2>1
  <1> DEFINE f == CHOOSE f : F(f)
  <1>6. F(f) /\ Number(d) = f[Len(d)]
    <2> HIDE DEF h
    <2>1. F(f)
      BY <1>5
    <2>2. QED
      BY <2>1 DEF Number
  <1> HIDE DEF f, h
  <1>7. \A k \in 0..Len(d) : f[k] = IF k = 0 THEN 0 ELSE f[k - 1] * Base + d[k]
    BY <1>6
  <1>8. \A k \in 0..Len(d) : f[k] \in Nat
    <2> DEFINE T == {k \in Nat : k \in 0..Len(d) => f[k] \in Nat}
    <2>1. 0 \in T
      BY <1>0, <1>7
    <2>2. ASSUME NEW k \in Nat, k \in T PROVE k + 1 \in T
      <3> SUFFICES ASSUME k + 1 \in 0..Len(d) PROVE f[k + 1] \in Nat
        OBVIOUS
      <3>0. k \in 0..Len(d) /\ k + 1 \in 1..Len(d) /\ (k + 1) - 1 = k /\ k + 1 # 0
        <4>1. Len(d) \in Nat
          BY <1>0
        <4>2. QED
          BY <4>1
      <3>1. f[k] \in Nat /\ d[k + 1] \in Nat
        BY <1>0, <2>2, <3>0
      <3>2. f[k + 1] = f[k] * Base + d[k + 1]
        BY <1>7, <3>0
      <3>4. f[k] * Base + d[k + 1] \in Nat
        BY <1>0, <3>1, Products
      <3>5. QED
        BY <3>2, <3>4
    <2>3. Nat \subseteq T
      <3> HIDE DEF T
      <3>1. QED
        BY <2>1, <2>2, NatSetInduction
    <2>4. QED
      BY <2>3
  <1>9. f \in [0..Len(d) -> Nat] /\ f[0] = 0 /\ \A k \in 1..Len(d) : f[k] = f[k - 1] * Base + d[k]
    <2>1. f = [k \in 0..Len(d) |-> f[k]]
      BY <1>6
    <2>2. f[0] = 0 /\ \A k \in 1..Len(d) : k \in 0..Len(d) /\ k # 0
      BY <1>0, <1>7
    <2>3. \A k \in 1..Len(d) : f[k] = f[k - 1] * Base + d[k]
      BY <1>7, <2>2
    <2>4. f \in [0..Len(d) -> Nat]
      BY <1>8, <2>1
    <2>5. QED
      BY <2>2, <2>3, <2>4
  <1>10. QED
    BY <1>6, <1>9

\* Digits are a sequence of numbers below the base.
LEMMA DigitsFacts ==
    ASSUME NEW d \in Digits
    PROVE  Len(d) \in Nat /\ DOMAIN d = 1..Len(d) /\ \A k \in 1..Len(d) : d[k] \in 0..(Base - 1)
  <1> DEFINE S == 0..(Base - 1)
  <1>1. d \in Seq(S)
    BY DEF Digits
  <1> HIDE DEF S
  <1>2. Len(d) \in Nat /\ DOMAIN d = 1..Len(d) /\ \A k \in 1..Len(d) : d[k] \in S
    BY <1>1
  <1>3. QED
    BY <1>2 DEF S

\* A sequence of digits with one more digit after it.
LEMMA AppendDigit ==
    ASSUME NEW d \in Digits, NEW x \in 0..(Base - 1)
    PROVE  /\ Append(d, x) \in Digits /\ Len(Append(d, x)) = Len(d) + 1
           /\ Append(d, x)[Len(d) + 1] = x
           /\ \A k \in 1..Len(d) : Append(d, x)[k] = d[k]
           /\ Number(Append(d, x)) = Number(d) * Base + x
  <1> DEFINE e == Append(d, x)
  <1>0. /\ e \in Digits /\ Len(d) \in Nat /\ Len(e) = Len(d) + 1 /\ e[Len(d) + 1] = x
        /\ \A k \in 1..Len(d) : e[k] = d[k]
    BY DEF Digits
  <1> HIDE DEF e
  <1>1. PICK f \in [0..Len(d) -> Nat] :
              /\ f[0] = 0
              /\ \A k \in 1..Len(d) : f[k] = f[k - 1] * Base + d[k]
              /\ Number(d) = f[Len(d)]
    BY NumberDef
  <1>2. PICK h \in [0..Len(e) -> Nat] :
              /\ h[0] = 0
              /\ \A k \in 1..Len(e) : h[k] = h[k - 1] * Base + e[k]
              /\ Number(e) = h[Len(e)]
    BY <1>0, NumberDef
  <1>3. h[Len(d)] = f[Len(d)]
    <2> DEFINE T == {k \in Nat : k <= Len(d) => h[k] = f[k]}
    <2>1. 0 \in T
      BY <1>1, <1>2
    <2>2. ASSUME NEW k \in Nat, k \in T PROVE k + 1 \in T
      <3> SUFFICES ASSUME k + 1 <= Len(d) PROVE h[k + 1] = f[k + 1]
        OBVIOUS
      <3>1. k <= Len(d) /\ k + 1 \in 1..Len(d) /\ k + 1 \in 1..Len(e) /\ (k + 1) - 1 = k
        BY <1>0
      <3>2. h[k] = f[k] /\ e[k + 1] = d[k + 1]
        BY <1>0, <2>2, <3>1
      <3>3. h[k + 1] = h[k] * Base + e[k + 1]
        BY <1>2, <3>1
      <3>4. f[k + 1] = f[k] * Base + d[k + 1]
        BY <1>1, <3>1
      <3>5. QED
        BY <3>2, <3>3, <3>4
    <2>3. Nat \subseteq T
      <3> HIDE DEF T
      <3>1. QED
        BY <2>1, <2>2, NatSetInduction
    <2>4. QED
      BY <1>0, <2>3
  <1>4. h[Len(e)] = h[Len(d)] * Base + x
    <2>1. Len(e) \in 1..Len(e) /\ Len(e) - 1 = Len(d)
      BY <1>0
    <2>2. h[Len(e)] = h[Len(e) - 1] * Base + e[Len(e)]
      BY <1>2, <2>1
    <2>3. QED
      BY <1>0, <2>1, <2>2
  <1>5. Number(e) = Number(d) * Base + x
    BY <1>1, <1>2, <1>3, <1>4
  <1>6. QED
    BY <1>0, <1>5 DEF e

\* Digits that are not empty are the last digit after the others.
LEMMA SplitLast ==
    ASSUME NEW d \in Digits, NEW n \in Nat, Len(d) = n + 1
    PROVE  \E e \in Digits, x \in 0..(Base - 1) : Len(e) = n /\ d = Append(e, x)
  <1> DEFINE e == [k \in 1..n |-> d[k]]
  <1>0. DOMAIN d = 1..(n + 1) /\ \A k \in 1..(n + 1) : d[k] \in 0..(Base - 1)
    <2>1. DOMAIN d = 1..Len(d) /\ \A k \in 1..Len(d) : d[k] \in 0..(Base - 1)
      BY DigitsFacts
    <2>2. QED
      BY <2>1
  <1>1. e \in Digits /\ Len(e) = n
    BY <1>0 DEF Digits
  <1>2. d[n + 1] \in 0..(Base - 1)
    BY <1>0
  <1>3. d = Append(e, d[n + 1])
    <2>1. Append(e, d[n + 1]) \in Seq(0..(Base - 1)) /\ d \in Seq(0..(Base - 1))
      BY <1>1, <1>2 DEF Digits
    <2>2. Len(Append(e, d[n + 1])) = n + 1
      BY <1>1 DEF Digits
    <2>3. \A k \in 1..(n + 1) : Append(e, d[n + 1])[k] = d[k]
      BY <1>1 DEF Digits
    <2> HIDE DEF e
    <2>4. QED
      BY <2>1, <2>2, <2>3
  <1>4. QED
    BY <1>1, <1>2, <1>3

\* No digits denote 0, one digit itself.
LEMMA NumberShort ==
    /\ <<>> \in Digits /\ Number(<<>>) = 0
    /\ \A x \in 0..(Base - 1) : <<x>> \in Digits /\ Number(<<x>>) = x
  <1>1. <<>> \in Digits /\ Number(<<>>) = 0
    <2>1. <<>> \in Digits /\ Len(<<>>) = 0
      BY DEF Digits
    <2>2. PICK f \in [0..Len(<<>>) -> Nat] : f[0] = 0 /\ Number(<<>>) = f[Len(<<>>)]
      BY <2>1, NumberDef
    <2>3. QED
      BY <2>1, <2>2
  <1>2. ASSUME NEW x \in 0..(Base - 1) PROVE <<x>> \in Digits /\ Number(<<x>>) = x
    <2>1. <<x>> = Append(<<>>, x)
      OBVIOUS
    <2>2. Number(Append(<<>>, x)) = 0 * Base + x /\ Append(<<>>, x) \in Digits
      BY <1>1, AppendDigit
    <2>3. 0 * Base + x = x
      BY IntegerHeaderAssumption
    <2>4. QED
      BY <2>1, <2>2, <2>3
  <1>3. QED
    BY <1>1, <1>2

\* A number with n digits is below the n-th power, and 0 only if all digits are.
LEMMA NumberBounds ==
    ASSUME NEW d \in Digits
    PROVE  Number(d) \in Nat /\ Number(d) < Power[Len(d)] /\ (Number(d) = 0 <=> AllZero(d))
  <1>0. Base \in Nat /\ Base >= 2 /\ \A e \in Digits : Len(e) \in Nat
    BY IntegerHeaderAssumption DEF Digits
  <1> DEFINE Good(e) == Number(e) \in Nat /\ Number(e) < Power[Len(e)] /\ (Number(e) = 0 <=> AllZero(e))
             T == {n \in Nat : \A e \in Digits : Len(e) = n => Good(e)}
  <1>1. 0 \in T
    <2> SUFFICES ASSUME NEW e \in Digits, Len(e) = 0 PROVE Good(e)
      OBVIOUS
    <2>1. e = <<>>
      BY DEF Digits
    <2>2. Number(e) = 0 /\ AllZero(e)
      BY <2>1, NumberShort DEF AllZero
    <2>3. QED
      BY <2>2, PowerDef
  <1>2. ASSUME NEW n \in Nat, n \in T PROVE n + 1 \in T
    <2> SUFFICES ASSUME NEW d1 \in Digits, Len(d1) = n + 1 PROVE Good(d1)
      OBVIOUS
    <2>1. PICK e \in Digits, x \in 0..(Base - 1) : Len(e) = n /\ d1 = Append(e, x)
      BY SplitLast
    <2>2. Number(e) \in Nat /\ Number(e) < Power[n] /\ (Number(e) = 0 <=> AllZero(e))
      BY <1>2, <2>1
    <2>3. /\ Number(d1) = Number(e) * Base + x /\ Len(d1) = Len(e) + 1
          /\ d1[Len(e) + 1] = x /\ \A k \in 1..Len(e) : d1[k] = e[k]
      BY <2>1, AppendDigit
    <2>4. Power[n] \in Nat /\ Power[n + 1] = Base * Power[n]
      BY PowerDef
    <2>x. x \in Nat /\ x < Base
      BY <1>0
    <2>5. \A a, w, b, y \in Nat : a < w /\ y < b => a * b + y \in Nat /\ a * b + y < b * w
      <3> SUFFICES ASSUME NEW a \in Nat, NEW w \in Nat, NEW b \in Nat, NEW y \in Nat, a < w, y < b
                   PROVE  a * b + y \in Nat /\ a * b + y < b * w
        OBVIOUS
      <3>1. (w - 1 - a) * b >= 0
        OBVIOUS
      <3>2. QED
        BY <3>1
    <2>6. Number(d1) \in Nat /\ Number(d1) < Power[n + 1]
      <3>1. Number(e) * Base + x \in Nat /\ Number(e) * Base + x < Base * Power[n]
        BY <1>0, <2>x, <2>2, <2>4, <2>5
      <3>2. QED
        BY <2>3, <2>4, <3>1
    <2>7. Number(d1) = 0 <=> Number(e) = 0 /\ x = 0
      <3>1. \A a, b, y \in Nat : b >= 2 => (a * b + y = 0 <=> a = 0 /\ y = 0)
        OBVIOUS
      <3>2. Number(e) * Base + x = 0 <=> Number(e) = 0 /\ x = 0
        <4> DEFINE a == Number(e)
        <4>1. a \in Nat
          BY <2>2
        <4> HIDE DEF a
        <4>2. a * Base + x = 0 <=> a = 0 /\ x = 0
          BY <1>0, <2>x, <3>1, <4>1
        <4>3. QED
          BY <4>2 DEF a
      <3>3. QED
        BY <2>3, <3>2
    <2>8. AllZero(d1) <=> AllZero(e) /\ x = 0
      <3>1. DOMAIN d1 = 1..(n + 1) /\ DOMAIN e = 1..n
        BY <2>1 DEF Digits
      <3>2. 1..(n + 1) = 1..n \cup {n + 1}
        OBVIOUS
      <3>3. QED
        BY <2>1, <2>3, <3>1, <3>2 DEF AllZero
    <2>9. QED
      BY <2>2, <2>6, <2>7, <2>8
  <1>3. Nat \subseteq T
    <2> HIDE DEF T
    <2>1. QED
      BY <1>1, <1>2, NatSetInduction
  <1>4. QED
    BY <1>0, <1>3

\* What is written after p shifts p by its length.
LEMMA NumberConcat ==
    ASSUME NEW p \in Digits, NEW q \in Digits
    PROVE  p \o q \in Digits /\ Number(p \o q) = Number(p) * Power[Len(q)] + Number(q)
  <1>0. Base \in Nat /\ Number(p) \in Nat
    BY IntegerHeaderAssumption, NumberBounds
  <1> DEFINE Good(e) == p \o e \in Digits /\ Number(p \o e) = Number(p) * Power[Len(e)] + Number(e)
             T == {n \in Nat : \A e \in Digits : Len(e) = n => Good(e)}
  <1>1. 0 \in T
    <2> SUFFICES ASSUME NEW e \in Digits, Len(e) = 0 PROVE Good(e)
      OBVIOUS
    <2>1. e = <<>> /\ p \o e = p
      BY DEF Digits
    <2>2. Power[Len(e)] = 1 /\ Number(e) = 0
      BY <2>1, NumberShort, PowerDef
    <2>3. Number(p) = Number(p) * 1 + 0
      BY <1>0
    <2>4. QED
      BY <2>1, <2>2, <2>3
  <1>2. ASSUME NEW n \in Nat, n \in T PROVE n + 1 \in T
    <2> SUFFICES ASSUME NEW d \in Digits, Len(d) = n + 1 PROVE Good(d)
      OBVIOUS
    <2>1. PICK e \in Digits, x \in 0..(Base - 1) : Len(e) = n /\ d = Append(e, x)
      BY SplitLast
    <2>2. p \o e \in Digits /\ Number(p \o e) = Number(p) * Power[n] + Number(e)
      BY <1>2, <2>1
    <2>3. p \o d = Append(p \o e, x)
      <3> DEFINE S == 0..(Base - 1)
      <3>1. p \in Seq(S) /\ e \in Seq(S) /\ x \in S
        BY DEF Digits
      <3> HIDE DEF S
      <3>2. QED
        BY <2>1, <3>1
    <2>4. p \o d \in Digits /\ Number(p \o d) = Number(p \o e) * Base + x
      BY <2>2, <2>3, AppendDigit
    <2>5. Number(d) = Number(e) * Base + x
      BY <2>1, AppendDigit
    <2>x. x \in Nat
      BY <1>0
    <2>6. Power[n] \in Nat /\ Power[n + 1] = Base * Power[n] /\ Number(e) \in Nat
      BY PowerDef, NumberBounds
    <2>7. \A a, w, b, m, y \in Nat : (a * w + m) * b + y = a * (b * w) + (m * b + y)
      OBVIOUS
    <2>8. (Number(p) * Power[n] + Number(e)) * Base + x = Number(p) * (Base * Power[n]) + (Number(e) * Base + x)
      <3> DEFINE a == Number(p)
                 w == Power[n]
                 m == Number(e)
      <3>1. a \in Nat /\ w \in Nat /\ m \in Nat
        BY <1>0, <2>6
      <3> HIDE DEF a, w, m
      <3>2. (a * w + m) * Base + x = a * (Base * w) + (m * Base + x)
        BY <1>0, <2>x, <2>7, <3>1
      <3>3. QED
        BY <3>2 DEF a, w, m
    <2>9. Number(p \o d) = Number(p) * Power[n + 1] + Number(d)
      BY <2>2, <2>4, <2>5, <2>6, <2>8, Zenon
    <2>10. QED
      BY <2>4, <2>9
  <1>3. Nat \subseteq T
    <2> HIDE DEF T
    <2>1. QED
      BY <1>1, <1>2, NatSetInduction
  <1>4. Len(q) \in Nat
    BY DigitsFacts
  <1>5. QED
    BY <1>3, <1>4

\* Digits are those up to a place and those after it.
LEMMA SplitAt ==
    ASSUME NEW d \in Digits, NEW k \in 0..Len(d)
    PROVE  /\ SubSeq(d, 1, k) \in Digits /\ Len(SubSeq(d, 1, k)) = k
           /\ SubSeq(d, k + 1, Len(d)) \in Digits /\ Len(SubSeq(d, k + 1, Len(d))) = Len(d) - k
           /\ d = SubSeq(d, 1, k) \o SubSeq(d, k + 1, Len(d))
           /\ \A i \in 1..k : SubSeq(d, 1, k)[i] = d[i]
           /\ \A i \in 1..(Len(d) - k) : SubSeq(d, k + 1, Len(d))[i] = d[k + i]
  <1> DEFINE S == 0..(Base - 1)
             p == SubSeq(d, 1, k)
             q == SubSeq(d, k + 1, Len(d))
  <1>0. d \in Seq(S) /\ Len(d) \in Nat /\ DOMAIN d = 1..Len(d) /\ \A i \in 1..Len(d) : d[i] \in S
    BY DigitsFacts DEF Digits
  <1>l. Len(d) \in Nat /\ k \in Nat /\ k <= Len(d)
    BY DigitsFacts
  <1> HIDE DEF S
  <1>1. p \in Seq(S) /\ Len(p) = k /\ \A i \in 1..k : p[i] = d[i]
    BY <1>0
  <1>2. q \in Seq(S) /\ Len(q) = Len(d) - k /\ \A i \in 1..(Len(d) - k) : q[i] = d[k + i]
    <2>1. k + 1 \in Int /\ Len(d) \in Int /\ \A i \in (k + 1)..Len(d) : d[i] \in S
      BY <1>0
    <2>2. /\ q \in Seq(S) /\ Len(q) = IF k + 1 <= Len(d) THEN Len(d) - (k + 1) + 1 ELSE 0
          /\ \A i \in 1..(Len(d) - (k + 1) + 1) : q[i] = d[(k + 1) + i - 1]
      BY <2>1, SubSeqProperties
    <2> HIDE DEF q
    <2>3. (IF k + 1 <= Len(d) THEN Len(d) - (k + 1) + 1 ELSE 0) = Len(d) - k
      BY <1>l
    <2>4. Len(d) - (k + 1) + 1 = Len(d) - k
      BY <1>l
    <2>5. ASSUME NEW i \in 1..(Len(d) - k) PROVE q[i] = d[k + i]
      <3>1. (k + 1) + i - 1 = k + i
        BY <1>l
      <3>2. QED
        BY <2>2, <2>4, <3>1
    <2>6. QED
      BY <2>2, <2>3, <2>5
  <1> HIDE DEF p, q
  <1>3. d = p \o q
    <2>1. /\ p \o q \in Seq(S) /\ Len(p \o q) = Len(p) + Len(q)
          /\ \A i \in 1..(Len(p) + Len(q)) : (p \o q)[i] = IF i <= Len(p) THEN p[i] ELSE q[i - Len(p)]
      BY <1>1, <1>2, ConcatProperties
    <2>2. Len(p) + Len(q) = Len(d)
      BY <1>0, <1>1, <1>2
    <2>3. ASSUME NEW i \in 1..Len(d) PROVE (p \o q)[i] = d[i]
      <3>1. CASE i <= k
        BY <1>0, <1>1, <2>1, <2>2, <3>1
      <3>2. CASE i > k
        <4>1. i - k \in 1..(Len(d) - k) /\ k + (i - k) = i
          BY <1>0, <3>2
        <4>2. (p \o q)[i] = q[i - k]
          BY <1>0, <1>1, <2>1, <2>2, <3>2
        <4>3. QED
          BY <1>2, <4>1, <4>2
      <3>3. i <= k \/ i > k
        BY <1>l
      <3>4. QED
        BY <3>1, <3>2, <3>3
    <2>4. QED
      BY <1>0, <2>1, <2>2, <2>3, SeqEqual
  <1>4. QED
    BY <1>1, <1>2, <1>3 DEF p, q, S, Digits

\* Without leading zeros a number with n digits is at least the power below.
LEMMA LeadingDigit ==
    ASSUME NEW d \in Digits, d # <<>>, d[1] # 0
    PROVE  Number(d) >= Power[Len(d) - 1]
  <1> DEFINE p == SubSeq(d, 1, 1)
             q == SubSeq(d, 2, Len(d))
  <1>0. Len(d) \in Nat /\ 1 \in 1..Len(d) /\ d[1] \in 0..(Base - 1)
    <2>1. Len(d) \in Nat /\ \A i \in 1..Len(d) : d[i] \in 0..(Base - 1)
      BY DigitsFacts
    <2>2. Len(d) # 0
      BY DEF Digits
    <2>3. QED
      BY <2>1, <2>2
  <1>1. /\ p \in Digits /\ Len(p) = 1 /\ p[1] = d[1] /\ q \in Digits /\ Len(q) = Len(d) - 1 /\ d = p \o q
    <2>1. 1 \in 0..Len(d) /\ 1 + 1 = 2 /\ 1 \in 1..1
      BY <1>0
    <2>2. QED
      <3>1. /\ SubSeq(d, 1, 1) \in Digits /\ Len(SubSeq(d, 1, 1)) = 1
            /\ SubSeq(d, 1 + 1, Len(d)) \in Digits /\ Len(SubSeq(d, 1 + 1, Len(d))) = Len(d) - 1
            /\ d = SubSeq(d, 1, 1) \o SubSeq(d, 1 + 1, Len(d))
            /\ \A i \in 1..1 : SubSeq(d, 1, 1)[i] = d[i]
        BY <2>1, SplitAt
      <3>2. QED
        BY <2>1, <3>1
  <1> HIDE DEF p, q
  <1>2. p = <<d[1]>>
    BY <1>1 DEF Digits
  <1>3. Number(d) = d[1] * Power[Len(d) - 1] + Number(q)
    <2>1. Number(p) = d[1]
      BY <1>0, <1>2, NumberShort
    <2>2. QED
      BY <1>1, <2>1, NumberConcat
  <1>4. Number(q) \in Nat /\ Power[Len(d) - 1] \in Nat /\ d[1] \in Nat /\ d[1] >= 1
    <2>1. Len(d) - 1 \in Nat /\ Base \in Nat
      BY <1>0, IntegerHeaderAssumption
    <2>2. Number(q) \in Nat
      BY <1>1, NumberBounds
    <2>3. Power[Len(d) - 1] \in Nat
      BY <2>1, PowerDef
    <2>4. QED
      BY <1>0, <2>1, <2>2, <2>3
  <1>5. \A a, w, m \in Nat : a >= 1 => a * w + m >= w
    OBVIOUS
  <1>6. d[1] * Power[Len(d) - 1] + Number(q) >= Power[Len(d) - 1]
    BY <1>4, <1>5
  <1>7. QED
    BY <1>3, <1>6

\* Trimming leaves the number, and a first digit that is not 0 unless all are.
LEMMA TrimFacts ==
    ASSUME NEW d \in Digits
    PROVE  /\ Trim(d) \in Digits /\ Number(Trim(d)) = Number(d)
           /\ Trim(d) # <<>> => Trim(d)[1] # 0
  <1> DEFINE nonzero == {i \in DOMAIN d : d[i] # 0}
  <1>0. Len(d) \in Nat /\ DOMAIN d = 1..Len(d)
    BY DigitsFacts
  <1>1. CASE nonzero = {}
    <2>1. Trim(d) = <<>> /\ AllZero(d)
      BY <1>1 DEF Trim, AllZero
    <2>2. QED
      BY <2>1, NumberBounds, NumberShort
  <1>2. CASE nonzero # {}
    <2>1. \E i \in nonzero : \A j \in nonzero : i <= j
      <3>1. nonzero \subseteq 1..Len(d)
        BY <1>0
      <3> HIDE DEF nonzero
      <3>2. QED
        BY <1>0, <1>2, <3>1, FirstAndLast
    <2>2. PICK i \in nonzero : (\A j \in nonzero : i <= j) /\ Trim(d) = SubSeq(d, i, Len(d))
      BY <1>2, <2>1 DEF Trim
    <2>3. i \in 1..Len(d) /\ d[i] # 0 /\ i - 1 \in 0..Len(d) /\ (i - 1) + 1 = i
      BY <1>0
    <2> DEFINE p == SubSeq(d, 1, i - 1)
    <2>4. /\ p \in Digits /\ Len(p) = i - 1 /\ \A k \in 1..(i - 1) : p[k] = d[k]
          /\ Trim(d) \in Digits /\ Len(Trim(d)) = Len(d) - (i - 1) /\ d = p \o Trim(d)
          /\ \A k \in 1..(Len(d) - (i - 1)) : Trim(d)[k] = d[(i - 1) + k]
      <3> DEFINE k0 == i - 1
      <3>0. k0 \in 0..Len(d) /\ k0 + 1 = i
        BY <2>3
      <3> HIDE DEF k0
      <3>1. /\ SubSeq(d, 1, k0) \in Digits /\ Len(SubSeq(d, 1, k0)) = k0
            /\ SubSeq(d, k0 + 1, Len(d)) \in Digits /\ Len(SubSeq(d, k0 + 1, Len(d))) = Len(d) - k0
            /\ d = SubSeq(d, 1, k0) \o SubSeq(d, k0 + 1, Len(d))
            /\ \A k \in 1..k0 : SubSeq(d, 1, k0)[k] = d[k]
            /\ \A k \in 1..(Len(d) - k0) : SubSeq(d, k0 + 1, Len(d))[k] = d[k0 + k]
        BY <3>0, SplitAt
      <3>2. Trim(d) = SubSeq(d, k0 + 1, Len(d))
        BY <2>2, <3>0
      <3>3. QED
        BY <3>1, <3>2 DEF k0
    <2> HIDE DEF p
    <2>5. AllZero(p)
      <3>1. \A k \in 1..(i - 1) : k \in DOMAIN d /\ k < i
        BY <1>0, <2>3
      <3>2. \A k \in 1..(i - 1) : d[k] = 0
        BY <2>2, <3>1
      <3>3. DOMAIN p = 1..(i - 1)
        BY <2>4, DigitsFacts
      <3>4. QED
        BY <2>4, <3>2, <3>3 DEF AllZero
    <2>6. Number(p) = 0
      BY <2>4, <2>5, NumberBounds
    <2>7. Number(d) = 0 * Power[Len(Trim(d))] + Number(Trim(d))
      <3>1. Number(p \o Trim(d)) = Number(p) * Power[Len(Trim(d))] + Number(Trim(d))
        BY <2>4, NumberConcat
      <3>2. QED
        BY <2>4, <2>6, <3>1, Zenon
    <2>8. Power[Len(Trim(d))] \in Nat /\ Number(Trim(d)) \in Nat
      <3>1. Len(Trim(d)) \in Nat
        BY <2>4, DigitsFacts
      <3>2. QED
        BY <2>4, <3>1, PowerDef, NumberBounds
    <2>9. Number(d) = Number(Trim(d))
      BY <2>7, <2>8
    <2>10. Trim(d)[1] = d[i]
      <3>1. 1 \in 1..(Len(d) - (i - 1)) /\ (i - 1) + 1 = i
        BY <1>0, <2>3
      <3>2. QED
        BY <2>4, <3>1
    <2>11. QED
      BY <2>3, <2>4, <2>9, <2>10
  <1>3. QED
    BY <1>1, <1>2

Sign(t) == IF t.sign = "-" THEN -1 ELSE 1

\* The parts of a text.
LEMMA TextFields ==
    ASSUME NEW t \in HeaderText
    PROVE  /\ t.whole \in Digits /\ t.fraction \in Digits /\ t.whole \o t.fraction \in Digits
           /\ t.exponent \in Int /\ Scale(t) \in Int /\ Sign(t) \in {-1, 1}
  <1>1. t.whole \in Digits /\ t.fraction \in Digits /\ t.exponent \in Int
    BY DEF HeaderText, Digits
  <1>2. t.whole \o t.fraction \in Digits
    BY <1>1, NumberConcat
  <1>3. Len(t.fraction) \in Nat
    BY <1>1, DigitsFacts
  <1>4. Scale(t) \in Int
    BY <1>1, <1>3 DEF Scale
  <1>5. QED
    BY <1>1, <1>2, <1>4 DEF Sign

\* A text that denotes one number, and a safe one, and a text that denotes none.
LEMMA DenotedIs ==
    ASSUME NEW t
    PROVE  /\ \A v \in SafeInteger : (\A w \in Int : Denotes(t, w) <=> w = v) => Denoted(t) = v
           /\ (\A w \in SafeInteger : ~Denotes(t, w)) => Denoted(t) = NoInteger
  <1>0. SafeInteger \subseteq Int
    BY IntegerHeaderAssumption DEF SafeInteger
  <1>1. ASSUME NEW v \in SafeInteger, \A w \in Int : Denotes(t, w) <=> w = v PROVE Denoted(t) = v
    <2>1. {w \in SafeInteger : Denotes(t, w)} = {v}
      BY <1>0, <1>1
    <2>2. QED
      BY <2>1 DEF Denoted
  <1>2. ASSUME \A w \in SafeInteger : ~Denotes(t, w) PROVE Denoted(t) = NoInteger
    <2>1. {w \in SafeInteger : Denotes(t, w)} = {}
      BY <1>2
    <2>2. QED
      BY <2>1 DEF Denoted
  <1>3. QED
    BY <1>1, <1>2

\* What an integer times p can be: a multiple of p, without remainder.
LEMMA WholeQuotient ==
    ASSUME NEW p \in Nat, NEW m \in Nat, NEW r \in Nat, r < p, NEW s \in {-1, 1}, NEW w \in Int
    PROVE  w * p = s * (m * p + r) <=> r = 0 /\ w = s * m
  <1>1. ASSUME r = 0, w = s * m PROVE w * p = s * (m * p + r)
    BY <1>1
  <1>2. ASSUME w * p = s * (m * p + r) PROVE r = 0 /\ w = s * m
    <2> DEFINE x == s * w - m
    <2>1. x \in Int /\ x * p = r
      <3>1. CASE s = 1
        BY <1>2, <3>1
      <3>2. CASE s = -1
        BY <1>2, <3>2
      <3>3. QED
        BY <3>1, <3>2
    <2> HIDE DEF x
    <2>2. x = 0
      <3>1. \A y \in Int : y >= 1 => y * p >= p
        OBVIOUS
      <3>2. \A y \in Int : y <= -1 => y * p <= -p
        OBVIOUS
      <3>3. ~(x >= 1)
        BY <2>1, <3>1
      <3>4. ~(x <= -1)
        BY <2>1, <3>2
      <3>5. QED
        BY <2>1, <3>3, <3>4
    <2>3. r = 0
      BY <2>1, <2>2
    <2>4. w = s * m
      <3>1. CASE s = 1
        BY <2>2, <3>1 DEF x
      <3>2. CASE s = -1
        BY <2>2, <3>2 DEF x
      <3>3. QED
        BY <3>1, <3>2
    <2>5. QED
      BY <2>3, <2>4
  <1>3. QED
    BY <1>1, <1>2

\* The last part of the parser: digits without leading zeros and the zeros the
\* exponent adds are refused exactly if the number is not a safe one, on their
\* count alone if that is enough.
LEMMA KeptDigits ==
    ASSUME NEW t \in HeaderText, NEW kept \in Digits, kept # <<>> => kept[1] # 0, NEW trailing \in Nat,
           \A w \in Int : Denotes(t, w) <=> w = Sign(t) * Number(kept) * Power[trailing]
    PROVE  Denoted(t) = IF kept = <<>> THEN 0
                        ELSE IF Len(kept) + trailing > SafeLength THEN NoInteger
                        ELSE IF Number(kept) * Power[trailing] > MaxSafe THEN NoInteger
                        ELSE Sign(t) * Number(kept) * Power[trailing]
  <1> DEFINE m == Number(kept)
             p == Power[trailing]
             s == Sign(t)
  <1>0. /\ m \in Nat /\ p \in Nat /\ s \in {-1, 1} /\ MaxSafe \in Nat /\ SafeLength \in Nat
        /\ Len(kept) \in Nat
    BY NumberBounds, PowerDef, TextFields, SafeLengthIs, IntegerHeaderAssumption, DigitsFacts
  <1>m. m * p \in Nat
    <2> HIDE DEF m, p
    <2>1. QED
      BY <1>0, Products
  <1>1. ASSUME m * p <= MaxSafe PROVE Denoted(t) = s * m * p
    <2>1. s * m * p \in SafeInteger
      <3> HIDE DEF m, p, s
      <3>1. s * m * p = m * p \/ s * m * p = -(m * p)
        BY <1>0
      <3>2. QED
        BY <1>0, <1>1, <1>m, <3>1 DEF SafeInteger
    <2>2. QED
      BY <2>1, DenotedIs
  <1>2. ASSUME m * p > MaxSafe PROVE Denoted(t) = NoInteger
    <2>1. s * m * p \notin SafeInteger
      <3> HIDE DEF m, p, s
      <3>1. s * m * p = m * p \/ s * m * p = -(m * p)
        BY <1>0
      <3>2. QED
        BY <1>0, <1>2, <1>m, <3>1 DEF SafeInteger
    <2>2. \A w \in SafeInteger : w \in Int
      BY <1>0 DEF SafeInteger
    <2>3. \A w \in SafeInteger : ~Denotes(t, w)
      BY <2>1, <2>2
    <2>4. QED
      BY <2>3, DenotedIs
  <1>3. CASE kept = <<>>
    <2>1. m = 0
      BY <1>3, NumberShort
    <2> HIDE DEF m, p, s
    <2>2. m * p = 0 /\ s * m * p = 0
      BY <1>0, <2>1
    <2>3. QED
      BY <1>0, <1>1, <1>3, <2>2
  <1>4. ASSUME kept # <<>>, Len(kept) + trailing > SafeLength PROVE m * p > MaxSafe
    <2>1. Len(kept) - 1 \in Nat /\ Len(kept) - 1 + trailing \in Nat /\ SafeLength <= Len(kept) - 1 + trailing
      <3>1. Len(kept) # 0
        BY <1>4 DEF Digits
      <3>2. QED
        BY <1>0, <1>4, <3>1
    <2>2. m >= Power[Len(kept) - 1] /\ Power[Len(kept) - 1] \in Nat
      BY <1>4, <2>1, LeadingDigit, PowerDef
    <2>3. Power[Len(kept) - 1 + trailing] = Power[Len(kept) - 1] * p
      BY <2>1, PowerFacts
    <2>4. Power[SafeLength] <= Power[Len(kept) - 1 + trailing] /\ MaxSafe < Power[SafeLength]
      BY <1>0, <2>1, PowerFacts, SafeLengthIs
    <2>5. Power[SafeLength] \in Nat /\ Power[Len(kept) - 1 + trailing] \in Nat
      BY <1>0, <2>1, PowerDef
    <2>6. Power[Len(kept) - 1] * p <= m * p
      <3> HIDE DEF m, p
      <3>1. QED
        BY <1>0, <2>2, Products
    <2> HIDE DEF m, p
    <2>7. QED
      BY <1>0, <1>m, <2>3, <2>4, <2>5, <2>6
  <1>5. QED
    <2> HIDE DEF m, p, s
    <2>1. m * p > MaxSafe \/ m * p <= MaxSafe
      BY <1>0, <1>m
    <2>2. CASE kept # <<>>
      <3>1. Denoted(t) = IF Len(kept) + trailing > SafeLength THEN NoInteger
                         ELSE IF m * p > MaxSafe THEN NoInteger ELSE s * m * p
        BY <1>1, <1>2, <1>4, <2>1, <2>2
      <3>2. QED
        BY <2>2, <3>1 DEF m, p, s
    <2>3. QED
      BY <1>3, <2>2

\* The two cases of a text that is well-formed: with a positive scale the last
\* digits are dropped, and must be zeros; otherwise zeros are added.
LEMMA ParsePositiveScale ==
    ASSUME NEW t \in HeaderText, WellFormed(t), Fits(t), Scale(t) > 0
    PROVE  ParseInteger(t) = Denoted(t)
  <1> DEFINE d == t.whole \o t.fraction
             n == Scale(t)
             end == Len(d) - n
  <1>0. /\ d \in Digits /\ Len(d) \in Nat /\ n \in Nat /\ n > 0 /\ Power[n] \in Nat /\ Sign(t) \in {-1, 1}
        /\ Number(d) \in Nat /\ 0 \in SafeInteger /\ Power[0] = 1
    <2>1. d \in Digits /\ n \in Nat /\ Sign(t) \in {-1, 1}
      BY TextFields
    <2>2. 0 \in SafeInteger
      BY IntegerHeaderAssumption DEF SafeInteger
    <2>3. QED
      BY <2>1, <2>2, DigitsFacts, NumberBounds, PowerDef
  <1>1. \A w : Denotes(t, w) <=> w * Power[n] = Sign(t) * Number(d)
    BY DEF Denotes, Sign
  <1>2. ASSUME NEW m \in Nat, NEW r \in Nat, r < Power[n], Number(d) = m * Power[n] + r, NEW w \in Int
        PROVE  Denotes(t, w) <=> r = 0 /\ w = Sign(t) * m
    <2>1. w * Power[n] = Sign(t) * (m * Power[n] + r) <=> r = 0 /\ w = Sign(t) * m
      <3> DEFINE x == Power[n]
                 s == Sign(t)
      <3>1. x \in Nat /\ s \in {-1, 1} /\ r < x
        BY <1>0, <1>2
      <3> HIDE DEF x, s
      <3>2. w * x = s * (m * x + r) <=> r = 0 /\ w = s * m
        BY <3>1, WholeQuotient
      <3>3. QED
        BY <3>2 DEF x, s
    <2>2. QED
      BY <1>1, <1>2, <2>1
  <1>3. CASE end < 0
    <2>1. ParseInteger(t) = IF AllZero(d) THEN 0 ELSE NoInteger
      BY <1>3 DEF ParseInteger
    <2>2. Number(d) < Power[n]
      <3> HIDE DEF d, n
      <3>1. Len(d) <= n
        BY <1>0, <1>3
      <3>2. Number(d) < Power[Len(d)] /\ Power[Len(d)] <= Power[n] /\ Power[Len(d)] \in Nat
        BY <1>0, <3>1, NumberBounds, PowerFacts
      <3>3. QED
        BY <1>0, <3>2
    <2>3. \A w \in Int : Denotes(t, w) <=> Number(d) = 0 /\ w = 0
      <3>1. 0 \in Nat /\ Number(d) = 0 * Power[n] + Number(d)
        BY <1>0
      <3>2. Sign(t) * 0 = 0
        BY <1>0
      <3>3. ASSUME NEW w \in Int PROVE Denotes(t, w) <=> Number(d) = 0 /\ w = Sign(t) * 0
        BY <1>0, <1>2, <2>2, <3>1
      <3>4. QED
        BY <3>2, <3>3
    <2>4. Number(d) = 0 <=> AllZero(d)
      BY <1>0, NumberBounds
    <2>5. CASE AllZero(d)
      BY <1>0, <2>1, <2>3, <2>4, <2>5, DenotedIs
    <2>6. CASE ~AllZero(d)
      <3>1. SafeInteger \subseteq Int
        BY IntegerHeaderAssumption DEF SafeInteger
      <3>2. QED
        BY <2>1, <2>3, <2>4, <2>6, <3>1, DenotedIs
    <2>7. QED
      BY <2>5, <2>6
  <1>4. CASE end >= 0
    <2> DEFINE p == SubSeq(d, 1, end)
               q == SubSeq(d, end + 1, Len(d))
               kept == Trim(p)
    <2>1. p \in Digits /\ q \in Digits /\ Len(q) = n /\ d = p \o q
      <3> HIDE DEF d, n
      <3>1. end \in 0..Len(d) /\ Len(d) - end = n
        BY <1>0, <1>4
      <3> HIDE DEF end
      <3>2. QED
        BY <1>0, <3>1, SplitAt
    <2>2. Number(d) = Number(p) * Power[n] + Number(q)
      <3>1. Number(p \o q) = Number(p) * Power[Len(q)] + Number(q)
        BY <2>1, NumberConcat
      <3>2. QED
        BY <2>1, <3>1, Zenon
    <2>3. /\ Number(p) \in Nat /\ Number(q) \in Nat /\ Number(q) < Power[n] /\ (Number(q) = 0 <=> AllZero(q))
      <3> HIDE DEF p, q, d, n
      <3>1. QED
        BY <2>1, NumberBounds
    <2>4. \A w \in Int : Denotes(t, w) <=> AllZero(q) /\ w = Sign(t) * Number(p)
      <3> HIDE DEF p, q, d, n, end
      <3>1. QED
        BY <1>2, <2>2, <2>3
    <2>5. ParseInteger(t) = IF ~AllZero(q) THEN NoInteger
                            ELSE IF kept = <<>> THEN 0
                            ELSE IF Len(kept) + 0 > SafeLength THEN NoInteger
                            ELSE IF Number(kept) * Power[0] > MaxSafe THEN NoInteger
                            ELSE Sign(t) * Number(kept) * Power[0]
      <3>1. ~(end < 0)
        <4> HIDE DEF d, n
        <4>1. QED
          BY <1>0, <1>4
      <3>2. QED
        BY <3>1 DEF ParseInteger, Sign
    <2>6. kept \in Digits /\ Number(kept) = Number(p) /\ (kept # <<>> => kept[1] # 0)
      <3> HIDE DEF p
      <3>1. QED
        BY <2>1, TrimFacts
    <2> HIDE DEF p, q, d, n, end, kept
    <2>7. CASE AllZero(q)
      <3>1. Sign(t) * Number(p) = Sign(t) * Number(kept) * Power[0]
        BY <1>0, <2>3, <2>6
      <3>2. \A w \in Int : Denotes(t, w) <=> w = Sign(t) * Number(kept) * Power[0]
        BY <2>4, <2>7, <3>1
      <3>3. 0 \in Nat
        OBVIOUS
      <3>4. Denoted(t) = IF kept = <<>> THEN 0
                         ELSE IF Len(kept) + 0 > SafeLength THEN NoInteger
                         ELSE IF Number(kept) * Power[0] > MaxSafe THEN NoInteger
                         ELSE Sign(t) * Number(kept) * Power[0]
        BY <2>6, <3>2, <3>3, KeptDigits
      <3>5. QED
        BY <2>5, <2>7, <3>4
    <2>8. CASE ~AllZero(q)
      <3>1. SafeInteger \subseteq Int
        BY IntegerHeaderAssumption DEF SafeInteger
      <3>2. QED
        BY <2>4, <2>5, <2>8, <3>1, DenotedIs
    <2>9. QED
      BY <2>7, <2>8
  <1>5. QED
    <2> HIDE DEF d, n
    <2>1. end < 0 \/ end >= 0
      BY <1>0
    <2>2. QED
      BY <1>3, <1>4, <2>1

\* Without a positive scale the number is the digits' with zeros after them.
LEMMA ParseOtherScale ==
    ASSUME NEW t \in HeaderText, WellFormed(t), Fits(t), ~(Scale(t) > 0)
    PROVE  ParseInteger(t) = Denoted(t)
  <1> DEFINE d == t.whole \o t.fraction
             n == -Scale(t)
             kept == Trim(d)
  <1>0. d \in Digits /\ Len(d) \in Nat /\ n \in Nat /\ Scale(t) \in Int
    <2>1. d \in Digits /\ n \in Nat /\ Scale(t) \in Int
      BY TextFields
    <2>2. QED
      BY <2>1, DigitsFacts
  <1>1. \A w : Denotes(t, w) <=> w = Sign(t) * Number(d) * Power[n]
    BY DEF Denotes, Sign
  <1>2. SubSeq(d, 1, Len(d)) = d
    <2> DEFINE S == 0..(Base - 1)
    <2>1. d \in Seq(S)
      BY <1>0 DEF Digits
    <2> HIDE DEF d, S
    <2>2. QED
      BY <2>1
  <1>3. ParseInteger(t) = IF kept = <<>> THEN 0
                          ELSE IF Len(kept) + n > SafeLength THEN NoInteger
                          ELSE IF Number(kept) * Power[n] > MaxSafe THEN NoInteger
                          ELSE Sign(t) * Number(kept) * Power[n]
    <2>1. ~(Len(d) - Scale(t) < 0)
      <3> HIDE DEF d
      <3>1. QED
        BY <1>0
    <2>2. QED
      BY <1>2, <2>1 DEF ParseInteger, Sign
  <1>4. kept \in Digits /\ Number(kept) = Number(d) /\ (kept # <<>> => kept[1] # 0)
    <2> HIDE DEF d
    <2>1. QED
      BY <1>0, TrimFacts
  <1> HIDE DEF d, n, kept
  <1>5. \A w \in Int : Denotes(t, w) <=> w = Sign(t) * Number(kept) * Power[n]
    BY <1>1, <1>4
  <1>6. QED
    BY <1>0, <1>3, <1>4, <1>5, KeptDigits

\* The parser is exact: the safe integer that a text denotes, if it denotes one
\* and its exponent and scale are i64s, and none otherwise, for every number of
\* digits, leading zeros and decimals (parse_integer_header_value).
THEOREM ParserExact ==
    \A t \in HeaderText : ParseInteger(t) = IF Fits(t) THEN Denoted(t) ELSE NoInteger
  <1> SUFFICES ASSUME NEW t \in HeaderText
               PROVE  ParseInteger(t) = IF Fits(t) THEN Denoted(t) ELSE NoInteger
    OBVIOUS
  <1>1. CASE WellFormed(t) /\ Fits(t)
    BY <1>1, ParsePositiveScale, ParseOtherScale
  <1>2. CASE ~Fits(t)
    BY <1>2 DEF ParseInteger
  <1>3. CASE ~WellFormed(t)
    <2>1. ParseInteger(t) = NoInteger
      BY <1>3 DEF ParseInteger
    <2>2. \A w : ~Denotes(t, w)
      BY <1>3 DEF Denotes
    <2>3. Denoted(t) = NoInteger
      BY <2>2, DenotedIs
    <2>4. QED
      BY <2>1, <2>3
  <1>4. QED
    BY <1>1, <1>2, <1>3

-----------------------------------------------------------------------------
(* The headers of a backend's connection *)

\* The positions of a name in a header map.
At(d, n) == {i \in DOMAIN d : d[i][1] = n}

\* get() and extend() give one of a name's values, or none if it has none.
LEMMA ValuesOf ==
    ASSUME NEW d \in HeaderMap, NEW n
    PROVE  /\ At(d, n) = {} => FirstOf(d, n) = None /\ LastOf(d, n) = None
           /\ At(d, n) # {} => \E i \in At(d, n) : FirstOf(d, n) = d[i][2]
           /\ At(d, n) # {} => \E i \in At(d, n) : LastOf(d, n) = d[i][2]
           /\ FirstOf(d, n) \in Value \cup {None}
           /\ LastOf(d, n) \in Value \cup {None}
  <1>0. Len(d) \in Nat /\ DOMAIN d = 1..Len(d) /\ \A i \in DOMAIN d : d[i] \in Name \X Value
    BY DEF HeaderMap
  <1>1. At(d, n) # {} => /\ \E i \in At(d, n) : \A j \in At(d, n) : i <= j
                         /\ \E i \in At(d, n) : \A j \in At(d, n) : j <= i
    BY <1>0, FirstAndLast DEF At
  <1>2. At(d, n) # {} => \E i \in At(d, n) : FirstOf(d, n) = d[i][2]
    BY <1>1 DEF FirstOf, At
  <1>3. At(d, n) # {} => \E i \in At(d, n) : LastOf(d, n) = d[i][2]
    BY <1>1 DEF LastOf, At
  <1>4. At(d, n) = {} => FirstOf(d, n) = None /\ LastOf(d, n) = None
    BY DEF FirstOf, LastOf, At
  <1>5. \A i \in At(d, n) : d[i][2] \in Value
    BY <1>0 DEF At
  <1>6. QED
    BY <1>2, <1>3, <1>4, <1>5

\* What a configuration names and may change is a free name.
LEMMA ConfigurableFree ==
    ASSUME NEW s \in Spelling
    PROVE  /\ Configurable(s) => NameOf[s] \in Free
           /\ NameOf[s] \in Free => Configurable(s)
  BY ForwardingAssumption DEF Configurable, Protected, Name

\* The fields of a backend's configuration.
LEMMA ConfigFields ==
    ASSUME backend \in BackendConfig
    PROVE  /\ backend.authority \in Value \cup {Bad, None}
           /\ backend.passthrough \in Seq(Spelling)
           /\ backend.remove \in Seq(Spelling)
           /\ backend.added \in [Spelling -> Value \cup {Bad, None}]
  BY DEF BackendConfig

\* Taking the head off a list leaves what the rest of it names.
LEMMA ListedHead ==
    ASSUME NEW list \in Seq(Spelling), list # <<>>, NEW n
    PROVE  /\ Head(list) \in Spelling /\ Tail(list) \in Seq(Spelling)
           /\ Listed(list, n) <=> NameOf[Head(list)] = n \/ Listed(Tail(list), n)
  <1>1. /\ Head(list) = list[1] /\ Head(list) \in Spelling
        /\ Tail(list) \in Seq(Spelling)
        /\ Len(list) \in Nat \ {0} /\ DOMAIN list = 1..Len(list)
        /\ DOMAIN Tail(list) = 1..(Len(list) - 1)
        /\ \A i \in 1..(Len(list) - 1) : Tail(list)[i] = list[i + 1]
    OBVIOUS
  <1>2. ASSUME Listed(list, n) PROVE NameOf[Head(list)] = n \/ Listed(Tail(list), n)
    <2>1. PICK i \in 1..Len(list) : NameOf[list[i]] = n
      BY <1>1, <1>2 DEF Listed
    <2>2. CASE i = 1
      BY <1>1, <2>1, <2>2
    <2>3. CASE i # 1
      <3>1. i - 1 \in 1..(Len(list) - 1) /\ Tail(list)[i - 1] = list[i]
        BY <1>1, <2>3
      <3>2. QED
        BY <1>1, <2>1, <3>1 DEF Listed
    <2>4. QED
      BY <2>2, <2>3
  <1>3. NameOf[Head(list)] = n => Listed(list, n)
    BY <1>1 DEF Listed
  <1>4. ASSUME Listed(Tail(list), n) PROVE Listed(list, n)
    <2>1. PICK i \in 1..(Len(list) - 1) : NameOf[Tail(list)[i]] = n
      BY <1>1, <1>4 DEF Listed
    <2>2. i + 1 \in 1..Len(list) /\ NameOf[list[i + 1]] = n
      BY <1>1, <2>1
    <2>3. QED
      BY <1>1, <2>2 DEF Listed
  <1>5. QED
    BY <1>1, <1>2, <1>3, <1>4

\* The gateway's own value of Host.
Authority == IF backend.authority = Bad THEN None ELSE backend.authority

\* The protected names, phase by phase.
ProtectedInv ==
    phase # "idle" =>
        /\ headers[Host] = Authority
        /\ phase # "passthrough" => \A n \in Param : headers[n] = LastOf(downstream, n)
        /\ \A n \in Reserved : headers[n] = None

\* What passthrough leaves of a free name, and the values added for it.
PassedOn(n) == IF Listed(backend.passthrough, n) THEN FirstOf(downstream, n) ELSE None
Added(n) == {backend.added[s] : s \in {t \in Spelling : NameOf[t] = n}} \ {None, Bad}

\* The free names, phase by phase: what is still to do for a name, and what its
\* value is otherwise.
FreeInv ==
    \A n \in Free :
        /\ phase = "passthrough" =>
              /\ Listed(todo, n) => Listed(backend.passthrough, n)
              /\ headers[n] = PassedOn(n) \/ (Listed(todo, n) /\ headers[n] = None)
        /\ phase = "add" =>
              \/ headers[n] \in Added(n)
              \/ /\ headers[n] = PassedOn(n)
                 /\ \A s \in Spelling : NameOf[s] = n /\ backend.added[s] \notin {None, Bad} => s \in toAdd
        /\ phase = "remove" =>
              /\ Listed(todo, n) => Listed(backend.remove, n)
              /\ \/ Listed(backend.remove, n) /\ headers[n] = None
                 \/ /\ Listed(backend.remove, n) => Listed(todo, n)
                    /\ headers[n] \in IF Added(n) # {} THEN Added(n) ELSE {PassedOn(n)}

\* What is left to add is there to add.
AddInv == phase = "add" => \A s \in toAdd : backend.added[s] # None

\* Inductive: the protected names are left alone by what the configuration
\* names, and of a free name each phase knows what is left to do.
ForwardingInv ==
    /\ ForwardingTypeOK
    /\ ProtectedInv
    /\ FreeInv
    /\ AddInv
    /\ ConfigurationDecides

\* No phase leaves the protected names to the configuration, and each does its
\* part for the free ones (apply_header_config, inject_current_context).
LEMMA ApplyHeadersInv ==
    ASSUME ForwardingInv, ApplyHeaders
    PROVE  ForwardingInv'
  <1>0. /\ ForwardingTypeOK
        /\ headers \in [Name -> Value \cup {Span, None}]
        /\ backend \in BackendConfig /\ downstream \in HeaderMap
        /\ todo \in Seq(Spelling) /\ toAdd \subseteq Spelling
    BY DEF ForwardingInv, ForwardingTypeOK
  <1>c. /\ backend.authority \in Value \cup {Bad, None}
        /\ backend.passthrough \in Seq(Spelling)
        /\ backend.remove \in Seq(Spelling)
        /\ backend.added \in [Spelling -> Value \cup {Bad, None}]
    BY <1>0, ConfigFields
  <1>d. backend' = backend /\ downstream' = downstream
    BY DEF ApplyHeaders, Begin, Passthrough, ForwardParams, AddHeader, EndAdd, RemoveHeader, InjectContext
  <1>e. /\ Authority' = Authority
        /\ \A n : PassedOn(n)' = PassedOn(n) /\ Added(n)' = Added(n) /\ Configured(n)' = Configured(n)
    BY <1>d DEF Authority, PassedOn, Added, Configured, FirstOf, Listed
  <1>n. /\ Host \in Name /\ Param \subseteq Name /\ Reserved \subseteq Name /\ Free \subseteq Name
        /\ Free \cap ({Host} \cup Param \cup Reserved) = {}
        /\ Param \cap Reserved = {} /\ Host \notin Param \cup Reserved
        /\ Trace \subseteq Free
    BY ForwardingAssumption DEF Name
  <1>1. CASE Begin
    <2>1. /\ phase' = "passthrough" /\ todo' = backend.passthrough /\ toAdd' = toAdd
          /\ headers' = [Empty EXCEPT ![Host] = Authority]
      BY <1>1 DEF Begin, Authority
    <2>2. /\ headers' \in [Name -> Value \cup {Span, None}]
          /\ headers'[Host] = Authority
          /\ \A n \in Name \ {Host} : headers'[n] = None
      BY <1>c, <1>n, <2>1 DEF Empty, Authority
    <2>3. ForwardingTypeOK'
      BY <1>0, <1>c, <1>d, <2>1, <2>2 DEF ForwardingTypeOK
    <2>4. ProtectedInv'
      BY <1>e, <1>n, <2>1, <2>2 DEF ProtectedInv
    <2>5. FreeInv'
      <3>1. \A n \in Free : headers'[n] = None
        BY <1>n, <2>2
      <3>2. QED
        BY <1>d, <1>e, <2>1, <3>1 DEF FreeInv, PassedOn
    <2>6. QED
      BY <2>1, <2>3, <2>4, <2>5 DEF ForwardingInv, AddInv, ConfigurationDecides
  <1>2. CASE Passthrough
    <2> DEFINE s == Head(todo)
               v == IF Configurable(s) THEN FirstOf(downstream, NameOf[s]) ELSE None
    <2>1. /\ phase = "passthrough" /\ phase' = phase /\ todo # <<>> /\ todo' = Tail(todo) /\ toAdd' = toAdd
          /\ headers' = IF v # None THEN [headers EXCEPT ![NameOf[s]] = v] ELSE headers
      BY <1>2 DEF Passthrough, Insert
    <2>2. /\ s \in Spelling /\ Tail(todo) \in Seq(Spelling)
          /\ \A n : Listed(todo, n) <=> NameOf[s] = n \/ Listed(Tail(todo), n)
      BY <1>0, <2>1, ListedHead
    <2>3. v \in Value \cup {None} /\ (v # None => NameOf[s] \in Free)
      BY <1>0, <2>2, ValuesOf, ConfigurableFree
    <2> HIDE DEF v
    <2>4. /\ headers' \in [Name -> Value \cup {Span, None}]
          /\ \A n \in Name : headers'[n] = IF v # None /\ n = NameOf[s] THEN v ELSE headers[n]
      BY <1>0, <1>n, <2>1, <2>3
    <2>5. ForwardingTypeOK'
      BY <1>0, <1>d, <2>1, <2>2, <2>4 DEF ForwardingTypeOK
    <2>6. ProtectedInv'
      BY <1>e, <1>n, <2>1, <2>3, <2>4 DEF ForwardingInv, ProtectedInv
    <2>7. FreeInv'
      <3> SUFFICES ASSUME NEW n \in Free
                   PROVE  /\ Listed(Tail(todo), n) => Listed(backend.passthrough, n)
                          /\ headers'[n] = PassedOn(n) \/ (Listed(Tail(todo), n) /\ headers'[n] = None)
        BY <1>d, <1>e, <2>1 DEF FreeInv, Listed
      <3>1. /\ Listed(todo, n) => Listed(backend.passthrough, n)
            /\ headers[n] = PassedOn(n) \/ (Listed(todo, n) /\ headers[n] = None)
        BY <2>1 DEF ForwardingInv, FreeInv
      <3>2. CASE n = NameOf[s]
        <4>1. v = FirstOf(downstream, n) /\ PassedOn(n) = v
          BY <2>2, <3>1, <3>2, ConfigurableFree DEF v, PassedOn
        <4>2. headers'[n] = v
          BY <1>n, <2>4, <3>1, <3>2, <4>1
        <4>3. QED
          BY <2>2, <3>1, <4>1, <4>2
      <3>3. CASE n # NameOf[s]
        BY <1>n, <2>2, <2>4, <3>1, <3>3
      <3>4. QED
        BY <3>2, <3>3
    <2>8. QED
      BY <2>1, <2>5, <2>6, <2>7 DEF ForwardingInv, AddInv, ConfigurationDecides
  <1>3. CASE ForwardParams
    <2>1. /\ phase = "passthrough" /\ phase' = "add" /\ todo = <<>> /\ todo' = todo
          /\ toAdd' = {s \in Spelling : backend.added[s] # None}
          /\ headers' = [n \in Name |-> IF n \in Param THEN LastOf(downstream, n) ELSE headers[n]]
      BY <1>3 DEF ForwardParams
    <2>2. headers' \in [Name -> Value \cup {Span, None}]
      BY <1>0, <2>1, ValuesOf
    <2>3. ForwardingTypeOK'
      BY <1>0, <1>d, <2>1, <2>2 DEF ForwardingTypeOK
    <2>4. ProtectedInv'
      <3>1. \A n \in Param : LastOf(downstream, n)' = LastOf(downstream, n)
        BY <1>d DEF LastOf
      <3>2. QED
        BY <1>e, <1>n, <2>1, <3>1 DEF ForwardingInv, ProtectedInv
    <2>5. FreeInv'
      <3>1. \A n : ~Listed(todo, n)
        BY <2>1 DEF Listed
      <3>2. \A n \in Free : headers'[n] = PassedOn(n)
        BY <1>n, <2>1, <3>1 DEF ForwardingInv, FreeInv
      <3>3. QED
        BY <1>d, <1>e, <2>1, <3>2 DEF FreeInv
    <2>6. QED
      BY <1>d, <2>1, <2>3, <2>4, <2>5 DEF ForwardingInv, AddInv, ConfigurationDecides
  <1>4. ASSUME NEW s \in Spelling, AddHeader(s) PROVE ForwardingInv'
    <2> DEFINE adds == Configurable(s) /\ backend.added[s] # Bad
    <2>1. /\ phase = "add" /\ phase' = phase /\ todo' = todo /\ s \in toAdd /\ toAdd' = toAdd \ {s}
          /\ headers' = IF adds THEN [headers EXCEPT ![NameOf[s]] = backend.added[s]] ELSE headers
      BY <1>4 DEF AddHeader, Insert
    <2>2. /\ adds => NameOf[s] \in Free
          /\ NameOf[s] \in Free => Configurable(s)
          /\ adds => backend.added[s] \in Value \cup {None}
      BY <1>c, ConfigurableFree
    <2> HIDE DEF adds
    <2>3. /\ headers' \in [Name -> Value \cup {Span, None}]
          /\ \A n \in Name : headers'[n] = IF adds /\ n = NameOf[s] THEN backend.added[s] ELSE headers[n]
      BY <1>0, <1>n, <2>1, <2>2
    <2>4. ForwardingTypeOK'
      BY <1>0, <1>d, <2>1, <2>3 DEF ForwardingTypeOK
    <2>5. ProtectedInv'
      <3>1. \A n \in Param : LastOf(downstream, n)' = LastOf(downstream, n)
        BY <1>d DEF LastOf
      <3>2. QED
        BY <1>e, <1>n, <2>1, <2>2, <2>3, <3>1 DEF ForwardingInv, ProtectedInv
    <2>6. FreeInv'
      <3> SUFFICES ASSUME NEW n \in Free
                   PROVE  \/ headers'[n] \in Added(n)
                          \/ /\ headers'[n] = PassedOn(n)
                             /\ \A t \in Spelling : NameOf[t] = n /\ backend.added[t] \notin {None, Bad}
                                                      => t \in toAdd \ {s}
        BY <1>d, <1>e, <2>1 DEF FreeInv
      <3>1. \/ headers[n] \in Added(n)
            \/ /\ headers[n] = PassedOn(n)
               /\ \A t \in Spelling : NameOf[t] = n /\ backend.added[t] \notin {None, Bad} => t \in toAdd
        BY <2>1 DEF ForwardingInv, FreeInv
      <3>2. CASE n = NameOf[s] /\ backend.added[s] \notin {None, Bad}
        <4>1. adds /\ headers'[n] = backend.added[s]
          BY <1>n, <2>2, <2>3, <3>2 DEF adds
        <4>2. QED
          BY <3>2, <4>1 DEF Added
      <3>3. CASE n # NameOf[s]
        <4>1. headers'[n] = headers[n]
          BY <1>n, <2>3, <3>3
        <4>2. QED
          BY <3>1, <3>3, <4>1
      <3>4. CASE n = NameOf[s] /\ backend.added[s] \in {None, Bad}
        <4>1. backend.added[s] # None
          BY <2>1 DEF ForwardingInv, AddInv
        <4>2. headers'[n] = headers[n]
          BY <1>n, <2>3, <3>4, <4>1 DEF adds
        <4>3. QED
          BY <3>1, <3>4, <4>2
      <3>5. QED
        BY <3>2, <3>3, <3>4
    <2>7. QED
      BY <1>d, <2>1, <2>4, <2>5, <2>6 DEF ForwardingInv, AddInv, ConfigurationDecides
  <1>5. CASE EndAdd
    <2>1. /\ phase = "add" /\ phase' = "remove" /\ toAdd = {} /\ todo' = backend.remove
          /\ UNCHANGED <<toAdd, headers>>
      BY <1>5 DEF EndAdd
    <2>2. ForwardingTypeOK'
      BY <1>0, <1>c, <1>d, <2>1 DEF ForwardingTypeOK
    <2>3. ProtectedInv'
      <3>1. \A n \in Param : LastOf(downstream, n)' = LastOf(downstream, n)
        BY <1>d DEF LastOf
      <3>2. QED
        BY <1>e, <2>1, <3>1 DEF ForwardingInv, ProtectedInv
    <2>4. FreeInv'
      <3> SUFFICES ASSUME NEW n \in Free
                   PROVE  headers[n] \in IF Added(n) # {} THEN Added(n) ELSE {PassedOn(n)}
        BY <1>d, <1>e, <2>1 DEF FreeInv
      <3>1. \/ headers[n] \in Added(n)
            \/ /\ headers[n] = PassedOn(n)
               /\ \A t \in Spelling : NameOf[t] = n => backend.added[t] \in {None, Bad}
        BY <2>1 DEF ForwardingInv, FreeInv
      <3>2. QED
        BY <3>1 DEF Added
    <2>5. QED
      BY <2>1, <2>2, <2>3, <2>4 DEF ForwardingInv, AddInv, ConfigurationDecides
  <1>6. CASE RemoveHeader
    <2> DEFINE s == Head(todo)
    <2>1. /\ phase = "remove" /\ phase' = phase /\ todo # <<>> /\ todo' = Tail(todo) /\ toAdd' = toAdd
          /\ headers' = IF Configurable(s) THEN [headers EXCEPT ![NameOf[s]] = None] ELSE headers
      BY <1>6 DEF RemoveHeader, Insert
    <2>2. /\ s \in Spelling /\ Tail(todo) \in Seq(Spelling)
          /\ \A n : Listed(todo, n) <=> NameOf[s] = n \/ Listed(Tail(todo), n)
      BY <1>0, <2>1, ListedHead
    <2>3. Configurable(s) <=> NameOf[s] \in Free
      BY <2>2, ConfigurableFree
    <2>4. /\ headers' \in [Name -> Value \cup {Span, None}]
          /\ \A n \in Name : headers'[n] = IF NameOf[s] \in Free /\ n = NameOf[s] THEN None ELSE headers[n]
      BY <1>0, <1>n, <2>1, <2>3
    <2>5. ForwardingTypeOK'
      BY <1>0, <1>d, <2>1, <2>2, <2>4 DEF ForwardingTypeOK
    <2>6. ProtectedInv'
      <3>1. \A n \in Param : LastOf(downstream, n)' = LastOf(downstream, n)
        BY <1>d DEF LastOf
      <3>2. QED
        BY <1>e, <1>n, <2>1, <2>4, <3>1 DEF ForwardingInv, ProtectedInv
    <2>7. FreeInv'
      <3> DEFINE kept(n) == IF Added(n) # {} THEN Added(n) ELSE {PassedOn(n)}
      <3> SUFFICES ASSUME NEW n \in Free
                   PROVE  /\ Listed(Tail(todo), n) => Listed(backend.remove, n)
                          /\ \/ Listed(backend.remove, n) /\ headers'[n] = None
                             \/ /\ Listed(backend.remove, n) => Listed(Tail(todo), n)
                                /\ headers'[n] \in kept(n)
        BY <1>d, <1>e, <2>1 DEF FreeInv, Listed
      <3>1. /\ Listed(todo, n) => Listed(backend.remove, n)
            /\ \/ Listed(backend.remove, n) /\ headers[n] = None
               \/ /\ Listed(backend.remove, n) => Listed(todo, n)
                  /\ headers[n] \in kept(n)
        BY <2>1 DEF ForwardingInv, FreeInv
      <3> HIDE DEF kept
      <3>2. CASE n = NameOf[s]
        BY <1>n, <2>2, <2>4, <3>1, <3>2
      <3>3. CASE n # NameOf[s]
        BY <1>n, <2>2, <2>4, <3>1, <3>3
      <3>4. QED
        BY <3>2, <3>3
    <2>8. QED
      BY <2>1, <2>5, <2>6, <2>7 DEF ForwardingInv, AddInv, ConfigurationDecides
  <1>7. CASE InjectContext
    <2>1. PICK here \in BOOLEAN :
             headers' = [n \in Name |-> IF here /\ n \in Trace THEN Span ELSE headers[n]]
      BY <1>7 DEF InjectContext
    <2>2. phase = "remove" /\ phase' = "sent" /\ todo = <<>> /\ UNCHANGED <<todo, toAdd>>
      BY <1>7 DEF InjectContext
    <2>3. ForwardingTypeOK'
      BY <1>0, <1>d, <2>1, <2>2 DEF ForwardingTypeOK
    <2>4. ProtectedInv'
      <3>1. \A n \in Param : LastOf(downstream, n)' = LastOf(downstream, n)
        BY <1>d DEF LastOf
      <3>2. QED
        BY <1>e, <1>n, <2>1, <2>2, <3>1 DEF ForwardingInv, ProtectedInv
    <2>5. FreeInv'
      BY <2>2 DEF FreeInv
    <2>6. ConfigurationDecides'
      <3>1. \A n \in Free : headers[n] \in Configured(n)
        <4>1. \A n : ~Listed(todo, n)
          BY <2>2 DEF Listed
        <4>2. \A n \in Free :
                 \/ Listed(backend.remove, n) /\ headers[n] = None
                 \/ /\ ~Listed(backend.remove, n)
                    /\ headers[n] \in IF Added(n) # {} THEN Added(n) ELSE {PassedOn(n)}
          BY <2>2, <4>1 DEF ForwardingInv, FreeInv
        <4>3. QED
          BY <4>2 DEF Configured, Added, PassedOn
      <3> DEFINE traced == IF here THEN Trace ELSE {}
      <3>2. traced \in {{}, Trace}
        OBVIOUS
      <3>3. \A n \in Free : IF n \in traced THEN headers'[n] = Span ELSE headers'[n] \in Configured(n)'
        BY <1>e, <1>n, <2>1, <3>1
      <3>4. QED
        BY <3>2, <3>3 DEF ConfigurationDecides
    <2>7. QED
      BY <2>2, <2>3, <2>4, <2>5, <2>6 DEF ForwardingInv, AddInv
  <1>8. QED
    BY <1>1, <1>2, <1>3, <1>4, <1>5, <1>6, <1>7 DEF ApplyHeaders

\* A step that leaves the connection alone keeps all this.
LEMMA ForwardingKept ==
    ASSUME ForwardingInv, UNCHANGED <<phase, backend, downstream, todo, toAdd, headers>>
    PROVE  ForwardingInv'
  <1>1. ForwardingTypeOK'
    BY DEF ForwardingInv, ForwardingTypeOK
  <1>2. /\ Authority' = Authority
        /\ \A n : LastOf(downstream, n)' = LastOf(downstream, n)
        /\ \A n : PassedOn(n)' = PassedOn(n) /\ Added(n)' = Added(n) /\ Configured(n)' = Configured(n)
    BY DEF Authority, PassedOn, Added, Configured, FirstOf, LastOf, Listed
  <1>3. ProtectedInv'
    BY <1>2 DEF ForwardingInv, ProtectedInv
  <1>4. \A n : /\ Listed(todo, n)' = Listed(todo, n)
              /\ Listed(backend.passthrough, n)' = Listed(backend.passthrough, n)
              /\ Listed(backend.remove, n)' = Listed(backend.remove, n)
    BY DEF Listed
  <1>5. FreeInv'
    BY <1>2, <1>4 DEF ForwardingInv, FreeInv
  <1>6. AddInv'
    BY DEF ForwardingInv, AddInv
  <1>7. ConfigurationDecides'
    BY <1>2 DEF ForwardingInv, ConfigurationDecides
  <1>8. QED
    BY <1>1, <1>3, <1>5, <1>6, <1>7 DEF ForwardingInv

-----------------------------------------------------------------------------
(* The tree of a schema *)

\* What holds of the root and passes on from a parent holds of every node.
LEMMA TreeInduction ==
    ASSUME NEW S, S \subseteq Node, Root \in S, \A n \in Node \ {Root} : Parent[n] \in S => n \in S
    PROVE  S = Node
  BY ParamHeadersAssumption DEF IsTree

\* Above is well defined: the least sets that are closed under Parent fulfil
\* its equation.
LEMMA AboveDef ==
    \A n \in Node : Above[n] = IF n = Root THEN {} ELSE {Parent[n]} \cup Above[Parent[n]]
  <1>0. Root \in Node /\ Parent \in [Node \ {Root} -> Node]
    BY ParamHeadersAssumption
  <1> DEFINE Closed(S) == \A x \in S : x # Root => Parent[x] \in S
             Up(p) == {m \in Node : \A S \in SUBSET Node : p \in S /\ Closed(S) => m \in S}
             f == [n \in Node |-> IF n = Root THEN {} ELSE Up(Parent[n])]
  <1>1. ASSUME NEW p \in Node PROVE p \in Up(p) /\ Closed(Up(p))
    <2>1. ASSUME NEW x \in Up(p), x # Root PROVE Parent[x] \in Up(p)
      BY <1>0, <2>1
    <2>2. QED
      BY <1>1, <2>1
  <1>2. ASSUME NEW p \in Node, p # Root PROVE Up(p) = {p} \cup Up(Parent[p])
    <2>1. Parent[p] \in Node
      BY <1>0, <1>2
    <2>2. Parent[p] \in Up(Parent[p]) /\ Closed(Up(Parent[p]))
      BY <1>1, <2>1
    <2> DEFINE U == {p} \cup Up(Parent[p])
    <2>3. U \in SUBSET Node /\ p \in U /\ Closed(U)
      BY <2>2
    <2>4. Up(p) \subseteq U
      BY <2>3
    <2>5. p \in Up(p) /\ Closed(Up(p)) /\ Up(p) \in SUBSET Node
      BY <1>1
    <2>6. Up(Parent[p]) \subseteq Up(p)
      <3>1. Parent[p] \in Up(p)
        BY <1>2, <2>5
      <3>2. QED
        BY <2>5, <3>1
    <2>7. QED
      BY <2>4, <2>5, <2>6
  <1>3. Up(Root) = {Root}
    <2>1. {Root} \in SUBSET Node /\ Root \in {Root} /\ Closed({Root})
      BY <1>0
    <2>2. QED
      BY <1>0, <1>1, <2>1
  <1> HIDE DEF Up
  <1>4. f = [n \in Node |-> IF n = Root THEN {} ELSE {Parent[n]} \cup f[Parent[n]]]
    <2>1. ASSUME NEW n \in Node, n # Root PROVE Up(Parent[n]) = {Parent[n]} \cup f[Parent[n]]
      BY <1>0, <1>2, <1>3, <2>1
    <2>2. QED
      BY <2>1
  <1>5. \E g : g = [n \in Node |-> IF n = Root THEN {} ELSE {Parent[n]} \cup g[Parent[n]]]
    BY <1>4
  <1>6. Above = [n \in Node |-> IF n = Root THEN {} ELSE {Parent[n]} \cup Above[Parent[n]]]
    BY <1>5 DEF Above
  <1>7. QED
    BY <1>6

\* The ancestors of a node are nodes, their ancestors are its own, the root is
\* the last of them, and a node is none of its own.
LEMMA AboveFacts ==
    \A n \in Node : /\ Above[n] \subseteq Node
                    /\ \A m \in Above[n] : Above[m] \subseteq Above[n]
                    /\ n \notin Above[n]
                    /\ n # Root => Root \in Above[n]
  <1>0. Root \in Node /\ Parent \in [Node \ {Root} -> Node]
    BY ParamHeadersAssumption
  <1> DEFINE S == {n \in Node : /\ Above[n] \subseteq Node
                                /\ \A m \in Above[n] : Above[m] \subseteq Above[n]
                                /\ n \notin Above[n]
                                /\ n # Root => Root \in Above[n]}
  <1>1. Root \in S
    BY <1>0, AboveDef
  <1>2. ASSUME NEW n \in Node \ {Root}, Parent[n] \in S PROVE n \in S
    <2> DEFINE p == Parent[n]
    <2>1. p \in Node /\ Above[n] = {p} \cup Above[p]
      BY <1>0, AboveDef
    <2>2. /\ Above[p] \subseteq Node
          /\ \A m \in Above[p] : Above[m] \subseteq Above[p]
          /\ p \notin Above[p]
          /\ p # Root => Root \in Above[p]
      BY <1>2
    <2>3. n \notin Above[n]
      <3>1. n # p
        BY <2>1, <2>2
      <3>2. n \notin Above[p]
        BY <2>1, <2>2
      <3>3. QED
        BY <2>1, <3>1, <3>2
    <2>4. QED
      BY <2>1, <2>2, <2>3
  <1>3. S = Node
    BY <1>1, <1>2, TreeInduction
  <1>4. QED
    BY <1>3

\* Between a node and an ancestor there is a child of the ancestor.
LEMMA ChildOnPath ==
    \A m \in Node : \A n \in Above[m] : \E c \in Children(n) : c \in {m} \cup Above[m]
  <1>0. Root \in Node /\ Parent \in [Node \ {Root} -> Node]
    BY ParamHeadersAssumption
  <1> DEFINE S == {m \in Node : \A n \in Above[m] : \E c \in Children(n) : c \in {m} \cup Above[m]}
  <1>1. Root \in S
    BY <1>0, AboveDef
  <1>2. ASSUME NEW m \in Node \ {Root}, Parent[m] \in S PROVE m \in S
    <2>1. Above[m] = {Parent[m]} \cup Above[Parent[m]]
      BY AboveDef
    <2>2. m \in Children(Parent[m])
      BY DEF Children
    <2>3. QED
      BY <1>2, <2>1, <2>2
  <1>3. S = Node
    BY <1>1, <1>2, TreeInduction
  <1>4. QED
    BY <1>3

\* The children of a node: they are below it and what is above it.
LEMMA ChildAbove ==
    ASSUME NEW n \in Node, NEW c \in Children(n)
    PROVE  c \in Node \ {Root} /\ Above[c] = {n} \cup Above[n]
  BY AboveDef DEF Children

-----------------------------------------------------------------------------
(* The walk through a schema *)

Through(n) == {n} \cup Above[n]

\* A node that is reached through "properties" only.
OnPropertyPath(n) == Through(n) \subseteq Property \cup {Root}

\* An annotation that is well-formed as far as it alone is concerned.
GoodAnnotation(n) ==
    /\ OnPropertyPath(n)
    /\ n # Root
    /\ schema.header[n] \notin {None, NotToken}
    /\ schema.type[n] \in {"boolean", "integer", "string"}

\* The sets of the walk: visit_schema has only what is reached through
\* properties, reject_unreachable_annotations only what is not, the
\* annotations found are good ones of different headers, and what is still to
\* visit is not above anything else that is or that was annotated.
WalkSets ==
    /\ \A n \in visiting : OnPropertyPath(n)
    /\ \A n \in rejecting : ~OnPropertyPath(n)
    /\ \A n \in annotated : GoodAnnotation(n)
    /\ \A m, n \in annotated : m # n => Header(m) # Header(n)
    /\ \A n \in visiting \cup annotated : Above[n] \cap visiting = {}
    /\ visiting \cap annotated = {}

\* Every annotation is found or lies at or below a node still to visit.
WalkCovers ==
    pc = "walk" => \A n \in Annotated : n \in annotated \/ Through(n) \cap (visiting \cup rejecting) # {}

\* Only a validated call is walked and compared, and what is compared is done
\* with once: what remains to be said of a call that goes on is Accepts.
CompareInv ==
    /\ pc \in {"walk", "compare", "bad schema", "bad header"} => Validated
    /\ pc \in {"compare", "bad header"} => pending \subseteq annotated
    /\ pc = "compare" => \A n \in annotated \ pending : Accepts(n)
    /\ pc \in {"hook", "connect", "denied"} /\ Validated =>
          WellAnnotated /\ \A n \in Annotated : Accepts(n)
    /\ pc = "bad header" => WellAnnotated /\ \E n \in Annotated : ~Accepts(n)
    /\ pc # "connect" => phase = "idle"

\* Inductive: the forwarding invariant, and the state of the walk from which
\* SchemaFailsClosed and what the headers have been found to say follow.
ParamInv ==
    /\ TypeOK
    /\ ForwardingInv
    /\ WalkSets
    /\ WalkCovers
    /\ SchemaFailsClosed
    /\ CompareInv

\* The types of the walk's sets.
LEMMA SetTypes ==
    ASSUME TypeOK
    PROVE  visiting \subseteq Node /\ rejecting \subseteq Node /\ annotated \subseteq Node /\ pending \subseteq Node
  BY DEF TypeOK

\* The type of a published schema.
LEMMA SchemaFields ==
    ASSUME TypeOK, schema # NoSchema
    PROVE  \A n \in Node : schema.header[n] \in Token \cup {NotToken, None} /\ schema.type[n] \in STRING
  BY DEF TypeOK, Schema

\* The operators of the properties look at nothing but the request.
LEMMA RequestKept ==
    ASSUME UNCHANGED <<schema, args, downstream>>
    PROVE  /\ \A n : Header(n)' = Header(n) /\ Accepts(n)' = Accepts(n)
                     /\ OnPropertyPath(n)' = OnPropertyPath(n) /\ GoodAnnotation(n)' = GoodAnnotation(n)
           /\ Annotated' = Annotated /\ WellAnnotated' = WellAnnotated
  <1>1. \A n : Header(n)' = Header(n)
    BY DEF Header
  <1>2. \A n : Accepts(n)' = Accepts(n)
    BY DEF Header, Accepts, GetAll, ArgumentAt, HasType, TextMatches, BodyInteger, Decodes
  <1>3. \A n : OnPropertyPath(n)' = OnPropertyPath(n) /\ GoodAnnotation(n)' = GoodAnnotation(n)
    BY DEF OnPropertyPath, GoodAnnotation, Through
  <1>4. Annotated' = Annotated
    BY DEF Annotated
  <1>5. WellAnnotated' = WellAnnotated
    BY <1>1, <1>4 DEF WellAnnotated
  <1>6. QED
    BY <1>1, <1>2, <1>3, <1>4, <1>5

\* Descending keeps the sets of the walk, whatever becomes of n itself.
LEMMA DescendSets ==
    ASSUME TypeOK, WalkSets, NEW n \in visiting, Descend(n), schema' = schema
    PROVE  /\ visiting' \subseteq Node /\ rejecting' \subseteq Node
           /\ \A m \in visiting' : OnPropertyPath(m)
           /\ \A m \in rejecting' : ~OnPropertyPath(m)
           /\ \A m \in visiting' \cup annotated \cup {n} : Above[m] \cap visiting' = {}
           /\ visiting' \cap (annotated \cup {n}) = {}
  <1>0. /\ n \in Node /\ visiting \subseteq Node /\ rejecting \subseteq Node /\ annotated \subseteq Node
        /\ visiting' = (visiting \ {n}) \cup (Children(n) \cap Property)
        /\ rejecting' = rejecting \cup (Children(n) \ Property)
    BY SetTypes DEF Descend
  <1>1. \A c \in Children(n) : c \in Node \ {Root} /\ Above[c] = {n} \cup Above[n]
    BY <1>0, ChildAbove
  <1>2. /\ Above[n] \cap visiting = {} /\ n \notin Above[n]
        /\ \A m \in Node : Above[m] \subseteq Node /\ \A a \in Above[m] : Above[a] \subseteq Above[m]
    BY <1>0, AboveFacts DEF WalkSets
  <1>3. \A m \in visiting' : OnPropertyPath(m)
    <2>1. \A c \in Children(n) \cap Property : OnPropertyPath(c)
      BY <1>1 DEF WalkSets, OnPropertyPath, Through
    <2>2. QED
      BY <1>0, <2>1 DEF WalkSets
  <1>4. \A m \in rejecting' : ~OnPropertyPath(m)
    BY <1>0, <1>1 DEF WalkSets, OnPropertyPath, Through
  \* Nothing that has n above it, or is n, is above a node that has not.
  <1>5. ASSUME NEW m \in Node, Above[m] \cap visiting = {}, NEW c \in Children(n) PROVE c \notin Above[m]
    <2>1. n \in Above[c]
      BY <1>1
    <2>2. QED
      BY <1>2, <1>5, <2>1
  <1>6. \A m \in visiting' \cup annotated \cup {n} : Above[m] \cap visiting' = {}
    <2>1. ASSUME NEW m \in visiting \cup annotated PROVE Above[m] \cap visiting' = {}
      BY <1>0, <1>5, <2>1 DEF WalkSets
    <2>2. ASSUME NEW m \in Children(n) PROVE Above[m] \cap visiting' = {}
      <3>1. Above[m] = {n} \cup Above[n]
        BY <1>1
      <3>2. n \notin visiting'
        BY <1>0, <1>1, <1>2
      <3>3. Above[n] \cap visiting' = {}
        BY <2>1
      <3>4. QED
        BY <3>1, <3>2, <3>3
    <2>3. QED
      BY <1>0, <2>1, <2>2
  <1>7. visiting' \cap (annotated \cup {n}) = {}
    <2>1. \A c \in Children(n) : c \notin annotated /\ c # n
      BY <1>0, <1>1, <1>2 DEF WalkSets
    <2>2. QED
      BY <1>0, <2>1 DEF WalkSets
  <1>8. QED
    BY <1>0, <1>1, <1>3, <1>4, <1>6, <1>7

\* What was covered by n is covered by its children, except n itself.
LEMMA DescendCovers ==
    ASSUME NEW n \in Node, NEW m \in Node, n \in Above[m]
    PROVE  Through(m) \cap Children(n) # {}
  BY ChildOnPath DEF Through

\* visit_schema: a bad annotation on n is refused and a good one found, and
\* what lies below n is visited or rejected.
LEMMA VisitInv ==
    ASSUME ParamInv, NEW n \in Node, Visit(n)
    PROVE  ParamInv'
  <1>0. /\ TypeOK /\ WalkSets /\ SchemaFailsClosed /\ pc = "walk" /\ n \in visiting /\ Descend(n)
        /\ UNCHANGED <<forwarding, request, sent, pending>>
    BY DEF ParamInv, Visit
  <1>r. UNCHANGED <<schema, args, modern, downstream, backend, phase, todo, toAdd, headers, sent, pending>>
    BY <1>0 DEF forwarding, request
  <1>v. Validated /\ schema # NoSchema
    BY <1>0 DEF ParamInv, CompareInv, Validated
  <1>k. /\ \A m : Header(m)' = Header(m) /\ Accepts(m)' = Accepts(m)
                  /\ OnPropertyPath(m)' = OnPropertyPath(m) /\ GoodAnnotation(m)' = GoodAnnotation(m)
        /\ Annotated' = Annotated /\ WellAnnotated' = WellAnnotated
    BY <1>r, RequestKept
  <1>d. /\ visiting' \subseteq Node /\ rejecting' \subseteq Node
        /\ \A m \in visiting' : OnPropertyPath(m)
        /\ \A m \in rejecting' : ~OnPropertyPath(m)
        /\ \A m \in visiting' \cup annotated \cup {n} : Above[m] \cap visiting' = {}
        /\ visiting' \cap (annotated \cup {n}) = {}
    BY <1>0, <1>r, DescendSets
  <1>s. visiting \subseteq Node /\ rejecting \subseteq Node /\ annotated \subseteq Node /\ pending \subseteq Node
    BY <1>0, SetTypes
  <1>h. schema.header[n] \in Token \cup {NotToken, None}
    BY <1>0, <1>v, SchemaFields
  <1>f. ForwardingInv'
    BY <1>r, ForwardingKept DEF ParamInv
  <1>1. /\ annotated' \in {annotated, annotated \cup {n}}
        /\ pc' \in {"walk", "bad schema"}
        /\ pc' = "bad schema" => schema.header[n] # None /\ Refused(n)
        /\ pc' = "walk" => schema.header[n] = None \/ n \in annotated'
        /\ annotated' # annotated => schema.header[n] # None /\ ~Refused(n)
    BY <1>0 DEF Visit
  <1>2. TypeOK'
    <2>1. visiting' \cap rejecting' = {}
      BY <1>d
    <2>2. ForwardingTypeOK'
      BY <1>f DEF ForwardingInv
    <2>3. annotated' \subseteq Node
      BY <1>1, <1>s
    <2>4. UNION {visiting', rejecting', annotated', pending'} \subseteq Node
      BY <1>d, <1>r, <1>s, <2>3
    <2>5. QED
      BY <1>0, <1>1, <1>r, <2>1, <2>2, <2>4 DEF TypeOK
  <1>3. WalkSets'
    <2>1. CASE annotated' = annotated
      BY <1>0, <1>k, <1>d, <2>1 DEF WalkSets
    <2>2. CASE annotated' = annotated \cup {n} /\ schema.header[n] # None /\ ~Refused(n)
      <3>1. GoodAnnotation(n)
        BY <1>0, <2>2 DEF Refused, GoodAnnotation, WalkSets
      <3>2. \A m \in annotated : Header(m) # Header(n)
        BY <2>2 DEF Refused
      <3>3. QED
        BY <1>0, <1>k, <1>d, <2>2, <3>1, <3>2 DEF WalkSets
    <2>3. QED
      BY <1>1, <2>1, <2>2
  <1>4. WalkCovers'
    <2> SUFFICES ASSUME pc' = "walk", NEW m \in Annotated, m \notin annotated'
                 PROVE  Through(m) \cap (visiting' \cup rejecting') # {}
      BY <1>k DEF WalkCovers, Through
    <2>1. m \in Node /\ schema.header[m] # None
      BY DEF Annotated
    <2>2. m # n
      BY <1>1, <2>1
    <2>3. PICK x \in Through(m) : x \in visiting \cup rejecting
      BY <1>0, <1>1 DEF ParamInv, WalkCovers
    <2>4. CASE x = n
      <3>1. n \in Above[m]
        BY <2>2, <2>3, <2>4 DEF Through
      <3>2. PICK c \in Children(n) : c \in Through(m)
        BY <2>1, <3>1, DescendCovers
      <3>3. c \in visiting' \cup rejecting'
        BY <1>0 DEF Descend
      <3>4. QED
        BY <3>2, <3>3
    <2>5. CASE x # n
      <3>1. x \in visiting' \cup rejecting'
        BY <1>0, <2>3, <2>5 DEF Descend
      <3>2. QED
        BY <2>3, <3>1
    <2>6. QED
      BY <2>4, <2>5
  <1>5. SchemaFailsClosed'
    <2>1. ASSUME pc' = "bad schema" PROVE ~WellAnnotated
      <3>1. n \in Annotated /\ Refused(n)
        BY <1>1, <2>1 DEF Annotated
      <3>2. CASE n = Root \/ schema.header[n] = NotToken \/ schema.type[n] \notin {"boolean", "integer", "string"}
        BY <3>1, <3>2 DEF WellAnnotated
      <3>3. CASE Header(n) \in {Header(m) : m \in annotated}
        <4>1. PICK m \in annotated : Header(m) = Header(n)
          BY <3>3
        <4>2. m \in Annotated /\ m # n /\ schema.header[m] # NotToken
          BY <1>0, <1>s DEF WalkSets, GoodAnnotation, Annotated
        <4>3. QED
          BY <3>1, <4>1, <4>2 DEF WellAnnotated
      <3>4. QED
        BY <3>1, <3>2, <3>3 DEF Refused
    <2>2. QED
      BY <1>1, <1>k, <2>1 DEF SchemaFailsClosed
  <1>6. CompareInv'
    BY <1>0, <1>1, <1>r, <1>v DEF ParamInv, CompareInv, Validated
  <1>7. QED
    BY <1>f, <1>2, <1>3, <1>4, <1>5, <1>6 DEF ParamInv

\* reject_unreachable_annotations: an annotation on n is one that no path of
\* properties reaches; what lies below n is rejected too.
LEMMA RejectInv ==
    ASSUME ParamInv, NEW n \in Node, RejectUnreachable(n)
    PROVE  ParamInv'
  <1>0. /\ TypeOK /\ WalkSets /\ pc = "walk" /\ n \in rejecting
        /\ rejecting' = (rejecting \ {n}) \cup Children(n)
        /\ pc' = IF schema.header[n] = None THEN pc ELSE "bad schema"
        /\ UNCHANGED <<forwarding, request, sent, visiting, annotated, pending>>
    BY DEF ParamInv, RejectUnreachable
  <1>r. UNCHANGED <<schema, args, modern, downstream, backend, phase, todo, toAdd, headers, sent, pending>>
    BY <1>0 DEF forwarding, request
  <1>v. Validated
    BY <1>0 DEF ParamInv, CompareInv
  <1>k. /\ \A m : Header(m)' = Header(m) /\ Accepts(m)' = Accepts(m)
                  /\ OnPropertyPath(m)' = OnPropertyPath(m) /\ GoodAnnotation(m)' = GoodAnnotation(m)
        /\ Annotated' = Annotated /\ WellAnnotated' = WellAnnotated
    BY <1>r, RequestKept
  <1>s. visiting \subseteq Node /\ rejecting \subseteq Node /\ annotated \subseteq Node /\ pending \subseteq Node
    BY <1>0, SetTypes
  <1>f. ForwardingInv'
    BY <1>r, ForwardingKept DEF ParamInv
  <1>1. \A m \in rejecting' : m \in Node /\ ~OnPropertyPath(m)
    <2>1. \A c \in Children(n) : c \in Node /\ Above[c] = {n} \cup Above[n]
      BY <1>0, ChildAbove
    <2>2. ~OnPropertyPath(n)
      BY <1>0 DEF WalkSets
    <2>3. \A c \in Children(n) : ~OnPropertyPath(c)
      BY <2>1, <2>2 DEF OnPropertyPath, Through
    <2>4. QED
      BY <1>0, <1>s, <2>1, <2>3 DEF WalkSets
  <1>2. TypeOK'
    <2>1. visiting' \cap rejecting' = {}
      BY <1>0, <1>1 DEF WalkSets
    <2>2. ForwardingTypeOK'
      BY <1>f DEF ForwardingInv
    <2>3. UNION {visiting', rejecting', annotated', pending'} \subseteq Node
      BY <1>0, <1>1, <1>s
    <2>4. QED
      BY <1>0, <1>r, <2>1, <2>2, <2>3 DEF TypeOK
  <1>3. WalkSets'
    BY <1>0, <1>1, <1>k DEF WalkSets
  <1>4. WalkCovers'
    <2> SUFFICES ASSUME pc' = "walk", NEW m \in Annotated, m \notin annotated
                 PROVE  Through(m) \cap (visiting' \cup rejecting') # {}
      BY <1>0, <1>k DEF WalkCovers, Through
    <2>1. m \in Node /\ schema.header[m] # None /\ m # n
      BY <1>0 DEF Annotated
    <2>2. PICK x \in Through(m) : x \in visiting \cup rejecting
      BY <1>0 DEF ParamInv, WalkCovers
    <2>3. CASE x = n
      <3>1. n \in Above[m]
        BY <2>1, <2>2, <2>3 DEF Through
      <3>2. PICK c \in Children(n) : c \in Through(m)
        BY <2>1, <3>1, DescendCovers
      <3>3. QED
        BY <1>0, <3>2
    <2>4. CASE x # n
      BY <1>0, <2>2, <2>4
    <2>5. QED
      BY <2>3, <2>4
  <1>5. SchemaFailsClosed'
    <2>1. ASSUME pc' = "bad schema" PROVE ~WellAnnotated
      <3>1. n \in Annotated /\ ~OnPropertyPath(n)
        BY <1>0, <2>1 DEF Annotated, WalkSets
      <3>2. QED
        BY <3>1 DEF WellAnnotated, OnPropertyPath, Through
    <2>2. QED
      BY <1>0, <1>k, <2>1 DEF SchemaFailsClosed
  <1>6. CompareInv'
    BY <1>0, <1>r, <1>v DEF ParamInv, CompareInv, Validated
  <1>7. QED
    BY <1>f, <1>2, <1>3, <1>4, <1>5, <1>6 DEF ParamInv

\* Once nothing is left to visit, every annotation of the schema is found, and
\* all of them are well-formed.
LEMMA WalkDone ==
    ASSUME TypeOK, WalkSets, WalkCovers, pc = "walk", schema # NoSchema, visiting = {}, rejecting = {}
    PROVE  annotated = Annotated /\ WellAnnotated
  <1>1. annotated \subseteq Node
    BY SetTypes
  <1>2. Annotated \subseteq annotated
    BY DEF WalkCovers
  <1>3. annotated \subseteq Annotated
    BY <1>1 DEF WalkSets, GoodAnnotation, Annotated
  <1>4. annotated = Annotated
    BY <1>2, <1>3
  <1>5. WellAnnotated
    <2> SUFFICES ASSUME NEW n \in Annotated
                 PROVE  /\ {n} \cup Above[n] \subseteq Property \cup {Root}
                        /\ n # Root
                        /\ schema.header[n] # NotToken
                        /\ schema.type[n] \in {"boolean", "integer", "string"}
                        /\ \A m \in Annotated \ {n} : schema.header[m] # NotToken => Header(m) # Header(n)
      BY DEF WellAnnotated
    <2>1. GoodAnnotation(n)
      BY <1>4 DEF WalkSets
    <2>2. \A m \in Annotated \ {n} : Header(m) # Header(n)
      BY <1>4 DEF WalkSets
    <2>3. QED
      BY <2>1, <2>2 DEF GoodAnnotation, OnPropertyPath, Through
  <1>6. QED
    BY <1>4, <1>5

\* The walk's sets depend on nothing that the later steps change.
LEMMA WalkKept ==
    ASSUME WalkSets, UNCHANGED <<schema, args, downstream, visiting, rejecting, annotated>>
    PROVE  WalkSets'
  BY RequestKept DEF WalkSets

\* What follows the walk, up to the connection: the comparisons and the hook.
LEMMA CompareStepInv ==
    ASSUME ParamInv, EndWalk \/ (\E n \in Node : Compare(n)) \/ EndCompare \/ PreHook
    PROVE  ParamInv'
  <1>0. /\ TypeOK /\ WalkSets /\ WalkCovers /\ SchemaFailsClosed /\ CompareInv
        /\ UNCHANGED <<schema, args, modern, downstream, backend, phase, todo, toAdd, headers>>
        /\ UNCHANGED <<visiting, rejecting, annotated>>
    BY DEF ParamInv, EndWalk, Compare, EndCompare, PreHook, forwarding, request
  <1>k. /\ \A m : Header(m)' = Header(m) /\ Accepts(m)' = Accepts(m)
        /\ Annotated' = Annotated /\ WellAnnotated' = WellAnnotated
        /\ Validated' = Validated
    BY <1>0, RequestKept DEF Validated
  <1>f. ForwardingInv'
    BY <1>0, ForwardingKept DEF ParamInv
  <1>w. WalkSets'
    BY <1>0, WalkKept
  <1>s. visiting \subseteq Node /\ rejecting \subseteq Node /\ annotated \subseteq Node /\ pending \subseteq Node
    BY <1>0, SetTypes
  <1>t. ASSUME pc' \in {"compare", "hook", "connect", "bad header", "denied"},
               sent' \in {args} \cup Edits, pending' \subseteq Node
        PROVE  TypeOK'
    <2>1. UNION {visiting', rejecting', annotated', pending'} \subseteq Node
      BY <1>0, <1>s, <1>t
    <2>2. QED
      BY <1>0, <1>f, <1>t, <2>1 DEF TypeOK, ForwardingInv
  <1>1. CASE EndWalk
    <2>1. /\ pc = "walk" /\ visiting = {} /\ rejecting = {} /\ pc' = "compare" /\ pending' = annotated
          /\ sent' = sent
      BY <1>1 DEF EndWalk
    <2>2. Validated /\ annotated = Annotated /\ WellAnnotated
      BY <1>0, <2>1, WalkDone DEF CompareInv, Validated
    <2>3. TypeOK'
      BY <1>0, <1>s, <1>t, <2>1 DEF TypeOK
    <2>4. WalkCovers' /\ SchemaFailsClosed'
      BY <1>0, <1>k, <2>1, <2>2 DEF WalkCovers, SchemaFailsClosed
    <2>5. CompareInv'
      BY <1>0, <1>k, <2>1, <2>2 DEF CompareInv
    <2>6. QED
      BY <1>f, <1>w, <2>3, <2>4, <2>5 DEF ParamInv
  <1>2. ASSUME NEW n \in Node, Compare(n) PROVE ParamInv'
    <2>1. /\ pc = "compare" /\ n \in pending /\ pending' = pending \ {n} /\ sent' = sent
          /\ pc' = IF Accepts(n) THEN pc ELSE "bad header"
      BY <1>2 DEF Compare
    <2>2. Validated /\ annotated = Annotated /\ WellAnnotated /\ pending \subseteq annotated
      BY <1>0, <2>1 DEF CompareInv, SchemaFailsClosed
    <2>3. TypeOK'
      BY <1>0, <1>s, <1>t, <2>1 DEF TypeOK
    <2>4. WalkCovers' /\ SchemaFailsClosed'
      BY <1>0, <1>k, <2>1, <2>2 DEF WalkCovers, SchemaFailsClosed
    <2>5. CompareInv'
      BY <1>0, <1>k, <2>1, <2>2 DEF CompareInv
    <2>6. QED
      BY <1>f, <1>w, <2>3, <2>4, <2>5 DEF ParamInv
  <1>3. CASE EndCompare
    <2>1. pc = "compare" /\ pending = {} /\ pending' = pending /\ sent' = sent /\ pc' = "hook"
      BY <1>3 DEF EndCompare
    <2>2. annotated = Annotated /\ WellAnnotated /\ \A n \in annotated : Accepts(n)
      BY <1>0, <2>1 DEF CompareInv, SchemaFailsClosed
    <2>3. TypeOK'
      BY <1>0, <1>s, <1>t, <2>1 DEF TypeOK
    <2>4. WalkCovers' /\ SchemaFailsClosed'
      BY <2>1 DEF WalkCovers, SchemaFailsClosed
    <2>5. CompareInv'
      BY <1>0, <1>k, <2>1, <2>2 DEF CompareInv
    <2>6. QED
      BY <1>f, <1>w, <2>3, <2>4, <2>5 DEF ParamInv
  <1>4. CASE PreHook
    <2>1. /\ pc = "hook" /\ pc' \in {"denied", "connect"} /\ pending' = pending
          /\ sent' \in {sent, args} \cup Edits
      BY <1>4 DEF PreHook
    <2>2. TypeOK'
      BY <1>0, <1>s, <1>t, <2>1 DEF TypeOK
    <2>3. WalkCovers' /\ SchemaFailsClosed'
      BY <2>1 DEF WalkCovers, SchemaFailsClosed
    <2>4. CompareInv'
      BY <1>0, <1>k, <2>1 DEF CompareInv
    <2>5. QED
      BY <1>f, <1>w, <2>2, <2>3, <2>4 DEF ParamInv
  <1>5. QED
    BY <1>1, <1>2, <1>3, <1>4

\* The connection's steps change the connection's headers and nothing else.
LEMMA ConnectInv ==
    ASSUME ParamInv, Connect
    PROVE  ParamInv'
  <1>1. /\ TypeOK /\ WalkSets /\ CompareInv /\ pc = "connect" /\ pc' = pc /\ ApplyHeaders
        /\ UNCHANGED <<schema, args, modern, sent, visiting, rejecting, annotated, pending>>
    BY DEF ParamInv, Connect, request
  <1>2. backend' = backend /\ downstream' = downstream
    BY <1>1 DEF ApplyHeaders, Begin, Passthrough, ForwardParams, AddHeader, EndAdd, RemoveHeader, InjectContext
  <1>3. ForwardingInv'
    BY <1>1, ApplyHeadersInv DEF ParamInv
  <1>4. TypeOK'
    BY <1>1, <1>3 DEF TypeOK, ForwardingInv
  <1>5. WalkSets' /\ WalkCovers' /\ SchemaFailsClosed'
    BY <1>1, <1>2, WalkKept DEF WalkCovers, SchemaFailsClosed
  <1>6. /\ \A m : Accepts(m)' = Accepts(m)
        /\ Annotated' = Annotated /\ WellAnnotated' = WellAnnotated /\ Validated' = Validated
    BY <1>1, <1>2, RequestKept DEF Validated
  <1>7. CompareInv'
    BY <1>1, <1>6 DEF CompareInv
  <1>8. QED
    BY <1>3, <1>4, <1>5, <1>7 DEF ParamInv

\* The walk starts with all of the schema before it.
LEMMA WalkStarts ==
    ASSUME visiting = {Root}, rejecting = {}, annotated = {}
    PROVE  WalkSets /\ WalkCovers
  <1>1. Root \in Node /\ Above[Root] = {}
    BY AboveDef, ParamHeadersAssumption
  <1>2. \A n \in Node : Root \in Through(n)
    BY AboveFacts DEF Through
  <1>3. WalkSets
    BY <1>1 DEF WalkSets, OnPropertyPath, Through
  <1>4. WalkCovers
    BY <1>2 DEF WalkCovers, Annotated
  <1>5. QED
    BY <1>3, <1>4

\* A call that starts, the first and every later one.
CallStarts ==
    /\ phase = "idle" /\ headers = Empty
    /\ backend \in BackendConfig /\ downstream \in HeaderMap
    /\ todo \in Seq(Spelling) /\ toAdd \subseteq Spelling
    /\ modern \in BOOLEAN /\ schema \in Schema \cup {NoSchema} /\ args \in Arguments
    /\ sent = args /\ pc = Start(modern, schema)
    /\ visiting = {Root} /\ rejecting = {} /\ annotated = {} /\ pending = {}

\* A call starts with nothing found, nothing compared and nothing sent.
LEMMA StartInv == CallStarts => ParamInv
  <1> SUFFICES ASSUME CallStarts PROVE ParamInv
    OBVIOUS
  <1>0. ForwardingInv
    BY DEF CallStarts, ForwardingInv, ForwardingTypeOK, ProtectedInv, FreeInv, AddInv, ConfigurationDecides, Empty
  <1>1. WalkSets /\ WalkCovers
    BY WalkStarts DEF CallStarts
  <1>2. pc \in {"walk", "hook"} /\ (pc = "walk" <=> Validated)
    BY DEF CallStarts, Start, Validated
  <1>3. TypeOK
    BY <1>0, <1>2, ParamHeadersAssumption DEF CallStarts, TypeOK, ForwardingInv
  <1>4. SchemaFailsClosed /\ CompareInv
    BY <1>2 DEF CallStarts, SchemaFailsClosed, CompareInv
  <1>5. QED
    BY <1>0, <1>1, <1>3, <1>4 DEF ParamInv

\* The next call starts from nothing.
LEMMA AgainStarts ==
    ASSUME ParamInv, Again
    PROVE  CallStarts'
  <1>1. /\ phase' = "idle" /\ headers' = Empty /\ sent' = args'
        /\ UNCHANGED <<modern, schema, args, backend, downstream, todo, toAdd>>
        /\ pc' = Start(modern', schema')
        /\ visiting' = {Root} /\ rejecting' = {} /\ annotated' = {} /\ pending' = {}
    BY DEF Again, request
  <1>2. QED
    BY <1>1 DEF ParamInv, TypeOK, ForwardingTypeOK, CallStarts

\* The invariant of the call: the walk, the comparisons, the connection.
LEMMA ParamInvAlways == Spec => []ParamInv
  <1>1. Init => ParamInv
    <2> SUFFICES ASSUME Init PROVE ParamInv
      OBVIOUS
    <2>1. PICK c \in Call : /\ ForwardingInit(c.backend, c.downstream)
                            /\ modern = c.modern /\ schema = c.schema /\ args = c.args
      BY DEF Init
    <2>2. /\ c.modern \in BOOLEAN /\ c.schema \in Schema \cup {NoSchema} /\ c.args \in Arguments
          /\ c.backend \in BackendConfig /\ c.downstream \in HeaderMap
      BY ParamHeadersAssumption
    <2>3. CallStarts
      BY <2>1, <2>2 DEF Init, ForwardingInit, CallStarts
    <2>4. QED
      BY <2>3, StartInv
  <1>2. ParamInv /\ [Next]_vars => ParamInv'
    <2> SUFFICES ASSUME ParamInv, [Next]_vars PROVE ParamInv'
      OBVIOUS
    <2>1. ASSUME NEW n \in Node, Visit(n) \/ RejectUnreachable(n) PROVE ParamInv'
      BY <2>1, VisitInv, RejectInv
    <2>2. CASE EndWalk \/ (\E n \in Node : Compare(n)) \/ EndCompare \/ PreHook
      BY <2>2, CompareStepInv
    <2>3. CASE Connect
      BY <2>3, ConnectInv
    <2>4. CASE Again
      <3>1. CallStarts'
        BY <2>4, AgainStarts
      <3>2. CallStarts' => ParamInv'
        BY StartInv, PTL
      <3>3. QED
        BY <3>1, <3>2
    <2>5. CASE UNCHANGED vars
      <3>1. /\ UNCHANGED <<schema, args, modern, downstream, backend, phase, todo, toAdd, headers>>
            /\ UNCHANGED <<pc, sent, visiting, rejecting, annotated, pending>>
        BY <2>5 DEF vars, forwarding, request
      <3>2. ForwardingInv'
        BY <3>1, ForwardingKept DEF ParamInv
      <3>3. /\ \A m : Accepts(m)' = Accepts(m)
            /\ Annotated' = Annotated /\ WellAnnotated' = WellAnnotated /\ Validated' = Validated
        BY <3>1, RequestKept DEF Validated
      <3>4. WalkSets'
        BY <3>1, WalkKept DEF ParamInv
      <3>5. TypeOK'
        BY <3>1, <3>2 DEF ParamInv, TypeOK, ForwardingInv
      <3>6. WalkCovers' /\ SchemaFailsClosed' /\ CompareInv'
        BY <3>1, <3>3 DEF ParamInv, WalkCovers, SchemaFailsClosed, CompareInv, Through
      <3>7. QED
        BY <3>2, <3>4, <3>5, <3>6 DEF ParamInv
    <2>6. QED
      BY <2>1, <2>2, <2>3, <2>4, <2>5 DEF Next
  <1>3. QED
    BY <1>1, <1>2, PTL DEF Spec

\* Type correctness: the call, its walk and the connection keep their types.
THEOREM TypeCorrect == Spec => []TypeOK
  <1>1. ParamInv => TypeOK
    BY DEF ParamInv
  <1>2. QED
    BY <1>1, ParamInvAlways, PTL

\* A schema is refused exactly if it has an ill-formed annotation, wherever in
\* the tree it is and in whatever order the tree is walked (visit_schema,
\* reject_unreachable_annotations).
THEOREM IllFormedSchemasRefused == Spec => []SchemaFailsClosed
  <1>1. ParamInv => SchemaFailsClosed
    BY DEF ParamInv
  <1>2. QED
    BY <1>1, ParamInvAlways, PTL

\* No configuration reaches a protected header of the connection
\* (apply_header_config, is_protected_header).
THEOREM ProtectedHeadersOwned == Spec => []ProtectedOwnedByGateway
  <1>1. ParamInv => ProtectedOwnedByGateway
    BY DEF ParamInv, ForwardingInv, ProtectedInv, ProtectedOwnedByGateway, Authority
  <1>2. QED
    BY <1>1, ParamInvAlways, PTL

\* What is sent of every other name is what the configuration and the request
\* say, in every order of the additions (apply_header_config,
\* inject_current_context).
THEOREM HeadersFollowConfiguration == Spec => []ConfigurationDecides
  <1>1. ParamInv => ConfigurationDecides
    BY DEF ParamInv, ForwardingInv
  <1>2. QED
    BY <1>1, ParamInvAlways, PTL

-----------------------------------------------------------------------------
(* What the headers of a call say *)

\* The texts of a request's headers.
DownstreamTexts == \A i \in DOMAIN downstream : downstream[i][2].text \in HeaderText

\* The headers of a request are never changed.
LEMMA TextsAlways == Spec => []DownstreamTexts
  <1>1. Init => DownstreamTexts
    BY ParamHeadersAssumption DEF Init, ForwardingInit, DownstreamTexts
  <1>2. DownstreamTexts /\ [Next]_vars => DownstreamTexts'
    <2> SUFFICES ASSUME DownstreamTexts, [Next]_vars PROVE DownstreamTexts'
      OBVIOUS
    <2>1. downstream' = downstream
      BY DEF Next, vars, forwarding, Visit, RejectUnreachable, Compare, EndWalk, EndCompare, PreHook, Connect, Again,
             ApplyHeaders, Begin, Passthrough, ForwardParams, AddHeader, EndAdd, RemoveHeader, InjectContext
    <2>2. QED
      BY <2>1 DEF DownstreamTexts
  <1>3. QED
    BY <1>1, <1>2, PTL DEF Spec

\* The integer of a number in the arguments is the one it denotes, whichever way
\* it is read (parameter_value).
LEMMA BodyIntegerExact ==
    ASSUME NEW x \in HeaderText, WellFormed(x), Fits(x)
    PROVE  BodyInteger(x) = Denoted(x)
  <1>0. /\ x.whole \in Digits /\ x.fraction \in Digits /\ x.exponent \in Int /\ Sign(x) \in {-1, 1}
        /\ SafeInteger \subseteq Int
    BY TextFields, IntegerHeaderAssumption DEF SafeInteger
  <1>1. CASE ~x.point /\ x.exponent = 0
    <2>1. x.fraction = <<>>
      BY <1>1 DEF WellFormed
    <2>2. x.whole \o x.fraction = x.whole
      <3> DEFINE S == 0..(Base - 1)
      <3>1. x.whole \in Seq(S)
        BY <1>0 DEF Digits
      <3> HIDE DEF S
      <3>2. QED
        BY <2>1, <3>1
    <2>3. Scale(x) = 0
      BY <1>1, <2>1 DEF Scale
    <2> DEFINE plain == Sign(x) * Number(x.whole)
    <2>4. plain \in Int /\ plain * Power[0] = plain
      <3>1. Number(x.whole) \in Nat
        BY <1>0, NumberBounds
      <3>2. QED
        BY <1>0, <3>1, PowerDef
    <2>5. BodyInteger(x) = IF plain \in SafeInteger THEN plain ELSE NoInteger
      BY <1>1 DEF BodyInteger, Sign
    <2>6. \A v : Denotes(x, v) <=> v = plain * Power[0]
      <3>1. ~(Scale(x) > 0) /\ -Scale(x) = 0
        <4>1. \A z \in Int : z <= 0 /\ z >= 0 => ~(z > 0) /\ -z = 0
          OBVIOUS
        <4>2. Scale(x) \in Int /\ Scale(x) <= 0 /\ Scale(x) >= 0
          BY <2>3
        <4>3. QED
          BY <4>1, <4>2, Zenon
      <3>2. QED
        BY <2>2, <3>1 DEF Denotes, Sign
    <2> HIDE DEF plain
    <2>7. \A v : Denotes(x, v) <=> v = plain
      BY <2>4, <2>6
    <2>8. QED
      BY <1>0, <2>5, <2>7, DenotedIs
  <1>2. CASE ~(~x.point /\ x.exponent = 0)
    BY <1>2, ParserExact DEF BodyInteger
  <1>3. QED
    BY <1>1, <1>2

\* One header value of an annotated argument passes exactly if it agrees with
\* the argument and, as an integer, has an exponent that is an i64.
LEMMA MatchIsAgreement ==
    ASSUME NEW raw, raw.text \in HeaderText,
           NEW body, body.text \in HeaderText,
           body.kind = "number" => WellFormed(body.text) /\ Fits(body.text),
           NEW type \in {"boolean", "integer", "string"}
    PROVE  HasType(body, type) /\ Decodes(raw) /\ TextMatches(raw.text, body, type)
              <=> Agrees(raw, body, type) /\ (type = "integer" => Fits(raw.text))
  <1>1. CASE type = "integer"
    <2>1. ParseInteger(raw.text) = IF Fits(raw.text) THEN Denoted(raw.text) ELSE NoInteger
      BY ParserExact
    <2>2. body.kind = "number" => BodyInteger(body.text) = Denoted(body.text)
      BY BodyIntegerExact
    <2>3. /\ HasType(body, type) <=> body.kind = "number" /\ BodyInteger(body.text) # NoInteger
          /\ TextMatches(raw.text, body, type) <=> ParseInteger(raw.text) = BodyInteger(body.text)
          /\ Agrees(raw, body, type) <=> /\ Decodes(raw) /\ body.kind = "number"
                                         /\ Denoted(raw.text) # NoInteger /\ Denoted(raw.text) = Denoted(body.text)
      BY <1>1 DEF HasType, TextMatches, Agrees
    <2>4. QED
      BY <1>1, <2>1, <2>2, <2>3
  <1>2. CASE type # "integer"
    BY <1>2 DEF HasType, TextMatches, Agrees
  <1>3. QED
    BY <1>1, <1>2

\* An argument that value_at_property_path finds.
LEMMA ArgumentTypes ==
    ASSUME args \in Arguments, NEW n \in Node, ArgumentAt(n) # Absent
    PROVE  /\ ArgumentAt(n).text \in HeaderText
           /\ ArgumentAt(n).kind = "number" => WellFormed(ArgumentAt(n).text) /\ Fits(ArgumentAt(n).text)
  <1>1. args[n].text \in HeaderText /\ (args[n].kind = "number" => WellFormed(args[n].text) /\ Fits(args[n].text))
    BY DEF Arguments
  <1>2. ArgumentAt(n) = args[n]
    BY DEF ArgumentAt
  <1>3. QED
    BY <1>1, <1>2

\* What validate_tool_params accepts and refuses of an annotation, in terms of
\* what header and argument say.
LEMMA AcceptsIsAgreement ==
    ASSUME TypeOK, DownstreamTexts, WellAnnotated, NEW n \in Annotated
    PROVE  LET raws == GetAll(Header(n))
               body == ArgumentAt(n)
           IN  Accepts(n) <=> IF body = Absent THEN raws = {}
                              ELSE /\ raws # {}
                                   /\ \A raw \in raws : /\ Agrees(raw, body, schema.type[n])
                                                        /\ schema.type[n] = "integer" => Fits(raw.text)
  <1> DEFINE raws == GetAll(Header(n))
             body == ArgumentAt(n)
             type == schema.type[n]
  <1>1. \A raw \in raws : raw.text \in HeaderText
    BY DEF GetAll, DownstreamTexts
  <1>2. n \in Node /\ type \in {"boolean", "integer", "string"}
    BY DEF Annotated, WellAnnotated
  <1>3. body # Absent => /\ body.text \in HeaderText
                         /\ body.kind = "number" => WellFormed(body.text) /\ Fits(body.text)
    BY <1>2, ArgumentTypes DEF TypeOK
  <1>4. Accepts(n) <=> IF body = Absent THEN raws = {}
                       ELSE /\ raws # {}
                            /\ HasType(body, type)
                            /\ \A raw \in raws : Decodes(raw) /\ TextMatches(raw.text, body, type)
    BY DEF Accepts
  <1> HIDE DEF raws, body, type
  <1>5. body # Absent =>
          \A raw \in raws : HasType(body, type) /\ Decodes(raw) /\ TextMatches(raw.text, body, type)
                            <=> Agrees(raw, body, type) /\ (type = "integer" => Fits(raw.text))
    BY <1>1, <1>2, <1>3, MatchIsAgreement
  <1>6. Accepts(n) <=> IF body = Absent THEN raws = {}
                       ELSE /\ raws # {}
                            /\ \A raw \in raws : Agrees(raw, body, type) /\ (type = "integer" => Fits(raw.text))
    BY <1>4, <1>5
  <1>7. QED
    BY <1>6 DEF raws, body, type

\* The parameter headers a backend gets say what the caller's arguments say
\* (validate_tool_params, apply_header_config).
THEOREM ForwardedHeadersAgree == Spec => []ForwardedParamsAgree
  <1>1. ParamInv /\ DownstreamTexts => ForwardedParamsAgree
    <2> SUFFICES ASSUME ParamInv, DownstreamTexts, Validated, phase = "sent", NEW n \in Annotated
                 PROVE  IF ArgumentAt(n) = Absent THEN headers[Header(n)] = None
                        ELSE /\ headers[Header(n)] # None
                             /\ Agrees(headers[Header(n)], ArgumentAt(n), schema.type[n])
      BY DEF ForwardedParamsAgree
    <2>1. TypeOK /\ WellAnnotated /\ Accepts(n)
      BY DEF ParamInv, CompareInv
    <2>2. Header(n) \in Param
      <3>1. n \in Node /\ schema.header[n] # None /\ schema.header[n] # NotToken
        BY <2>1 DEF Annotated, WellAnnotated
      <3>2. schema.header[n] \in Token
        BY <2>1, <3>1, SchemaFields DEF Validated
      <3>3. QED
        BY <3>2, ParamHeadersAssumption DEF Header
    <2>3. headers[Header(n)] = LastOf(downstream, Header(n))
      BY <2>2 DEF ParamInv, ForwardingInv, ProtectedInv
    <2>4. downstream \in HeaderMap
      BY <2>1 DEF TypeOK, ForwardingTypeOK
    <2>5. GetAll(Header(n)) = {downstream[i][2] : i \in At(downstream, Header(n))}
      BY DEF GetAll, At
    <2>6. CASE ArgumentAt(n) = Absent
      <3>1. GetAll(Header(n)) = {}
        BY <2>1, <2>6, AcceptsIsAgreement
      <3>2. At(downstream, Header(n)) = {}
        BY <2>5, <3>1
      <3>3. QED
        BY <2>3, <2>4, <2>6, <3>2, ValuesOf
    <2>7. CASE ArgumentAt(n) # Absent
      <3>1. /\ GetAll(Header(n)) # {}
            /\ \A raw \in GetAll(Header(n)) : Agrees(raw, ArgumentAt(n), schema.type[n])
        BY <2>1, <2>7, AcceptsIsAgreement
      <3>2. At(downstream, Header(n)) # {}
        BY <2>5, <3>1
      <3>3. PICK i \in At(downstream, Header(n)) : LastOf(downstream, Header(n)) = downstream[i][2]
        BY <2>4, <3>2, ValuesOf
      <3>4. downstream[i][2] \in GetAll(Header(n))
        BY <2>5
      <3>5. downstream[i][2] # None
        BY <2>4, ForwardingAssumption DEF At, HeaderMap
      <3>6. QED
        BY <2>3, <2>7, <3>1, <3>3, <3>4, <3>5
    <2>8. QED
      BY <2>6, <2>7
  <1>2. QED
    BY <1>1, ParamInvAlways, TextsAlways, PTL

\* A call is refused for its headers only if one is missing, unexpected, says
\* something else than its argument or has an exponent that is no i64
\* (parameter_values_match, parse_integer_header_value).
THEOREM RefusedForDisagreement == Spec => []OnlyDisagreementRefused
  <1>1. ParamInv /\ DownstreamTexts => OnlyDisagreementRefused
    <2> SUFFICES ASSUME ParamInv, DownstreamTexts, pc = "bad header"
                 PROVE  \E n \in Annotated :
                           \/ (ArgumentAt(n) = Absent) # (GetAll(Header(n)) = {})
                           \/ \E raw \in GetAll(Header(n)) : \/ ~Agrees(raw, ArgumentAt(n), schema.type[n])
                                                             \/ ~Fits(raw.text)
      BY DEF OnlyDisagreementRefused
    <2>1. TypeOK /\ WellAnnotated /\ \E n \in Annotated : ~Accepts(n)
      BY DEF ParamInv, CompareInv
    <2>2. PICK n \in Annotated : ~Accepts(n)
      BY <2>1
    <2>3. ~ IF ArgumentAt(n) = Absent THEN GetAll(Header(n)) = {}
            ELSE /\ GetAll(Header(n)) # {}
                 /\ \A raw \in GetAll(Header(n)) : /\ Agrees(raw, ArgumentAt(n), schema.type[n])
                                                   /\ schema.type[n] = "integer" => Fits(raw.text)
      BY <2>1, <2>2, AcceptsIsAgreement
    <2>4. CASE ArgumentAt(n) = Absent
      BY <2>3, <2>4
    <2>5. CASE ArgumentAt(n) # Absent
      BY <2>3, <2>5
    <2>6. QED
      BY <2>4, <2>5
  <1>2. QED
    BY <1>1, ParamInvAlways, TextsAlways, PTL

=============================================================================
