----------------------------- MODULE DataLemmas -----------------------------
(***************************************************************************)
(* Lemmas about data, for every value of it: induction and recursion over   *)
(* the naturals, stated with sets and functions in place of operators, so   *)
(* that a prover without second-order instantiation can use them, and what  *)
(* the operations of the listener map do.                                   *)
(***************************************************************************)
EXTENDS ListenerMap, FiniteSetTheorems, WellFoundedInduction, TLAPS

-----------------------------------------------------------------------------
\* Induction and recursion.

\* A set that holds 0 and the successor of every number in it holds them all.
LEMMA NatSetInduction ==
  ASSUME NEW T, 0 \in T, \A n \in Nat : n \in T => n + 1 \in T
  PROVE  Nat \subseteq T
<1> DEFINE U == Nat \ T
<1>1. SUFFICES ASSUME U # {} PROVE FALSE
  OBVIOUS
<1>2. PICK x \in U : \A y \in U : ~(<<y, x>> \in OpToRel(<, Nat))
  <2>1. U \subseteq Nat
    OBVIOUS
  <2> HIDE DEF U
  <2> QED BY <1>1, <2>1, NatLessThanWellFounded, WFMin
<1>3. x \in Nat /\ x # 0 /\ x - 1 \in Nat /\ x = (x - 1) + 1
  OBVIOUS
<1>4. \A y \in U : ~(y < x)
  BY <1>2 DEF OpToRel
<1>5. x - 1 \in T
  BY <1>3, <1>4
<1> QED BY <1>3, <1>5

\* F gives the j-th value of a recursion from the one before; c obeys it.
IsRule(V, b, n, F) == b \in V /\ n \in Nat /\ F \in [1..n -> [V -> V]]
Obeys(c, V, b, n, F) ==
  c \in [0..n -> V] /\ c[0] = b /\ \A j \in 1..n : c[j] = F[j][c[j - 1]]

\* Every rule is obeyed by some function.
LEMMA RecursiveFunction ==
  ASSUME NEW V, NEW b, NEW n, NEW F, IsRule(V, b, n, F)
  PROVE  \E c : Obeys(c, V, b, n, F)
<1> USE DEF IsRule
<1> DEFINE OK(k, c) == c \in [0..k -> V] /\ c[0] = b /\ \A j \in 1..k : c[j] = F[j][c[j - 1]]
           T == {k \in Nat : k <= n => \E c : OK(k, c)}
<1>1. 0 \in T
  <2>1. OK(0, [j \in 0..0 |-> b])
    OBVIOUS
  <2> QED BY <2>1
<1>2. ASSUME NEW k \in Nat, k \in T PROVE k + 1 \in T
  <2> SUFFICES ASSUME k + 1 <= n PROVE \E c : OK(k + 1, c)
    OBVIOUS
  <2>1. PICK c : OK(k, c)
    BY <1>2
  <2> DEFINE d == [j \in 0..(k + 1) |-> IF j = k + 1 THEN F[k + 1][c[k]] ELSE c[j]]
  <2>2. F[k + 1] \in [V -> V] /\ c[k] \in V
    BY <2>1
  <2>3. d \in [0..(k + 1) -> V]
    BY <2>1, <2>2
  <2>4. ASSUME NEW j \in 1..(k + 1) PROVE d[j] = F[j][d[j - 1]]
    <3>1. CASE j = k + 1
      BY <3>1
    <3>2. CASE j # k + 1
      <4>1. j \in 1..k /\ j - 1 \in 0..k /\ j \in 0..(k + 1) /\ j - 1 # k + 1 /\ j - 1 \in 0..(k + 1)
        BY <3>2
      <4> QED BY <2>1, <3>2, <4>1
    <3> QED BY <3>1, <3>2
  <2>5. d[0] = b
    BY <2>1
  <2> HIDE DEF d
  <2> QED BY <2>3, <2>4, <2>5
<1>3. n \in T
  <2> HIDE DEF T
  <2> QED BY <1>1, <1>2, NatSetInduction
<1>4. PICK c : OK(n, c)
  BY <1>3
<1> QED BY <1>4 DEF Obeys

\* F gives the i-th value of a recursion that counts up to n from the values
\* after it, and does not look at the others; f obeys it.
IsBackwardRule(V, b, n, F) ==
  /\ b \in V /\ n \in Nat
  /\ F \in [1..n -> [[1..(n + 1) -> V] -> V]]
  /\ \A i \in 1..n : \A g, h \in [1..(n + 1) -> V] :
       (\A k \in (i + 1)..(n + 1) : g[k] = h[k]) => F[i][g] = F[i][h]
ObeysBackward(f, V, b, n, F) ==
  f \in [1..(n + 1) -> V] /\ f[n + 1] = b /\ \A i \in 1..n : f[i] = F[i][f]

\* Every such rule is obeyed by some function.
LEMMA BackwardFunction ==
  ASSUME NEW V, NEW b, NEW n, NEW F, IsBackwardRule(V, b, n, F)
  PROVE  \E f : ObeysBackward(f, V, b, n, F)
<1> USE DEF IsBackwardRule
<1> DEFINE D == [1..(n + 1) -> V]
           OK(k, f) == f \in D /\ f[n + 1] = b /\ \A i \in 1..n : i > n - k => f[i] = F[i][f]
           T == {k \in Nat : k <= n => \E f : OK(k, f)}
<1>1. 0 \in T
  <2> DEFINE f == [i \in 1..(n + 1) |-> b]
  <2>1. f \in D /\ f[n + 1] = b
    OBVIOUS
  <2>2. OK(0, f)
    BY <2>1
  <2> QED BY <2>2
<1>2. ASSUME NEW k \in Nat, k \in T PROVE k + 1 \in T
  <2> SUFFICES ASSUME k + 1 <= n PROVE \E f : OK(k + 1, f)
    OBVIOUS
  <2>1. PICK f : OK(k, f)
    BY <1>2
  <2> DEFINE m == n - k
             x == F[m][f]
             g == [i \in 1..(n + 1) |-> IF i = m THEN x ELSE f[i]]
  <2>2. m \in 1..n /\ m # n + 1 /\ n + 1 \in 1..(n + 1)
    OBVIOUS
  <2>3. x \in V
    <3>1. F[m] \in [D -> V]
      BY <2>2
    <3> QED BY <2>1, <3>1
  <2> HIDE DEF m, x
  <2>4. g \in D
    BY <2>1, <2>3
  <2>5. g[n + 1] = b
    BY <2>1, <2>2
  <2>6. ASSUME NEW i \in 1..n, i > n - (k + 1) PROVE g[i] = F[i][g]
    <3>1. i >= m
      BY <2>6 DEF m
    <3>2. ASSUME NEW j \in (i + 1)..(n + 1) PROVE g[j] = f[j]
      <4>1. j \in 1..(n + 1) /\ j # m
        BY <2>2, <3>1
      <4> QED BY <4>1
    <3>3. F[i][g] = F[i][f]
      <4> HIDE DEF g
      <4> QED BY <2>1, <2>4, <3>2
    <3>4. CASE i = m
      <4>1. g[i] = x
        BY <3>4
      <4> QED BY <3>3, <3>4, <4>1 DEF x
    <3>5. CASE i # m
      <4>1. g[i] = f[i] /\ i > n - k
        BY <3>1, <3>5 DEF m
      <4> QED BY <2>1, <3>3, <4>1
    <3> QED BY <3>4, <3>5
  <2> HIDE DEF g
  <2>7. OK(k + 1, g)
    BY <2>4, <2>5, <2>6
  <2> QED BY <2>7
<1>3. n \in T
  <2> HIDE DEF T
  <2> QED BY <1>1, <1>2, NatSetInduction
<1>4. PICK f : OK(n, f)
  BY <1>3
<1> QED BY <1>4 DEF ObeysBackward

\* A set of naturals that is not empty has a least element, and a greatest
\* one when it is bounded.
LEMMA LeastOf ==
  ASSUME NEW S \in SUBSET Nat, S # {}
  PROVE  \E x \in S : \A y \in S : x <= y
<1>1. PICK x \in S : \A y \in S : ~(<<y, x>> \in OpToRel(<, Nat))
  BY NatLessThanWellFounded, WFMin
<1>2. \A y \in S : ~(y < x)
  BY <1>1 DEF OpToRel
<1> QED BY <1>2

\* The greatest element, found as the least distance from the bound.
LEMMA GreatestOf ==
  ASSUME NEW S \in SUBSET Nat, S # {}, NEW b \in Nat, \A x \in S : x <= b
  PROVE  \E x \in S : \A y \in S : x >= y
<1> DEFINE U == {b - x : x \in S}
<1>1. U \in SUBSET Nat /\ U # {}
  OBVIOUS
<1>2. PICK u \in U : \A w \in U : u <= w
  <2> HIDE DEF U
  <2> QED BY <1>1, LeastOf
<1>3. PICK x \in S : u = b - x
  OBVIOUS
<1>4. ASSUME NEW y \in S PROVE x >= y
  <2>1. b - y \in U
    OBVIOUS
  <2> QED BY <1>2, <1>3, <2>1
<1> QED BY <1>4

-----------------------------------------------------------------------------
\* The loop of dispatch() over a vector of listeners.

Step(v, e, j, x) == IF e \in v[j].events THEN Append(x, v[j].callback) ELSE x
Loop(v, e) ==
  CHOOSE callbacks :
    callbacks = [j \in 0..Len(v) |->
                   IF j = 0 THEN <<>>
                   ELSE IF e \in v[j].events THEN Append(callbacks[j - 1], v[j].callback)
                   ELSE callbacks[j - 1]]

\* The loop starts with no callbacks and adds those of one listener at a time.
LEMMA LoopSteps ==
  ASSUME NEW R, NEW v \in Seq(R), NEW e
  PROVE  /\ Wanting(v, e) = Loop(v, e)[Len(v)]
         /\ Loop(v, e)[0] = <<>>
         /\ \A j \in 1..Len(v) : Loop(v, e)[j] = Step(v, e, j, Loop(v, e)[j - 1])
<1> DEFINE n == Len(v)
           V == Seq({v[j].callback : j \in 1..n})
           F == [j \in 1..n |-> [x \in V |-> Step(v, e, j, x)]]
           G(c) == [j \in 0..n |-> IF j = 0 THEN <<>>
                       ELSE IF e \in v[j].events THEN Append(c[j - 1], v[j].callback)
                       ELSE c[j - 1]]
           H(c) == [j \in 0..n |-> IF j = 0 THEN <<>> ELSE Step(v, e, j, c[j - 1])]
           f == CHOOSE f : f = G(f)
<1>1. n \in Nat
  OBVIOUS
<1>2. <<>> \in V /\ \A j \in 1..n : \A x \in V : Step(v, e, j, x) \in V
  BY <1>1 DEF Step
<1>3. \A c : G(c) = H(c)
  BY DEF Step
<1>4. Wanting(v, e) = f[n] /\ Loop(v, e) = f
  BY DEF Wanting, Loop
<1> HIDE DEF n, V, G
<1>5. PICK c \in [0..n -> V] : c[0] = <<>> /\ \A j \in 1..n : c[j] = F[j][c[j - 1]]
  <2> DEFINE b == <<>>
  <2>1. F \in [1..n -> [V -> V]]
    BY <1>2
  <2> HIDE DEF F
  <2>2. IsRule(V, b, n, F)
    BY <1>1, <1>2, <2>1 DEF IsRule
  <2> HIDE DEF b
  <2>3. \E c : Obeys(c, V, b, n, F)
    BY <2>2, RecursiveFunction
  <2> QED BY <2>3 DEF Obeys, b
<1>6. c = G(c)
  <2>1. ASSUME NEW j \in 1..n PROVE c[j] = Step(v, e, j, c[j - 1])
    <3>1. j - 1 \in 0..n
      BY <1>1
    <3>2. c[j - 1] \in V
      BY <3>1
    <3>3. F[j] = [x \in V |-> Step(v, e, j, x)]
      OBVIOUS
    <3>4. F[j][c[j - 1]] = Step(v, e, j, c[j - 1])
      BY <3>2, <3>3
    <3> QED BY <1>5, <3>4
  <2>2. \A j \in 0..n : c[j] = IF j = 0 THEN <<>> ELSE Step(v, e, j, c[j - 1])
    BY <1>1, <1>5, <2>1
  <2>3. c = H(c)
    BY <2>2
  <2> QED BY <2>3, <1>3
<1>7. f = H(f)
  <2>1. f = G(f)
    BY <1>6
  <2> QED BY <2>1, <1>3
<1> HIDE DEF f
<1>8. f[0] = <<>> /\ \A j \in 1..n : f[j] = Step(v, e, j, f[j - 1])
  BY <1>1, <1>7
<1> QED BY <1>4, <1>8 DEF n

\* What dispatch() collects from listeners of the right type is callbacks.
LEMMA WantingType ==
  ASSUME NEW C, NEW R, \A l \in R : l.callback \in C, NEW v \in Seq(R), NEW e
  PROVE  Wanting(v, e) \in Seq(C)
<1> DEFINE n == Len(v)
           f == Loop(v, e)
           T == {k \in Nat : k <= n => f[k] \in Seq(C)}
<1>1. n \in Nat /\ \A j \in 1..n : v[j].callback \in C
  <2>1. n \in Nat /\ \A j \in 1..n : v[j] \in R
    OBVIOUS
  <2> QED BY <2>1
<1>2. \A j \in 1..n : \A x \in Seq(C) : Step(v, e, j, x) \in Seq(C)
  BY <1>1 DEF Step
<1>3. /\ Wanting(v, e) = f[n]
      /\ f[0] = <<>>
      /\ \A j \in 1..n : f[j] = Step(v, e, j, f[j - 1])
  BY LoopSteps
<1> HIDE DEF f, n
<1>4. 0 \in T
  <2>1. <<>> \in Seq(C)
    OBVIOUS
  <2>2. f[0] \in Seq(C)
    BY <1>3, <2>1, Zenon
  <2> HIDE DEF f
  <2> QED BY <2>2
<1>5. ASSUME NEW k \in Nat, k \in T PROVE k + 1 \in T
  <2> SUFFICES ASSUME k + 1 <= n PROVE f[k + 1] \in Seq(C)
    OBVIOUS
  <2>1. k + 1 \in 1..n /\ (k + 1) - 1 = k /\ f[k] \in Seq(C)
    BY <1>1, <1>5
  <2> QED BY <1>2, <1>3, <2>1
<1>6. n \in T
  <2> HIDE DEF T
  <2> QED BY <1>1, <1>4, <1>5, NatSetInduction
<1> QED BY <1>1, <1>3, <1>6

\* A vector without listeners gives none, and of one listener it is its
\* callback or none.
LEMMA WantingSmall ==
  ASSUME NEW R, NEW v \in Seq(R), NEW e
  PROVE  /\ Len(v) = 0 => Wanting(v, e) = <<>>
         /\ Len(v) = 1 /\ e \in v[1].events => Wanting(v, e) = <<v[1].callback>>
<1>1. /\ Wanting(v, e) = Loop(v, e)[Len(v)]
      /\ Loop(v, e)[0] = <<>>
      /\ \A j \in 1..Len(v) : Loop(v, e)[j] = Step(v, e, j, Loop(v, e)[j - 1])
  BY LoopSteps
<1>2. ASSUME Len(v) = 1, e \in v[1].events PROVE Wanting(v, e) = <<v[1].callback>>
  <2>1. Loop(v, e)[1] = Step(v, e, 1, Loop(v, e)[0])
    <3>1. 1 \in 1..Len(v) /\ 1 - 1 = 0
      BY <1>2
    <3> QED BY <1>1, <3>1
  <2>2. Step(v, e, 1, <<>>) = Append(<<>>, v[1].callback)
    BY <1>2 DEF Step
  <2> QED BY <1>1, <1>2, <2>1, <2>2
<1> QED BY <1>1, <1>2

-----------------------------------------------------------------------------
\* The places of the map.

IsMap(m, R) == \A g \in DOMAIN m : m[g] \in Seq(R)

\* A place is a group of the map and an index of its vector.
LEMMA PlaceOf ==
  ASSUME NEW m, NEW g, NEW j
  PROVE  <<g, j>> \in Places(m) <=> g \in DOMAIN m /\ j \in 1..Len(m[g])
BY DEF Places

\* Reading through operator[] adds a key and no place.
LEMMA SubscriptPlaces ==
  ASSUME NEW m, NEW R, IsMap(m, R), NEW g
  PROVE  /\ Places(Subscript(m, g)) = Places(m)
         /\ IsMap(Subscript(m, g), R)
         /\ DOMAIN Subscript(m, g) = DOMAIN m \cup {g}
         /\ Subscript(m, g)[g] \in Seq(R)
         /\ \A h \in DOMAIN m : Subscript(m, g)[h] = m[h]
<1> DEFINE s == Subscript(m, g)
<1>1. DOMAIN s = DOMAIN m \cup {g}
  BY DEF Subscript
<1>2. \A h \in DOMAIN m : s[h] = m[h]
  BY DEF Subscript
<1>3. g \notin DOMAIN m => s[g] = <<>>
  BY DEF Subscript
<1> HIDE DEF s
<1>4. IsMap(s, R) /\ s[g] \in Seq(R)
  <2>1. <<>> \in Seq(R)
    OBVIOUS
  <2>2. \A h \in DOMAIN m : s[h] \in Seq(R)
    BY <1>2 DEF IsMap
  <2>3. s[g] \in Seq(R)
    BY <1>3, <2>1, <2>2, Zenon
  <2> QED BY <1>1, <2>2, <2>3, Zenon DEF IsMap
<1>5. Places(s) = Places(m)
  <2>1. g \notin DOMAIN m => 1..Len(s[g]) = {}
    BY <1>3
  <2> QED BY <1>1, <1>2, <2>1 DEF Places
<1> QED BY <1>1, <1>2, <1>4, <1>5 DEF s

\* a has one place more than m, in the vector of g.
OneMore(m, a, g, R) ==
  /\ IsMap(a, R)
  /\ DOMAIN a = DOMAIN m \cup {g}
  /\ \E p : p \notin Places(m) /\ Places(a) = Places(m) \cup {p}

\* listen() adds one place, behind the ones its group had.
LEMMA ListenedPlaces ==
  ASSUME NEW m, NEW R, IsMap(m, R), NEW g, NEW l \in R
  PROVE  OneMore(m, Listened(m, g, l), g, R)
<1> DEFINE s == Subscript(m, g)
           a == Listened(m, g, l)
           n == Len(s[g])
<1>1. /\ Places(s) = Places(m)
      /\ IsMap(s, R)
      /\ DOMAIN s = DOMAIN m \cup {g}
      /\ s[g] \in Seq(R)
  BY SubscriptPlaces
<1>2. n \in Nat
  BY <1>1
<1>3. DOMAIN a = DOMAIN s /\ a[g] = Append(s[g], l) /\ \A h \in DOMAIN s \ {g} : a[h] = s[h]
  <2>1. s = [h \in DOMAIN s |-> s[h]]
    BY DEF Subscript
  <2> QED BY <1>1, <2>1 DEF Listened
<1> HIDE DEF s, a
<1>4. IsMap(a, R)
  BY <1>1, <1>3 DEF IsMap
<1>5. Len(a[g]) = n + 1
  BY <1>1, <1>3
<1>6. Places(a) = Places(s) \cup {<<g, n + 1>>}
  <2>1. 1..(n + 1) = (1..n) \cup {n + 1}
    BY <1>2
  <2>2. {g} \X (1..(n + 1)) = ({g} \X (1..n)) \cup {<<g, n + 1>>}
    BY <2>1
  <2> QED BY <1>1, <1>3, <1>5, <2>2 DEF Places
<1>7. <<g, n + 1>> \notin Places(s)
  BY <1>2, PlaceOf
<1> QED BY <1>1, <1>3, <1>4, <1>6, <1>7 DEF a, OneMore

\* listen() counts one callback more.
LEMMA ListenedCount ==
  ASSUME NEW m, NEW R, IsMap(m, R), NEW g, NEW l \in R, IsFiniteSet(Places(m))
  PROVE  \E k \in Nat : /\ IsFiniteSet(Places(Listened(m, g, l)))
                        /\ Registered(m) = k
                        /\ Registered(Listened(m, g, l)) = k + 1
<1> DEFINE P == Places(m)
           Q == Places(Listened(m, g, l))
<1>1. PICK p : p \notin P /\ Q = P \cup {p}
  <2>1. OneMore(m, Listened(m, g, l), g, R)
    BY ListenedPlaces
  <2> QED BY <2>1 DEF OneMore
<1> HIDE DEF P, Q
<1>2. IsFiniteSet(P)
  BY DEF P
<1>3. Cardinality(P) \in Nat
  BY <1>2, FS_CardinalityType
<1>4. IsFiniteSet(P \cup {p}) /\ Cardinality(P \cup {p}) = Cardinality(P) + 1
  BY <1>1, <1>2, FS_AddElement
<1> QED BY <1>1, <1>3, <1>4 DEF P, Q, Registered

\* unlisten() removes the places of its group, which were as many as its
\* vector was long, and no other.
LEMMA ErasedPlaces ==
  ASSUME NEW m, NEW R, IsMap(m, R), NEW g, IsFiniteSet(Places(m))
  PROVE  LET e == Erased(Subscript(m, g), g)
         IN  /\ IsMap(e, R)
             /\ DOMAIN e = DOMAIN m \ {g}
             /\ IsFiniteSet(Places(e))
             /\ Registered(e) = Registered(m) - Len(Subscript(m, g)[g])
             /\ Registered(e) \in Nat
<1> DEFINE s == Subscript(m, g)
           e == Erased(s, g)
           n == Len(s[g])
           Q == {g} \X (1..n)
<1>1. /\ Places(s) = Places(m)
      /\ IsMap(s, R)
      /\ DOMAIN s = DOMAIN m \cup {g}
      /\ s[g] \in Seq(R)
  BY SubscriptPlaces
<1>2. n \in Nat
  BY <1>1
<1>3. DOMAIN e = DOMAIN m \ {g} /\ \A h \in DOMAIN e : e[h] = s[h]
  BY <1>1 DEF Erased
<1> HIDE DEF s, e
<1>4. IsMap(e, R)
  BY <1>1, <1>3 DEF IsMap
<1>5. Places(e) = Places(s) \ Q
  BY <1>1, <1>3 DEF Places
<1>6. Q \subseteq Places(s)
  BY <1>1 DEF Places
<1>7. IsFiniteSet(Q) /\ Cardinality(Q) = n
  <2>1. IsFiniteSet(1..n) /\ Cardinality(1..n) = n
    BY <1>2, FS_Interval
  <2>2. IsFiniteSet({g}) /\ Cardinality({g}) = 1
    BY FS_Singleton
  <2>3. IsFiniteSet({g} \X (1..n)) /\ Cardinality({g} \X (1..n)) = Cardinality({g}) * Cardinality(1..n)
    BY <2>1, <2>2, FS_Product
  <2> QED BY <1>2, <2>1, <2>2, <2>3
<1>8. /\ IsFiniteSet(Places(e))
      /\ Cardinality(Places(e)) = Cardinality(Places(s)) - n
      /\ Cardinality(Places(e)) \in Nat
  <2> DEFINE P == Places(s)
  <2>1. IsFiniteSet(P)
    BY <1>1
  <2> HIDE DEF P, Q
  <2>2. IsFiniteSet(P \ Q) /\ Cardinality(P \ Q) = Cardinality(P) - Cardinality(P \cap Q)
    BY <2>1, FS_Difference
  <2>3. P \cap Q = Q
    BY <1>6 DEF P
  <2>4. Cardinality(P \ Q) \in Nat
    BY <2>2, FS_CardinalityType
  <2> QED BY <1>5, <1>7, <2>2, <2>3, <2>4 DEF P
<1> QED BY <1>1, <1>3, <1>4, <1>8 DEF Registered, e, s

=============================================================================
