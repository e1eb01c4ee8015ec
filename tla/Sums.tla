-------------------------------- MODULE Sums --------------------------------
(***************************************************************************)
(* Sums over finite sets: what the proofs of the money, the stock and the  *)
(* database need to know of MapThenSumSet, defined there by a recursion    *)
(* over an arbitrary choice of elements; the lemmas follow by induction    *)
(* over the subsets of the set, as a well-founded relation.                *)
(***************************************************************************)
EXTENDS Integers, FiniteSets, FiniteSetsExt, FiniteSetTheorems, WellFoundedInduction, TLAPS

(* A set of naturals that holds 0 and with every number the next holds all. *)
LEMMA EveryNatural ==
  ASSUME NEW T, 0 \in T, \A n \in Nat : n \in T => n + 1 \in T
  PROVE  Nat \subseteq T
<1>. DEFINE B == Nat \ T
<1>1. SUFFICES ASSUME B # {} PROVE FALSE
  OBVIOUS
<1>2. PICK x \in B : \A y \in B : ~(<<y, x>> \in OpToRel(<, Nat))
  BY <1>1, WFMin, NatLessThanWellFounded
<1>3. x \in Nat /\ x # 0
  OBVIOUS
<1>4. x - 1 \in Nat /\ x - 1 < x /\ (x - 1) + 1 = x
  BY <1>3
<1>5. <<x - 1, x>> \in OpToRel(<, Nat)
  BY <1>3, <1>4 DEF OpToRel
<1>6. x - 1 \in T
  BY <1>2, <1>4, <1>5
<1>. QED
  BY <1>2, <1>4, <1>6

(* What holds of a finite set once it holds of its strict subsets holds of *)
(* all its subsets.                                                        *)
LEMMA EverySubset ==
  ASSUME NEW S, IsFiniteSet(S), NEW Good,
         \A U \in SUBSET S : (\A V \in SUBSET U : V # U => V \in Good) => U \in Good
  PROVE  SUBSET S \subseteq Good
<1>. DEFINE B == (SUBSET S) \ Good
            R == StrictSubsetOrdering(S)
<1>1. SUFFICES ASSUME B # {} PROVE FALSE
  OBVIOUS
<1>2. IsWellFoundedOn(R, SUBSET S)
  BY FS_StrictSubsetOrderingWellFounded, FS_FiniteSubsetsOfFinite
<1>3. PICK U \in B : \A V \in B : ~(<<V, U>> \in R)
  <2>. B \subseteq SUBSET S
    OBVIOUS
  <2>. HIDE DEF B, R
  <2>. QED
    BY <1>1, <1>2, WFMin
<1>4. ASSUME NEW V \in SUBSET U, V # U PROVE V \in Good
  <2>1. <<V, U>> \in R
    BY <1>3, <1>4 DEF StrictSubsetOrdering
  <2>. QED
    BY <1>3, <2>1
<1>. QED
  BY <1>3, <1>4

----------------------------------------------------------------------------
Chosen(s) == CHOOSE x \in s : TRUE
SumOf(g, S) == MapThenSumSet(LAMBDA x : g[x], S)

(* The recursion that MapThenSumSet stands for. *)
Sums(iter, g, S) ==
  iter = [s \in SUBSET S |-> IF s = {} THEN 0 ELSE g[Chosen(s)] + iter[s \ {Chosen(s)}]]

LEMMA ChosenIn == ASSUME NEW s, s # {} PROVE Chosen(s) \in s
BY DEF Chosen

(* There is a function as the recursion wants it. *)
LEMMA SumsExist ==
  ASSUME NEW S, IsFiniteSet(S), NEW g
  PROVE  \E iter : Sums(iter, g, S)
<1>. DEFINE L(n) == {s \in SUBSET S : Cardinality(s) <= n}
            F(f, n) == [s \in L(n) |-> IF s = {} THEN 0 ELSE g[Chosen(s)] + f[s \ {Chosen(s)}]]
            T == {n \in Nat : \E f : f = F(f, n)}
<1>1. \A s \in SUBSET S : IsFiniteSet(s) /\ Cardinality(s) \in Nat /\ (Cardinality(s) = 0 <=> s = {})
  BY FS_Subset, FS_CardinalityType, FS_EmptySet
<1>2. 0 \in T
  <2>1. \A s \in L(0) : s = {}
    BY <1>1
  <2>2. F([s \in L(0) |-> 0], 0) = [s \in L(0) |-> 0]
    BY <2>1
  <2>. QED
    BY <2>2
<1>3. ASSUME NEW n \in Nat, n \in T PROVE n + 1 \in T
  <2>1. PICK f : f = F(f, n)
    BY <1>3
  <2>. DEFINE h == F(f, n + 1)
  <2>2. ASSUME NEW s \in L(n + 1), s # {}
        PROVE  s \ {Chosen(s)} \in L(n) /\ s \ {Chosen(s)} \in L(n + 1)
    <3>1. Chosen(s) \in s
      BY <2>2, ChosenIn
    <3>2. Cardinality(s \ {Chosen(s)}) = Cardinality(s) - 1
      BY <1>1, <3>1, FS_RemoveElement
    <3>. QED
      BY <1>1, <3>2
  <2>3. ASSUME NEW s \in L(n) PROVE s \in L(n + 1)
    BY <1>1
  <2>4. ASSUME NEW s \in L(n) PROVE h[s] = f[s]
    <3>1. h[s] = (IF s = {} THEN 0 ELSE g[Chosen(s)] + f[s \ {Chosen(s)}])
      BY <2>3
    <3>2. f[s] = (IF s = {} THEN 0 ELSE g[Chosen(s)] + f[s \ {Chosen(s)}])
      BY <2>1
    <3>. QED
      BY <3>1, <3>2
  <2>5. h = F(h, n + 1)
    <3>1. ASSUME NEW s \in L(n + 1)
          PROVE  (IF s = {} THEN 0 ELSE g[Chosen(s)] + f[s \ {Chosen(s)}])
                   = (IF s = {} THEN 0 ELSE g[Chosen(s)] + h[s \ {Chosen(s)}])
      BY <2>2, <2>4
    <3>. QED
      BY <3>1
  <2>6. \E e : e = F(e, n + 1)
    BY <2>5
  <2>. HIDE DEF F
  <2>. QED
    BY <2>6
<1>4. Cardinality(S) \in T
  <2>. HIDE DEF T
  <2>1. \A n \in Nat : n \in T => n + 1 \in T
    BY <1>3
  <2>2. Nat \subseteq T
    BY <1>2, <2>1, EveryNatural
  <2>. QED
    BY <2>2, FS_CardinalityType
<1>5. L(Cardinality(S)) = SUBSET S
  BY FS_Subset, FS_CardinalityType
<1>. QED
  BY <1>4, <1>5 DEF Sums

(* Whatever function satisfies the recursion, on the set or on a superset, *)
(* and for whatever terms that agree on the set: its value is the same.    *)
LEMMA SumsAgree ==
  ASSUME NEW S, NEW U \in SUBSET S, IsFiniteSet(U), NEW g, NEW h, \A x \in U : g[x] = h[x],
         NEW i, NEW j, Sums(i, g, S), Sums(j, h, U)
  PROVE  i[U] = j[U]
<1>. DEFINE Good == {V \in SUBSET U : i[V] = j[V]}
<1>1. ASSUME NEW V \in SUBSET U, \A W \in SUBSET V : W # V => W \in Good
      PROVE  V \in Good
  <2>1. /\ i[V] = (IF V = {} THEN 0 ELSE g[Chosen(V)] + i[V \ {Chosen(V)}])
        /\ j[V] = (IF V = {} THEN 0 ELSE h[Chosen(V)] + j[V \ {Chosen(V)}])
    BY DEF Sums
  <2>2. CASE V = {}
    BY <2>1, <2>2
  <2>3. CASE V # {}
    <3>1. Chosen(V) \in V
      BY <2>3, ChosenIn
    <3>2. V \ {Chosen(V)} \in Good
      BY <1>1, <3>1
    <3>3. g[Chosen(V)] = h[Chosen(V)]
      BY <3>1
    <3>. QED
      BY <2>1, <2>3, <3>2, <3>3
  <2>. QED
    BY <2>2, <2>3
<1>. HIDE DEF Good
<1>2. SUBSET U \subseteq Good
  BY <1>1, EverySubset
<1>. QED
  BY <1>2 DEF Good

LEMMA SumOfIs ==
  ASSUME NEW S, IsFiniteSet(S), NEW g
  PROVE  \E iter : Sums(iter, g, S) /\ SumOf(g, S) = iter[S]
<1>. DEFINE iter == CHOOSE i : i = [s \in SUBSET S |-> IF s = {} THEN 0 ELSE g[Chosen(s)] + i[s \ {Chosen(s)}]]
<1>1. SumOf(g, S) = iter[S]
  BY DEF SumOf, MapThenSumSet, MapThenFoldSet, Chosen
<1>2. PICK i : i = [s \in SUBSET S |-> IF s = {} THEN 0 ELSE g[Chosen(s)] + i[s \ {Chosen(s)}]]
  <2>1. PICK i : Sums(i, g, S)
    BY SumsExist
  <2>. QED
    BY <2>1 DEF Sums
<1>3. iter = [s \in SUBSET S |-> IF s = {} THEN 0 ELSE g[Chosen(s)] + iter[s \ {Chosen(s)}]]
  BY <1>2, Zenon
<1>. QED
  BY <1>1, <1>3 DEF Sums

(* The terms outside of the set do not matter. *)
LEMMA SumOfAgrees ==
  ASSUME NEW S, IsFiniteSet(S), NEW g, NEW h, \A x \in S : g[x] = h[x]
  PROVE  SumOf(g, S) = SumOf(h, S)
<1>1. PICK i : Sums(i, g, S) /\ SumOf(g, S) = i[S]
  BY SumOfIs
<1>2. PICK j : Sums(j, h, S) /\ SumOf(h, S) = j[S]
  BY SumOfIs
<1>3. i[S] = j[S]
  <2>1. S \in SUBSET S
    OBVIOUS
  <2>. QED
    BY <1>1, <1>2, <2>1, SumsAgree
<1>. QED
  BY <1>1, <1>2, <1>3

(* The sum, one chosen term at a time. *)
LEMMA SumOfChosen ==
  ASSUME NEW S, IsFiniteSet(S), NEW g
  PROVE  SumOf(g, S) = IF S = {} THEN 0 ELSE g[Chosen(S)] + SumOf(g, S \ {Chosen(S)})
<1>1. PICK i : Sums(i, g, S) /\ SumOf(g, S) = i[S]
  BY SumOfIs
<1>2. i[S] = (IF S = {} THEN 0 ELSE g[Chosen(S)] + i[S \ {Chosen(S)}])
  BY <1>1 DEF Sums
<1>. DEFINE T == S \ {Chosen(S)}
<1>3. IsFiniteSet(T)
  BY FS_Subset
<1>4. PICK j : Sums(j, g, T) /\ SumOf(g, T) = j[T]
  BY <1>3, SumOfIs
<1>5. i[T] = j[T]
  BY <1>1, <1>3, <1>4, SumsAgree
<1>. QED
  BY <1>1, <1>2, <1>4, <1>5

LEMMA SumOfType ==
  ASSUME NEW S, IsFiniteSet(S), NEW g, \A x \in S : g[x] \in Int
  PROVE  SumOf(g, S) \in Int
<1>. DEFINE Good == {V \in SUBSET S : SumOf(g, V) \in Int}
<1>1. ASSUME NEW V \in SUBSET S, \A W \in SUBSET V : W # V => W \in Good
      PROVE  V \in Good
  <2>1. IsFiniteSet(V)
    BY FS_Subset
  <2>2. SumOf(g, V) = IF V = {} THEN 0 ELSE g[Chosen(V)] + SumOf(g, V \ {Chosen(V)})
    BY <2>1, SumOfChosen
  <2>3. CASE V = {}
    BY <2>2, <2>3
  <2>4. CASE V # {}
    <3>1. Chosen(V) \in V
      BY <2>4, ChosenIn
    <3>2. V \ {Chosen(V)} \in Good
      BY <1>1, <3>1
    <3>3. g[Chosen(V)] \in Int
      BY <3>1
    <3>. QED
      BY <2>2, <2>4, <3>2, <3>3
  <2>. QED
    BY <2>3, <2>4
<1>. HIDE DEF Good
<1>2. SUBSET S \subseteq Good
  BY <1>1, EverySubset
<1>. QED
  BY <1>2 DEF Good

(* Any term may be taken first. *)
LEMMA SumOfAny ==
  ASSUME NEW S, IsFiniteSet(S), NEW g, \A y \in S : g[y] \in Int, NEW x \in S
  PROVE  SumOf(g, S) = g[x] + SumOf(g, S \ {x})
<1>. DEFINE Good == {V \in SUBSET S : \A z \in V : SumOf(g, V) = g[z] + SumOf(g, V \ {z})}
<1>1. ASSUME NEW V \in SUBSET S, \A W \in SUBSET V : W # V => W \in Good
      PROVE  V \in Good
  <2>1. SUFFICES ASSUME NEW z \in V PROVE SumOf(g, V) = g[z] + SumOf(g, V \ {z})
    OBVIOUS
  <2>. DEFINE c == Chosen(V)
  <2>2. c \in V
    BY ChosenIn
  <2>3. IsFiniteSet(V) /\ IsFiniteSet(V \ {c}) /\ IsFiniteSet(V \ {z}) /\ IsFiniteSet(V \ {c, z})
    BY FS_Subset
  <2>4. SumOf(g, V) = g[c] + SumOf(g, V \ {c})
    BY <2>3, SumOfChosen
  <2>5. CASE z = c
    BY <2>4, <2>5
  <2>6. CASE z # c
    <3>1. V \ {c} \in Good /\ V \ {z} \in Good
      BY <1>1, <2>2
    <3>2. (V \ {c}) \ {z} = V \ {c, z} /\ (V \ {z}) \ {c} = V \ {c, z}
      OBVIOUS
    <3>3. SumOf(g, V \ {c}) = g[z] + SumOf(g, V \ {c, z})
      BY <2>6, <3>1, <3>2
    <3>4. SumOf(g, V \ {z}) = g[c] + SumOf(g, V \ {c, z})
      BY <2>2, <2>6, <3>1, <3>2
    <3>5. SumOf(g, V \ {c, z}) \in Int /\ g[c] \in Int /\ g[z] \in Int
      <4>1. \A y \in V \ {c, z} : g[y] \in Int
        OBVIOUS
      <4>. QED
        BY <2>2, <2>3, <4>1, SumOfType
    <3>. QED
      BY <2>4, <3>3, <3>4, <3>5
  <2>. QED
    BY <2>5, <2>6
<1>. HIDE DEF Good
<1>2. SUBSET S \subseteq Good
  BY <1>1, EverySubset
<1>. QED
  BY <1>2 DEF Good

LEMMA SumOfEmpty == ASSUME NEW g PROVE SumOf(g, {}) = 0
BY FS_EmptySet, SumOfChosen

LEMMA SumOfZero ==
  ASSUME NEW S, IsFiniteSet(S), NEW g, \A x \in S : g[x] = 0
  PROVE  SumOf(g, S) = 0
<1>. DEFINE Good == {V \in SUBSET S : SumOf(g, V) = 0}
<1>1. ASSUME NEW V \in SUBSET S, \A W \in SUBSET V : W # V => W \in Good
      PROVE  V \in Good
  <2>1. SumOf(g, V) = IF V = {} THEN 0 ELSE g[Chosen(V)] + SumOf(g, V \ {Chosen(V)})
    BY FS_Subset, SumOfChosen
  <2>2. CASE V = {}
    BY <2>1, <2>2
  <2>3. CASE V # {}
    <3>1. Chosen(V) \in V
      BY <2>3, ChosenIn
    <3>2. V \ {Chosen(V)} \in Good /\ g[Chosen(V)] = 0
      BY <1>1, <3>1
    <3>. QED
      BY <2>1, <2>3, <3>2
  <2>. QED
    BY <2>2, <2>3
<1>. HIDE DEF Good
<1>2. SUBSET S \subseteq Good
  BY <1>1, EverySubset
<1>. QED
  BY <1>2 DEF Good

LEMMA SumOfNatural ==
  ASSUME NEW S, IsFiniteSet(S), NEW g, \A x \in S : g[x] \in Nat
  PROVE  /\ SumOf(g, S) \in Nat
         /\ \A x \in S : g[x] <= SumOf(g, S)
<1>. DEFINE Good == {V \in SUBSET S : SumOf(g, V) \in Nat}
<1>1. ASSUME NEW V \in SUBSET S, \A W \in SUBSET V : W # V => W \in Good
      PROVE  V \in Good
  <2>1. SumOf(g, V) = IF V = {} THEN 0 ELSE g[Chosen(V)] + SumOf(g, V \ {Chosen(V)})
    BY FS_Subset, SumOfChosen
  <2>2. CASE V = {}
    BY <2>1, <2>2
  <2>3. CASE V # {}
    <3>1. Chosen(V) \in V
      BY <2>3, ChosenIn
    <3>2. V \ {Chosen(V)} \in Good /\ g[Chosen(V)] \in Nat
      BY <1>1, <3>1
    <3>. QED
      BY <2>1, <2>3, <3>2
  <2>. QED
    BY <2>2, <2>3
<1>. HIDE DEF Good
<1>2. SUBSET S \subseteq Good
  BY <1>1, EverySubset
<1>3. ASSUME NEW x \in S PROVE g[x] <= SumOf(g, S)
  <2>1. SumOf(g, S) = g[x] + SumOf(g, S \ {x})
    BY SumOfAny
  <2>2. SumOf(g, S \ {x}) \in Nat
    BY <1>2 DEF Good
  <2>. QED
    BY <2>1, <2>2
<1>. QED
  BY <1>2, <1>3 DEF Good

(* One term changes: so does the sum. *)
LEMMA SumOfChange ==
  ASSUME NEW S, IsFiniteSet(S), NEW g, NEW h, NEW x \in S,
         \A y \in S : g[y] \in Int /\ h[y] \in Int,
         \A y \in S \ {x} : h[y] = g[y]
  PROVE  SumOf(h, S) = SumOf(g, S) + (h[x] - g[x])
<1>1. IsFiniteSet(S \ {x})
  BY FS_Subset
<1>2. SumOf(h, S) = h[x] + SumOf(h, S \ {x}) /\ SumOf(g, S) = g[x] + SumOf(g, S \ {x})
  BY SumOfAny
<1>3. SumOf(h, S \ {x}) = SumOf(g, S \ {x})
  BY <1>1, SumOfAgrees
<1>4. SumOf(g, S \ {x}) \in Int /\ g[x] \in Int /\ h[x] \in Int
  BY <1>1, SumOfType
<1>. QED
  BY <1>2, <1>3, <1>4

(* Two sets without a common element. *)
LEMMA SumOfUnion ==
  ASSUME NEW S, NEW T, IsFiniteSet(S), IsFiniteSet(T), S \cap T = {}, NEW g,
         \A x \in S \cup T : g[x] \in Int
  PROVE  SumOf(g, S \cup T) = SumOf(g, S) + SumOf(g, T)
<1>. DEFINE Good == {V \in SUBSET T : SumOf(g, S \cup V) = SumOf(g, S) + SumOf(g, V)}
<1>1. ASSUME NEW V \in SUBSET T, \A W \in SUBSET V : W # V => W \in Good
      PROVE  V \in Good
  <2>0. SumOf(g, S) \in Int
    BY SumOfType
  <2>1. CASE V = {}
    <3>1. S \cup V = S /\ SumOf(g, V) = 0
      BY <2>1, SumOfEmpty
    <3>2. SumOf(g, S \cup V) = SumOf(g, S)
      BY <3>1
    <3>3. SumOf(g, S) + SumOf(g, V) = SumOf(g, S)
      BY <2>0, <3>1
    <3>. QED
      BY <3>2, <3>3
  <2>2. CASE V # {}
    <3>. DEFINE c == Chosen(V)
                W == V \ {c}
    <3>1. c \in V /\ c \notin S
      BY <2>2, ChosenIn
    <3>2. W \in Good
      BY <1>1, <3>1
    <3>3. IsFiniteSet(V) /\ IsFiniteSet(W) /\ IsFiniteSet(S \cup V)
      BY FS_Subset, FS_Union
    <3>4. (S \cup V) \ {c} = S \cup W
      BY <3>1
    <3>5. SumOf(g, V) = g[c] + SumOf(g, W)
      BY <3>1, <3>3, SumOfAny
    <3>6. \A y \in S \cup V : g[y] \in Int
      OBVIOUS
    <3>7. SumOf(g, S \cup V) = g[c] + SumOf(g, S \cup W)
      BY <3>1, <3>3, <3>4, <3>6, SumOfAny
    <3>8. SumOf(g, W) \in Int /\ g[c] \in Int
      BY <3>1, <3>3, SumOfType
    <3>. QED
      BY <2>0, <3>2, <3>5, <3>7, <3>8
  <2>. QED
    BY <2>1, <2>2
<1>. HIDE DEF Good
<1>2. SUBSET T \subseteq Good
  BY <1>1, EverySubset
<1>. QED
  BY <1>2 DEF Good

(* Terms that are sums themselves. *)
LEMMA SumOfPlus ==
  ASSUME NEW S, IsFiniteSet(S), NEW f, NEW g, NEW h,
         \A x \in S : f[x] \in Int /\ g[x] \in Int /\ h[x] = f[x] + g[x]
  PROVE  SumOf(h, S) = SumOf(f, S) + SumOf(g, S)
<1>. DEFINE Good == {V \in SUBSET S : SumOf(h, V) = SumOf(f, V) + SumOf(g, V)}
<1>1. ASSUME NEW V \in SUBSET S, \A W \in SUBSET V : W # V => W \in Good
      PROVE  V \in Good
  <2>1. CASE V = {}
    BY <2>1, SumOfEmpty
  <2>2. CASE V # {}
    <3>. DEFINE c == Chosen(V)
                W == V \ {c}
    <3>1. c \in V
      BY <2>2, ChosenIn
    <3>2. W \in Good /\ IsFiniteSet(V) /\ IsFiniteSet(W)
      BY <1>1, <3>1, FS_Subset
    <3>3. /\ SumOf(h, V) = h[c] + SumOf(h, W) /\ SumOf(f, V) = f[c] + SumOf(f, W)
          /\ SumOf(g, V) = g[c] + SumOf(g, W)
      BY <2>2, <3>2, SumOfChosen
    <3>4. SumOf(f, W) \in Int /\ SumOf(g, W) \in Int
      BY <3>2, SumOfType
    <3>5. f[c] \in Int /\ g[c] \in Int /\ h[c] = f[c] + g[c]
      BY <3>1
    <3>6. SumOf(h, W) = SumOf(f, W) + SumOf(g, W)
      BY <3>2
    <3>. QED
      BY <3>3, <3>4, <3>5, <3>6
  <2>. QED
    BY <2>1, <2>2
<1>. HIDE DEF Good
<1>2. SUBSET S \subseteq Good
  BY <1>1, EverySubset
<1>. QED
  BY <1>2 DEF Good

(* A sum by groups: every element is in the group of its key.              *)
LEMMA SumOfGroups ==
  ASSUME NEW S, IsFiniteSet(S), NEW g, \A x \in S : g[x] \in Int,
         NEW K, IsFiniteSet(K), NEW key, \A x \in S : key[x] \in K
  PROVE  SumOf([k \in K |-> SumOf(g, {x \in S : key[x] = k})], K) = SumOf(g, S)
<1>. DEFINE By(V) == [k \in K |-> SumOf(g, {x \in V : key[x] = k})]
            Good == {V \in SUBSET S : SumOf(By(V), K) = SumOf(g, V)}
<1>1. ASSUME NEW V \in SUBSET S, \A W \in SUBSET V : W # V => W \in Good
      PROVE  V \in Good
  <2>1. CASE V = {}
    <3>1. \A k \in K : By(V)[k] = 0
      <4>1. \A k \in K : {x \in V : key[x] = k} = {}
        BY <2>1
      <4>. QED
        BY <4>1, SumOfEmpty
    <3>. QED
      BY <2>1, <3>1, SumOfEmpty, SumOfZero
  <2>2. CASE V # {}
    <3>. DEFINE c == Chosen(V)
                W == V \ {c}
                G(X, k) == {x \in X : key[x] = k}
    <3>1. c \in V /\ key[c] \in K /\ g[c] \in Int
      BY <2>2, ChosenIn
    <3>2. W \in Good /\ IsFiniteSet(V) /\ IsFiniteSet(W)
      BY <1>1, <3>1, FS_Subset
    <3>3. \A X \in SUBSET S, k \in K : IsFiniteSet(G(X, k)) /\ SumOf(g, G(X, k)) \in Int
      <4>1. ASSUME NEW X \in SUBSET S, NEW k \in K PROVE IsFiniteSet(G(X, k)) /\ SumOf(g, G(X, k)) \in Int
        <5>1. IsFiniteSet(G(X, k)) /\ \A x \in G(X, k) : g[x] \in Int
          BY FS_Subset
        <5>. QED
          BY <5>1, SumOfType
      <4>. QED
        BY <4>1
    <3>4. \A k \in K : By(V)[k] \in Int /\ By(W)[k] \in Int
      BY <3>3
    <3>5. \A k \in K \ {key[c]} : By(V)[k] = By(W)[k]
      <4>1. \A k \in K \ {key[c]} : G(V, k) = G(W, k)
        OBVIOUS
      <4>. QED
        BY <4>1
    <3>6. By(V)[key[c]] = g[c] + By(W)[key[c]]
      <4>1. c \in G(V, key[c]) /\ G(V, key[c]) \ {c} = G(W, key[c])
        BY <3>1
      <4>2. IsFiniteSet(G(V, key[c])) /\ \A x \in G(V, key[c]) : g[x] \in Int
        BY <3>1, <3>3
      <4>3. SumOf(g, G(V, key[c])) = g[c] + SumOf(g, G(W, key[c]))
        BY <4>1, <4>2, SumOfAny
      <4>. QED
        BY <3>1, <4>3
    <3>7. SumOf(By(V), K) = SumOf(By(W), K) + (By(V)[key[c]] - By(W)[key[c]])
      <4>. DEFINE h == By(V)
                  f == By(W)
      <4>1. /\ \A k \in K : f[k] \in Int /\ h[k] \in Int
            /\ \A k \in K \ {key[c]} : h[k] = f[k]
            /\ key[c] \in K
        BY <3>1, <3>4, <3>5
      <4>. HIDE DEF f, h, c, W, G, By, Good
      <4>2. SumOf(h, K) = SumOf(f, K) + (h[key[c]] - f[key[c]])
        BY <4>1, SumOfChange
      <4>. QED
        BY <4>2 DEF f, h
    <3>8. SumOf(g, V) = g[c] + SumOf(g, W)
      BY <2>2, <3>2, SumOfChosen
    <3>9. SumOf(g, W) \in Int
      BY <3>2, SumOfType
    <3>10. By(W)[key[c]] \in Int /\ By(V)[key[c]] \in Int
      BY <3>1, <3>4
    <3>11. SumOf(By(W), K) = SumOf(g, W)
      BY <3>2
    <3>. HIDE DEF By
    <3>12. SumOf(By(V), K) = SumOf(g, V)
      BY <3>1, <3>6, <3>7, <3>8, <3>9, <3>10, <3>11
    <3>. QED
      BY <3>12
  <2>. QED
    BY <2>1, <2>2
<1>. HIDE DEF Good
<1>2. SUBSET S \subseteq Good
  BY <1>1, EverySubset
<1>3. S \in Good
  BY <1>2
<1>. QED
  BY <1>3 DEF Good

(* More of one thing is that much more of the sum. *)
LEMMA SumOfMore ==
  ASSUME NEW S, IsFiniteSet(S), NEW g \in [S -> Nat], NEW x \in S, NEW n \in Nat
  PROVE  /\ SumOf(g, S) \in Nat
         /\ SumOf([g EXCEPT ![x] = @ + n], S) = SumOf(g, S) + n
<1>. DEFINE h == [g EXCEPT ![x] = @ + n]
<1>1. /\ \A y \in S : g[y] \in Int /\ h[y] \in Int
      /\ \A y \in S \ {x} : h[y] = g[y]
      /\ h[x] = g[x] + n /\ g[x] \in Nat
  OBVIOUS
<1>. HIDE DEF h
<1>2. SumOf(h, S) = SumOf(g, S) + (h[x] - g[x])
  BY <1>1, SumOfChange
<1>3. SumOf(g, S) \in Nat
  BY SumOfNatural
<1>4. SumOf(h, S) = SumOf(g, S) + n
  BY <1>1, <1>2, <1>3
<1>. QED
  BY <1>3, <1>4 DEF h
=============================================================================
