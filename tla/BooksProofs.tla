----------------------------- MODULE BooksProofs -----------------------------
(***************************************************************************)
(* The books of Purchase for any number of buyers, sellers, items and      *)
(* calls: as long as none of the five things happens that the books do     *)
(* not survive, the units that left the stock are the units in the         *)
(* sellers' counts, and in the buyers', once what each purchase under way  *)
(* is about to add is counted, and every feedback is counted once; and     *)
(* whatever happens, the state has its type.                               *)
(***************************************************************************)
EXTENDS PurchaseProofs, WellFoundedInduction

(***************************************************************************)
(* Sums over a finite set.  SumFunctionOnSet folds over the members one by *)
(* one, in an order of CHOOSE's; the lemmas say what does not depend on    *)
(* it.  The induction is over the subsets of the set: a claim about each   *)
(* of them is the set (Good) of those for which it holds.                  *)
(***************************************************************************)

\* A set of natural numbers that is not empty has a least one.
LEMMA LeastNatural ==
    ASSUME NEW T, T \subseteq Nat, T # {}
    PROVE  \E n \in T : \A m \in T : ~ (m < n)
<1> DEFINE R == OpToRel(<, Nat)
<1>1. IsWellFoundedOn(R, Nat)
  BY NatLessThanWellFounded
<1>2. \A m, n \in Nat : m < n => <<m, n>> \in R
  BY DEF OpToRel
<1> HIDE DEF R
<1>3. \E n \in T : \A m \in T : ~ (<<m, n>> \in R)
  BY <1>1, WFMin
<1> QED BY <1>2, <1>3

\* What holds for a finite set when it holds for its proper subsets, holds for it.
LEMMA SubsetInduction ==
    ASSUME NEW S, IsFiniteSet(S), NEW Good,
           \A T \in SUBSET S : (\A U \in SUBSET T : U # T => U \in Good) => T \in Good
    PROVE  S \in Good
<1> SUFFICES ASSUME S \notin Good PROVE FALSE
  OBVIOUS
<1> DEFINE Sizes == {Cardinality(T) : T \in (SUBSET S) \ Good}
<1>1. \A T \in SUBSET S : IsFiniteSet(T) /\ Cardinality(T) \in Nat
  BY FS_Subset, FS_CardinalityType
<1>2. Sizes \subseteq Nat /\ Sizes # {}
  BY <1>1
<1> HIDE DEF Sizes
<1>3. PICK n \in Sizes : \A m \in Sizes : ~ (m < n)
  BY <1>2, LeastNatural
<1> USE DEF Sizes
<1>4. PICK T \in (SUBSET S) \ Good : n = Cardinality(T)
  BY <1>3
<1>5. ASSUME NEW U \in SUBSET T, U # T
      PROVE  U \in Good
  <2>1. Cardinality(U) <= Cardinality(T) /\ Cardinality(U) # Cardinality(T)
    BY <1>1, <1>4, <1>5, FS_Subset
  <2>2. U \in SUBSET S /\ Cardinality(U) \in Nat /\ n \in Nat
    BY <1>1, <1>4, <1>5
  <2>3. Cardinality(U) \notin Sizes
    BY <1>3, <1>4, <2>1, <2>2
  <2> QED BY <2>2, <2>3
<1> QED BY <1>4, <1>5

Pick(s) == CHOOSE x \in s : TRUE
Folds(g, f, S) == g = [s \in SUBSET S |-> IF s = {} THEN 0 ELSE f[Pick(s)] + g[s \ {Pick(s)}]]

LEMMA PickIn == ASSUME NEW s, s # {} PROVE Pick(s) \in s
BY DEF Pick

\* The fold of the library, as one function on the subsets of S.
LEMMA SumUnfolds ==
    ASSUME NEW f, NEW S
    PROVE  SumFunctionOnSet(f, S) = (CHOOSE g : Folds(g, f, S))[S]
BY DEF SumFunctionOnSet, FoldFunctionOnSet, MapThenFoldSet, Folds, Pick

\* What the fold makes of a set does not depend on the set it is part of.
LEMMA FoldsAgree ==
    ASSUME NEW f, NEW S, NEW T, IsFiniteSet(S), NEW g, NEW h,
           Folds(g, f, S), Folds(h, f, T), NEW s, s \subseteq S, s \subseteq T
    PROVE  g[s] = h[s]
<1> DEFINE Good == {u \in SUBSET s : g[u] = h[u]}
<1>1. IsFiniteSet(s)
  BY FS_Subset
<1>2. ASSUME NEW u \in SUBSET s, \A v \in SUBSET u : v # u => v \in Good
      PROVE  u \in Good
  <2>1. CASE u = {}
    BY <2>1 DEF Folds
  <2>2. CASE u # {}
    <3>1. u \ {Pick(u)} \in Good
      BY <1>2, <2>2, PickIn
    <3>2. g[u] = f[Pick(u)] + g[u \ {Pick(u)}]
      BY <2>2 DEF Folds
    <3>3. h[u] = f[Pick(u)] + h[u \ {Pick(u)}]
      BY <2>2 DEF Folds
    <3> QED BY <3>1, <3>2, <3>3
  <2> QED BY <2>1, <2>2
<1> HIDE DEF Good
<1>3. s \in Good
  BY <1>1, <1>2, SubsetInduction
<1> QED BY <1>3 DEF Good

\* And there is such a function.
LEMMA FoldsExist ==
    ASSUME NEW f, NEW S, IsFiniteSet(S)
    PROVE  \E g : Folds(g, f, S)
<1> DEFINE Good == {T \in SUBSET S : \E g : Folds(g, f, T)}
<1>1. ASSUME NEW T \in SUBSET S, \A U \in SUBSET T : U # T => U \in Good
      PROVE  T \in Good
  <2> DEFINE fold(U) == CHOOSE g : Folds(g, f, U)
             rest(s) == s \ {Pick(s)}
             g == [s \in SUBSET T |-> IF s = {} THEN 0 ELSE f[Pick(s)] + fold(rest(s))[rest(s)]]
  <2>1. \A U \in SUBSET T : U # T => Folds(fold(U), f, U)
    BY <1>1
  <2>2. ASSUME NEW s \in SUBSET T, s # T
        PROVE  g[s] = fold(s)[s]
    <3>1. Folds(fold(s), f, s)
      BY <2>1, <2>2
    <3>2. CASE s = {}
      <4> HIDE DEF fold
      <4> QED BY <3>1, <3>2 DEF Folds
    <3>3. CASE s # {}
      <4>1. rest(s) \in SUBSET T /\ rest(s) # T /\ rest(s) \subseteq s
        BY <2>2
      <4>2. Folds(fold(rest(s)), f, rest(s))
        BY <2>1, <4>1
      <4>3. IsFiniteSet(s)
        BY <1>1, FS_Subset
      <4>6. IsFiniteSet(rest(s))
        BY <4>1, <4>3, FS_Subset
      <4> HIDE DEF fold, rest
      <4>4. fold(s)[rest(s)] = fold(rest(s))[rest(s)]
        BY <3>1, <4>1, <4>2, <4>3, FoldsAgree
      <4>5. fold(s)[s] = f[Pick(s)] + fold(s)[rest(s)]
        BY <3>1, <3>3 DEF Folds, rest
      <4> QED BY <3>3, <4>4, <4>5
    <3> QED BY <3>2, <3>3
  <2>3. ASSUME NEW s \in SUBSET T, s # {}
        PROVE  fold(rest(s))[rest(s)] = g[rest(s)]
    <3>1. rest(s) \in SUBSET T /\ rest(s) # T
      BY <2>3, PickIn
    <3> HIDE DEF g, rest, fold
    <3> QED BY <2>2, <3>1
  <2>4. Folds(g, f, T)
    <3>1. \A s \in SUBSET T : g[s] = IF s = {} THEN 0 ELSE f[Pick(s)] + fold(rest(s))[rest(s)]
      OBVIOUS
    <3>2. \A s \in SUBSET T : g[s] = IF s = {} THEN 0 ELSE f[Pick(s)] + g[rest(s)]
      <4> HIDE DEF g, rest, fold
      <4> QED BY <2>3, <3>1
    <3>3. g = [s \in SUBSET T |-> g[s]]
      OBVIOUS
    <3> HIDE DEF g, fold
    <3> QED BY <3>2, <3>3 DEF Folds
  <2> QED BY <2>4
<1> HIDE DEF Good
<1>2. S \in Good
  BY <1>1, SubsetInduction
<1> QED BY <1>2 DEF Good

\* A sum, one member at a time: the one that CHOOSE picks.
LEMMA SumRest ==
    ASSUME NEW f, NEW S, IsFiniteSet(S)
    PROVE  SumFunctionOnSet(f, S) =
             IF S = {} THEN 0 ELSE f[Pick(S)] + SumFunctionOnSet(f, S \ {Pick(S)})
<1> DEFINE g == CHOOSE g : Folds(g, f, S)
           R == S \ {Pick(S)}
           h == CHOOSE h : Folds(h, f, R)
<1>1. IsFiniteSet(R)
  BY FS_Subset
<1>2. Folds(g, f, S) /\ Folds(h, f, R)
  BY <1>1, FoldsExist
<1>3. SumFunctionOnSet(f, S) = g[S] /\ SumFunctionOnSet(f, R) = h[R]
  BY SumUnfolds
<1>4. R \subseteq S
  OBVIOUS
<1> HIDE DEF g, h
<1>5. g[S] = IF S = {} THEN 0 ELSE f[Pick(S)] + g[R]
  BY <1>2 DEF Folds
<1> HIDE DEF R
<1>6. g[R] = h[R]
  BY <1>2, <1>4, FoldsAgree
<1> QED BY <1>3, <1>5, <1>6 DEF R

\* A sum of integers is an integer.
LEMMA SumType ==
    ASSUME NEW f, NEW S, IsFiniteSet(S), \A x \in S : f[x] \in Int
    PROVE  SumFunctionOnSet(f, S) \in Int
<1> DEFINE Good == {T \in SUBSET S : SumFunctionOnSet(f, T) \in Int}
<1>1. ASSUME NEW T \in SUBSET S, \A U \in SUBSET T : U # T => U \in Good
      PROVE  T \in Good
  <2>1. IsFiniteSet(T)
    BY FS_Subset
  <2>2. CASE T = {}
    <3>1. SumFunctionOnSet(f, T) = 0
      BY <2>1, <2>2, SumRest
    <3> QED BY <3>1
  <2>3. CASE T # {}
    <3>1. T \ {Pick(T)} \in Good /\ f[Pick(T)] \in Int
      BY <1>1, <2>3, PickIn
    <3> QED BY <2>1, <2>3, <3>1, SumRest
  <2> QED BY <2>2, <2>3
<1> HIDE DEF Good
<1>2. S \in Good
  BY <1>1, SubsetInduction
<1> QED BY <1>2 DEF Good

\* Only the values on the set count.
LEMMA SumSame ==
    ASSUME NEW f, NEW h, NEW S, IsFiniteSet(S), \A x \in S : f[x] = h[x]
    PROVE  SumFunctionOnSet(f, S) = SumFunctionOnSet(h, S)
<1> DEFINE Good == {T \in SUBSET S : SumFunctionOnSet(f, T) = SumFunctionOnSet(h, T)}
<1>1. ASSUME NEW T \in SUBSET S, \A U \in SUBSET T : U # T => U \in Good
      PROVE  T \in Good
  <2>1. IsFiniteSet(T)
    BY FS_Subset
  <2>2. CASE T = {}
    BY <2>1, <2>2, SumRest
  <2>3. CASE T # {}
    <3>1. T \ {Pick(T)} \in Good /\ f[Pick(T)] = h[Pick(T)]
      BY <1>1, <2>3, PickIn
    <3>2. /\ SumFunctionOnSet(f, T) = f[Pick(T)] + SumFunctionOnSet(f, T \ {Pick(T)})
          /\ SumFunctionOnSet(h, T) = h[Pick(T)] + SumFunctionOnSet(h, T \ {Pick(T)})
      BY <2>1, <2>3, SumRest
    <3> QED BY <3>1, <3>2
  <2> QED BY <2>2, <2>3
<1> HIDE DEF Good
<1>2. S \in Good
  BY <1>1, SubsetInduction
<1> QED BY <1>2 DEF Good

\* Any member can be taken out of a sum.
LEMMA SumRemove ==
    ASSUME NEW f, NEW S, IsFiniteSet(S), \A y \in S : f[y] \in Int, NEW z \in S
    PROVE  SumFunctionOnSet(f, S) = f[z] + SumFunctionOnSet(f, S \ {z})
<1> DEFINE Sum(T) == SumFunctionOnSet(f, T)
           Good == {T \in SUBSET S : \A x \in T : Sum(T) = f[x] + Sum(T \ {x})}
<1>1. ASSUME NEW T \in SUBSET S, \A U \in SUBSET T : U # T => U \in Good, NEW x \in T
      PROVE  Sum(T) = f[x] + Sum(T \ {x})
  <2> DEFINE y == Pick(T)
             R == T \ {x, y}
  <2>1. y \in T
    BY PickIn
  <2>2. IsFiniteSet(T) /\ IsFiniteSet(T \ {x}) /\ IsFiniteSet(R)
    BY FS_Subset
  <2>3. Sum(T) = f[y] + Sum(T \ {y})
    BY <2>2, SumRest
  <2> HIDE DEF y
  <2>4. CASE y # x
    <3>1. T \ {x} \in Good /\ T \ {y} \in Good
      BY <1>1, <2>1
    <3>2. (T \ {y}) \ {x} = R /\ (T \ {x}) \ {y} = R
      OBVIOUS
    <3>3. Sum(T \ {y}) = f[x] + Sum(R) /\ Sum(T \ {x}) = f[y] + Sum(R)
      BY <2>1, <2>4, <3>1, <3>2
    <3>4. f[x] \in Int /\ f[y] \in Int /\ Sum(R) \in Int
      BY <2>1, <2>2, SumType
    <3> HIDE DEF Sum, R
    <3> QED BY <2>3, <3>3, <3>4
  <2> QED BY <2>3, <2>4
<1>2. \A T \in SUBSET S : (\A U \in SUBSET T : U # T => U \in Good) => T \in Good
  BY <1>1
<1> HIDE DEF Good
<1>3. S \in Good
  BY <1>2, SubsetInduction
<1> QED BY <1>3 DEF Good

\* What one changed value does to a sum, and what a new member does.
LEMMA SumChanged ==
    ASSUME NEW f, NEW h, NEW S, IsFiniteSet(S), NEW z \in S,
           \A y \in S : f[y] \in Int /\ h[y] \in Int,
           \A y \in S \ {z} : f[y] = h[y]
    PROVE  SumFunctionOnSet(h, S) = SumFunctionOnSet(f, S) + h[z] - f[z]
<1>1. IsFiniteSet(S \ {z})
  BY FS_Subset
<1>2. SumFunctionOnSet(h, S \ {z}) = SumFunctionOnSet(f, S \ {z})
  BY <1>1, SumSame
<1>3. /\ SumFunctionOnSet(f, S) = f[z] + SumFunctionOnSet(f, S \ {z})
      /\ SumFunctionOnSet(h, S) = h[z] + SumFunctionOnSet(h, S \ {z})
  BY SumRemove
<1>4. SumFunctionOnSet(f, S \ {z}) \in Int
  BY <1>1, SumType
<1> QED BY <1>2, <1>3, <1>4

\* One member joins.
LEMMA SumGrown ==
    ASSUME NEW f, NEW h, NEW S, IsFiniteSet(S), NEW z, z \notin S,
           \A y \in S : f[y] \in Int /\ f[y] = h[y], h[z] \in Int
    PROVE  SumFunctionOnSet(h, S \cup {z}) = SumFunctionOnSet(f, S) + h[z]
<1> DEFINE T == S \cup {z}
<1>1. IsFiniteSet(T) /\ T \ {z} = S
  BY FS_AddElement
<1>2. SumFunctionOnSet(h, T) = h[z] + SumFunctionOnSet(h, S)
  BY <1>1, SumRemove
<1>3. SumFunctionOnSet(h, S) = SumFunctionOnSet(f, S)
  BY SumSame
<1>4. SumFunctionOnSet(f, S) \in Int
  BY SumType
<1> QED BY <1>2, <1>3, <1>4

\* A sum of zeros.
LEMMA SumZero ==
    ASSUME NEW f, NEW S, IsFiniteSet(S), \A x \in S : f[x] = 0
    PROVE  SumFunctionOnSet(f, S) = 0
<1> DEFINE Good == {T \in SUBSET S : SumFunctionOnSet(f, T) = 0}
<1>1. ASSUME NEW T \in SUBSET S, \A U \in SUBSET T : U # T => U \in Good
      PROVE  T \in Good
  <2>1. IsFiniteSet(T)
    BY FS_Subset
  <2>2. CASE T = {}
    BY <2>1, <2>2, SumRest
  <2>3. CASE T # {}
    <3>1. T \ {Pick(T)} \in Good /\ f[Pick(T)] = 0
      BY <1>1, <2>3, PickIn
    <3> QED BY <2>1, <2>3, <3>1, SumRest
  <2> QED BY <2>2, <2>3
<1> HIDE DEF Good
<1>2. S \in Good
  BY <1>1, SubsetInduction
<1> QED BY <1>2 DEF Good

(***************************************************************************)
(* The stock and the counts.                                               *)
(***************************************************************************)
CountOf(cs, us) == SumFunctionOnSet(cs, us \cap DOMAIN cs)

Items(items) == DOMAIN items \subseteq Item /\ \A i \in DOMAIN items : items[i] \in Row
Counts(cs) == DOMAIN cs \subseteq Buyer \cup Seller /\ \A u \in DOMAIN cs : cs[u] \in Int

LEMMA StockType ==
    ASSUME NEW items, Items(items)
    PROVE  Stock(items) \in Int
<1>1. IsFiniteSet(DOMAIN items)
  BY PurchaseAssumption, FS_Subset DEF Items
<1> QED BY <1>1, SumType DEF Stock, SumFunction, Items, Row

\* An item joins the stock.
LEMMA StockPut ==
    ASSUME NEW items, Items(items), NEW i \in Item, i \notin DOMAIN items, NEW row \in Row
    PROVE  /\ Items(Put(items, i, row))
           /\ Stock(Put(items, i, row)) = Stock(items) + row.quantity
<1> DEFINE f == [j \in DOMAIN items |-> items[j].quantity]
           new == Put(items, i, row)
           h == [j \in DOMAIN new |-> new[j].quantity]
<1>1. IsFiniteSet(DOMAIN items)
  BY PurchaseAssumption, FS_Subset DEF Items
<1>2. DOMAIN new = DOMAIN items \cup {i} /\ \A j \in DOMAIN new : new[j] = IF j = i THEN row ELSE items[j]
  BY DEF Put
<1>3. Items(new)
  BY <1>2 DEF Items
<1> HIDE DEF new
<1>4. \A j \in DOMAIN items : f[j] \in Int /\ f[j] = h[j]
  BY <1>2 DEF Items, Row
<1>5. h[i] = row.quantity /\ h[i] \in Int
  BY <1>2 DEF Row
<1>6. DOMAIN f = DOMAIN items /\ DOMAIN h = DOMAIN items \cup {i}
  BY <1>2
<1>7. Stock(items) = SumFunctionOnSet(f, DOMAIN items) /\ Stock(new) = SumFunctionOnSet(h, DOMAIN items \cup {i})
  BY <1>6 DEF Stock, SumFunction
<1> HIDE DEF f, h
<1>8. SumFunctionOnSet(h, DOMAIN items \cup {i}) = SumFunctionOnSet(f, DOMAIN items) + h[i]
  BY <1>1, <1>4, <1>5, SumGrown
<1> QED BY <1>3, <1>5, <1>7, <1>8 DEF new

\* An item's row is replaced.
LEMMA StockSet ==
    ASSUME NEW items, Items(items), NEW i \in DOMAIN items, NEW row \in Row
    PROVE  /\ Items([items EXCEPT ![i] = row])
           /\ Stock([items EXCEPT ![i] = row]) = Stock(items) + row.quantity - items[i].quantity
<1> DEFINE f == [j \in DOMAIN items |-> items[j].quantity]
           new == [items EXCEPT ![i] = row]
           h == [j \in DOMAIN new |-> new[j].quantity]
<1>1. IsFiniteSet(DOMAIN items)
  BY PurchaseAssumption, FS_Subset DEF Items
<1>2. DOMAIN new = DOMAIN items /\ \A j \in DOMAIN new : new[j] = IF j = i THEN row ELSE items[j]
  OBVIOUS
<1>3. Items(new)
  BY <1>2 DEF Items
<1> HIDE DEF new
<1>4. /\ \A j \in DOMAIN items : f[j] \in Int /\ h[j] \in Int
      /\ \A j \in DOMAIN items \ {i} : f[j] = h[j]
  BY <1>2, <1>3 DEF Items, Row
<1>5. h[i] = row.quantity /\ f[i] = items[i].quantity
  BY <1>2
<1>6. DOMAIN f = DOMAIN items /\ DOMAIN h = DOMAIN items
  BY <1>2
<1>7. Stock(items) = SumFunctionOnSet(f, DOMAIN items) /\ Stock(new) = SumFunctionOnSet(h, DOMAIN items)
  BY <1>6 DEF Stock, SumFunction
<1> HIDE DEF f, h
<1>8. SumFunctionOnSet(h, DOMAIN items) = SumFunctionOnSet(f, DOMAIN items) + h[i] - f[i]
  BY <1>1, <1>4, SumChanged
<1> QED BY <1>3, <1>5, <1>7, <1>8 DEF new

LEMMA CountType ==
    ASSUME NEW cs, Counts(cs), NEW us \in {Buyer, Seller}
    PROVE  CountOf(cs, us) \in Int /\ IsFiniteSet(us \cap DOMAIN cs)
<1>1. IsFiniteSet(us \cap DOMAIN cs)
  BY PurchaseAssumption, FS_Subset
<1> QED BY <1>1, SumType DEF CountOf, Counts

\* a new account counts nothing
LEMMA CountPut ==
    ASSUME NEW cs, Counts(cs), NEW u \in Buyer \cup Seller, u \notin DOMAIN cs,
           NEW us \in {Buyer, Seller}
    PROVE  /\ Counts(Put(cs, u, 0))
           /\ CountOf(Put(cs, u, 0), us) = CountOf(cs, us)
<1> DEFINE new == Put(cs, u, 0)
           D == us \cap DOMAIN cs
<1>1. DOMAIN new = DOMAIN cs \cup {u} /\ \A x \in DOMAIN new : new[x] = IF x = u THEN 0 ELSE cs[x]
  BY DEF Put
<1>2. Counts(new)
  BY <1>1 DEF Counts
<1> HIDE DEF new
<1>3. IsFiniteSet(D) /\ CountOf(cs, us) \in Int
  BY CountType
<1>4. \A x \in D : cs[x] \in Int /\ cs[x] = new[x]
  BY <1>1 DEF Counts
<1>5. CASE u \in us
  <2>1. us \cap DOMAIN new = D \cup {u} /\ u \notin D
    BY <1>1, <1>5
  <2>2. new[u] = 0
    BY <1>1
  <2> HIDE DEF D
  <2>3. SumFunctionOnSet(new, D \cup {u}) = SumFunctionOnSet(cs, D) + new[u]
    BY <1>3, <1>4, <2>1, <2>2, SumGrown
  <2> QED BY <1>2, <1>3, <2>1, <2>2, <2>3 DEF CountOf, D, new
<1>6. CASE u \notin us
  <2>1. us \cap DOMAIN new = D
    BY <1>1, <1>6
  <2> HIDE DEF D
  <2>2. SumFunctionOnSet(cs, D) = SumFunctionOnSet(new, D)
    BY <1>3, <1>4, SumSame
  <2> QED BY <1>2, <2>1, <2>2 DEF CountOf, D, new
<1> QED BY <1>5, <1>6

\* One account's count is set.
LEMMA CountSet ==
    ASSUME NEW cs, Counts(cs), NEW u \in DOMAIN cs, NEW n \in Int, NEW us \in {Buyer, Seller}
    PROVE  /\ Counts([cs EXCEPT ![u] = n])
           /\ CountOf([cs EXCEPT ![u] = n], us)
                  = CountOf(cs, us) + (IF u \in us THEN n - cs[u] ELSE 0)
<1> DEFINE new == [cs EXCEPT ![u] = n]
           D == us \cap DOMAIN cs
<1>1. DOMAIN new = DOMAIN cs /\ \A x \in DOMAIN new : new[x] = IF x = u THEN n ELSE cs[x]
  OBVIOUS
<1>2. Counts(new)
  BY <1>1 DEF Counts
<1> HIDE DEF new
<1>3. IsFiniteSet(D) /\ CountOf(cs, us) \in Int
  BY CountType
<1>4. /\ \A x \in D : cs[x] \in Int /\ new[x] \in Int
      /\ \A x \in D \ {u} : cs[x] = new[x]
      /\ us \cap DOMAIN new = D /\ new[u] = n
  BY <1>1 DEF Counts
<1>5. CASE u \in us
  <2>1. u \in D
    BY <1>5
  <2> HIDE DEF D
  <2>2. SumFunctionOnSet(new, D) = SumFunctionOnSet(cs, D) + new[u] - cs[u]
    BY <1>3, <1>4, <2>1, SumChanged
  <2>3. CountOf(cs, us) = SumFunctionOnSet(cs, D) /\ CountOf(new, us) = SumFunctionOnSet(new, D)
    BY <1>4 DEF CountOf, D
  <2>4. n \in Int /\ cs[u] \in Int /\ SumFunctionOnSet(cs, D) \in Int
    BY <1>3, <1>4, <2>1, <2>3
  <2> QED BY <1>2, <1>4, <1>5, <2>2, <2>3, <2>4 DEF new
<1>6. CASE u \notin us
  <2>1. \A x \in D : cs[x] = new[x]
    BY <1>4, <1>6
  <2> HIDE DEF D
  <2>2. SumFunctionOnSet(cs, D) = SumFunctionOnSet(new, D)
    BY <1>3, <2>1, SumSame
  <2> QED BY <1>2, <1>3, <1>4, <1>6, <2>2 DEF CountOf, D, new
<1> QED BY <1>5, <1>6

\* Accounts that count nothing.
LEMMA CountZero ==
    ASSUME NEW cs, Counts(cs), \A u \in DOMAIN cs : cs[u] = 0, NEW us \in {Buyer, Seller}
    PROVE  CountOf(cs, us) = 0
BY CountType, SumZero DEF CountOf

(***************************************************************************)
(* What a purchase under way has taken and is about to add to a count.     *)
(***************************************************************************)
SellerDue(k) == IF k.paid /\ k.pc \in {"add_history", "get_seller", "update_seller"}
                THEN k.cart[k.item] ELSE 0
BuyerDue(k) == SumFunctionOnSet(k.cart, Taken(k))
SellerDues(ks) == SumFunction([c \in Call |-> SellerDue(ks[c])])
BuyerDues(ks) == SumFunction([c \in Call |-> BuyerDue(ks[c])])

Books(cs, items, n, ks) ==
    /\ CountOf(cs, Seller) + SellerDues(ks) = n - Stock(items)
    /\ CountOf(cs, Buyer) + BuyerDues(ks) = n - Stock(items)

LEMMA CartFinite ==
    ASSUME NEW cart, IsCart(cart), NEW S \in SUBSET DOMAIN cart
    PROVE  IsFiniteSet(S) /\ \A i \in S : cart[i] \in Int
BY PurchaseAssumption, FS_Subset DEF IsCart

\* What a handler owes is a number.
LEMMA DueType ==
    ASSUME NEW k, IsCart(k.cart), (k.paid /\ k.pc \in {"add_history", "get_seller", "update_seller"}) => k.item \in DOMAIN k.cart
    PROVE  SellerDue(k) \in Int /\ BuyerDue(k) \in Int
<1>1. SellerDue(k) \in Int
  BY DEF SellerDue, IsCart
<1>2. Taken(k) \in SUBSET DOMAIN k.cart
  BY DEF Taken
<1> QED BY <1>1, <1>2, CartFinite, SumType DEF BuyerDue

\* Before it has paid and after its last count a handler owes nothing.
LEMMA NothingDue ==
    ASSUME NEW k, ~k.paid \/ k.pc \in {"clear", "done"}
    PROVE  Taken(k) = {} /\ SellerDue(k) = 0 /\ BuyerDue(k) = 0
<1>1. Taken(k) = {}
  BY DEF Taken
<1>2. IsFiniteSet({})
  BY FS_EmptySet
<1>3. BuyerDue(k) = 0
  BY <1>1, <1>2, SumZero DEF BuyerDue
<1> QED BY <1>1, <1>3 DEF SellerDue

\* One handler moves: the dues change by what it owes.
LEMMA DuesChange ==
    ASSUME NEW ks, NEW ls, NEW c \in Call, \A d \in Call \ {c} : ls[d] = ks[d],
           \A d \in Call : SellerDue(ks[d]) \in Int /\ BuyerDue(ks[d]) \in Int,
           SellerDue(ls[c]) \in Int, BuyerDue(ls[c]) \in Int
    PROVE  /\ SellerDues(ls) = SellerDues(ks) + SellerDue(ls[c]) - SellerDue(ks[c])
           /\ BuyerDues(ls) = BuyerDues(ks) + BuyerDue(ls[c]) - BuyerDue(ks[c])
           /\ SellerDues(ks) \in Int /\ BuyerDues(ks) \in Int
<1> DEFINE f == [d \in Call |-> SellerDue(ks[d])]
           g == [d \in Call |-> SellerDue(ls[d])]
           h == [d \in Call |-> BuyerDue(ks[d])]
           j == [d \in Call |-> BuyerDue(ls[d])]
<1>1. IsFiniteSet(Call)
  BY PurchaseAssumption
<1>2. /\ \A d \in Call : f[d] \in Int /\ g[d] \in Int
      /\ \A d \in Call \ {c} : f[d] = g[d]
      /\ f[c] = SellerDue(ks[c]) /\ g[c] = SellerDue(ls[c])
  OBVIOUS
<1>3. /\ \A d \in Call : h[d] \in Int /\ j[d] \in Int
      /\ \A d \in Call \ {c} : h[d] = j[d]
      /\ h[c] = BuyerDue(ks[c]) /\ j[c] = BuyerDue(ls[c])
  OBVIOUS
<1>4. /\ SellerDues(ks) = SumFunctionOnSet(f, Call) /\ SellerDues(ls) = SumFunctionOnSet(g, Call)
      /\ BuyerDues(ks) = SumFunctionOnSet(h, Call) /\ BuyerDues(ls) = SumFunctionOnSet(j, Call)
  BY DEF SellerDues, BuyerDues, SumFunction
<1> HIDE DEF f, g, h, j
<1>5. SumFunctionOnSet(g, Call) = SumFunctionOnSet(f, Call) + g[c] - f[c]
  BY <1>1, <1>2, SumChanged
<1>6. SumFunctionOnSet(j, Call) = SumFunctionOnSet(h, Call) + j[c] - h[c]
  BY <1>1, <1>3, SumChanged
<1>7. SumFunctionOnSet(f, Call) \in Int /\ SumFunctionOnSet(h, Call) \in Int
  BY <1>1, <1>2, <1>3, SumType
<1> QED BY <1>2, <1>3, <1>4, <1>5, <1>6, <1>7

(***************************************************************************)
(* What more is known of a handler, and how one moves.                     *)
(***************************************************************************)
Account == Buyer \cup Seller

HandlerMore(k) ==
    /\ k.pc \in {"create_account", "login", "logout", "reset_all"} => k.op.kind = k.pc
    /\ k.pc = "create_session" => k.op.kind = "login"
    /\ k.pc = "reset_products" => k.op.kind = "reset_all"
    /\ k.pc = "pay" => k.todo = DOMAIN k.cart
    /\ k.pc \in {"add_history", "get_seller", "update_seller"} =>
          k.row \in Row /\ k.item \in DOMAIN k.cart /\ k.item \notin k.todo
    /\ k.pc \in {"update_seller", "update_buyer"} => k.count \in Int
    /\ k.pc = "update_buyer" => k.todo = {}
    /\ k.pc = "update_item" /\ k.op.kind # "purchase" => k.item = k.op.item

\* what is relied on about handlers and accounts
Known ==
    /\ BoughtInv
    /\ \A c \in Call : HandlerMore(calls[c])
    /\ Counts(customers)

Others(c) == DOMAIN calls' = Call /\ \A d \in Call \ {c} : calls'[d] = calls[d]

\* A handler returns.
LEMMA EndFields ==
    ASSUME Known, NEW c \in Call, NEW result, End(c, result)
    PROVE  /\ Others(c)
           /\ calls'[c].pc = "done" /\ calls'[c].op = calls[c].op /\ calls'[c].paid = calls[c].paid
           /\ calls'[c].result = result
           /\ HandlerMore(calls'[c])
<1>1. /\ Others(c)
      /\ calls'[c].pc = "done" /\ calls'[c].op = calls[c].op /\ calls'[c].paid = calls[c].paid
      /\ calls'[c].result = result
  BY Held DEF Known, BoughtInv, End, Idle, Others
<1> QED BY <1>1 DEF HandlerMore

\* a purchase that has been paid moves on
Goes(c, pc, todo, item, row, count) ==
    /\ Others(c)
    /\ calls'[c].op = calls[c].op /\ calls'[c].cart = calls[c].cart /\ calls'[c].paid = calls[c].paid
    /\ calls'[c].pc = pc /\ calls'[c].todo = todo /\ calls'[c].item = item
    /\ calls'[c].row = row /\ calls'[c].count = count

LEMMA GoesFields ==
    ASSUME Known, NEW c \in Call, NEW pc, NEW todo, NEW item, NEW row, NEW count
    PROVE  /\ calls' = [calls EXCEPT ![c].pc = pc] =>
                Goes(c, pc, calls[c].todo, calls[c].item, calls[c].row, calls[c].count)
           /\ calls' = [calls EXCEPT ![c].todo = todo] =>
                Goes(c, calls[c].pc, todo, calls[c].item, calls[c].row, calls[c].count)
           /\ calls' = [calls EXCEPT ![c].count = count, ![c].pc = pc] =>
                Goes(c, pc, calls[c].todo, calls[c].item, calls[c].row, count)
           /\ calls' = [calls EXCEPT ![c].todo = todo, ![c].item = item, ![c].row = row, ![c].pc = pc] =>
                Goes(c, pc, todo, item, row, calls[c].count)
<1>1. DOMAIN calls[c] = DOMAIN Idle /\ c \in DOMAIN calls /\ DOMAIN calls = Call
  BY Held DEF Known, BoughtInv, HandlerSafe
<1>2. ASSUME calls' = [calls EXCEPT ![c].pc = pc]
      PROVE  Goes(c, pc, calls[c].todo, calls[c].item, calls[c].row, calls[c].count)
  BY <1>1, <1>2 DEF Goes, Others, Idle
<1>3. ASSUME calls' = [calls EXCEPT ![c].todo = todo]
      PROVE  Goes(c, calls[c].pc, todo, calls[c].item, calls[c].row, calls[c].count)
  BY <1>1, <1>3 DEF Goes, Others, Idle
<1>4. ASSUME calls' = [calls EXCEPT ![c].count = count, ![c].pc = pc]
      PROVE  Goes(c, pc, calls[c].todo, calls[c].item, calls[c].row, count)
  BY <1>1, <1>4 DEF Goes, Others, Idle
<1>5. ASSUME calls' = [calls EXCEPT ![c].todo = todo, ![c].item = item, ![c].row = row, ![c].pc = pc]
      PROVE  Goes(c, pc, todo, item, row, calls[c].count)
  BY <1>1, <1>5 DEF Goes, Others, Idle
<1> QED BY <1>2, <1>3, <1>4, <1>5

\* A handler that has paid nothing before a step and after it.
Unpaid(c) ==
    /\ Others(c)
    /\ ~calls[c].paid /\ ~calls'[c].paid
    /\ HandlerMore(calls'[c])

\* It returns and has not paid.
LEMMA EndsUnpaid ==
    ASSUME Known, NEW c \in Call, NEW result, End(c, result), ~calls[c].paid
    PROVE  Unpaid(c)
BY EndFields DEF Unpaid

\* The steps before a payment, and those of handlers that never pay.
LEMMA EarlySteps ==
    ASSUME Known, NEW c \in Call,
           Start(c) \/ Expired(c) \/ Login(c) \/ ResetCustomers(c) \/ GetCart(c) \/ GetItem(c)
    PROVE  Unpaid(c) /\ calls[c].pc # "done"
<1> DEFINE k == calls[c]
<1>0. PaidHandler(k) /\ HandlerSafe(c, k) /\ HandlerMore(k) /\ c \in DOMAIN calls /\ DOMAIN calls = Call
  BY Held DEF Known, BoughtInv
<1>1. k.pc \in {"idle", "login", "reset_all", "get_cart", "get_item"}
  BY DEF Start, Expired, Login, ResetCustomers, GetCart, GetItem, At
<1>2. ~k.paid
  BY <1>0, <1>1 DEF PaidHandler, Buying
<1>3. CASE \E result : End(c, result)
  BY <1>1, <1>2, <1>3, EndsUnpaid
<1>4. CASE \A result : ~End(c, result)
  <2>1. CASE Start(c)
    <3>1. PICK op \in Script[c] : calls' = [calls EXCEPT ![c].op = op, ![c].pc = First(op.kind)]
      BY <2>1 DEF Start
    <3>2. /\ Others(c) /\ calls'[c].op = op /\ calls'[c].pc = First(op.kind)
          /\ calls'[c].paid = k.paid /\ calls'[c].todo = k.todo /\ calls'[c].cart = k.cart
      BY <1>0, <3>1 DEF Others, HandlerSafe, Idle
    <3>3. HandlerMore(calls'[c])
      BY <3>2, ScriptAssumption DEF HandlerMore, First
    <3> QED BY <1>1, <1>2, <3>2, <3>3 DEF Unpaid
  <2>2. CASE Expired(c)
    <3>1. PICK op \in Script[c] :
             calls' = [calls EXCEPT ![c].op = op, ![c].pc = "done", ![c].result = "expired"]
      BY <2>2 DEF Expired
    <3>2. Others(c) /\ calls'[c].pc = "done" /\ calls'[c].paid = k.paid
      BY <1>0, <3>1 DEF Others, HandlerSafe, Idle
    <3> QED BY <1>1, <1>2, <3>2 DEF Unpaid, HandlerMore
  <2>3. CASE Login(c)
    <3>1. Goes(c, "create_session", k.todo, k.item, k.row, k.count)
      BY <1>4, <2>3, GoesFields DEF Login
    <3>2. k.op.kind = "login"
      BY <1>0, <2>3 DEF Login, At, HandlerMore
    <3> QED BY <1>1, <1>2, <3>1, <3>2 DEF Unpaid, HandlerMore, Goes
  <2>4. CASE ResetCustomers(c)
    <3>1. Goes(c, "reset_products", k.todo, k.item, k.row, k.count)
      BY <1>4, <2>4, GoesFields DEF ResetCustomers
    <3>2. k.op.kind = "reset_all"
      BY <1>0, <2>4 DEF ResetCustomers, At, HandlerMore
    <3> QED BY <1>1, <1>2, <3>1, <3>2 DEF Unpaid, HandlerMore, Goes
  <2>5. CASE GetCart(c)
    <3> DEFINE cart == product.carts[User(c)]
               pc == IF Kind(c) = "purchase" THEN "pay" ELSE "save"
               todo == DOMAIN cart
    <3>1. calls' = [calls EXCEPT ![c].cart = cart, ![c].todo = todo, ![c].pc = pc]
      BY <1>4, <2>5 DEF GetCart
    <3>2. pc \in {"pay", "save"} /\ todo = DOMAIN cart
      OBVIOUS
    <3> HIDE DEF cart, pc, todo
    <3>3. /\ Others(c) /\ calls'[c].pc = pc /\ calls'[c].cart = cart /\ calls'[c].todo = todo
          /\ calls'[c].paid = k.paid
      BY <1>0, <3>1 DEF Others, HandlerSafe, Idle
    <3> QED BY <1>1, <1>2, <3>2, <3>3 DEF Unpaid, HandlerMore
  <2>6. CASE GetItem(c)
    <3> DEFINE i == k.op.item
               row == product.items[i]
    <3>1. calls' = [calls EXCEPT ![c].item = i, ![c].row = row, ![c].pc = "update_item"]
      BY <1>4, <2>6 DEF GetItem
    <3> HIDE DEF row
    <3>2. /\ Others(c) /\ calls'[c].pc = "update_item" /\ calls'[c].item = k.op.item
          /\ calls'[c].op = k.op /\ calls'[c].paid = k.paid
      BY <1>0, <3>1 DEF Others, HandlerSafe, Idle
    <3> QED BY <1>1, <1>2, <3>2 DEF Unpaid, HandlerMore
  <2> QED BY <2>1, <2>2, <2>3, <2>4, <2>5, <2>6
<1> QED BY <1>3, <1>4

\* The steps with which a handler that never pays returns.
LEMMA EndingSteps ==
    ASSUME Known, NEW c \in Call,
           \/ CreateAccount(c) \/ CreateSession(c) \/ Logout(c)
           \/ AddToCart(c) \/ RemoveFromCart(c) \/ ClearCart(c) \/ SaveCart(c)
           \/ RegisterItem(c) \/ ResetProducts(c)
           \/ UpdateItem(c) /\ Kind(c) # "purchase"
    PROVE  Unpaid(c) /\ calls[c].pc # "done" /\ \E result : End(c, result)
<1>1. \E result : End(c, result)
  BY DEF CreateAccount, CreateSession, Logout, AddToCart, RemoveFromCart, ClearCart, CartCall,
         SaveCart, RegisterItem, ResetProducts, UpdateItem
<1>2. /\ calls[c].pc \in {"create_account", "create_session", "logout", "add_to_cart", "remove_from_cart",
                          "clear_cart", "save", "register_item", "reset_products", "update_item"}
      /\ calls[c].pc = "update_item" => calls[c].op.kind # "purchase"
  BY DEF CreateAccount, CreateSession, Logout, AddToCart, RemoveFromCart, ClearCart, CartCall,
         SaveCart, RegisterItem, ResetProducts, UpdateItem, At, Kind
<1>3. ~calls[c].paid
  BY <1>2 DEF Known, BoughtInv, PaidHandler, Buying
<1> QED BY <1>1, <1>2, <1>3, EndsUnpaid

\* The steps of a purchase: from its payment to its end.
LEMMA PayStep ==
    ASSUME Known, NEW c \in Call, Pay(c)
    PROVE  /\ calls[c].pc = "pay" /\ ~calls[c].paid /\ calls[c].todo = DOMAIN calls[c].cart
           /\ calls[c].op.kind = "purchase"
           /\ \/ Unpaid(c) /\ \E result : result # "ok" /\ End(c, result)
              \/ /\ Others(c) /\ calls'[c].paid = TRUE /\ calls'[c].op = calls[c].op
                 /\ calls'[c].pc = "next_item" /\ calls'[c].cart = calls[c].cart
                 /\ calls'[c].todo = calls[c].todo
<1>0. /\ PaidHandler(calls[c]) /\ HandlerSafe(c, calls[c]) /\ HandlerMore(calls[c])
      /\ c \in DOMAIN calls /\ DOMAIN calls = Call
  BY Held DEF Known, BoughtInv
<1>1. /\ calls[c].pc = "pay" /\ ~calls[c].paid /\ calls[c].todo = DOMAIN calls[c].cart
      /\ calls[c].op.kind = "purchase"
  BY <1>0 DEF Pay, At, PaidHandler, Buying, HandlerMore, HandlerSafe, Purchasing
<1>2. CASE \E result : result # "ok" /\ End(c, result)
  BY <1>1, <1>2, EndsUnpaid
<1>3. CASE calls' = [calls EXCEPT ![c].pc = "next_item", ![c].paid = TRUE]
  BY <1>0, <1>1, <1>3 DEF HandlerSafe, Idle, Others
<1>4. PICK answer \in PaymentAnswer :
         IF answer = "approved" THEN calls' = [calls EXCEPT ![c].pc = "next_item", ![c].paid = TRUE]
         ELSE End(c, answer)
  BY DEF Pay, Approved
<1> QED BY <1>1, <1>2, <1>3, <1>4 DEF PaymentAnswer

\* the handler of c has a payment and goes on
Paying(c) ==
    /\ Others(c) /\ HandlerMore(calls'[c])
    /\ calls[c].paid /\ calls[c].op.kind = "purchase"
    /\ calls'[c].op = calls[c].op /\ calls'[c].paid = calls[c].paid

\* What a purchase past its payment holds.
LEMMA PaidFacts ==
    ASSUME Known, NEW c \in Call,
           calls[c].pc \in Buying \/ (calls[c].pc = "update_item" /\ calls[c].op.kind = "purchase")
    PROVE  /\ calls[c].paid /\ calls[c].op.kind = "purchase" /\ calls[c].op \in Script[c]
           /\ IsCart(calls[c].cart) /\ calls[c].todo \subseteq DOMAIN calls[c].cart
           /\ HandlerMore(calls[c])
           /\ calls[c].pc = "update_item" =>
                 calls[c].row \in Row /\ calls[c].item \in DOMAIN calls[c].cart
                 /\ calls[c].item \notin calls[c].todo
<1>1. PaidHandler(calls[c]) /\ HandlerSafe(c, calls[c]) /\ HandlerMore(calls[c])
  BY Held DEF Known, BoughtInv
<1> QED BY <1>1 DEF PaidHandler, HandlerSafe, Purchasing, Buying

LEMMA EndsPaying ==
    ASSUME Known, NEW c \in Call, NEW result, End(c, result), calls[c].pc \in Buying
    PROVE  Paying(c)
BY EndFields, PaidFacts DEF Paying

\* make_purchase, step by step: where it goes next, or what is recorded in disturbed.
LEMMA DeductStep ==
    ASSUME Known, NEW c \in Call, UpdateItem(c), Kind(c) = "purchase"
    PROVE  /\ Paying(c) /\ calls[c].pc = "update_item"
           /\ Goes(c, "add_history", calls[c].todo, calls[c].item, calls[c].row, calls[c].count)
<1>1. Goes(c, "add_history", calls[c].todo, calls[c].item, calls[c].row, calls[c].count)
  BY GoesFields DEF UpdateItem
<1>2. calls[c].pc = "update_item" /\ calls[c].op.kind = "purchase"
  BY DEF UpdateItem, At, Kind
<1> QED BY <1>1, <1>2, PaidFacts DEF Paying, Goes, HandlerMore

LEMMA NextItemStep ==
    ASSUME Known, NEW c \in Call, NextItem(c)
    PROVE  /\ Paying(c) /\ calls[c].pc = "next_item"
           /\ \/ "skipped" \in disturbed'
              \/ \E i \in calls[c].todo :
                    /\ i \in DOMAIN product.items
                    /\ Goes(c, "update_item", calls[c].todo \ {i}, i, product.items[i], calls[c].count)
              \/ /\ End(c, "insufficient")
                 /\ "refused" \in disturbed' \/ calls[c].todo = DOMAIN calls[c].cart
<1>1. calls[c].pc = "next_item"
  BY DEF NextItem, At
<1>2. PICK i \in calls[c].todo, o \in {"ok", "lost"} :
         IF o = "lost" \/ i \notin DOMAIN product.items
         THEN /\ calls' = [calls EXCEPT ![c].todo = @ \ {i}]
              /\ Disturb("skipped", TRUE)
         ELSE IF Enough(product.items[i], calls[c].cart[i])
         THEN calls' = [calls EXCEPT ![c].todo = @ \ {i}, ![c].item = i,
                                     ![c].row = product.items[i], ![c].pc = "update_item"]
         ELSE /\ End(c, "insufficient")
              /\ Disturb("refused", calls[c].todo # DOMAIN calls[c].cart)
  BY DEF NextItem
<1>3. calls[c].pc \in Buying
  BY <1>1 DEF Buying
<1>4. c \in DOMAIN calls /\ DOMAIN calls[c] = DOMAIN Idle
  BY Held DEF Known, BoughtInv, HandlerSafe
<1>5. ASSUME calls' = [calls EXCEPT ![c].todo = @ \ {i}], Disturb("skipped", TRUE)
      PROVE  Paying(c) /\ "skipped" \in disturbed'
  <2> DEFINE rest == calls[c].todo \ {i}
  <2>1. calls' = [calls EXCEPT ![c].todo = rest]
    BY <1>4, <1>5
  <2> HIDE DEF rest
  <2>2. Goes(c, calls[c].pc, rest, calls[c].item, calls[c].row, calls[c].count)
    BY <2>1, GoesFields
  <2> QED BY <1>1, <1>3, <1>5, <2>2, PaidFacts DEF Paying, Goes, HandlerMore, Disturb
<1>6. ASSUME calls' = [calls EXCEPT ![c].todo = @ \ {i}, ![c].item = i,
                                    ![c].row = product.items[i], ![c].pc = "update_item"]
      PROVE  /\ Paying(c)
             /\ Goes(c, "update_item", calls[c].todo \ {i}, i, product.items[i], calls[c].count)
  <2> DEFINE rest == calls[c].todo \ {i}
             row == product.items[i]
  <2>1. calls' = [calls EXCEPT ![c].todo = rest, ![c].item = i, ![c].row = row, ![c].pc = "update_item"]
    BY <1>4, <1>6
  <2> HIDE DEF rest, row
  <2>2. Goes(c, "update_item", rest, i, row, calls[c].count)
    BY <2>1, GoesFields
  <2> QED BY <1>3, <2>2, PaidFacts DEF Paying, Goes, HandlerMore, rest, row
<1>7. ASSUME End(c, "insufficient"), Disturb("refused", calls[c].todo # DOMAIN calls[c].cart)
      PROVE  Paying(c) /\ ("refused" \in disturbed' \/ calls[c].todo = DOMAIN calls[c].cart)
  BY <1>3, <1>7, EndsPaying DEF Disturb
<1> QED BY <1>1, <1>2, <1>5, <1>6, <1>7

LEMMA AddHistoryMove ==
    ASSUME Known, NEW c \in Call, AddHistory(c)
    PROVE  /\ Paying(c) /\ calls[c].pc = "add_history"
           /\ Goes(c, "get_seller", calls[c].todo, calls[c].item, calls[c].row, calls[c].count)
<1>1. Goes(c, "get_seller", calls[c].todo, calls[c].item, calls[c].row, calls[c].count)
  BY GoesFields DEF AddHistory
<1>2. calls[c].pc = "add_history" /\ calls[c].pc \in Buying
  BY DEF AddHistory, At, Buying
<1> QED BY <1>1, <1>2, PaidFacts DEF Paying, Goes, HandlerMore

LEMMA GetSellerStep ==
    ASSUME Known, NEW c \in Call, GetSeller(c)
    PROVE  /\ Paying(c) /\ calls[c].pc = "get_seller"
           /\ \/ "skipped" \in disturbed'
              \/ \E n \in Int : Goes(c, "update_seller", calls[c].todo, calls[c].item, calls[c].row, n)
<1>1. calls[c].pc = "get_seller" /\ calls[c].pc \in Buying
  BY DEF GetSeller, At, Buying
<1>2. PICK found \in BOOLEAN :
         /\ found => calls[c].row.seller \in DOMAIN customers
         /\ calls' = IF found THEN [calls EXCEPT ![c].count = customers[calls[c].row.seller],
                                                 ![c].pc = "update_seller"]
                     ELSE [calls EXCEPT ![c].pc = "next_item"]
         /\ Disturb("skipped", ~found)
  BY DEF GetSeller
<1>3. CASE found
  <2>1. PICK n \in Int : n = customers[calls[c].row.seller]
    BY <1>2, <1>3 DEF Known, Counts
  <2>2. Goes(c, "update_seller", calls[c].todo, calls[c].item, calls[c].row, n)
    BY <1>2, <1>3, <2>1, GoesFields
  <2> QED BY <1>1, <2>2, PaidFacts DEF Paying, Goes, HandlerMore
<1>4. CASE ~found
  <2>1. Goes(c, "next_item", calls[c].todo, calls[c].item, calls[c].row, calls[c].count)
    BY <1>2, <1>4, GoesFields
  <2> QED BY <1>1, <1>2, <1>4, <2>1, PaidFacts DEF Paying, Goes, HandlerMore, Disturb
<1> QED BY <1>3, <1>4

LEMMA UpdateSellerStep ==
    ASSUME Known, NEW c \in Call, UpdateSeller(c)
    PROVE  /\ Paying(c) /\ calls[c].pc = "update_seller"
           /\ Goes(c, "next_item", calls[c].todo, calls[c].item, calls[c].row, calls[c].count)
<1>1. Goes(c, "next_item", calls[c].todo, calls[c].item, calls[c].row, calls[c].count)
  BY GoesFields DEF UpdateSeller
<1>2. calls[c].pc = "update_seller" /\ calls[c].pc \in Buying
  BY DEF UpdateSeller, At, Buying
<1> QED BY <1>1, <1>2, PaidFacts DEF Paying, Goes, HandlerMore

LEMMA GetBuyerStep ==
    ASSUME Known, NEW c \in Call, GetBuyer(c)
    PROVE  /\ Paying(c) /\ calls[c].pc = "next_item" /\ calls[c].todo = {}
           /\ \/ "skipped" \in disturbed'
              \/ \E n \in Int : Goes(c, "update_buyer", calls[c].todo, calls[c].item, calls[c].row, n)
<1>1. calls[c].pc = "next_item" /\ calls[c].pc \in Buying /\ calls[c].todo = {}
  BY DEF GetBuyer, At, Buying
<1>2. PICK found \in BOOLEAN :
         /\ found => User(c) \in DOMAIN customers
         /\ IF found THEN calls' = [calls EXCEPT ![c].count = customers[User(c)], ![c].pc = "update_buyer"]
            ELSE calls' = [calls EXCEPT ![c].pc = "clear"] \/ End(c, "error")
         /\ Disturb("skipped", ~found)
  BY DEF GetBuyer
<1>3. CASE found
  <2>1. PICK n \in Int : n = customers[User(c)]
    BY <1>2, <1>3 DEF Known, Counts
  <2>2. Goes(c, "update_buyer", calls[c].todo, calls[c].item, calls[c].row, n)
    BY <1>2, <1>3, <2>1, GoesFields
  <2> QED BY <1>1, <2>2, PaidFacts DEF Paying, Goes, HandlerMore
<1>4. CASE ~found
  <2>1. ASSUME calls' = [calls EXCEPT ![c].pc = "clear"]
        PROVE  Paying(c)
    <3>1. Goes(c, "clear", calls[c].todo, calls[c].item, calls[c].row, calls[c].count)
      BY <2>1, GoesFields
    <3> QED BY <1>1, <3>1, PaidFacts DEF Paying, Goes, HandlerMore
  <2>2. Paying(c)
    BY <1>1, <1>2, <1>4, <2>1, EndsPaying
  <2>3. "skipped" \in disturbed'
    BY <1>2, <1>4 DEF Disturb
  <2> QED BY <1>1, <2>2, <2>3
<1> QED BY <1>3, <1>4

LEMMA UpdateBuyerStep ==
    ASSUME Known, NEW c \in Call, UpdateBuyer(c)
    PROVE  /\ Paying(c) /\ calls[c].pc = "update_buyer"
           /\ Goes(c, "clear", calls[c].todo, calls[c].item, calls[c].row, calls[c].count)
<1>1. Goes(c, "clear", calls[c].todo, calls[c].item, calls[c].row, calls[c].count)
  BY GoesFields DEF UpdateBuyer
<1>2. calls[c].pc = "update_buyer" /\ calls[c].pc \in Buying
  BY DEF UpdateBuyer, At, Buying
<1> QED BY <1>1, <1>2, PaidFacts DEF Paying, Goes, HandlerMore

LEMMA EndPurchaseStep ==
    ASSUME Known, NEW c \in Call, EndPurchase(c)
    PROVE  Paying(c) /\ calls[c].pc = "clear" /\ calls'[c].pc = "done"
<1>1. calls[c].pc = "clear" /\ calls[c].pc \in Buying /\ End(c, "ok")
  BY DEF EndPurchase, At, Buying
<1> QED BY <1>1, EndsPaying, EndFields

LEMMA CutOffStep ==
    ASSUME Known, NEW c \in Call, CutOff(c)
    PROVE  Others(c) /\ HandlerMore(calls'[c]) /\ calls[c].pc # "done"
BY EndFields DEF CutOff

(***************************************************************************)
(* Types: of what is stored, and of what is still to be written.           *)
(***************************************************************************)
\* a write of the customer service that makes sense
AccountRequest(r) ==
    /\ r.kind \in {"create", "update", "create_session", "delete_session", "reset"}
    /\ r.kind \in {"create", "create_session"} => r.user \in Account
    /\ r.kind = "update" => r.count \in Int
    /\ r.kind = "create_session" => r.id \in {0} \cup Call

WriteTyped(w) ==
    IF w.db = "product" THEN w.request.kind = "create_item" => w.request.item \in Item
    ELSE AccountRequest(w.request)

\* whatever was late has cost a fault
Lateness(ws, n) == IsFiniteSet(ws) /\ Cardinality(ws) <= n /\ n \in 0 .. MaxFaults

Typed ==
    /\ Known
    /\ DOMAIN product.items \subseteq Item
    /\ sessions \subseteq Account \X ({0} \cup Call)
    /\ \A w \in late : WriteTyped(w)
    /\ Lateness(late, faults)
    /\ disturbed \subseteq {"stale", "skipped", "refused", "reset"}
    /\ stocked \in Int

\* An RPC that is late has cost a fault.
LEMMA CountLate ==
    ASSUME Typed, NEW o, Count(o), NEW db, NEW r, Postpone(o, db, r) \/ UNCHANGED late
    PROVE  /\ Lateness(late', faults')
           /\ late' \subseteq late \cup {[db |-> db, request |-> r]}
           /\ faults' = 0 => faults = 0 /\ o = "ok"
<1>1. faults \in Nat /\ MaxFaults \in Nat /\ Cardinality(late) \in Nat /\ IsFiniteSet(late)
  BY PurchaseAssumption, FS_CardinalityType DEF Typed, Lateness
<1>2. CASE UNCHANGED late
  BY <1>1, <1>2 DEF Count, Typed, Lateness
<1>3. CASE Postpone(o, db, r) /\ o = "late"
  <2>1. late' = late \cup {[db |-> db, request |-> r]} /\ faults' = faults + 1 /\ faults < MaxFaults
    BY <1>3 DEF Postpone, Count
  <2> DEFINE w == [db |-> db, request |-> r]
  <2> HIDE DEF w
  <2>2. IsFiniteSet(late') /\ Cardinality(late') <= Cardinality(late) + 1
    <3>1. /\ IsFiniteSet(late \cup {w})
          /\ Cardinality(late \cup {w}) = IF w \in late THEN Cardinality(late) ELSE Cardinality(late) + 1
      BY <1>1, FS_AddElement
    <3>2. late' = late \cup {w}
      BY <2>1 DEF w
    <3> QED BY <1>1, <3>1, <3>2
  <2>3. Cardinality(late') \in Nat
    BY <2>2, FS_CardinalityType
  <2> QED BY <1>1, <1>3, <2>1, <2>2, <2>3 DEF Typed, Lateness
<1>4. CASE Postpone(o, db, r) /\ o # "late"
  BY <1>1, <1>4 DEF Postpone, Count, Typed, Lateness
<1> QED BY <1>2, <1>3, <1>4

\* A write of the customer service keeps the types of its tables.
LEMMA AccountsTyped ==
    ASSUME Typed, NEW r, AccountRequest(r)
    PROVE  Counts(AccountsAfter(r)) /\ SessionsAfter(r) \subseteq Account \X ({0} \cup Call)
<1>1. Counts(AccountsAfter(r))
  <2>1. CASE r.kind = "create" /\ r.user \notin DOMAIN customers
    BY <2>1 DEF AccountsAfter, AccountRequest, Typed, Known, Counts, Put, Account
  <2>2. CASE r.kind = "update" /\ r.user \in DOMAIN customers
    BY <2>2 DEF AccountsAfter, AccountRequest, Typed, Known, Counts
  <2>3. CASE r.kind = "reset"
    BY <2>3 DEF AccountsAfter, Counts
  <2> QED BY <2>1, <2>2, <2>3 DEF AccountsAfter, Typed, Known
<1>2. SessionsAfter(r) \subseteq Account \X ({0} \cup Call)
  BY DEF SessionsAfter, AccountRequest, Typed
<1> QED BY <1>1, <1>2

\* What a step does to the databases and to what is late: a read, a write of the
\* customer service or one of the product service, each with its outcome.
CustomerSide(r, o) == CustomerWrite(r, o) /\ UNCHANGED <<product, stocked>> /\ AccountRequest(r)
ProductSide(r, o) ==
    /\ ProductWrite(r, o) /\ UNCHANGED <<customers, sessions>>
    /\ RequestSafe(r)
    /\ r.kind = "create_item" => r.item \in Item

Stored == /\ Counts(customers)
          /\ DOMAIN product.items \subseteq Item
          /\ sessions \subseteq Account \X ({0} \cup Call)
          /\ \A w \in late : WriteTyped(w)
          /\ Lateness(late, faults)

\* The three ways in which a step can reach the databases, and a write that lands.
LEMMA CustomerSideStored ==
    ASSUME Typed, NEW r, NEW o, CustomerSide(r, o)
    PROVE  Stored' /\ (faults' = 0 => faults = 0 /\ o = "ok")
<1>1. /\ Lateness(late', faults')
      /\ late' \subseteq late \cup {[db |-> "customer", request |-> r]}
      /\ faults' = 0 => faults = 0 /\ o = "ok"
  BY CountLate DEF CustomerSide, CustomerWrite
<1>2. \A w \in late' : WriteTyped(w)
  BY <1>1 DEF CustomerSide, WriteTyped, Typed
<1>3. Counts(customers') /\ sessions' \subseteq Account \X ({0} \cup Call)
  BY AccountsTyped DEF CustomerSide, CustomerWrite, Typed, Known
<1> QED BY <1>1, <1>2, <1>3 DEF Stored, CustomerSide, Typed

\* A write of the product service adds an item under an item's id.
LEMMA ItemsTyped ==
    ASSUME Typed, NEW r, RequestSafe(r), r.kind = "create_item" => r.item \in Item
    PROVE  DOMAIN ApplyRequest(product, r).items \subseteq Item
<1>0. ProductSafe(product)
  BY DEF Typed, Known, BoughtInv, ShopInv
<1>1. CASE r.kind = "create_item"
  BY <1>0, <1>1 DEF ApplyRequest, Typed, Put, ProductSafe
<1>2. CASE r.kind = "update_item"
  BY <1>0, <1>2 DEF ApplyRequest, Typed, ProductSafe
<1>3. CASE r.kind = "reset"
  BY <1>3 DEF ApplyRequest
<1>4. CASE r.kind \notin {"create_item", "update_item", "reset"}
  BY <1>0, <1>4 DEF ApplyRequest, Typed, ProductSafe, RequestSafe
<1> QED BY <1>1, <1>2, <1>3, <1>4

LEMMA ProductSideStored ==
    ASSUME Typed, NEW r, NEW o, ProductSide(r, o)
    PROVE  Stored' /\ (faults' = 0 => faults = 0 /\ o = "ok")
<1>1. /\ Lateness(late', faults')
      /\ late' \subseteq late \cup {[db |-> "product", request |-> r]}
      /\ faults' = 0 => faults = 0 /\ o = "ok"
  BY CountLate DEF ProductSide, ProductWrite
<1>2. \A w \in late' : WriteTyped(w)
  BY <1>1 DEF ProductSide, WriteTyped, Typed
<1>3. DOMAIN product'.items \subseteq Item
  BY ItemsTyped DEF ProductSide, ProductWrite, Typed
<1> QED BY <1>1, <1>2, <1>3 DEF Stored, ProductSide, Typed, Known

LEMMA ReadStored ==
    ASSUME Typed, NEW o, Read(o), UNCHANGED <<product, customers, sessions>>
    PROVE  Stored' /\ (faults' = 0 => faults = 0 /\ o = "ok")
<1>1. Lateness(late', faults') /\ (faults' = 0 => faults = 0 /\ o = "ok")
  BY CountLate DEF Read
<1> QED BY <1>1 DEF Read, Stored, Typed, Known

LEMMA LandStored ==
    ASSUME Typed, Land
    PROVE  Stored' /\ faults' # 0 /\ UNCHANGED <<calls, stocked, disturbed>>
<1>1. PICK w \in late :
         /\ late' = late \ {w}
         /\ IF w.db = "product"
            THEN product' = ApplyRequest(product, w.request) /\ UNCHANGED <<customers, sessions>>
            ELSE /\ customers' = AccountsAfter(w.request)
                 /\ sessions' = SessionsAfter(w.request)
                 /\ UNCHANGED product
         /\ UNCHANGED <<calls, faults, stocked, disturbed>>
  BY DEF Land
<1>2. Lateness(late', faults') /\ faults' # 0
  <2>1. /\ IsFiniteSet(late) /\ Cardinality(late) \in Nat /\ Cardinality(late) <= faults
        /\ faults \in 0 .. MaxFaults /\ MaxFaults \in Nat
    BY PurchaseAssumption, FS_CardinalityType DEF Typed, Lateness
  <2>2. IsFiniteSet(late') /\ Cardinality(late') = Cardinality(late) - 1
    BY <1>1, <2>1, FS_RemoveElement
  <2>3. Cardinality(late') \in Nat
    BY <2>2, FS_CardinalityType
  <2> QED BY <1>1, <2>1, <2>2, <2>3 DEF Lateness
<1>3. \A v \in late' : WriteTyped(v)
  BY <1>1 DEF Typed
<1>4. CASE w.db = "product"
  <2>1. RequestSafe(w.request) /\ (w.request.kind = "create_item" => w.request.item \in Item)
    BY <1>4 DEF Typed, WriteTyped, Known, BoughtInv, ShopInv, LateSafe
  <2>2. DOMAIN product'.items \subseteq Item
    BY <1>1, <1>4, <2>1, ItemsTyped
  <2> QED BY <1>1, <1>2, <1>3, <1>4, <2>2 DEF Stored, Typed, Known
<1>5. CASE w.db # "product"
  <2>1. AccountRequest(w.request)
    BY <1>5 DEF Typed, WriteTyped
  <2>2. Counts(customers') /\ sessions' \subseteq Account \X ({0} \cup Call)
    BY <1>1, <1>5, <2>1, AccountsTyped
  <2> QED BY <1>1, <1>2, <1>3, <1>5, <2>2 DEF Stored, Typed
<1> QED BY <1>1, <1>2, <1>4, <1>5

(***************************************************************************)
(* Which action does what to the databases.                                *)
(***************************************************************************)
SessionKinds == {"create_session", "delete_session"}
CartKinds == {"add_to_cart", "remove_from_cart", "clear_cart", "save_cart", "add_purchase_history"}

\* What a handler that has started holds.
LEMMA OpFacts ==
    ASSUME Typed, NEW c \in Call, calls[c].pc # "idle"
    PROVE  /\ calls[c].op \in Script[c] /\ HandlerSafe(c, calls[c]) /\ HandlerMore(calls[c])
           /\ PaidHandler(calls[c])
BY Held DEF Typed, Known, BoughtInv, HandlerSafe

LEMMA SessionSteps ==
    ASSUME Typed, NEW c \in Call, Expired(c) \/ CreateSession(c) \/ Logout(c)
    PROVE  \E r, o : CustomerSide(r, o) /\ r.kind \in SessionKinds
<1>1. CASE Expired(c)
  <2>1. PICK op \in Script[c], o \in Outcome, s \in sessions :
           /\ CustomerWrite([kind |-> "delete_session", user |-> op.user, id |-> s[2]], o)
           /\ UNCHANGED <<product, stocked>>
    BY <1>1 DEF Expired, SessionsOf
  <2> QED BY <2>1 DEF CustomerSide, AccountRequest, SessionKinds
<1>2. CASE CreateSession(c)
  <2>1. User(c) \in Account
    BY <1>2, OpFacts, ScriptAssumption DEF CreateSession, At, HandlerMore, User, Account
  <2>2. AccountRequest([kind |-> "create_session", user |-> User(c), id |-> c])
    BY <2>1 DEF AccountRequest
  <2> QED BY <1>2, <2>2 DEF CreateSession, CustomerSide, SessionKinds
<1>3. CASE Logout(c)
  <2>1. ASSUME NEW id
        PROVE  AccountRequest([kind |-> "delete_session", user |-> User(c), id |-> id])
    BY DEF AccountRequest
  <2> QED BY <1>3, <2>1 DEF Logout, CustomerSide, SessionKinds
<1> QED BY <1>1, <1>2, <1>3

LEMMA CreateAccountSide ==
    ASSUME Typed, NEW c \in Call, CreateAccount(c)
    PROVE  /\ User(c) \in Account
           /\ \E o : CustomerSide([kind |-> "create", user |-> User(c)], o)
<1>1. User(c) \in Account
  BY OpFacts, ScriptAssumption DEF CreateAccount, At, HandlerMore, User, Account
<1>2. AccountRequest([kind |-> "create", user |-> User(c)])
  BY <1>1 DEF AccountRequest
<1> QED BY <1>1, <1>2 DEF CreateAccount, CustomerSide

LEMMA ResetCustomersSide ==
    ASSUME Typed, NEW c \in Call, ResetCustomers(c)
    PROVE  \E o : /\ CustomerSide([kind |-> "reset"], o)
                  /\ o = "ok" => calls'[c].pc = "reset_products"
<1>1. AccountRequest([kind |-> "reset"])
  BY DEF AccountRequest
<1>2. PICK o \in Outcome :
         /\ CustomerWrite([kind |-> "reset"], o)
         /\ o = "ok" => calls' = [calls EXCEPT ![c].pc = "reset_products"]
         /\ UNCHANGED <<product, stocked>>
  BY DEF ResetCustomers
<1>3. o = "ok" => calls'[c].pc = "reset_products"
  BY <1>2, GoesFields DEF Goes, Typed
<1> QED BY <1>1, <1>2, <1>3 DEF CustomerSide

\* the count that is written, and what it is read from
LEMMA UpdateSellerSide ==
    ASSUME Typed, NEW c \in Call, UpdateSeller(c)
    PROVE  LET k == calls[c]
               r == [kind |-> "update", user |-> k.row.seller, count |-> k.count + k.cart[k.item]]
           IN  /\ k.row \in Row /\ k.item \in DOMAIN k.cart /\ k.cart[k.item] \in Int /\ k.count \in Int
               /\ \E o : CustomerSide(r, o)
               /\ "stale" \in disturbed' \/ (r.user \in DOMAIN customers /\ customers[r.user] = k.count)
<1> DEFINE k == calls[c]
           r == [kind |-> "update", user |-> k.row.seller, count |-> k.count + k.cart[k.item]]
<1>1. k.pc = "update_seller"
  BY DEF UpdateSeller, At
<1>2. /\ k.row \in Row /\ k.item \in DOMAIN k.cart /\ k.cart[k.item] \in Int /\ k.count \in Int
  BY <1>1, OpFacts DEF HandlerMore, HandlerSafe, IsCart
<1>3. AccountRequest(r)
  BY <1>2 DEF AccountRequest
<1>4. \E o : CustomerWrite(r, o) /\ UNCHANGED <<product, stocked>>
  BY DEF UpdateSeller, Sold
<1>5. "stale" \in disturbed' \/ (r.user \in DOMAIN customers /\ customers[r.user] = k.count)
  BY DEF UpdateSeller, Disturb
<1> QED BY <1>2, <1>3, <1>4, <1>5 DEF CustomerSide

LEMMA TotalType ==
    ASSUME NEW cart, IsCart(cart)
    PROVE  TotalItems(cart) \in Int
<1> DEFINE Good == {T \in SUBSET DOMAIN cart : SumFunctionOnSet(cart, T) \in Int}
<1>1. IsFiniteSet(DOMAIN cart)
  BY CartFinite
<1>2. ASSUME NEW T \in SUBSET DOMAIN cart, \A U \in SUBSET T : U # T => U \in Good
      PROVE  T \in Good
  <2>1. IsFiniteSet(T)
    BY <1>1, FS_Subset
  <2>2. CASE T = {}
    <3>1. SumFunctionOnSet(cart, T) = 0
      BY <2>1, <2>2, SumRest
    <3> QED BY <3>1
  <2>3. CASE T # {}
    <3>1. T \ {Pick(T)} \in Good /\ cart[Pick(T)] \in Int
      BY <1>2, <2>3, PickIn DEF IsCart
    <3> QED BY <2>1, <2>3, <3>1, SumRest
  <2> QED BY <2>2, <2>3
<1> HIDE DEF Good
<1>3. DOMAIN cart \in Good
  BY <1>1, <1>2, SubsetInduction
<1> QED BY <1>3 DEF Good, TotalItems, SumFunction

LEMMA UpdateBuyerSide ==
    ASSUME Typed, NEW c \in Call, UpdateBuyer(c)
    PROVE  LET k == calls[c]
               r == [kind |-> "update", user |-> k.op.user, count |-> k.count + TotalItems(k.cart)]
           IN  /\ k.op.user \in Buyer /\ k.todo = {} /\ k.count \in Int
               /\ IsCart(k.cart) /\ TotalItems(k.cart) \in Int
               /\ \E o : CustomerSide(r, o)
               /\ "stale" \in disturbed' \/ (r.user \in DOMAIN customers /\ customers[r.user] = k.count)
<1> DEFINE k == calls[c]
           r == [kind |-> "update", user |-> k.op.user, count |-> k.count + TotalItems(k.cart)]
<1>1. k.pc = "update_buyer"
  BY DEF UpdateBuyer, At
<1>2. /\ k.todo = {} /\ k.count \in Int /\ IsCart(k.cart) /\ TotalItems(k.cart) \in Int
  BY <1>1, OpFacts, TotalType DEF HandlerMore, HandlerSafe
<1>3. k.op.user \in Buyer
  BY <1>1, OpFacts, ScriptAssumption DEF HandlerSafe, Purchasing
<1>4. AccountRequest(r)
  BY <1>2 DEF AccountRequest
<1>5. \E o : CustomerWrite(r, o) /\ UNCHANGED <<product, stocked>>
  BY DEF UpdateBuyer, User
<1>6. "stale" \in disturbed' \/ (r.user \in DOMAIN customers /\ customers[r.user] = k.count)
  BY DEF UpdateBuyer, Disturb, User
<1> QED BY <1>2, <1>3, <1>4, <1>5, <1>6 DEF CustomerSide

\* Writes of the product service that leave the items alone.
LEMMA CartSteps ==
    ASSUME Typed, NEW c \in Call,
           \/ AddToCart(c) \/ RemoveFromCart(c) \/ ClearCart(c) \/ SaveCart(c)
           \/ AddHistory(c) \/ EndPurchase(c)
    PROVE  (\E r, o : ProductSide(r, o) /\ r.kind \in CartKinds) /\ UNCHANGED stocked
<1> USE DEF ProductSide, CartKinds
<1>1. ASSUME NEW kind \in {"add_to_cart", "remove_from_cart", "clear_cart"}, CartCall(c, kind)
      PROVE  (\E r, o : ProductSide(r, o) /\ r.kind \in CartKinds) /\ UNCHANGED stocked
  <2>1. calls[c].op \in Script[c] /\ calls[c].op.kind = kind
    BY <1>1, OpFacts DEF CartCall, At, Kind
  <2>2. RequestSafe(calls[c].op)
    BY <2>1, ScriptAssumption DEF RequestSafe
  <2>3. PICK o : ProductWrite(calls[c].op, o) /\ UNCHANGED <<customers, sessions, stocked>>
    BY <1>1 DEF CartCall
  <2> QED BY <2>1, <2>2, <2>3
<1>2. CASE SaveCart(c)
  <2>1. RequestSafe([kind |-> "save_cart", user |-> User(c), cart |-> calls[c].cart])
    BY <1>2, OpFacts DEF RequestSafe, HandlerSafe, SaveCart, At
  <2> QED BY <1>2, <2>1 DEF SaveCart
<1>3. CASE AddHistory(c)
  <2>1. RequestSafe([kind |-> "add_purchase_history", user |-> User(c), item |-> calls[c].item])
    BY DEF RequestSafe
  <2> QED BY <1>3, <2>1 DEF AddHistory
<1>4. CASE EndPurchase(c)
  <2>1. RequestSafe([kind |-> "clear_cart", user |-> User(c)])
    BY DEF RequestSafe
  <2> QED BY <1>4, <2>1 DEF EndPurchase
<1> QED BY <1>1, <1>2, <1>3, <1>4 DEF AddToCart, RemoveFromCart, ClearCart

NewItemRow(c) == [seller |-> User(c), price |-> 1, quantity |-> calls[c].op.quantity, thumbs |-> 0]

\* The item that is registered.
LEMMA RegisterItemSide ==
    ASSUME Typed, NEW c \in Call, RegisterItem(c)
    PROVE  /\ NewItemRow(c) \in Row /\ c \in DOMAIN DrawnId /\ DrawnId[c] \in Item
           /\ \E o : /\ ProductSide([kind |-> "create_item", item |-> DrawnId[c], row |-> NewItemRow(c)], o)
                     /\ stocked' = IF Executed(o) THEN stocked + calls[c].op.quantity ELSE stocked
<1>1. /\ calls[c].op \in Script[c] /\ calls[c].op.kind = "register_item"
  BY OpFacts DEF RegisterItem, At, HandlerSafe
<1>2. User(c) \in Seller /\ calls[c].op.quantity \in Int
  BY <1>1, ScriptAssumption DEF User
<1>3. c \in DOMAIN DrawnId /\ DrawnId[c] \in Item
  BY <1>1, FreshIdAssumption
<1>4. NewItemRow(c) \in Row
  BY <1>2 DEF NewItemRow, Row
<1>5. RequestSafe([kind |-> "create_item", item |-> DrawnId[c], row |-> NewItemRow(c)])
  BY <1>4 DEF RequestSafe
<1> QED BY <1>3, <1>4, <1>5 DEF RegisterItem, ProductSide, NewItemRow

\* The row that is written back, and the one it was read from.
LEMMA UpdateItemSide ==
    ASSUME Typed, NEW c \in Call, UpdateItem(c)
    PROVE  LET k == calls[c]
               i == k.item
               here == i \in DOMAIN product.items
           IN  /\ NewRow(c) \in Row /\ k.pc = "update_item" /\ k.row \in Row
               /\ k.op.kind \in ItemKinds \cup {"purchase"}
               /\ k.op.kind = "update_units" => k.op.quantity \in Int
               /\ \E o : /\ ProductSide([kind |-> "update_item", item |-> i, row |-> NewRow(c)], o)
                         /\ stocked' = IF Kind(c) = "update_units" /\ Executed(o) /\ here
                                       THEN stocked + k.op.quantity - product.items[i].quantity
                                       ELSE stocked
                         /\ Kind(c) # "purchase" => End(c, Answer(o))
               /\ "stale" \in disturbed' \/ (here /\ product.items[i] = k.row)
<1>1. calls[c].pc = "update_item"
  BY DEF UpdateItem, At
<1>2. /\ calls[c].op \in Script[c] /\ calls[c].row \in Row
      /\ calls[c].op.kind \in ItemKinds \cup {"purchase"}
  BY <1>1, OpFacts DEF HandlerSafe
<1>3. calls[c].op.kind = "update_units" => calls[c].op.quantity \in Int
  BY <1>2, ScriptAssumption
<1>4. NewRow(c) \in Row
  BY <1>1, NewRowFact DEF Typed, Known, BoughtInv
<1>5. RequestSafe([kind |-> "update_item", item |-> calls[c].item, row |-> NewRow(c)])
  BY <1>4 DEF RequestSafe
<1>6. "stale" \in disturbed' \/
         (calls[c].item \in DOMAIN product.items /\ product.items[calls[c].item] = calls[c].row)
  BY DEF UpdateItem, Disturb
<1> QED BY <1>1, <1>2, <1>3, <1>4, <1>5, <1>6 DEF UpdateItem, ProductSide

LEMMA ResetProductsSide ==
    ASSUME Typed, NEW c \in Call, ResetProducts(c)
    PROVE  \E o : ProductSide([kind |-> "reset"], o) /\ stocked' = IF Executed(o) THEN 0 ELSE stocked
<1>1. RequestSafe([kind |-> "reset"])
  BY DEF RequestSafe
<1> QED BY <1>1 DEF ResetProducts, ProductSide

LEMMA ReadSteps ==
    ASSUME NEW c \in Call,
           Login(c) \/ GetCart(c) \/ GetItem(c) \/ NextItem(c) \/ GetSeller(c) \/ GetBuyer(c)
    PROVE  (\E o : Read(o)) /\ UNCHANGED <<product, customers, sessions, stocked>>
BY DEF Login, GetCart, GetItem, NextItem, GetSeller, GetBuyer

(***************************************************************************)
(* The types are kept.                                                     *)
(***************************************************************************)
Early(c) == Start(c) \/ Expired(c) \/ Login(c) \/ ResetCustomers(c) \/ GetCart(c) \/ GetItem(c)
Ending(c) ==
    \/ CreateAccount(c) \/ CreateSession(c) \/ Logout(c)
    \/ AddToCart(c) \/ RemoveFromCart(c) \/ ClearCart(c) \/ SaveCart(c)
    \/ RegisterItem(c) \/ ResetProducts(c)
    \/ UpdateItem(c) /\ Kind(c) # "purchase"
Shopping(c) ==
    \/ UpdateItem(c) /\ Kind(c) = "purchase"
    \/ NextItem(c) \/ AddHistory(c) \/ GetSeller(c) \/ UpdateSeller(c)
    \/ GetBuyer(c) \/ UpdateBuyer(c) \/ EndPurchase(c)

\* Every step is one of these.
LEMMA StepKinds ==
    ASSUME [Next]_vars
    PROVE  \/ UNCHANGED vars \/ Land
           \/ \E c \in Call : CutOff(c) \/ Pay(c) \/ Early(c) \/ Ending(c) \/ Shopping(c)
BY DEF Next, Early, Ending, Shopping

\* Every one of these steps belongs to a purchase that has paid.
LEMMA ShoppingStep ==
    ASSUME Known, NEW c \in Call, Shopping(c)
    PROVE  Paying(c) /\ calls[c].pc # "done"
<1>1. CASE UpdateItem(c) /\ Kind(c) = "purchase"
  BY <1>1, DeductStep
<1>2. CASE NextItem(c)
  BY <1>2, NextItemStep
<1>3. CASE AddHistory(c)
  BY <1>3, AddHistoryMove
<1>4. CASE GetSeller(c)
  BY <1>4, GetSellerStep
<1>5. CASE UpdateSeller(c)
  BY <1>5, UpdateSellerStep
<1>6. CASE GetBuyer(c)
  BY <1>6, GetBuyerStep
<1>7. CASE UpdateBuyer(c)
  BY <1>7, UpdateBuyerStep
<1>8. CASE EndPurchase(c)
  BY <1>8, EndPurchaseStep
<1> QED BY <1>1, <1>2, <1>3, <1>4, <1>5, <1>6, <1>7, <1>8 DEF Shopping

\* What HandlerMore says of handlers is kept, and a call that is over does not move.
LEMMA MoreStep ==
    ASSUME Known, NEW c \in Call, CutOff(c) \/ Pay(c) \/ Early(c) \/ Ending(c) \/ Shopping(c)
    PROVE  Others(c) /\ HandlerMore(calls'[c]) /\ calls[c].pc # "done"
<1>1. CASE CutOff(c)
  BY <1>1, CutOffStep
<1>2. CASE Pay(c)
  <2>1. HandlerMore(calls[c]) /\ Others(c) /\ calls[c].pc # "done"
    BY <1>2, PayStep DEF Known, Unpaid
  <2>2. CASE Unpaid(c)
    BY <2>1, <2>2 DEF Unpaid
  <2>3. CASE calls'[c].pc = "next_item"
    BY <2>1, <2>3 DEF HandlerMore
  <2> QED BY <1>2, <2>1, <2>2, <2>3, PayStep
<1>3. CASE Early(c)
  BY <1>3, EarlySteps DEF Early, Unpaid
<1>4. CASE Ending(c)
  BY <1>4, EndingSteps DEF Ending, Unpaid
<1>5. CASE Shopping(c)
  BY <1>5, ShoppingStep DEF Paying
<1> QED BY <1>1, <1>2, <1>3, <1>4, <1>5

\* no handler starts afresh, and nothing counts against the faults but an RPC that failed
LEMMA CutOffStored ==
    ASSUME Typed, NEW c \in Call, CutOff(c)
    PROVE  Stored' /\ faults' # 0 /\ UNCHANGED <<product, customers, sessions, late, stocked, disturbed>>
<1>1. faults \in Nat /\ MaxFaults \in Nat
  BY PurchaseAssumption DEF Typed, Lateness
<1>2. Lateness(late', faults')
  <2>1. /\ IsFiniteSet(late) /\ Cardinality(late) \in Nat /\ Cardinality(late) <= faults
    BY FS_CardinalityType DEF Typed, Lateness
  <2> QED BY <1>1, <2>1 DEF CutOff, Lateness
<1> QED BY <1>1, <1>2 DEF CutOff, Stored, Typed, Known

\* Steps that touch neither database.
LEMMA StillStored ==
    ASSUME Typed, UNCHANGED <<product, customers, sessions, late, faults>>
    PROVE  Stored'
BY DEF Stored, Typed, Known

\* When a step counts no fault, nothing failed in it.
LEMMA StoredStep ==
    ASSUME Typed, NEW c \in Call, CutOff(c) \/ Pay(c) \/ Early(c) \/ Ending(c) \/ Shopping(c)
    PROVE  Stored' /\ (faults' = 0 => faults = 0)
<1>1. CASE CutOff(c)
  BY <1>1, CutOffStored
<1>2. CASE Pay(c) \/ Start(c)
  BY <1>2, StillStored DEF Pay, Start
<1>3. CASE Login(c) \/ GetCart(c) \/ GetItem(c) \/ NextItem(c) \/ GetSeller(c) \/ GetBuyer(c)
  BY <1>3, ReadSteps, ReadStored
<1>4. CASE Expired(c) \/ CreateSession(c) \/ Logout(c)
  BY <1>4, SessionSteps, CustomerSideStored
<1>5. CASE CreateAccount(c) \/ ResetCustomers(c)
  BY <1>5, CreateAccountSide, ResetCustomersSide, CustomerSideStored
<1>6. CASE UpdateSeller(c) \/ UpdateBuyer(c)
  <2>1. PICK r, o : CustomerSide(r, o)
    BY <1>6, UpdateSellerSide, UpdateBuyerSide
  <2> QED BY <2>1, CustomerSideStored
<1>7. CASE \/ AddToCart(c) \/ RemoveFromCart(c) \/ ClearCart(c) \/ SaveCart(c)
           \/ AddHistory(c) \/ EndPurchase(c)
  <2>1. PICK r, o : ProductSide(r, o)
    BY <1>7, CartSteps
  <2> QED BY <2>1, ProductSideStored
<1>8. CASE RegisterItem(c) \/ UpdateItem(c) \/ ResetProducts(c)
  <2>1. PICK r, o : ProductSide(r, o)
    BY <1>8, RegisterItemSide, UpdateItemSide, ResetProductsSide
  <2> QED BY <2>1, ProductSideStored
<1> QED BY <1>1, <1>2, <1>3, <1>4, <1>5, <1>6, <1>7, <1>8 DEF Early, Ending, Shopping

\* The stock that was put on sale is counted in whole units.
LEMMA StockedStep ==
    ASSUME Typed, NEW c \in Call, CutOff(c) \/ Pay(c) \/ Early(c) \/ Ending(c) \/ Shopping(c)
    PROVE  stocked' \in Int
<1>1. CASE RegisterItem(c)
  <2>1. calls[c].op.quantity \in Int
    <3>1. NewItemRow(c) \in Row
      BY <1>1, RegisterItemSide
    <3> QED BY <3>1 DEF NewItemRow, Row
  <2>2. stocked' \in {stocked, stocked + calls[c].op.quantity} /\ stocked \in Int
    BY <1>1, RegisterItemSide DEF Typed
  <2> QED BY <2>1, <2>2
<1>2. CASE UpdateItem(c)
  <2>1. \A i \in DOMAIN product.items : product.items[i].quantity \in Int
    BY DEF Typed, Known, BoughtInv, ShopInv, ProductSafe, Row
  <2>2. stocked \in Int
    BY DEF Typed
  <2> DEFINE i == calls[c].item
             q == calls[c].op.quantity
             left == product.items[i].quantity
             change == calls[c].op.kind = "update_units" /\ i \in DOMAIN product.items
  <2>3. change => left \in Int
    BY <2>1
  <2>4. change => q \in Int
    BY <1>2, UpdateItemSide
  <2>5. stocked' = stocked \/ (change /\ stocked' = stocked + q - left)
    BY <1>2, UpdateItemSide DEF Kind
  <2> HIDE DEF change, left, q
  <2> QED BY <2>2, <2>3, <2>4, <2>5
<1>3. CASE ResetProducts(c)
  BY <1>3, ResetProductsSide DEF Typed
<1>4. CASE UpdateSeller(c) \/ UpdateBuyer(c) \/ Login(c) \/ GetCart(c) \/ GetItem(c) \/ NextItem(c)
           \/ GetSeller(c) \/ GetBuyer(c) \/ CutOff(c) \/ Pay(c) \/ Start(c) \/ Expired(c)
           \/ CreateAccount(c) \/ ResetCustomers(c) \/ CreateSession(c) \/ Logout(c)
  BY <1>4 DEF Typed, UpdateSeller, UpdateBuyer, Login, GetCart, GetItem, NextItem, GetSeller, GetBuyer,
              CutOff, Pay, Start, Expired, CreateAccount, ResetCustomers, CreateSession, Logout
<1>5. CASE \/ AddToCart(c) \/ RemoveFromCart(c) \/ ClearCart(c) \/ SaveCart(c)
           \/ AddHistory(c) \/ EndPurchase(c)
  BY <1>5, CartSteps DEF Typed
<1> QED BY <1>1, <1>2, <1>3, <1>4, <1>5 DEF Early, Ending, Shopping

\* What the books do not survive is recorded, and stays on record.
LEMMA DisturbedStep ==
    ASSUME Typed, NEW c \in Call, CutOff(c) \/ Pay(c) \/ Early(c) \/ Ending(c) \/ Shopping(c)
    PROVE  disturbed' \subseteq {"stale", "skipped", "refused", "reset"} /\ disturbed \subseteq disturbed'
<1>0. disturbed \subseteq {"stale", "skipped", "refused", "reset"}
  BY DEF Typed
<1>1. ASSUME NEW what \in {"stale", "skipped", "refused", "reset"}, NEW happened, Disturb(what, happened)
      PROVE  disturbed' \subseteq {"stale", "skipped", "refused", "reset"} /\ disturbed \subseteq disturbed'
  BY <1>0, <1>1 DEF Disturb
<1>2. CASE UpdateItem(c)
  BY <1>1, <1>2 DEF UpdateItem
<1>3. CASE NextItem(c)
  <2>1. UNCHANGED disturbed \/ Disturb("skipped", TRUE)
            \/ Disturb("refused", calls[c].todo # DOMAIN calls[c].cart)
    BY <1>3 DEF NextItem
  <2> QED BY <1>0, <1>1, <2>1
<1>4. CASE GetSeller(c)
  BY <1>1, <1>4 DEF GetSeller
<1>5. CASE UpdateSeller(c)
  BY <1>1, <1>5 DEF UpdateSeller
<1>6. CASE GetBuyer(c)
  BY <1>1, <1>6 DEF GetBuyer
<1>7. CASE UpdateBuyer(c)
  BY <1>1, <1>7 DEF UpdateBuyer
<1>8. CASE ResetProducts(c)
  BY <1>1, <1>8 DEF ResetProducts
<1>9. CASE \/ CutOff(c) \/ Pay(c) \/ Early(c) \/ AddHistory(c) \/ EndPurchase(c)
           \/ CreateAccount(c) \/ CreateSession(c) \/ Logout(c)
           \/ AddToCart(c) \/ RemoveFromCart(c) \/ ClearCart(c) \/ SaveCart(c) \/ RegisterItem(c)
  <2>1. UNCHANGED disturbed
    BY <1>9 DEF Early, CutOff, Pay, Start, Expired, Login, ResetCustomers, GetCart, GetItem, AddHistory,
                EndPurchase, CreateAccount, CreateSession, Logout, AddToCart, RemoveFromCart, ClearCart,
                CartCall, SaveCart, RegisterItem
  <2> QED BY <1>0, <2>1
<1> QED BY <1>2, <1>3, <1>4, <1>5, <1>6, <1>7, <1>8, <1>9 DEF Ending, Shopping

\* The first state.
LEMMA TypedInit == Init => Typed
<1> SUFFICES ASSUME Init PROVE Typed
  OBVIOUS
<1>1. BoughtInv
  BY BoughtInit
<1>2. \A c \in Call : HandlerMore(calls[c])
  BY DEF Init, HandlerMore, Idle
<1>3. Counts(customers)
  BY PurchaseAssumption DEF Init, Counts
<1>4. Lateness(late, faults)
  BY PurchaseAssumption, FS_EmptySet DEF Init, Lateness
<1>5. stocked \in Int
  <2>1. Items(InitialItem)
    BY PurchaseAssumption DEF Items
  <2> QED BY <2>1, StockType DEF Init
<1>6. DOMAIN product.items \subseteq Item
  BY PurchaseAssumption DEF Init
<1>7. sessions \subseteq Account \X ({0} \cup Call)
  BY PurchaseAssumption DEF Init, Account
<1> QED BY <1>1, <1>2, <1>3, <1>4, <1>5, <1>6, <1>7 DEF Typed, Known, Init

\* Every step keeps the types.
LEMMA TypedStep == Typed /\ [Next]_vars => Typed'
<1> SUFFICES ASSUME Typed, [Next]_vars PROVE Typed'
  OBVIOUS
<1>1. BoughtInv'
  BY BoughtStep DEF Typed, Known
<1>2. ASSUME NEW c \in Call, CutOff(c) \/ Pay(c) \/ Early(c) \/ Ending(c) \/ Shopping(c)
      PROVE  Typed'
  <2>1. \A d \in Call : HandlerMore(calls'[d])
    BY <1>2, MoreStep DEF Typed, Known, Others
  <2>2. Stored'
    BY <1>2, StoredStep
  <2>3. stocked' \in Int
    BY <1>2, StockedStep
  <2>4. disturbed' \subseteq {"stale", "skipped", "refused", "reset"}
    BY <1>2, DisturbedStep
  <2> QED BY <1>1, <2>1, <2>2, <2>3, <2>4 DEF Typed, Known, Stored
<1>3. CASE Land
  <2>1. Stored' /\ UNCHANGED <<calls, stocked, disturbed>>
    BY <1>3, LandStored
  <2> QED BY <1>1, <2>1 DEF Typed, Known, Stored
<1>4. CASE UNCHANGED vars
  BY <1>1, <1>4 DEF vars, Typed, Known
<1> QED BY <1>2, <1>3, <1>4, StepKinds

(***************************************************************************)
(* The books.                                                              *)
(***************************************************************************)
NoReset(ks) == \A c \in Call : ks[c].pc # "reset_products"

\* the ids that items have had: the first ones, and those drawn by calls that are over
UsedIds(ks) == DOMAIN InitialItem \cup {DrawnId[d] : d \in {e \in DOMAIN DrawnId : ks[e].pc = "done"}}

\* nothing has failed, and nothing happened that the books do not survive
Calm == faults = 0 /\ disturbed = {}

BooksInv ==
    /\ Typed
    /\ faults = 0 => DOMAIN product.items \subseteq UsedIds(calls)
    /\ Calm /\ NoReset(calls) => Books(customers, product.items, stocked, calls)

\* What a handler owes is a number, at whatever step it is.
LEMMA DuesTyped ==
    ASSUME NEW c \in Call, NEW k, HandlerSafe(c, k), HandlerMore(k)
    PROVE  SellerDue(k) \in Int /\ BuyerDue(k) \in Int
BY DueType DEF HandlerSafe, HandlerMore

LEMMA ItemsOf == ASSUME Typed PROVE Items(product.items)
BY DEF Typed, Known, BoughtInv, ShopInv, ProductSafe, Items

\* One handler moves, and the books change by as much on each side.
LEMMA BooksMove ==
    ASSUME Typed, Typed', NEW c \in Call, Others(c),
           Books(customers, product.items, stocked, calls),
           NEW sold \in Int, NEW bought \in Int, NEW gone \in Int,
           CountOf(customers', Seller) = CountOf(customers, Seller) + sold,
           CountOf(customers', Buyer) = CountOf(customers, Buyer) + bought,
           stocked' - Stock(product'.items) = stocked - Stock(product.items) + gone,
           SellerDue(calls'[c]) + sold = SellerDue(calls[c]) + gone,
           BuyerDue(calls'[c]) + bought = BuyerDue(calls[c]) + gone
    PROVE  Books(customers', product'.items, stocked', calls')
<1>1. \A d \in Call : SellerDue(calls[d]) \in Int /\ BuyerDue(calls[d]) \in Int
  BY DuesTyped DEF Typed, Known, BoughtInv, ShopInv, Handlers
<1>2. SellerDue(calls'[c]) \in Int /\ BuyerDue(calls'[c]) \in Int
  <2>1. HandlerSafe(c, calls'[c]) /\ HandlerMore(calls'[c])
    BY DEF Typed, Known, BoughtInv, ShopInv, Handlers
  <2> QED BY <2>1, DuesTyped
<1>3. /\ SellerDues(calls') = SellerDues(calls) + SellerDue(calls'[c]) - SellerDue(calls[c])
      /\ BuyerDues(calls') = BuyerDues(calls) + BuyerDue(calls'[c]) - BuyerDue(calls[c])
      /\ SellerDues(calls) \in Int /\ BuyerDues(calls) \in Int
  BY <1>1, <1>2, DuesChange DEF Others
<1>4. CountOf(customers, Seller) \in Int /\ CountOf(customers, Buyer) \in Int
  BY CountType DEF Typed, Known
<1>5. /\ CountOf(customers, Seller) + SellerDues(calls) = stocked - Stock(product.items)
      /\ CountOf(customers, Buyer) + BuyerDues(calls) = stocked - Stock(product.items)
  BY DEF Books
<1> DEFINE old == stocked - Stock(product.items)
           new == stocked' - Stock(product'.items)
           sc == CountOf(customers, Seller)
           bc == CountOf(customers, Buyer)
<1>6. old \in Int
  BY ItemsOf, StockType DEF Typed
<1> HIDE DEF old, new, sc, bc
<1>7. sc \in Int /\ bc \in Int /\ sc + SellerDues(calls) = old /\ bc + BuyerDues(calls) = old /\ new = old + gone
  BY <1>4, <1>5 DEF old, new, sc, bc
<1>8. sc + sold + SellerDues(calls') = new /\ bc + bought + BuyerDues(calls') = new
  <2>1. SellerDue(calls[c]) \in Int /\ BuyerDue(calls[c]) \in Int
    BY <1>1
  <2>2. /\ SellerDue(calls'[c]) = SellerDue(calls[c]) + gone - sold
        /\ BuyerDue(calls'[c]) = BuyerDue(calls[c]) + gone - bought
    BY <1>2, <2>1
  <2> QED BY <1>2, <1>3, <1>6, <1>7, <2>1, <2>2
<1> QED BY <1>8 DEF Books, new, sc, bc

\* Databases and dues as they were.
LEMMA BooksStill ==
    ASSUME Typed, Typed', NEW c \in Call, Others(c),
           Books(customers, product.items, stocked, calls),
           customers' = customers, product'.items = product.items, stocked' = stocked,
           SellerDue(calls'[c]) = SellerDue(calls[c]), BuyerDue(calls'[c]) = BuyerDue(calls[c])
    PROVE  Books(customers', product'.items, stocked', calls')
<1>1. CountOf(customers, Seller) \in Int /\ CountOf(customers, Buyer) \in Int
  BY CountType DEF Typed, Known
<1>2. SellerDue(calls[c]) \in Int /\ BuyerDue(calls[c]) \in Int
  BY DuesTyped DEF Typed, Known, BoughtInv, ShopInv, Handlers
<1>3. Stock(product.items) \in Int /\ stocked \in Int
  BY ItemsOf, StockType DEF Typed
<1>4. /\ CountOf(customers', Seller) = CountOf(customers, Seller) + 0
      /\ CountOf(customers', Buyer) = CountOf(customers, Buyer) + 0
  BY <1>1
<1>5. stocked' - Stock(product'.items) = stocked - Stock(product.items) + 0
  BY <1>3
<1>6. /\ SellerDue(calls'[c]) + 0 = SellerDue(calls[c]) + 0
      /\ BuyerDue(calls'[c]) + 0 = BuyerDue(calls[c]) + 0
  BY <1>2
<1> QED BY <1>4, <1>5, <1>6, BooksMove

\* A handler that has not paid owes nothing on either side of the step.
LEMMA UnpaidDues ==
    ASSUME NEW c \in Call, Unpaid(c)
    PROVE  /\ SellerDue(calls'[c]) = 0 /\ SellerDue(calls[c]) = 0
           /\ BuyerDue(calls'[c]) = 0 /\ BuyerDue(calls[c]) = 0
BY NothingDue DEF Unpaid

\* Steps that leave items and counts alone.
LEMMA FlatSteps ==
    ASSUME Typed, faults' = 0, NEW c \in Call,
           \/ Pay(c) \/ Start(c) \/ Expired(c) \/ Login(c) \/ GetCart(c) \/ GetItem(c)
           \/ CreateSession(c) \/ Logout(c)
           \/ AddToCart(c) \/ RemoveFromCart(c) \/ ClearCart(c) \/ SaveCart(c)
           \/ NextItem(c) \/ AddHistory(c) \/ GetSeller(c) \/ GetBuyer(c) \/ EndPurchase(c)
    PROVE  customers' = customers /\ product'.items = product.items /\ stocked' = stocked
<1>1. CASE Pay(c) \/ Start(c)
  BY <1>1 DEF Pay, Start
<1>2. CASE Login(c) \/ GetCart(c) \/ GetItem(c) \/ NextItem(c) \/ GetSeller(c) \/ GetBuyer(c)
  BY <1>2, ReadSteps
<1>3. CASE Expired(c) \/ CreateSession(c) \/ Logout(c)
  <2>1. PICK r, o : CustomerSide(r, o) /\ r.kind \in SessionKinds
    BY <1>3, SessionSteps
  <2> QED BY <2>1 DEF CustomerSide, CustomerWrite, AccountsAfter, SessionKinds
<1>4. CASE \/ AddToCart(c) \/ RemoveFromCart(c) \/ ClearCart(c) \/ SaveCart(c)
           \/ AddHistory(c) \/ EndPurchase(c)
  <2>1. PICK r, o : ProductSide(r, o) /\ r.kind \in CartKinds
    BY <1>4, CartSteps
  <2>2. ProductSafe(product)
    BY DEF Typed, Known, BoughtInv, ShopInv
  <2>3. ApplyRequest(product, r).items = product.items
    BY <2>1, <2>2 DEF ApplyRequest, CartKinds, ProductSafe
  <2> QED BY <1>4, <2>1, <2>3, CartSteps DEF ProductSide, ProductWrite
<1> QED BY <1>1, <1>2, <1>3, <1>4

\* The books are kept by every step of c.
Keeps == Books(customers', product'.items, stocked', calls')

BooksAt(c) ==
    /\ Typed /\ Typed' /\ faults' = 0 /\ disturbed' = {}
    /\ Books(customers, product.items, stocked, calls)
    /\ DOMAIN product.items \subseteq UsedIds(calls)

\* Such a step of such a handler.
LEMMA UnpaidFlat ==
    ASSUME NEW c \in Call, BooksAt(c), Unpaid(c),
           customers' = customers, product'.items = product.items, stocked' = stocked
    PROVE  Keeps
BY UnpaidDues, BooksStill DEF Unpaid, BooksAt, Keeps

\* two handlers that have taken the same of the same cart owe a buyer the same
LEMMA SameTaken ==
    ASSUME NEW k, NEW m, m.cart = k.cart, Taken(m) = Taken(k)
    PROVE  BuyerDue(m) = BuyerDue(k)
BY DEF BuyerDue

\* The steps of a purchase.  Nothing is due right after the payment.
LEMMA PayBooks ==
    ASSUME NEW c \in Call, BooksAt(c), Pay(c)
    PROVE  Keeps
<1>1. customers' = customers /\ product'.items = product.items /\ stocked' = stocked
  BY FlatSteps DEF BooksAt
<1>2. CASE Unpaid(c)
  BY <1>1, <1>2, UnpaidFlat
<1>3. CASE ~Unpaid(c)
  <2>1. /\ Others(c) /\ ~calls[c].paid /\ calls'[c].pc = "next_item"
        /\ calls'[c].cart = calls[c].cart /\ calls'[c].todo = DOMAIN calls[c].cart
    BY <1>3, PayStep DEF BooksAt, Typed
  <2>2. SellerDue(calls[c]) = 0 /\ BuyerDue(calls[c]) = 0 /\ Taken(calls[c]) = {}
    BY <2>1, NothingDue
  <2>3. Taken(calls'[c]) = {}
    BY <2>1 DEF Taken
  <2>4. BuyerDue(calls'[c]) = 0
    BY <2>1, <2>2, <2>3, SameTaken
  <2>5. SellerDue(calls'[c]) = 0
    BY <2>1 DEF SellerDue
  <2> QED BY <1>1, <2>1, <2>2, <2>4, <2>5, BooksStill DEF BooksAt, Keeps
<1> QED BY <1>2, <1>3

\* An item is due only when it has been deducted.
LEMMA NextItemBooks ==
    ASSUME NEW c \in Call, BooksAt(c), NextItem(c)
    PROVE  Keeps
<1>1. customers' = customers /\ product'.items = product.items /\ stocked' = stocked
  BY FlatSteps DEF BooksAt
<1>2. /\ Paying(c) /\ calls[c].pc = "next_item"
      /\ \/ \E i \in calls[c].todo :
               Goes(c, "update_item", calls[c].todo \ {i}, i, product.items[i], calls[c].count)
         \/ End(c, "insufficient") /\ calls[c].todo = DOMAIN calls[c].cart
  BY NextItemStep DEF BooksAt, Typed
<1>3. SellerDue(calls[c]) = 0
  BY <1>2 DEF SellerDue
<1>4. ASSUME NEW i \in calls[c].todo,
             Goes(c, "update_item", calls[c].todo \ {i}, i, product.items[i], calls[c].count)
      PROVE  Keeps
  <2>1. i \in DOMAIN calls[c].cart
    BY <1>2, PaidFacts DEF BooksAt, Typed, Buying
  <2>2. Taken(calls'[c]) = Taken(calls[c]) /\ calls'[c].cart = calls[c].cart
    BY <1>2, <1>4, <2>1 DEF Taken, Goes
  <2>3. SellerDue(calls'[c]) = 0
    BY <1>4 DEF SellerDue, Goes
  <2> QED BY <1>1, <1>2, <1>3, <2>2, <2>3, SameTaken, BooksStill DEF BooksAt, Keeps, Paying
<1>5. CASE End(c, "insufficient") /\ calls[c].todo = DOMAIN calls[c].cart
  <2>1. Taken(calls[c]) = {}
    BY <1>5 DEF Taken
  <2>2. BuyerDue(calls[c]) = 0
    BY <2>1, FS_EmptySet, SumZero DEF BuyerDue
  <2>3. calls'[c].pc = "done"
    BY <1>5, EndFields DEF BooksAt, Typed
  <2>4. SellerDue(calls'[c]) = 0 /\ BuyerDue(calls'[c]) = 0
    BY <2>3, NothingDue
  <2> QED BY <1>1, <1>2, <1>3, <2>2, <2>4, BooksStill DEF BooksAt, Keeps, Paying
<1> QED BY <1>2, <1>4, <1>5

\* AddHistory, GetSeller and GetBuyer read or write nothing that counts.
LEMMA QuietBooks ==
    ASSUME NEW c \in Call, BooksAt(c), AddHistory(c) \/ GetSeller(c) \/ GetBuyer(c)
    PROVE  Keeps
<1>1. customers' = customers /\ product'.items = product.items /\ stocked' = stocked
  BY FlatSteps DEF BooksAt
<1>2. /\ Paying(c)
      /\ \E n : \/ /\ calls[c].pc = "add_history"
                   /\ Goes(c, "get_seller", calls[c].todo, calls[c].item, calls[c].row, n)
                \/ /\ calls[c].pc = "get_seller"
                   /\ Goes(c, "update_seller", calls[c].todo, calls[c].item, calls[c].row, n)
                \/ /\ calls[c].pc = "next_item"
                   /\ Goes(c, "update_buyer", calls[c].todo, calls[c].item, calls[c].row, n)
  <2>1. CASE AddHistory(c)
    BY <2>1, AddHistoryMove DEF BooksAt, Typed
  <2>2. CASE GetSeller(c)
    BY <2>2, GetSellerStep DEF BooksAt, Typed
  <2>3. CASE GetBuyer(c)
    BY <2>3, GetBuyerStep DEF BooksAt, Typed
  <2> QED BY <2>1, <2>2, <2>3
<1>3. /\ calls'[c].cart = calls[c].cart /\ Taken(calls'[c]) = Taken(calls[c])
      /\ SellerDue(calls'[c]) = SellerDue(calls[c])
  BY <1>2 DEF Goes, Taken, SellerDue
<1> QED BY <1>1, <1>2, <1>3, SameTaken, BooksStill DEF BooksAt, Keeps, Paying

\* At the end nothing is due.
LEMMA EndPurchaseBooks ==
    ASSUME NEW c \in Call, BooksAt(c), EndPurchase(c)
    PROVE  Keeps
<1>1. customers' = customers /\ product'.items = product.items /\ stocked' = stocked
  BY FlatSteps DEF BooksAt
<1>2. Paying(c) /\ calls[c].pc = "clear" /\ calls'[c].pc = "done"
  BY EndPurchaseStep DEF BooksAt, Typed
<1> QED BY <1>1, <1>2, NothingDue, BooksStill DEF BooksAt, Keeps, Paying

\* A write of the product service that was answered.
LEMMA Written ==
    ASSUME Typed, NEW r, NEW o, ProductSide(r, o), faults' = 0
    PROVE  product' = ApplyRequest(product, r) /\ customers' = customers /\ Executed(o)
BY ProductSideStored DEF ProductSide, ProductWrite, Executed

\* A write of the customer service that was answered.
LEMMA Counted ==
    ASSUME Typed, NEW r, NEW o, CustomerSide(r, o), faults' = 0
    PROVE  customers' = AccountsAfter(r) /\ product' = product /\ stocked' = stocked /\ o = "ok"
BY CustomerSideStored DEF CustomerSide, CustomerWrite, Executed

\* The deduction: the units leave the stock and are due to seller and buyer.
LEMMA DeductBooks ==
    ASSUME NEW c \in Call, BooksAt(c), UpdateItem(c), Kind(c) = "purchase"
    PROVE  Keeps
<1> DEFINE k == calls[c]
           i == k.item
           q == k.cart[i]
<1>1. /\ Paying(c) /\ k.pc = "update_item"
      /\ Goes(c, "add_history", k.todo, i, k.row, k.count)
  BY DeductStep DEF BooksAt, Typed
<1>2. /\ k.paid /\ IsCart(k.cart) /\ k.row \in Row /\ i \in DOMAIN k.cart /\ i \notin k.todo
      /\ k.todo \subseteq DOMAIN k.cart
  BY <1>1, PaidFacts DEF BooksAt, Typed, Kind
<1>3. q \in Int
  BY <1>2 DEF IsCart
<1>4. PICK o : /\ ProductSide([kind |-> "update_item", item |-> i, row |-> NewRow(c)], o)
               /\ stocked' = stocked
  BY UpdateItemSide DEF BooksAt
<1>5. /\ NewRow(c) \in Row /\ i \in DOMAIN product.items /\ product.items[i] = k.row
  BY UpdateItemSide DEF BooksAt
<1>6. NewRow(c).quantity = k.row.quantity - q
  BY <1>2 DEF NewRow, Deducted, Row, Kind
<1>7. product'.items = [product.items EXCEPT ![i] = NewRow(c)] /\ customers' = customers
  <2>1. product' = ApplyRequest(product, [kind |-> "update_item", item |-> i, row |-> NewRow(c)])
           /\ customers' = customers
    BY <1>4, Written DEF BooksAt
  <2>2. ProductSafe(product)
    BY DEF BooksAt, Typed, Known, BoughtInv, ShopInv
  <2> QED BY <1>5, <2>1, <2>2 DEF ApplyRequest, ProductSafe
<1>8. Stock(product'.items) = Stock(product.items) + NewRow(c).quantity - k.row.quantity
  BY <1>5, <1>7, ItemsOf, StockSet DEF BooksAt
<1>9. stocked' - Stock(product'.items) = stocked - Stock(product.items) + q
  <2>1. Stock(product.items) \in Int /\ stocked \in Int /\ k.row.quantity \in Int
    BY <1>2, ItemsOf, StockType DEF BooksAt, Typed, Row
  <2> QED BY <1>3, <1>4, <1>6, <1>8, <2>1
<1>10. SellerDue(k) = 0 /\ SellerDue(calls'[c]) = q
  BY <1>1, <1>2 DEF SellerDue, Goes
<1>11. BuyerDue(calls'[c]) = BuyerDue(k) + q
  <2>1. calls'[c].cart = k.cart /\ Taken(calls'[c]) = Taken(k) \cup {i} /\ i \notin Taken(k)
    BY <1>1, <1>2 DEF Taken, Goes
  <2>2. Taken(k) \in SUBSET DOMAIN k.cart
    BY DEF Taken
  <2>3. IsFiniteSet(Taken(k)) /\ \A x \in Taken(k) : k.cart[x] \in Int
    BY <1>2, <2>2, CartFinite
  <2>4. SumFunctionOnSet(k.cart, Taken(k) \cup {i}) = SumFunctionOnSet(k.cart, Taken(k)) + k.cart[i]
    BY <1>3, <2>1, <2>3, SumGrown
  <2> QED BY <2>1, <2>4 DEF BuyerDue
<1>12. BuyerDue(k) \in Int
  BY DuesTyped DEF BooksAt, Typed, Known, BoughtInv, ShopInv, Handlers
<1>13. CountOf(customers, Seller) \in Int /\ CountOf(customers, Buyer) \in Int
  BY CountType DEF BooksAt, Typed, Known
<1> HIDE DEF q
<1>14. /\ CountOf(customers', Seller) = CountOf(customers, Seller) + 0
       /\ CountOf(customers', Buyer) = CountOf(customers, Buyer) + 0
       /\ SellerDue(calls'[c]) + 0 = SellerDue(k) + q
       /\ BuyerDue(calls'[c]) + 0 = BuyerDue(k) + q
  BY <1>3, <1>7, <1>10, <1>11, <1>12, <1>13
<1> QED BY <1>1, <1>3, <1>9, <1>14, BooksMove DEF BooksAt, Keeps, Paying

\* The units of one item become the seller's.
LEMMA UpdateSellerBooks ==
    ASSUME NEW c \in Call, BooksAt(c), UpdateSeller(c)
    PROVE  Keeps
<1> DEFINE k == calls[c]
           s == k.row.seller
           q == k.cart[k.item]
           r == [kind |-> "update", user |-> s, count |-> k.count + q]
<1>1. /\ Paying(c) /\ k.pc = "update_seller"
      /\ Goes(c, "next_item", k.todo, k.item, k.row, k.count)
  BY UpdateSellerStep DEF BooksAt, Typed
<1>2. /\ k.row \in Row /\ q \in Int /\ k.count \in Int
      /\ s \in DOMAIN customers /\ customers[s] = k.count
  BY UpdateSellerSide DEF BooksAt
<1>3. PICK o : CustomerSide(r, o)
  BY UpdateSellerSide DEF BooksAt
<1>4. customers' = AccountsAfter(r) /\ product' = product /\ stocked' = stocked
  BY <1>3, Counted DEF BooksAt
<1>5. customers' = [customers EXCEPT ![s] = k.count + q]
  BY <1>2, <1>4 DEF AccountsAfter
<1>6. s \in Seller /\ s \notin Buyer /\ k.count + q \in Int
  BY <1>2, PurchaseAssumption DEF Row
<1>7. Counts(customers) /\ CountOf(customers, Seller) \in Int /\ CountOf(customers, Buyer) \in Int
  BY CountType DEF BooksAt, Typed, Known
<1>8. /\ CountOf(customers', Seller) = CountOf(customers, Seller) + q
      /\ CountOf(customers', Buyer) = CountOf(customers, Buyer) + 0
  <2> DEFINE n == k.count + q
  <2>1. /\ CountOf(customers', Seller) = CountOf(customers, Seller) + (n - customers[s])
        /\ CountOf(customers', Buyer) = CountOf(customers, Buyer) + 0
    BY <1>2, <1>5, <1>6, <1>7, CountSet
  <2> QED BY <1>2, <1>7, <2>1
<1>9. Taken(calls'[c]) = Taken(k) /\ BuyerDue(calls'[c]) = BuyerDue(k)
  <2>1. calls'[c].cart = k.cart /\ Taken(calls'[c]) = Taken(k)
    BY <1>1 DEF Goes, Taken
  <2> QED BY <2>1, SameTaken
<1>10. SellerDue(k) = q /\ SellerDue(calls'[c]) = 0
  BY <1>1 DEF SellerDue, Goes, Paying
<1>11. BuyerDue(k) \in Int /\ Stock(product.items) \in Int /\ stocked \in Int
  BY DuesTyped, ItemsOf, StockType DEF BooksAt, Typed, Known, BoughtInv, ShopInv, Handlers
<1> HIDE DEF q
<1>12. /\ SellerDue(calls'[c]) + q = SellerDue(k) + 0
       /\ BuyerDue(calls'[c]) + 0 = BuyerDue(k) + 0
       /\ stocked' - Stock(product'.items) = stocked - Stock(product.items) + 0
  BY <1>2, <1>4, <1>9, <1>10, <1>11
<1> QED BY <1>1, <1>2, <1>8, <1>12, BooksMove DEF BooksAt, Keeps, Paying

\* The units of the whole cart become the buyer's.
LEMMA UpdateBuyerBooks ==
    ASSUME NEW c \in Call, BooksAt(c), UpdateBuyer(c)
    PROVE  Keeps
<1> DEFINE k == calls[c]
           b == k.op.user
           q == TotalItems(k.cart)
           r == [kind |-> "update", user |-> b, count |-> k.count + q]
<1>1. /\ Paying(c) /\ k.pc = "update_buyer"
      /\ Goes(c, "clear", k.todo, k.item, k.row, k.count)
  BY UpdateBuyerStep DEF BooksAt, Typed
<1>2. /\ b \in Buyer /\ k.todo = {} /\ q \in Int /\ k.count \in Int
      /\ b \in DOMAIN customers /\ customers[b] = k.count
  BY UpdateBuyerSide DEF BooksAt
<1>3. PICK o : CustomerSide(r, o)
  BY UpdateBuyerSide DEF BooksAt
<1>4. customers' = AccountsAfter(r) /\ product' = product /\ stocked' = stocked
  BY <1>3, Counted DEF BooksAt
<1>5. customers' = [customers EXCEPT ![b] = k.count + q]
  BY <1>2, <1>4 DEF AccountsAfter
<1>6. b \notin Seller /\ k.count + q \in Int
  BY <1>2, PurchaseAssumption
<1>7. Counts(customers) /\ CountOf(customers, Seller) \in Int /\ CountOf(customers, Buyer) \in Int
  BY CountType DEF BooksAt, Typed, Known
<1>8. /\ CountOf(customers', Buyer) = CountOf(customers, Buyer) + q
      /\ CountOf(customers', Seller) = CountOf(customers, Seller) + 0
  <2> DEFINE n == k.count + q
  <2>1. /\ CountOf(customers', Buyer) = CountOf(customers, Buyer) + (n - customers[b])
        /\ CountOf(customers', Seller) = CountOf(customers, Seller) + 0
    BY <1>2, <1>5, <1>6, <1>7, CountSet
  <2> QED BY <1>2, <1>7, <2>1
<1>9. BuyerDue(k) = q
  <2>1. Taken(k) = DOMAIN k.cart
    BY <1>1, <1>2 DEF Taken, Paying
  <2> QED BY <2>1 DEF BuyerDue, TotalItems, SumFunction
<1>10. BuyerDue(calls'[c]) = 0 /\ SellerDue(calls'[c]) = 0
  BY <1>1, NothingDue DEF Goes
<1>11. SellerDue(k) = 0
  BY <1>1 DEF SellerDue
<1>12. Stock(product.items) \in Int /\ stocked \in Int
  BY ItemsOf, StockType DEF BooksAt, Typed
<1> HIDE DEF q
<1>13. /\ SellerDue(calls'[c]) + 0 = SellerDue(k) + 0
       /\ BuyerDue(calls'[c]) + q = BuyerDue(k) + 0
       /\ stocked' - Stock(product'.items) = stocked - Stock(product.items) + 0
  BY <1>2, <1>4, <1>9, <1>10, <1>11, <1>12
<1> QED BY <1>1, <1>2, <1>8, <1>13, BooksMove DEF BooksAt, Keeps, Paying

\* The other writes.  A new account has no count.
LEMMA CreateAccountBooks ==
    ASSUME NEW c \in Call, BooksAt(c), CreateAccount(c)
    PROVE  Keeps
<1> DEFINE u == User(c)
           r == [kind |-> "create", user |-> u]
<1>1. Unpaid(c)
  BY EndingSteps DEF BooksAt, Typed
<1>2. u \in Buyer \cup Seller
  BY CreateAccountSide DEF BooksAt, Account
<1>3. PICK o : CustomerSide(r, o)
  BY CreateAccountSide DEF BooksAt
<1>4. customers' = AccountsAfter(r) /\ product' = product /\ stocked' = stocked
  BY <1>3, Counted DEF BooksAt
<1>5. Counts(customers) /\ CountOf(customers, Seller) \in Int /\ CountOf(customers, Buyer) \in Int
  BY CountType DEF BooksAt, Typed, Known
<1>6. CountOf(customers', Seller) = CountOf(customers, Seller) /\ CountOf(customers', Buyer) = CountOf(customers, Buyer)
  <2>1. CASE u \in DOMAIN customers
    BY <1>4, <2>1 DEF AccountsAfter
  <2>2. CASE u \notin DOMAIN customers
    <3>1. customers' = Put(customers, u, 0)
      BY <1>4, <2>2 DEF AccountsAfter
    <3> QED BY <1>2, <1>5, <2>2, <3>1, CountPut
  <2> QED BY <2>1, <2>2
<1>7. Stock(product.items) \in Int /\ stocked \in Int
  BY ItemsOf, StockType DEF BooksAt, Typed
<1>8. /\ CountOf(customers', Seller) = CountOf(customers, Seller) + 0
      /\ CountOf(customers', Buyer) = CountOf(customers, Buyer) + 0
      /\ stocked' - Stock(product'.items) = stocked - Stock(product.items) + 0
  BY <1>4, <1>5, <1>6, <1>7
<1>9. /\ SellerDue(calls'[c]) + 0 = SellerDue(calls[c]) + 0
      /\ BuyerDue(calls'[c]) + 0 = BuyerDue(calls[c]) + 0
  BY <1>1, UnpaidDues
<1> QED BY <1>1, <1>8, <1>9, BooksMove DEF BooksAt, Keeps, Unpaid

\* The id of a new item is not in use: it was drawn for this call, which is not over.
LEMMA NewIdFresh ==
    ASSUME Typed, NEW c \in Call, RegisterItem(c)
    PROVE  DrawnId[c] \notin UsedIds(calls)
<1>1. c \in DOMAIN DrawnId /\ calls[c].pc # "done"
  BY RegisterItemSide DEF RegisterItem, At
<1>2. DrawnId[c] \notin DOMAIN InitialItem
  BY <1>1, FreshIdAssumption
<1>3. \A d \in DOMAIN DrawnId : DrawnId[d] = DrawnId[c] => d = c
  BY <1>1, FreshIdAssumption DEF IsInjective
<1> QED BY <1>1, <1>2, <1>3 DEF UsedIds

\* A new item's units are stock.
LEMMA RegisterItemBooks ==
    ASSUME NEW c \in Call, BooksAt(c), RegisterItem(c)
    PROVE  Keeps
<1> DEFINE i == DrawnId[c]
           row == NewItemRow(c)
           q == calls[c].op.quantity
           r == [kind |-> "create_item", item |-> i, row |-> row]
<1>1. Unpaid(c)
  BY EndingSteps DEF BooksAt, Typed
<1>2. row \in Row /\ i \in Item /\ i \notin DOMAIN product.items
  BY RegisterItemSide, NewIdFresh DEF BooksAt
<1>3. PICK o : ProductSide(r, o) /\ stocked' = IF Executed(o) THEN stocked + q ELSE stocked
  BY RegisterItemSide DEF BooksAt
<1>4. product' = ApplyRequest(product, r) /\ customers' = customers /\ stocked' = stocked + q
  BY <1>3, Written DEF BooksAt
<1>5. product'.items = Put(product.items, i, row)
  <2>1. ProductSafe(product)
    BY DEF BooksAt, Typed, Known, BoughtInv, ShopInv
  <2> QED BY <1>4, <2>1 DEF ApplyRequest, ProductSafe
<1>6. q = row.quantity /\ q \in Int
  BY <1>2 DEF NewItemRow, Row
<1>7. Stock(product'.items) = Stock(product.items) + row.quantity
  BY <1>2, <1>5, ItemsOf, StockPut DEF BooksAt
<1>8. Stock(product.items) \in Int /\ stocked \in Int
  BY ItemsOf, StockType DEF BooksAt, Typed
<1>9. CountOf(customers, Seller) \in Int /\ CountOf(customers, Buyer) \in Int
  BY CountType DEF BooksAt, Typed, Known
<1> HIDE DEF q, row
<1>10. /\ CountOf(customers', Seller) = CountOf(customers, Seller) + 0
       /\ CountOf(customers', Buyer) = CountOf(customers, Buyer) + 0
       /\ stocked' - Stock(product'.items) = stocked - Stock(product.items) + 0
  BY <1>4, <1>6, <1>7, <1>8, <1>9
<1>11. /\ SellerDue(calls'[c]) + 0 = SellerDue(calls[c]) + 0
       /\ BuyerDue(calls'[c]) + 0 = BuyerDue(calls[c]) + 0
  BY <1>1, UnpaidDues
<1> QED BY <1>1, <1>10, <1>11, BooksMove DEF BooksAt, Keeps, Unpaid

\* Feedback and a price leave the units alone; new units are stock, or no longer.
LEMMA UpdateItemBooks ==
    ASSUME NEW c \in Call, BooksAt(c), UpdateItem(c), Kind(c) # "purchase"
    PROVE  Keeps
<1> DEFINE k == calls[c]
           i == k.item
           new == NewRow(c)
           r == [kind |-> "update_item", item |-> i, row |-> new]
           q == new.quantity
           p == k.row.quantity
<1>1. Unpaid(c)
  BY EndingSteps DEF BooksAt, Typed
<1>2. /\ new \in Row /\ k.row \in Row /\ k.op.kind \in ItemKinds
      /\ i \in DOMAIN product.items /\ product.items[i] = k.row
  BY UpdateItemSide DEF BooksAt, Kind
<1>3. PICK o : /\ ProductSide(r, o)
               /\ stocked' = IF Kind(c) = "update_units" /\ Executed(o)
                             THEN stocked + k.op.quantity - p ELSE stocked
  BY <1>2, UpdateItemSide DEF BooksAt
<1>4. /\ product' = ApplyRequest(product, r) /\ customers' = customers /\ Executed(o)
  BY <1>3, Written DEF BooksAt
<1>5. product'.items = [product.items EXCEPT ![i] = new]
  <2>1. ProductSafe(product)
    BY DEF BooksAt, Typed, Known, BoughtInv, ShopInv
  <2> QED BY <1>2, <1>4, <2>1 DEF ApplyRequest, ProductSafe
<1>6. Stock(product'.items) = Stock(product.items) + q - p
  BY <1>2, <1>5, ItemsOf, StockSet DEF BooksAt
<1>7. Stock(product.items) \in Int /\ stocked \in Int
  BY ItemsOf, StockType DEF BooksAt, Typed
<1>8. q \in Int /\ p \in Int
  BY <1>2 DEF Row
<1>9. stocked' = stocked + q - p
  <2>1. CASE k.op.kind = "update_units"
    <3>1. q = k.op.quantity
      BY <1>2, <2>1 DEF NewRow, Units, Kind, Row
    <3> QED BY <1>3, <1>4, <2>1, <3>1 DEF Kind
  <2>2. CASE k.op.kind # "update_units"
    <3>1. q = p
      BY <1>2, <2>2 DEF NewRow, Feedback, Price, Kind, Row, ItemKinds
    <3>2. stocked' = stocked
      BY <1>3, <2>2 DEF Kind
    <3> HIDE DEF q, p
    <3> QED BY <1>7, <1>8, <3>1, <3>2
  <2> QED BY <2>1, <2>2
<1>10. CountOf(customers, Seller) \in Int /\ CountOf(customers, Buyer) \in Int
  BY CountType DEF BooksAt, Typed, Known
<1> HIDE DEF q, p
<1>11. /\ CountOf(customers', Seller) = CountOf(customers, Seller) + 0
       /\ CountOf(customers', Buyer) = CountOf(customers, Buyer) + 0
       /\ stocked' - Stock(product'.items) = stocked - Stock(product.items) + 0
  BY <1>4, <1>6, <1>7, <1>8, <1>9, <1>10
<1>12. /\ SellerDue(calls'[c]) + 0 = SellerDue(calls[c]) + 0
       /\ BuyerDue(calls'[c]) + 0 = BuyerDue(calls[c]) + 0
  BY <1>1, UnpaidDues
<1> QED BY <1>1, <1>11, <1>12, BooksMove DEF BooksAt, Keeps, Unpaid

(***************************************************************************)
(* A reset.  It needs no books from before: those that follow are empty.   *)
(***************************************************************************)
\* A handler that has taken nothing owes nothing.
LEMMA NothingTaken ==
    ASSUME NEW k, HandlerMore(k), Taken(k) = {}
    PROVE  SellerDue(k) = 0 /\ BuyerDue(k) = 0
<1>1. BuyerDue(k) = 0
  BY FS_EmptySet, SumZero DEF BuyerDue
<1>2. k.paid /\ k.pc \in {"add_history", "get_seller", "update_seller"} => k.item \in Taken(k)
  BY DEF HandlerMore, Taken
<1> QED BY <1>1, <1>2 DEF SellerDue

\* With nothing taken and nothing counted, what a reset leaves is balanced.
LEMMA ResetProductsBooks ==
    ASSUME Typed, Typed', faults' = 0, disturbed' = {}, NEW c \in Call, ResetProducts(c)
    PROVE  Keeps
<1>1. /\ \A d \in Call : Taken(calls[d]) = {}
      /\ \A u \in DOMAIN customers : customers[u] = 0
  BY DEF ResetProducts, Disturb, HalfReset
<1>2. PICK o : ProductSide([kind |-> "reset"], o) /\ stocked' = IF Executed(o) THEN 0 ELSE stocked
  BY ResetProductsSide
<1>3. product' = ApplyRequest(product, [kind |-> "reset"]) /\ customers' = customers /\ stocked' = 0
  BY <1>2, Written
<1>4. DOMAIN product'.items = {}
  BY <1>3 DEF ApplyRequest
<1>5. Stock(product'.items) = 0
  <2> DEFINE f == [i \in DOMAIN product'.items |-> product'.items[i].quantity]
  <2>1. DOMAIN f = {}
    BY <1>4
  <2> HIDE DEF f
  <2>2. SumFunction(f) = 0
    BY <2>1, FS_EmptySet, SumZero DEF SumFunction
  <2> QED BY <2>2 DEF Stock, f
<1>6. CountOf(customers', Seller) = 0 /\ CountOf(customers', Buyer) = 0
  BY <1>1, <1>3, CountZero DEF Typed, Known
<1>7. \A d \in Call : SellerDue(calls'[d]) = 0 /\ BuyerDue(calls'[d]) = 0
  <2>1. Others(c) /\ calls'[c].pc = "done"
    BY EndingSteps, EndFields DEF Typed
  <2>2. SellerDue(calls'[c]) = 0 /\ BuyerDue(calls'[c]) = 0
    BY <2>1, NothingDue
  <2>3. \A d \in Call : SellerDue(calls[d]) = 0 /\ BuyerDue(calls[d]) = 0
    BY <1>1, NothingTaken DEF Typed, Known
  <2> QED BY <2>1, <2>2, <2>3 DEF Others
<1>8. SellerDues(calls') = 0 /\ BuyerDues(calls') = 0
  BY <1>7, PurchaseAssumption, SumZero DEF SellerDues, BuyerDues, SumFunction
<1> QED BY <1>3, <1>5, <1>6, <1>8 DEF Keeps, Books

\* With nothing failing, the step of another kind does not end a reset under way.
LEMMA NoResetBefore ==
    ASSUME Typed, faults' = 0, NEW c \in Call,
           CutOff(c) \/ Pay(c) \/ Early(c) \/ Ending(c) \/ Shopping(c),
           ~ResetProducts(c), NoReset(calls')
    PROVE  NoReset(calls)
<1>1. ~CutOff(c)
  BY CutOffStored
<1>2. calls[c].pc # "reset_products"
  BY <1>1 DEF Early, Ending, Shopping, At, Pay, Start, Expired, Login, ResetCustomers, GetCart, GetItem,
              CreateAccount, CreateSession, Logout, AddToCart, RemoveFromCart, ClearCart, CartCall,
              SaveCart, RegisterItem, UpdateItem, NextItem, AddHistory, GetSeller, UpdateSeller,
              GetBuyer, UpdateBuyer, EndPurchase
<1>3. Others(c)
  BY MoreStep DEF Typed
<1> QED BY <1>2, <1>3 DEF NoReset, Others

(***************************************************************************)
(* Ids are not used twice: a call that is over stays over.                 *)
(***************************************************************************)
LEMMA UsedIdsGrow ==
    ASSUME Typed, NEW c \in Call, CutOff(c) \/ Pay(c) \/ Early(c) \/ Ending(c) \/ Shopping(c)
    PROVE  UsedIds(calls) \subseteq UsedIds(calls')
<1>1. \A d \in Call : calls[d].pc = "done" => calls'[d].pc = "done"
  BY MoreStep DEF Typed, Others
<1>2. DOMAIN DrawnId \subseteq Call
  BY FreshIdAssumption
<1> QED BY <1>1, <1>2 DEF UsedIds

\* What is on sale changes with a registration, an update or a reset only.
LEMMA ItemsStill ==
    ASSUME Typed, faults' = 0, NEW c \in Call,
           CutOff(c) \/ Pay(c) \/ Early(c) \/ Ending(c) \/ Shopping(c),
           ~UpdateItem(c), ~RegisterItem(c)
    PROVE  product'.items = product.items \/ DOMAIN product'.items = {}
<1>1. CASE ResetProducts(c)
  <2>1. PICK o : ProductSide([kind |-> "reset"], o)
    BY <1>1, ResetProductsSide
  <2>2. product' = ApplyRequest(product, [kind |-> "reset"])
    BY <2>1, Written
  <2> QED BY <2>2 DEF ApplyRequest
<1>2. CASE CreateAccount(c) \/ ResetCustomers(c) \/ UpdateSeller(c) \/ UpdateBuyer(c)
  <2>1. UNCHANGED product
    BY <1>2 DEF CreateAccount, ResetCustomers, UpdateSeller, UpdateBuyer
  <2> QED BY <2>1
<1>3. CASE \/ Pay(c) \/ Start(c) \/ Expired(c) \/ Login(c) \/ GetCart(c) \/ GetItem(c)
           \/ CreateSession(c) \/ Logout(c)
           \/ AddToCart(c) \/ RemoveFromCart(c) \/ ClearCart(c) \/ SaveCart(c)
           \/ NextItem(c) \/ AddHistory(c) \/ GetSeller(c) \/ GetBuyer(c) \/ EndPurchase(c)
  BY <1>3, FlatSteps
<1>4. ~CutOff(c)
  BY CutOffStored
<1> QED BY <1>1, <1>2, <1>3, <1>4 DEF Early, Ending, Shopping

\* An item on sale has an id in use.
LEMMA UsedIdsStep ==
    ASSUME Typed, faults' = 0, DOMAIN product.items \subseteq UsedIds(calls), NEW c \in Call,
           CutOff(c) \/ Pay(c) \/ Early(c) \/ Ending(c) \/ Shopping(c)
    PROVE  DOMAIN product'.items \subseteq UsedIds(calls')
<1>1. UsedIds(calls) \subseteq UsedIds(calls')
  BY UsedIdsGrow
<1>2. ProductSafe(product)
  BY DEF Typed, Known, BoughtInv, ShopInv
<1>3. CASE RegisterItem(c)
  <2>1. PICK o : ProductSide([kind |-> "create_item", item |-> DrawnId[c], row |-> NewItemRow(c)], o)
    BY <1>3, RegisterItemSide
  <2>2. DOMAIN product'.items = DOMAIN product.items \cup {DrawnId[c]}
    <3>1. product' = ApplyRequest(product, [kind |-> "create_item", item |-> DrawnId[c], row |-> NewItemRow(c)])
      BY <2>1, Written
    <3> QED BY <1>2, <3>1 DEF ApplyRequest, ProductSafe, Put
  <2>3. calls'[c].pc = "done" /\ c \in DOMAIN DrawnId
    BY <1>3, EndingSteps, EndFields, RegisterItemSide DEF Typed
  <2> QED BY <1>1, <2>2, <2>3 DEF UsedIds
<1>4. CASE UpdateItem(c)
  <2>1. PICK o : ProductSide([kind |-> "update_item", item |-> calls[c].item, row |-> NewRow(c)], o)
    BY <1>4, UpdateItemSide
  <2>2. DOMAIN product'.items = DOMAIN product.items
    <3>1. product' = ApplyRequest(product, [kind |-> "update_item", item |-> calls[c].item, row |-> NewRow(c)])
      BY <2>1, Written
    <3> QED BY <1>2, <3>1 DEF ApplyRequest, ProductSafe
  <2> QED BY <1>1, <2>2
<1>5. CASE ~UpdateItem(c) /\ ~RegisterItem(c)
  BY <1>1, <1>5, ItemsStill
<1> QED BY <1>3, <1>4, <1>5

(***************************************************************************)
(* The invariant of the books.                                             *)
(***************************************************************************)
\* The first state: nothing sold, nothing due.
LEMMA BooksInit == Init => BooksInv
<1> SUFFICES ASSUME Init PROVE BooksInv
  OBVIOUS
<1>1. Typed
  BY TypedInit
<1>2. DOMAIN product.items \subseteq UsedIds(calls)
  BY DEF Init, UsedIds
<1>3. \A c \in Call : SellerDue(calls[c]) = 0 /\ BuyerDue(calls[c]) = 0
  <2>1. \A c \in Call : ~calls[c].paid
    BY DEF Init, Idle
  <2> QED BY <2>1, NothingDue
<1>4. SellerDues(calls) = 0 /\ BuyerDues(calls) = 0
  BY <1>3, PurchaseAssumption, SumZero DEF SellerDues, BuyerDues, SumFunction
<1>5. CountOf(customers, Seller) = 0 /\ CountOf(customers, Buyer) = 0
  <2>1. \A u \in DOMAIN customers : customers[u] = 0
    BY DEF Init
  <2> QED BY <1>1, <2>1, CountZero DEF Typed, Known
<1>6. stocked = Stock(product.items) /\ stocked \in Int
  BY <1>1 DEF Init, Typed
<1>7. Books(customers, product.items, stocked, calls)
  BY <1>4, <1>5, <1>6 DEF Books
<1> QED BY <1>1, <1>2, <1>7 DEF BooksInv

\* What a step does to the books when nothing fails in it or is disturbed by it.
LEMMA StepBooks ==
    ASSUME NEW c \in Call, BooksAt(c), ~ResetProducts(c), NoReset(calls'),
           CutOff(c) \/ Pay(c) \/ Early(c) \/ Ending(c) \/ Shopping(c)
    PROVE  Keeps
<1>1. ~CutOff(c)
  BY CutOffStored DEF BooksAt
<1>2. ~ResetCustomers(c)
  <2> SUFFICES ASSUME ResetCustomers(c) PROVE FALSE
    OBVIOUS
  <2>1. PICK o : CustomerSide([kind |-> "reset"], o) /\ (o = "ok" => calls'[c].pc = "reset_products")
    BY ResetCustomersSide DEF BooksAt
  <2>2. calls'[c].pc = "reset_products"
    BY <2>1, Counted DEF BooksAt
  <2> QED BY <2>2 DEF NoReset
<1>3. CASE Pay(c)
  BY <1>3, PayBooks
<1>4. CASE \/ Start(c) \/ Expired(c) \/ Login(c) \/ GetCart(c) \/ GetItem(c)
  BY <1>4, EarlySteps, FlatSteps, UnpaidFlat DEF BooksAt, Typed
<1>5. CASE \/ CreateSession(c) \/ Logout(c)
           \/ AddToCart(c) \/ RemoveFromCart(c) \/ ClearCart(c) \/ SaveCart(c)
  BY <1>5, EndingSteps, FlatSteps, UnpaidFlat DEF BooksAt, Typed
<1>6. CASE CreateAccount(c) \/ RegisterItem(c)
  BY <1>6, CreateAccountBooks, RegisterItemBooks
<1>7. CASE UpdateItem(c)
  BY <1>7, DeductBooks, UpdateItemBooks
<1>8. CASE NextItem(c) \/ AddHistory(c) \/ GetSeller(c) \/ GetBuyer(c) \/ EndPurchase(c)
  BY <1>8, NextItemBooks, QuietBooks, EndPurchaseBooks
<1>9. CASE UpdateSeller(c) \/ UpdateBuyer(c)
  BY <1>9, UpdateSellerBooks, UpdateBuyerBooks
<1> QED BY <1>1, <1>2, <1>3, <1>4, <1>5, <1>6, <1>7, <1>8, <1>9 DEF Early, Ending, Shopping

\* The invariant is kept.
LEMMA BooksStep == BooksInv /\ [Next]_vars => BooksInv'
<1> SUFFICES ASSUME BooksInv, [Next]_vars PROVE BooksInv'
  OBVIOUS
<1>1. Typed /\ Typed'
  BY TypedStep DEF BooksInv
<1>2. ASSUME NEW c \in Call, CutOff(c) \/ Pay(c) \/ Early(c) \/ Ending(c) \/ Shopping(c)
      PROVE  BooksInv'
  <2>1. faults' = 0 => faults = 0
    BY <1>1, <1>2, StoredStep
  <2>2. disturbed' = {} => disturbed = {}
    BY <1>1, <1>2, DisturbedStep
  <2>3. faults' = 0 => DOMAIN product'.items \subseteq UsedIds(calls')
    BY <1>1, <1>2, <2>1, UsedIdsStep DEF BooksInv
  <2>4. ASSUME faults' = 0, disturbed' = {}, NoReset(calls')
        PROVE  Keeps
    <3>1. CASE ResetProducts(c)
      BY <1>1, <2>4, <3>1, ResetProductsBooks
    <3>2. CASE ~ResetProducts(c)
      <4>1. NoReset(calls)
        BY <1>1, <1>2, <2>4, <3>2, NoResetBefore
      <4>2. BooksAt(c)
        BY <1>1, <2>1, <2>2, <2>4, <4>1 DEF BooksAt, BooksInv, Calm
      <4> QED BY <1>2, <2>4, <3>2, <4>2, StepBooks
    <3> QED BY <3>1, <3>2
  <2> QED BY <1>1, <2>3, <2>4 DEF BooksInv, Calm, Keeps
<1>3. CASE Land
  BY <1>1, <1>3, LandStored DEF BooksInv, Calm
<1>4. CASE UNCHANGED vars
  BY <1>1, <1>4 DEF vars, BooksInv, Calm
<1> QED BY <1>2, <1>3, <1>4, StepKinds

\* When nothing is under way, nothing is due.
LEMMA BooksClosed == BooksInv => BooksBalance
<1> SUFFICES ASSUME BooksInv, Ended, faults = 0, disturbed = {}
             PROVE  /\ Total(Seller) = Total(Buyer)
                    /\ Total(Seller) = stocked - UnitsLeft
  BY DEF BooksBalance
<1>1. Books(customers, product.items, stocked, calls)
  BY DEF BooksInv, Calm, NoReset, Ended
<1>2. \A c \in Call : SellerDue(calls[c]) = 0 /\ BuyerDue(calls[c]) = 0
  <2>1. \A c \in Call : calls[c].pc = "idle" => ~calls[c].paid
    BY DEF BooksInv, Typed, Known, BoughtInv, PaidHandler, Buying
  <2> QED BY <2>1, NothingDue DEF Ended
<1>3. SellerDues(calls) = 0 /\ BuyerDues(calls) = 0
  BY <1>2, PurchaseAssumption, SumZero DEF SellerDues, BuyerDues, SumFunction
<1>4. CountOf(customers, Seller) \in Int /\ CountOf(customers, Buyer) \in Int
  BY CountType DEF BooksInv, Typed, Known
<1>5. /\ CountOf(customers, Seller) = stocked - Stock(product.items)
      /\ CountOf(customers, Buyer) = stocked - Stock(product.items)
  BY <1>1, <1>3, <1>4 DEF Books
<1> QED BY <1>5 DEF CountOf, Total, UnitsLeft

LEMMA BooksInvariant == Spec => []BooksInv
BY BooksInit, BooksStep, PTL DEF Spec

\* Whatever purchases, unit updates, feedback, registrations, accounts and resets run
\* beside each other, the units sold, the units bought and the units gone from the
\* stock agree when they are done, unless one of the five things happened.
THEOREM BooksAgree == Spec => []BooksBalance
BY BooksClosed, BooksInvariant, PTL

(***************************************************************************)
(* Feedback.                                                               *)
(***************************************************************************)
\* a feedback that was answered, and those that were, about an item
Tells(k) == k.pc = "done" /\ k.result = "ok" /\ k.op.kind = "provide_feedback"
Told(ks, i) == {d \in Call : Tells(ks[d]) /\ ks[d].op.item = i}

\* A new item has no feedback, as its id is new: feedback is about ids in use.
FeedbackInv ==
    /\ Typed
    /\ faults = 0 => DOMAIN product.items \subseteq UsedIds(calls)
    /\ Calm =>
         /\ \A i \in DOMAIN product.items : product.items[i].thumbs = Cardinality(Told(calls, i))
         /\ \A d \in Call : Tells(calls[d]) => calls[d].op.item \in UsedIds(calls)

\* What a handler at these steps was asked for is no feedback.
LEMMA NotFeedback ==
    ASSUME Typed, NEW c \in Call,
           calls[c].pc \in {"create_account", "login", "create_session", "logout", "reset_all", "reset_products",
                            "add_to_cart", "remove_from_cart", "clear_cart", "register_item",
                            "get_cart", "save"} \cup Purchasing
    PROVE  calls[c].op.kind # "provide_feedback"
<1>1. HandlerSafe(c, calls[c]) /\ HandlerMore(calls[c])
  BY OpFacts DEF Purchasing
<1> QED BY <1>1 DEF HandlerSafe, HandlerMore, Purchasing

\* A call is about one request from its start on.
LEMMA OpKept ==
    ASSUME Typed, NEW c \in Call, Pay(c) \/ Early(c) \/ Ending(c) \/ Shopping(c), ~Start(c), ~Expired(c)
    PROVE  calls'[c].op = calls[c].op
<1>1. \A result : End(c, result) => calls'[c].op = calls[c].op
  BY EndFields DEF Typed
<1>2. DOMAIN calls[c] = DOMAIN Idle /\ c \in DOMAIN calls
  BY Held DEF Typed, Known, BoughtInv, HandlerSafe
<1>3. CASE Pay(c)
  BY <1>1, <1>3, PayStep DEF Typed
<1>4. CASE Login(c)
  <2>1. CASE calls' = [calls EXCEPT ![c].pc = "create_session"]
    BY <1>2, <2>1 DEF Idle
  <2> QED BY <1>1, <1>4, <2>1 DEF Login
<1>5. CASE ResetCustomers(c)
  <2>1. CASE calls' = [calls EXCEPT ![c].pc = "reset_products"]
    BY <1>2, <2>1 DEF Idle
  <2> QED BY <1>1, <1>5, <2>1 DEF ResetCustomers
<1>6. CASE GetCart(c)
  <2>1. ASSUME NEW cart, NEW todo, NEW pc,
               calls' = [calls EXCEPT ![c].cart = cart, ![c].todo = todo, ![c].pc = pc]
        PROVE  calls'[c].op = calls[c].op
    BY <1>2, <2>1 DEF Idle
  <2>2. \/ \E result : End(c, result)
        \/ \E cart, todo, pc :
              calls' = [calls EXCEPT ![c].cart = cart, ![c].todo = todo, ![c].pc = pc]
    <3> DEFINE cart == product.carts[User(c)]
               pc == IF Kind(c) = "purchase" THEN "pay" ELSE "save"
               todo == DOMAIN cart
    <3>1. \/ \E result : End(c, result)
          \/ calls' = [calls EXCEPT ![c].cart = cart, ![c].todo = todo, ![c].pc = pc]
      BY <1>6 DEF GetCart
    <3> HIDE DEF cart, pc, todo
    <3> QED BY <3>1
  <2> QED BY <1>1, <2>1, <2>2
<1>7. CASE GetItem(c)
  <2>1. ASSUME NEW i, NEW row,
               calls' = [calls EXCEPT ![c].item = i, ![c].row = row, ![c].pc = "update_item"]
        PROVE  calls'[c].op = calls[c].op
    BY <1>2, <2>1 DEF Idle
  <2> QED BY <1>1, <1>7, <2>1 DEF GetItem
<1>8. CASE Ending(c)
  BY <1>1, <1>8, EndingSteps DEF Ending, Typed
<1>9. CASE Shopping(c)
  BY <1>9, ShoppingStep DEF Paying, Typed
<1> QED BY <1>3, <1>4, <1>5, <1>6, <1>7, <1>8, <1>9 DEF Early

\* Only a feedback that writes its item is answered.
LEMMA TellsStep ==
    ASSUME Typed, faults' = 0, NEW c \in Call,
           CutOff(c) \/ Pay(c) \/ Early(c) \/ Ending(c) \/ Shopping(c)
    PROVE  /\ Others(c) /\ ~Tells(calls[c])
           /\ Tells(calls'[c]) =>
                 UpdateItem(c) /\ Kind(c) = "provide_feedback" /\ calls'[c].op = calls[c].op
<1>1. Others(c) /\ ~Tells(calls[c])
  BY MoreStep DEF Typed, Tells
<1>2. CASE CutOff(c)
  BY <1>2, CutOffStored
<1>3. CASE Start(c)
  <2>1. PICK op \in Script[c] : calls' = [calls EXCEPT ![c].op = op, ![c].pc = First(op.kind)]
    BY <1>3 DEF Start
  <2>2. First(op.kind) # "done"
    BY ScriptAssumption DEF First
  <2>3. calls'[c].pc # "done"
    BY <2>1, <2>2, Held DEF Typed, Known, BoughtInv, HandlerSafe, Idle
  <2> QED BY <1>1, <2>3 DEF Tells
<1>4. CASE Expired(c)
  <2>1. PICK op \in Script[c] :
           calls' = [calls EXCEPT ![c].op = op, ![c].pc = "done", ![c].result = "expired"]
    BY <1>4 DEF Expired
  <2>2. calls'[c].result = "expired"
    BY <2>1, Held DEF Typed, Known, BoughtInv, HandlerSafe, Idle
  <2> QED BY <1>1, <2>2 DEF Tells
<1>5. CASE GetItem(c)
  <2>1. ASSUME NEW result \in {"error", "not_found", "forbidden"}, End(c, result)
        PROVE  ~Tells(calls'[c])
    BY <2>1, EndFields DEF Typed, Tells
  <2>2. ASSUME NEW i, NEW row,
               calls' = [calls EXCEPT ![c].item = i, ![c].row = row, ![c].pc = "update_item"]
        PROVE  ~Tells(calls'[c])
    <3>1. calls'[c].pc = "update_item"
      BY <2>2, Held DEF Typed, Known, BoughtInv, HandlerSafe, Idle
    <3> QED BY <3>1 DEF Tells
  <2> QED BY <1>1, <1>5, <2>1, <2>2 DEF GetItem
<1>6. CASE UpdateItem(c)
  <2>1. calls[c].pc = "update_item"
    BY <1>6 DEF UpdateItem, At
  <2>2. calls'[c].op = calls[c].op
    BY <1>6, <2>1, OpKept DEF Ending, Shopping, Start, Expired, At
  <2> QED BY <1>1, <1>6, <2>2 DEF Tells, Kind
<1>7. CASE \/ Pay(c) \/ Login(c) \/ ResetCustomers(c) \/ GetCart(c)
           \/ CreateAccount(c) \/ CreateSession(c) \/ Logout(c)
           \/ AddToCart(c) \/ RemoveFromCart(c) \/ ClearCart(c) \/ SaveCart(c)
           \/ RegisterItem(c) \/ ResetProducts(c)
           \/ NextItem(c) \/ AddHistory(c) \/ GetSeller(c) \/ UpdateSeller(c)
           \/ GetBuyer(c) \/ UpdateBuyer(c) \/ EndPurchase(c)
  <2>1. calls[c].pc \in {"create_account", "login", "create_session", "logout", "reset_all", "reset_products",
                         "add_to_cart", "remove_from_cart", "clear_cart", "register_item",
                         "get_cart", "save"} \cup Purchasing
    BY <1>7 DEF Purchasing, At, Pay, Login, ResetCustomers, GetCart, CreateAccount, CreateSession, Logout,
                AddToCart, RemoveFromCart, ClearCart, CartCall, SaveCart, RegisterItem, ResetProducts,
                NextItem, AddHistory, GetSeller, UpdateSeller, GetBuyer, UpdateBuyer, EndPurchase
  <2>2. calls[c].op.kind # "provide_feedback"
    BY <2>1, NotFeedback
  <2>3. Pay(c) \/ Early(c) \/ Ending(c) \/ Shopping(c)
    BY <1>7 DEF Early, Ending, Shopping
  <2>4. calls[c].pc # "idle"
    BY <2>1 DEF Purchasing
  <2>5. calls'[c].op = calls[c].op
    BY <2>3, <2>4, OpKept DEF Start, Expired, At
  <2> QED BY <1>1, <2>2, <2>5 DEF Tells
<1> QED BY <1>2, <1>3, <1>4, <1>5, <1>6, <1>7 DEF Early, Ending, Shopping

\* Steps that answer no feedback, and one that does.
LEMMA ToldSame ==
    ASSUME NEW c \in Call, Others(c), ~Tells(calls[c]), ~Tells(calls'[c]), NEW i
    PROVE  Told(calls', i) = Told(calls, i)
BY DEF Told, Others

LEMMA ToldMore ==
    ASSUME NEW c \in Call, Others(c), ~Tells(calls[c]), Tells(calls'[c]), NEW i
    PROVE  Cardinality(Told(calls', i)) =
              Cardinality(Told(calls, i)) + (IF calls'[c].op.item = i THEN 1 ELSE 0)
<1>1. c \notin Told(calls, i) /\ IsFiniteSet(Told(calls, i))
  BY PurchaseAssumption, FS_Subset DEF Told
<1>2. Told(calls', i) = IF calls'[c].op.item = i THEN Told(calls, i) \cup {c} ELSE Told(calls, i)
  BY DEF Told, Others
<1>3. Cardinality(Told(calls, i)) \in Nat
  BY <1>1, FS_CardinalityType
<1>4. Cardinality(Told(calls, i) \cup {c}) = Cardinality(Told(calls, i)) + 1
  BY <1>1, FS_AddElement
<1> DEFINE before == Cardinality(Told(calls, i))
           same == calls'[c].op.item = i
<1>5. Cardinality(Told(calls', i)) = IF same THEN before + 1 ELSE before
  BY <1>2, <1>4
<1>6. before \in Nat
  BY <1>3
<1> HIDE DEF before, same
<1>7. Cardinality(Told(calls', i)) = before + (IF same THEN 1 ELSE 0)
  BY <1>5, <1>6
<1> QED BY <1>7 DEF before, same

\* A step under which nothing fails, after a state whose feedback is counted.
FeedbackAt(c) ==
    /\ FeedbackInv /\ Typed' /\ Calm /\ faults' = 0 /\ disturbed' = {}
    /\ CutOff(c) \/ Pay(c) \/ Early(c) \/ Ending(c) \/ Shopping(c)

\* Feedback that was answered is about an id in use.
LEMMA ToldUsed ==
    ASSUME NEW c \in Call, FeedbackAt(c)
    PROVE  \A d \in Call : Tells(calls'[d]) => calls'[d].op.item \in UsedIds(calls')
<1>1. UsedIds(calls) \subseteq UsedIds(calls')
  BY UsedIdsGrow DEF FeedbackAt, FeedbackInv
<1>2. \A d \in Call : Tells(calls[d]) => calls[d].op.item \in UsedIds(calls)
  BY DEF FeedbackAt, FeedbackInv
<1>3. Tells(calls'[c]) => calls'[c].op.item \in UsedIds(calls)
  <2> SUFFICES ASSUME Tells(calls'[c]) PROVE calls'[c].op.item \in UsedIds(calls)
    OBVIOUS
  <2>1. UpdateItem(c) /\ Kind(c) = "provide_feedback" /\ calls'[c].op = calls[c].op
    BY TellsStep DEF FeedbackAt, FeedbackInv
  <2>2. calls[c].item \in DOMAIN product.items /\ calls[c].pc = "update_item"
    BY <2>1, UpdateItemSide DEF FeedbackAt, FeedbackInv
  <2>3. calls[c].item = calls[c].op.item
    BY <2>1, <2>2, OpFacts DEF HandlerMore, FeedbackAt, FeedbackInv, Kind
  <2> QED BY <2>1, <2>2, <2>3 DEF FeedbackAt, FeedbackInv, Calm
<1>4. Others(c)
  BY TellsStep DEF FeedbackAt, FeedbackInv
<1> QED BY <1>1, <1>2, <1>3, <1>4 DEF Others

\* The row that is replaced is the row that was read, so its thumbs are those counted.
LEMMA UpdateItemThumbs ==
    ASSUME NEW c \in Call, FeedbackAt(c), UpdateItem(c)
    PROVE  \A i \in DOMAIN product'.items : product'.items[i].thumbs = Cardinality(Told(calls', i))
<1> DEFINE x == calls[c].item
           new == NewRow(c)
<1>0. Typed /\ \A i \in DOMAIN product.items : product.items[i].thumbs = Cardinality(Told(calls, i))
  BY DEF FeedbackAt, FeedbackInv
<1>1. /\ calls[c].pc = "update_item" /\ calls[c].row \in Row /\ new \in Row
      /\ x \in DOMAIN product.items /\ product.items[x] = calls[c].row
      /\ calls[c].op.kind \in ItemKinds \cup {"purchase"}
  BY <1>0, UpdateItemSide DEF FeedbackAt
<1>2. product'.items = [product.items EXCEPT ![x] = new]
  <2>1. PICK o : ProductSide([kind |-> "update_item", item |-> x, row |-> new], o)
    BY <1>0, UpdateItemSide
  <2>2. product' = ApplyRequest(product, [kind |-> "update_item", item |-> x, row |-> new])
    BY <1>0, <2>1, Written DEF FeedbackAt
  <2> QED BY <1>0, <1>1, <2>2 DEF ApplyRequest, ProductSafe, Typed, Known, BoughtInv, ShopInv
<1>3. Others(c) /\ ~Tells(calls[c])
  BY <1>0, TellsStep DEF FeedbackAt
<1>4. CASE Kind(c) = "provide_feedback"
  <2>1. new.thumbs = calls[c].row.thumbs + 1
    BY <1>1, <1>4 DEF NewRow, Feedback, Row
  <2>2. calls[c].op.item = x /\ calls'[c].op = calls[c].op
    BY <1>0, <1>1, <1>4, OpFacts, OpKept DEF HandlerMore, Kind, Ending, Start, Expired, At
  <2>3. Tells(calls'[c])
    <3>1. PICK o : /\ ProductSide([kind |-> "update_item", item |-> x, row |-> new], o)
                   /\ End(c, Answer(o))
      BY <1>0, <1>4, UpdateItemSide
    <3>2. o = "ok"
      BY <1>0, <3>1, ProductSideStored DEF FeedbackAt
    <3> QED BY <1>0, <1>4, <3>1, <3>2, EndFields DEF Tells, Answer, Kind, Typed
  <2>4. \A i : Cardinality(Told(calls', i)) = Cardinality(Told(calls, i)) + (IF x = i THEN 1 ELSE 0)
    BY <1>3, <2>2, <2>3, ToldMore
  <2>5. \A i \in DOMAIN product.items : product.items[i].thumbs \in Nat
    BY <1>0 DEF Typed, Known, BoughtInv, ShopInv, ProductSafe, Row
  <2> HIDE DEF x, new
  <2> QED BY <1>0, <1>1, <1>2, <2>1, <2>4, <2>5
<1>5. CASE Kind(c) # "provide_feedback"
  <2>1. new.thumbs = calls[c].row.thumbs
    BY <1>1, <1>5 DEF NewRow, Units, Price, Deducted, Row, Kind, ItemKinds
  <2>2. \A i : Told(calls', i) = Told(calls, i)
    BY <1>0, <1>3, <1>5, TellsStep, ToldSame DEF FeedbackAt
  <2> HIDE DEF x, new
  <2> QED BY <1>0, <1>1, <1>2, <2>1, <2>2
<1> QED BY <1>4, <1>5

\* A new item has no thumbs, and no feedback.
LEMMA RegisterItemThumbs ==
    ASSUME NEW c \in Call, FeedbackAt(c), RegisterItem(c)
    PROVE  \A i \in DOMAIN product'.items : product'.items[i].thumbs = Cardinality(Told(calls', i))
<1>0. /\ Typed /\ \A i \in DOMAIN product.items : product.items[i].thumbs = Cardinality(Told(calls, i))
      /\ \A d \in Call : Tells(calls[d]) => calls[d].op.item \in UsedIds(calls)
  BY DEF FeedbackAt, FeedbackInv
<1> DEFINE x == DrawnId[c]
           row == NewItemRow(c)
<1>1. product'.items = Put(product.items, x, row)
  <2>1. PICK o : ProductSide([kind |-> "create_item", item |-> x, row |-> row], o)
    BY <1>0, RegisterItemSide
  <2>2. product' = ApplyRequest(product, [kind |-> "create_item", item |-> x, row |-> row])
    BY <1>0, <2>1, Written DEF FeedbackAt
  <2> QED BY <1>0, <2>2 DEF ApplyRequest, ProductSafe, Typed, Known, BoughtInv, ShopInv
<1>2. ~UpdateItem(c)
  BY DEF UpdateItem, RegisterItem, At
<1>3. \A i : Told(calls', i) = Told(calls, i)
  BY <1>0, <1>2, TellsStep, ToldSame DEF FeedbackAt
<1>4. row.thumbs = 0 /\ Cardinality(Told(calls, x)) = 0
  <2>1. Told(calls, x) = {}
    BY <1>0, NewIdFresh DEF Told
  <2> QED BY <2>1, FS_EmptySet DEF NewItemRow
<1> QED BY <1>0, <1>1, <1>3, <1>4 DEF Put

\* The invariant is kept.
LEMMA FeedbackStep == FeedbackInv /\ [Next]_vars => FeedbackInv'
<1> SUFFICES ASSUME FeedbackInv, [Next]_vars PROVE FeedbackInv'
  OBVIOUS
<1>1. Typed /\ Typed'
  BY TypedStep DEF FeedbackInv
<1>2. ASSUME NEW c \in Call, CutOff(c) \/ Pay(c) \/ Early(c) \/ Ending(c) \/ Shopping(c)
      PROVE  FeedbackInv'
  <2>1. faults' = 0 => faults = 0
    BY <1>1, <1>2, StoredStep
  <2>2. disturbed' = {} => disturbed = {}
    BY <1>1, <1>2, DisturbedStep
  <2>3. faults' = 0 => DOMAIN product'.items \subseteq UsedIds(calls')
    BY <1>1, <1>2, <2>1, UsedIdsStep DEF FeedbackInv
  <2>4. ASSUME faults' = 0, disturbed' = {}
        PROVE  /\ \A i \in DOMAIN product'.items : product'.items[i].thumbs = Cardinality(Told(calls', i))
               /\ \A d \in Call : Tells(calls'[d]) => calls'[d].op.item \in UsedIds(calls')
    <3>1. FeedbackAt(c)
      BY <1>1, <1>2, <2>1, <2>2, <2>4 DEF FeedbackAt, Calm
    <3>2. CASE UpdateItem(c) \/ RegisterItem(c)
      BY <3>1, <3>2, UpdateItemThumbs, RegisterItemThumbs, ToldUsed
    <3>3. CASE ~UpdateItem(c) /\ ~RegisterItem(c)
      <4>1. \A i : Told(calls', i) = Told(calls, i)
        BY <1>1, <1>2, <2>4, <3>3, TellsStep, ToldSame
      <4>2. product'.items = product.items \/ DOMAIN product'.items = {}
        BY <1>1, <1>2, <2>4, <3>3, ItemsStill
      <4> QED BY <3>1, <4>1, <4>2, ToldUsed DEF FeedbackAt, FeedbackInv
    <3> QED BY <3>2, <3>3
  <2> QED BY <1>1, <2>3, <2>4 DEF FeedbackInv, Calm
<1>3. CASE Land
  BY <1>1, <1>3, LandStored DEF FeedbackInv, Calm
<1>4. CASE UNCHANGED vars
  BY <1>1, <1>4 DEF vars, FeedbackInv, Calm
<1> QED BY <1>2, <1>3, <1>4, StepKinds

LEMMA FeedbackInit == Init => FeedbackInv
<1> SUFFICES ASSUME Init PROVE FeedbackInv
  OBVIOUS
<1>1. BooksInv
  BY BooksInit
<1>2. \A d \in Call : ~Tells(calls[d])
  BY DEF Init, Idle, Tells
<1>3. \A i : Cardinality(Told(calls, i)) = 0
  <2>1. \A i : Told(calls, i) = {}
    BY <1>2 DEF Told
  <2> QED BY <2>1, FS_EmptySet
<1>4. \A i \in DOMAIN product.items : product.items[i].thumbs = 0
  BY PurchaseAssumption DEF Init
<1> QED BY <1>1, <1>2, <1>3, <1>4 DEF FeedbackInv, BooksInv

\* Feedback is read, counted and written back like units and prices are: as long as
\* nothing fails and no write-back is stale, each one that was answered is counted once.
THEOREM FeedbackKept == Spec => []FeedbackCounted
<1>1. FeedbackInv => FeedbackCounted
  BY DEF FeedbackInv, Calm, FeedbackCounted, Told, Tells, Kind
<1> QED BY <1>1, FeedbackInit, FeedbackStep, PTL DEF Spec

(***************************************************************************)
(* Types.  An item has no more thumbs than there are feedbacks, whichever  *)
(* of its rows is read, held, late or written: a row gains its thumb when  *)
(* the call that gives it ends.                                            *)
(***************************************************************************)
\* the feedbacks that are over, whatever became of them
Given(ks) == {d \in Call : ks[d].pc = "done" /\ ks[d].op.kind = "provide_feedback"}

RowKinds == {"create_item", "update_item"}
Small(r, n) == r.kind \in RowKinds => r.row.thumbs <= n

ItemsWithin(items, n) == \A i \in DOMAIN items : items[i].thumbs <= n
LateWithin(ws, n) == \A w \in ws : w.db = "product" => Small(w.request, n)
HeldWithin(k, n) == k.pc = "update_item" => k.row.thumbs <= n

ThumbsInv ==
    /\ Typed
    /\ ItemsWithin(product.items, Cardinality(Given(calls)))
    /\ LateWithin(late, Cardinality(Given(calls)))
    /\ \A c \in Call : HeldWithin(calls[c], Cardinality(Given(calls)))

\* How many there are.
LEMMA GivenType == Cardinality(Given(calls)) \in Nat /\ Cardinality(Given(calls)) <= Cardinality(Call)
BY PurchaseAssumption, FS_Subset, FS_CardinalityType DEF Given

\* A bound may grow.
LEMMA WithinMore ==
    ASSUME Typed, NEW n \in Nat, NEW m \in Nat, n <= m
    PROVE  /\ ItemsWithin(product.items, n) => ItemsWithin(product.items, m)
           /\ LateWithin(late, n) => LateWithin(late, m)
           /\ \A c \in Call : HeldWithin(calls[c], n) => HeldWithin(calls[c], m)
<1>1. \A i \in DOMAIN product.items : product.items[i].thumbs \in Nat
  BY DEF Typed, Known, BoughtInv, ShopInv, ProductSafe, Row
<1>2. \A w \in late : w.db = "product" /\ w.request.kind \in RowKinds => w.request.row.thumbs \in Nat
  BY DEF Typed, Known, BoughtInv, ShopInv, LateSafe, RequestSafe, Row, RowKinds
<1>3. \A c \in Call : calls[c].pc = "update_item" => calls[c].row.thumbs \in Nat
  BY DEF Typed, Known, BoughtInv, ShopInv, Handlers, HandlerSafe, Row
<1>4. ItemsWithin(product.items, n) => ItemsWithin(product.items, m)
  BY <1>1 DEF ItemsWithin
<1>5. LateWithin(late, n) => LateWithin(late, m)
  BY <1>2 DEF LateWithin, Small
<1>6. \A c \in Call : HeldWithin(calls[c], n) => HeldWithin(calls[c], m)
  BY <1>3 DEF HeldWithin
<1> QED BY <1>4, <1>5, <1>6

\* An item's row is the one it had or the one just written.
LEMMA ItemsAfter ==
    ASSUME Typed, NEW r, RequestSafe(r), NEW n, ItemsWithin(product.items, n), Small(r, n)
    PROVE  ItemsWithin(ApplyRequest(product, r).items, n)
<1>1. ProductSafe(product)
  BY DEF Typed, Known, BoughtInv, ShopInv
<1>2. CASE r.kind = "create_item"
  BY <1>1, <1>2 DEF ApplyRequest, ProductSafe, Put, ItemsWithin, Small, RowKinds
<1>3. CASE r.kind = "update_item"
  BY <1>1, <1>3 DEF ApplyRequest, ProductSafe, ItemsWithin, Small, RowKinds
<1>4. CASE r.kind = "reset"
  BY <1>4 DEF ApplyRequest, ItemsWithin
<1>5. CASE r.kind \in CartKinds
  BY <1>1, <1>5 DEF ApplyRequest, ProductSafe, ItemsWithin, CartKinds
<1> QED BY <1>2, <1>3, <1>4, <1>5 DEF RequestSafe, CartKinds

Within(n) == ItemsWithin(product.items, n) /\ LateWithin(late, n)

\* The bound through the ways in which a step can reach the databases.
LEMMA ProductWithin ==
    ASSUME Typed, NEW r, NEW o, ProductSide(r, o), NEW n, Within(n), Small(r, n)
    PROVE  ItemsWithin(product'.items, n) /\ LateWithin(late', n)
<1>1. ItemsWithin(product'.items, n)
  BY ItemsAfter DEF ProductSide, ProductWrite, Within
<1>2. LateWithin(late', n)
  BY DEF ProductSide, ProductWrite, Postpone, Within, LateWithin
<1> QED BY <1>1, <1>2

LEMMA CustomerWithin ==
    ASSUME Typed, NEW r, NEW o, CustomerSide(r, o), NEW n, Within(n)
    PROVE  ItemsWithin(product'.items, n) /\ LateWithin(late', n)
BY DEF CustomerSide, CustomerWrite, Postpone, Within, LateWithin

LEMMA LandWithin ==
    ASSUME Typed, Land, NEW n, Within(n)
    PROVE  ItemsWithin(product'.items, n) /\ LateWithin(late', n)
<1>1. PICK w \in late :
         /\ late' = late \ {w}
         /\ product' = IF w.db = "product" THEN ApplyRequest(product, w.request) ELSE product
  BY DEF Land
<1>2. w.db = "product" => RequestSafe(w.request) /\ Small(w.request, n)
  BY DEF Typed, Known, BoughtInv, ShopInv, LateSafe, Within, LateWithin
<1>3. ItemsWithin(product'.items, n)
  BY <1>1, <1>2, ItemsAfter DEF Within
<1> QED BY <1>1, <1>3 DEF Within, LateWithin

\* A handler that comes to write an item holds the row it has just read.
LEMMA HeldStep ==
    ASSUME Typed, NEW c \in Call, CutOff(c) \/ Pay(c) \/ Early(c) \/ Ending(c) \/ Shopping(c),
           calls'[c].pc = "update_item"
    PROVE  \E i \in DOMAIN product.items : calls'[c].row = product.items[i]
<1>1. \A result : ~End(c, result)
  BY EndFields DEF Typed
<1>2. DOMAIN calls[c] = DOMAIN Idle /\ c \in DOMAIN calls
  BY Held DEF Typed, Known, BoughtInv, HandlerSafe
<1>3. ASSUME NEW pc, pc # "update_item", calls' = [calls EXCEPT ![c].pc = pc]
      PROVE  FALSE
  BY <1>2, <1>3 DEF Idle
<1>4. ~CutOff(c) /\ ~Ending(c)
  BY <1>1, EndingSteps DEF CutOff, Ending, Typed
<1>5. ~Pay(c)
  BY <1>1, PayStep DEF Typed
<1>6. ~Start(c)
  <2> SUFFICES ASSUME Start(c) PROVE FALSE
    OBVIOUS
  <2>1. PICK op \in Script[c] : calls' = [calls EXCEPT ![c].op = op, ![c].pc = First(op.kind)]
    BY DEF Start
  <2>2. First(op.kind) # "update_item"
    BY ScriptAssumption DEF First
  <2> QED BY <1>2, <2>1, <2>2 DEF Idle
<1>7. ~Expired(c)
  <2> SUFFICES ASSUME Expired(c) PROVE FALSE
    OBVIOUS
  <2>1. PICK op \in Script[c] :
           calls' = [calls EXCEPT ![c].op = op, ![c].pc = "done", ![c].result = "expired"]
    BY DEF Expired
  <2> QED BY <1>2, <2>1 DEF Idle
<1>8. ~Login(c) /\ ~ResetCustomers(c)
  BY <1>1, <1>3 DEF Login, ResetCustomers
<1>9. ~GetCart(c)
  <2> SUFFICES ASSUME GetCart(c) PROVE FALSE
    OBVIOUS
  <2> DEFINE cart == product.carts[User(c)]
             todo == DOMAIN cart
             pc == IF Kind(c) = "purchase" THEN "pay" ELSE "save"
  <2>1. calls' = [calls EXCEPT ![c].cart = cart, ![c].todo = todo, ![c].pc = pc] /\ pc # "update_item"
    BY <1>1 DEF GetCart
  <2> HIDE DEF cart, todo, pc
  <2> QED BY <1>2, <2>1 DEF Idle
<1>10. CASE GetItem(c)
  <2> DEFINE i == calls[c].op.item
             row == product.items[i]
  <2>1. calls' = [calls EXCEPT ![c].item = i, ![c].row = row, ![c].pc = "update_item"] /\ i \in DOMAIN product.items
    BY <1>1, <1>10 DEF GetItem
  <2>2. calls'[c].row = row
    <3> HIDE DEF row, i
    <3> QED BY <1>2, <2>1 DEF Idle
  <2> QED BY <2>1, <2>2
<1>11. CASE NextItem(c)
  <2>1. PICK i \in calls[c].todo :
           \/ calls' = [calls EXCEPT ![c].todo = @ \ {i}]
           \/ /\ i \in DOMAIN product.items
              /\ calls' = [calls EXCEPT ![c].todo = @ \ {i}, ![c].item = i,
                                        ![c].row = product.items[i], ![c].pc = "update_item"]
    BY <1>1, <1>11 DEF NextItem
  <2>2. ASSUME calls' = [calls EXCEPT ![c].todo = @ \ {i}] PROVE FALSE
    <3>1. calls'[c].pc = "next_item"
      BY <1>2, <1>11, <2>2 DEF Idle, NextItem, At
    <3> QED BY <3>1
  <2>3. ASSUME NEW row,
               calls' = [calls EXCEPT ![c].todo = @ \ {i}, ![c].item = i, ![c].row = row, ![c].pc = "update_item"]
        PROVE  calls'[c].row = row
    BY <1>2, <2>3 DEF Idle
  <2> QED BY <2>1, <2>2, <2>3
<1>12. ~(UpdateItem(c) /\ Kind(c) = "purchase") /\ ~AddHistory(c) /\ ~UpdateSeller(c) /\ ~UpdateBuyer(c)
  BY DeductStep, AddHistoryMove, UpdateSellerStep, UpdateBuyerStep DEF Goes, Typed
<1>13. ~GetSeller(c)
  <2> SUFFICES ASSUME GetSeller(c) PROVE FALSE
    OBVIOUS
  <2>1. \/ \E n : calls' = [calls EXCEPT ![c].count = n, ![c].pc = "update_seller"]
        \/ calls' = [calls EXCEPT ![c].pc = "next_item"]
    BY DEF GetSeller
  <2>2. ASSUME NEW n, calls' = [calls EXCEPT ![c].count = n, ![c].pc = "update_seller"]
        PROVE  FALSE
    BY <1>2, <2>2 DEF Idle
  <2> QED BY <1>3, <2>1, <2>2
<1>14. ~GetBuyer(c) /\ ~EndPurchase(c)
  <2>1. ~EndPurchase(c)
    BY EndPurchaseStep DEF Typed
  <2>2. GetBuyer(c) => \/ \E n : calls' = [calls EXCEPT ![c].count = n, ![c].pc = "update_buyer"]
                       \/ calls' = [calls EXCEPT ![c].pc = "clear"]
    BY <1>1 DEF GetBuyer
  <2>3. ASSUME NEW n, calls' = [calls EXCEPT ![c].count = n, ![c].pc = "update_buyer"]
        PROVE  FALSE
    BY <1>2, <2>3 DEF Idle
  <2> QED BY <1>3, <2>1, <2>2, <2>3
<1> QED BY <1>4, <1>5, <1>6, <1>7, <1>8, <1>9, <1>10, <1>11, <1>12, <1>13, <1>14 DEF Early, Shopping

\* A feedback counts as given once it is over.
LEMMA GivenStep ==
    ASSUME Typed, NEW c \in Call, CutOff(c) \/ Pay(c) \/ Early(c) \/ Ending(c) \/ Shopping(c)
    PROVE  /\ Cardinality(Given(calls')) \in Nat
           /\ Cardinality(Given(calls)) <= Cardinality(Given(calls'))
           /\ UpdateItem(c) /\ Kind(c) = "provide_feedback" =>
                 Cardinality(Given(calls)) + 1 <= Cardinality(Given(calls'))
<1>1. Others(c) /\ calls[c].pc # "done"
  BY MoreStep DEF Typed
<1>2. Given(calls) \subseteq Given(calls') /\ c \notin Given(calls)
  BY <1>1 DEF Given, Others
<1>3. IsFiniteSet(Given(calls)) /\ IsFiniteSet(Given(calls'))
  BY PurchaseAssumption, FS_Subset DEF Given
<1>4. /\ Cardinality(Given(calls)) \in Nat /\ Cardinality(Given(calls')) \in Nat
      /\ Cardinality(Given(calls)) <= Cardinality(Given(calls'))
  BY <1>2, <1>3, FS_Subset, FS_CardinalityType
<1>5. ASSUME UpdateItem(c), Kind(c) = "provide_feedback"
      PROVE  Cardinality(Given(calls)) + 1 <= Cardinality(Given(calls'))
  <2>1. calls'[c].pc = "done" /\ calls'[c].op = calls[c].op
    BY <1>5, EndingSteps, EndFields DEF Typed
  <2>2. Given(calls) \cup {c} \subseteq Given(calls')
    BY <1>2, <1>5, <2>1 DEF Given, Kind
  <2>3. Cardinality(Given(calls) \cup {c}) = Cardinality(Given(calls)) + 1
    BY <1>2, <1>3, FS_AddElement
  <2>4. Cardinality(Given(calls) \cup {c}) <= Cardinality(Given(calls'))
    BY <1>3, <2>2, FS_Subset
  <2> QED BY <2>3, <2>4
<1> QED BY <1>4, <1>5

\* The bound after a step of a handler.
LEMMA WithinStep ==
    ASSUME ThumbsInv, NEW c \in Call, CutOff(c) \/ Pay(c) \/ Early(c) \/ Ending(c) \/ Shopping(c)
    PROVE  /\ ItemsWithin(product'.items, Cardinality(Given(calls')))
           /\ LateWithin(late', Cardinality(Given(calls')))
<1> DEFINE n == Cardinality(Given(calls'))
           kept == ItemsWithin(product'.items, n) /\ LateWithin(late', n)
<1>0. Typed /\ Within(n)
  BY GivenType, GivenStep, WithinMore DEF ThumbsInv, Within
<1>1. CASE CutOff(c) \/ Pay(c) \/ Start(c)
  BY <1>0, <1>1 DEF CutOff, Pay, Start, Within
<1>2. CASE Login(c) \/ GetCart(c) \/ GetItem(c) \/ NextItem(c) \/ GetSeller(c) \/ GetBuyer(c)
  <2>1. UNCHANGED <<product, late>>
    BY <1>2, ReadSteps DEF Read
  <2> QED BY <1>0, <2>1 DEF Within
<1>3. CASE \/ Expired(c) \/ CreateSession(c) \/ Logout(c) \/ CreateAccount(c) \/ ResetCustomers(c)
           \/ UpdateSeller(c) \/ UpdateBuyer(c)
  <2>1. PICK r, o : CustomerSide(r, o)
    BY <1>0, <1>3, SessionSteps, CreateAccountSide, ResetCustomersSide, UpdateSellerSide, UpdateBuyerSide
  <2> QED BY <1>0, <2>1, CustomerWithin
<1>4. CASE \/ AddToCart(c) \/ RemoveFromCart(c) \/ ClearCart(c) \/ SaveCart(c)
           \/ AddHistory(c) \/ EndPurchase(c)
  <2>1. PICK r, o : ProductSide(r, o) /\ r.kind \in CartKinds
    BY <1>0, <1>4, CartSteps
  <2>2. Small(r, n)
    BY <2>1 DEF Small, RowKinds, CartKinds
  <2> QED BY <1>0, <2>1, <2>2, ProductWithin
<1>5. CASE RegisterItem(c)
  <2> DEFINE r == [kind |-> "create_item", item |-> DrawnId[c], row |-> NewItemRow(c)]
  <2>1. PICK o : ProductSide(r, o)
    BY <1>0, <1>5, RegisterItemSide
  <2>2. Small(r, n)
    <3>1. n \in Nat /\ r.row.thumbs = 0
      BY <1>0, GivenStep DEF NewItemRow
    <3> QED BY <3>1 DEF Small
  <2> QED BY <1>0, <2>1, <2>2, ProductWithin
<1>6. CASE UpdateItem(c)
  <2> DEFINE r == [kind |-> "update_item", item |-> calls[c].item, row |-> NewRow(c)]
  <2>1. PICK o : ProductSide(r, o)
    BY <1>0, <1>6, UpdateItemSide
  <2>2. Small(r, n)
    <3> DEFINE row == calls[c].row
               m == Cardinality(Given(calls))
    <3>1. /\ NewRow(c) \in Row /\ row \in Row
          /\ calls[c].pc = "update_item" /\ calls[c].op.kind \in ItemKinds \cup {"purchase"}
      BY <1>0, <1>6, UpdateItemSide
    <3>2. m \in Nat /\ n \in Nat /\ m <= n /\ (Kind(c) = "provide_feedback" => m + 1 <= n)
      BY <1>0, <1>6, GivenType, GivenStep
    <3>3. row.thumbs <= m /\ row.thumbs \in Nat
      BY <3>1 DEF ThumbsInv, HeldWithin, Row
    <3>4. NewRow(c).thumbs = IF Kind(c) = "provide_feedback" THEN row.thumbs + 1 ELSE row.thumbs
      BY <3>1 DEF NewRow, Feedback, Units, Price, Deducted, Row, Kind, ItemKinds
    <3> HIDE DEF n, m, row
    <3>5. NewRow(c).thumbs <= n
      BY <3>2, <3>3, <3>4
    <3> QED BY <3>5 DEF Small
  <2> QED BY <1>0, <2>1, <2>2, ProductWithin
<1>7. CASE ResetProducts(c)
  <2>1. PICK o : ProductSide([kind |-> "reset"], o)
    BY <1>0, <1>7, ResetProductsSide
  <2>2. Small([kind |-> "reset"], n)
    BY DEF Small, RowKinds
  <2> QED BY <1>0, <2>1, <2>2, ProductWithin
<1> QED BY <1>1, <1>2, <1>3, <1>4, <1>5, <1>6, <1>7 DEF Early, Ending, Shopping

LEMMA ThumbsInit == Init => ThumbsInv
<1> SUFFICES ASSUME Init PROVE ThumbsInv
  OBVIOUS
<1>1. \A i \in DOMAIN product.items : product.items[i].thumbs = 0
  BY PurchaseAssumption DEF Init
<1>2. ItemsWithin(product.items, Cardinality(Given(calls)))
  BY <1>1, GivenType DEF ItemsWithin
<1>3. LateWithin(late, Cardinality(Given(calls)))
  BY DEF Init, LateWithin
<1>4. \A c \in Call : HeldWithin(calls[c], Cardinality(Given(calls)))
  BY DEF Init, Idle, HeldWithin
<1> QED BY <1>2, <1>3, <1>4, TypedInit DEF ThumbsInv

\* The invariant is kept.
LEMMA ThumbsStep == ThumbsInv /\ [Next]_vars => ThumbsInv'
<1> SUFFICES ASSUME ThumbsInv, [Next]_vars PROVE ThumbsInv'
  OBVIOUS
<1>1. Typed /\ Typed'
  BY TypedStep DEF ThumbsInv
<1>2. ASSUME NEW c \in Call, CutOff(c) \/ Pay(c) \/ Early(c) \/ Ending(c) \/ Shopping(c)
      PROVE  ThumbsInv'
  <2> DEFINE n == Cardinality(Given(calls'))
  <2>1. \A d \in Call : HeldWithin(calls[d], n)
    BY <1>1, <1>2, GivenType, GivenStep, WithinMore DEF ThumbsInv
  <2>2. HeldWithin(calls'[c], n)
    <3> SUFFICES ASSUME calls'[c].pc = "update_item" PROVE calls'[c].row.thumbs <= n
      BY DEF HeldWithin
    <3>1. PICK i \in DOMAIN product.items : calls'[c].row = product.items[i]
      BY <1>1, <1>2, HeldStep
    <3>2. ItemsWithin(product.items, n)
      BY <1>1, <1>2, GivenType, GivenStep, WithinMore DEF ThumbsInv
    <3> QED BY <3>1, <3>2 DEF ItemsWithin
  <2>3. \A d \in Call : HeldWithin(calls'[d], n)
    BY <1>1, <1>2, <2>1, <2>2, MoreStep DEF Others, Typed
  <2>4. ItemsWithin(product'.items, n) /\ LateWithin(late', n)
    BY <1>2, WithinStep
  <2> QED BY <1>1, <2>3, <2>4 DEF ThumbsInv
<1>3. CASE Land
  <2>1. UNCHANGED calls
    BY <1>1, <1>3, LandStored
  <2>2. /\ ItemsWithin(product'.items, Cardinality(Given(calls)))
        /\ LateWithin(late', Cardinality(Given(calls)))
    BY <1>1, <1>3, LandWithin DEF ThumbsInv, Within
  <2> QED BY <1>1, <2>1, <2>2 DEF ThumbsInv
<1>4. CASE UNCHANGED vars
  BY <1>1, <1>4 DEF vars, ThumbsInv
<1> QED BY <1>2, <1>3, <1>4, StepKinds

\* The invariant has everything TypeOK asks for.
LEMMA ThumbsTyped == ThumbsInv => TypeOK
<1> SUFFICES ASSUME ThumbsInv PROVE TypeOK
  OBVIOUS
<1>1. Typed /\ BoughtInv /\ ProductSafe(product) /\ Counts(customers)
  BY DEF ThumbsInv, Typed, Known, BoughtInv, ShopInv
<1>2. /\ DOMAIN product.items \subseteq Item
      /\ \A i \in DOMAIN product.items : product.items[i] \in Row
      /\ \A b \in Buyer : DOMAIN product.carts[b] \subseteq Item
  BY <1>1 DEF Typed, ProductSafe, IsCart
<1>3. \A i \in DOMAIN product.items : product.items[i].thumbs <= Cardinality(Call)
  <2>1. Cardinality(Call) \in Nat
    BY PurchaseAssumption, FS_CardinalityType
  <2>2. ItemsWithin(product.items, Cardinality(Call))
    BY <1>1, <2>1, GivenType, WithinMore DEF ThumbsInv
  <2> QED BY <2>2 DEF ItemsWithin
<1>4. product.history \in [Buyer -> [Item -> Nat]]
  BY <1>1 DEF BoughtInv, Histories
<1>5. DOMAIN customers \subseteq Buyer \cup Seller /\ \A u \in DOMAIN customers : customers[u] \in Int
  BY <1>1 DEF Counts
<1>6. sessions \subseteq (Buyer \cup Seller) \X ({0} \cup Call)
  BY <1>1 DEF Typed, Account
<1>7. \A c \in Call : /\ calls[c].pc = "idle" \/ calls[c].op \in Script[c]
                      /\ calls[c].todo \subseteq DOMAIN calls[c].cart
                      /\ calls[c].paid => calls[c].op.kind = "purchase"
  BY <1>1, Held DEF BoughtInv, HandlerSafe, PaidHandler
<1>8. /\ Cardinality(late) <= faults /\ faults \in 0 .. MaxFaults
      /\ disturbed \subseteq {"stale", "skipped", "refused", "reset"}
  BY <1>1 DEF Typed, Lateness
<1> QED BY <1>2, <1>3, <1>4, <1>5, <1>6, <1>7, <1>8 DEF TypeOK

\* The tables, the handlers and the late writes keep their types; no item has more
\* thumbs than there are calls, and no write is late that has cost no fault.
THEOREM PurchaseTyped == Spec => []TypeOK
<1>1. ThumbsInv => TypeOK
  BY ThumbsTyped
<1> QED BY <1>1, ThumbsInit, ThumbsStep, PTL DEF Spec
=============================================================================
