------------------------------ MODULE Recursion ------------------------------
(***************************************************************************)
(* A definition by recursion defines a function: f[x \in D] == Def(f, x)   *)
(* has a solution if Def looks only at values of f for smaller arguments.  *)
(*                                                                         *)
(* All three have a parameter c for what else a definition depends on,     *)
(* so that one instance of this module serves for all of its values.       *)
(***************************************************************************)
EXTENDS Naturals, WellFoundedInduction, TLAPS

CONSTANTS
  Dom(_),        \* the arguments
  Size(_, _),    \* a number that gets smaller in every call
  Def(_, _, _)   \* the right-hand side, for a parameter, a function and an argument

Below(c, n) == {x \in Dom(c) : Size(c, x) < n}

\* f solves the equation for arguments smaller than n.
Solves(c, f, n) == f = [x \in Below(c, n) |-> Def(c, f, x)]

\* Every call is for a smaller argument.
Decreasing(c) ==
  /\ \A x \in Dom(c) : Size(c, x) \in Nat
  /\ \A x \in Dom(c) : \A g, h :
       (\A y \in Dom(c) : Size(c, y) < Size(c, x) => g[y] = h[y]) => Def(c, g, x) = Def(c, h, x)

\* A set of numbers that is not empty has a least one.
LEMMA LeastNumber ==
  ASSUME NEW T, T \subseteq Nat, T # {}
  PROVE  \E k \in T : \A j \in T : k <= j
<1> DEFINE R == OpToRel(<, Nat)
<1>1. PICK x \in T : \A y \in T : ~(<<y, x>> \in R)
  <2>1. IsWellFoundedOn(R, Nat)
    BY NatLessThanWellFounded
  <2> HIDE DEF R
  <2>2. QED
    BY <2>1, WFMin
<1>2. ASSUME NEW y \in T
      PROVE  ~(y < x)
  <2>1. <<y, x>>[1] = y /\ <<y, x>>[2] = x /\ <<y, x>> \in Nat \X Nat
    OBVIOUS
  <2>2. y < x => <<y, x>> \in R
    BY <2>1, Zenon DEF OpToRel
  <2> HIDE DEF R
  <2>3. QED
    BY <1>1, <2>2
<1> HIDE DEF R
<1>3. QED
  BY <1>2

\* Solutions agree where both are defined.
LEMMA SolutionsAgree ==
  ASSUME NEW c, Decreasing(c), NEW m \in Nat, NEW n \in Nat, m <= n,
         NEW f, Solves(c, f, m), NEW g, Solves(c, g, n)
  PROVE  \A x \in Below(c, m) : f[x] = g[x]
<1> DEFINE T == {k \in Nat : \E x \in Below(c, m) : Size(c, x) = k /\ f[x] # g[x]}
<1>1. T = {}
  <2> SUFFICES ASSUME T # {} PROVE FALSE
    OBVIOUS
  <2>1. PICK k \in T : \A l \in T : k <= l
    BY LeastNumber
  <2>2. PICK x \in Below(c, m) : Size(c, x) = k /\ f[x] # g[x]
    BY <2>1
  <2>3. x \in Dom(c) /\ Size(c, x) < m /\ x \in Below(c, n)
    BY <2>2 DEF Below, Decreasing
  <2>4. \A y \in Dom(c) : Size(c, y) < Size(c, x) => f[y] = g[y]
    <3> SUFFICES ASSUME NEW y \in Dom(c), Size(c, y) < Size(c, x), f[y] # g[y] PROVE FALSE
      OBVIOUS
    <3>1. Size(c, y) \in Nat /\ Size(c, x) \in Nat /\ Size(c, x) = k
      BY <2>2, <2>3 DEF Decreasing
    <3>2. y \in Below(c, m)
      BY <2>3, <3>1 DEF Below
    <3>3. Size(c, y) \in T
      BY <3>1, <3>2
    <3>4. QED
      BY <2>1, <3>1, <3>3
  <2>5. Def(c, f, x) = Def(c, g, x)
    BY <2>3, <2>4 DEF Decreasing
  <2>6. f[x] = Def(c, f, x) /\ g[x] = Def(c, g, x)
    BY <2>2, <2>3 DEF Solves
  <2>7. QED
    BY <2>2, <2>5, <2>6
<1>2. QED
  <2> SUFFICES ASSUME NEW x \in Below(c, m), f[x] # g[x] PROVE FALSE
    OBVIOUS
  <2>1. Size(c, x) \in Nat
    BY DEF Below, Decreasing
  <2>2. QED
    BY <1>1, <2>1

\* There is a solution for the arguments smaller than any number.
LEMMA SolutionBelow ==
  ASSUME NEW c, Decreasing(c), NEW n \in Nat
  PROVE  \E f : Solves(c, f, n)
<1> DEFINE T == {k \in Nat : ~ \E f : Solves(c, f, k)}
<1>1. T = {}
  <2> SUFFICES ASSUME T # {} PROVE FALSE
    OBVIOUS
  <2>1. PICK k \in T : \A l \in T : k <= l
    BY LeastNumber
  <2>2. CASE k = 0
    <3>1. Below(c, 0) = {}
      BY DEF Below, Decreasing
    <3>2. Solves(c, [x \in {} |-> x], 0)
      BY <3>1 DEF Solves
    <3>3. QED
      BY <2>1, <2>2, <3>2
  <2>3. CASE k # 0
    <3>1. k - 1 \in Nat /\ k - 1 < k /\ k - 1 \notin T
      BY <2>1, <2>3
    <3>2. PICK g : Solves(c, g, k - 1)
      BY <3>1
    <3> DEFINE f == [x \in Below(c, k) |-> Def(c, g, x)]
    <3>3. ASSUME NEW x \in Below(c, k) PROVE Def(c, g, x) = Def(c, f, x)
      <4>1. x \in Dom(c) /\ Size(c, x) < k /\ Size(c, x) \in Nat
        BY <3>3 DEF Below, Decreasing
      <4>2. ASSUME NEW y \in Dom(c), Size(c, y) < Size(c, x) PROVE g[y] = f[y]
        <5>1. Size(c, y) \in Nat
          BY DEF Decreasing
        <5>2. y \in Below(c, k - 1) /\ y \in Below(c, k)
          BY <3>1, <4>1, <4>2, <5>1 DEF Below
        <5>3. g[y] = Def(c, g, y)
          BY <3>2, <5>2 DEF Solves
        <5>4. QED
          BY <5>2, <5>3
      <4> HIDE DEF f
      <4>3. QED
        BY <4>1, <4>2 DEF Decreasing
    <3>4. f = [x \in Below(c, k) |-> Def(c, f, x)]
      BY <3>3
    <3>5. Solves(c, f, k)
      BY <3>4 DEF Solves
    <3>6. QED
      BY <2>1, <3>5
  <2>4. QED
    BY <2>2, <2>3
<1>2. QED
  BY <1>1

\* Every recursion that calls itself with smaller arguments only defines a
\* function: what a recursive definition of the model says of one argument may be
\* used as an equation.
THEOREM RecursionDefines ==
  ASSUME NEW c, Decreasing(c)
  PROVE  \E f : f = [x \in Dom(c) |-> Def(c, f, x)]
<1> DEFINE Part(n) == CHOOSE g : Solves(c, g, n)
           F == [x \in Dom(c) |-> Part(Size(c, x) + 1)[x]]
<1>1. \A n \in Nat : Solves(c, Part(n), n)
  BY SolutionBelow
<1> HIDE DEF Part
<1>2. ASSUME NEW x \in Dom(c) PROVE F[x] = Def(c, F, x)
  <2> DEFINE n == Size(c, x) + 1
  <2>1. Size(c, x) \in Nat /\ n \in Nat /\ x \in Below(c, n)
    BY DEF Below, Decreasing
  <2>2. Part(n)[x] = Def(c, Part(n), x)
    BY <1>1, <2>1 DEF Solves
  <2>3. ASSUME NEW y \in Dom(c), Size(c, y) < Size(c, x) PROVE Part(n)[y] = F[y]
    <3>1. Size(c, y) \in Nat
      BY DEF Decreasing
    <3>2. Size(c, y) + 1 \in Nat /\ Size(c, y) + 1 <= n /\ y \in Below(c, Size(c, y) + 1)
      BY <2>1, <2>3, <3>1 DEF Below
    <3>3. Part(Size(c, y) + 1)[y] = Part(n)[y]
      BY <1>1, <2>1, <3>2, SolutionsAgree
    <3>4. QED
      BY <3>3
  <2>4. F[x] = Part(n)[x]
    OBVIOUS
  <2> HIDE DEF F, n
  <2>5. Def(c, Part(n), x) = Def(c, F, x)
    BY <2>3 DEF Decreasing
  <2>6. QED
    BY <2>2, <2>4, <2>5
<1>3. F = [x \in Dom(c) |-> F[x]]
  OBVIOUS
<1> HIDE DEF F
<1>4. F = [x \in Dom(c) |-> Def(c, F, x)]
  BY <1>2, <1>3
<1>5. QED
  BY <1>4
==============================================================================
