------------------------------- MODULE Recursion -------------------------------
(***************************************************************************)
(* Why definitions by recursion over the depth of a value mean what they     *)
(* say: if Step computes the result for x from results for elements of a     *)
(* smaller rank, some function satisfies the recursive equation.  A module    *)
(* that defines F[x \in S] == Step(F, x) instantiates this one to use its     *)
(* equation, and LeastRank to argue by a smallest counterexample.           *)
(***************************************************************************)
EXTENDS Integers, WellFoundedInduction, TLAPS

CONSTANTS
    S,          \* what is recurred over
    Rank(_),    \* how deep an element is
    Step(_, _)  \* the result for an element, from a function for those below it

Ranked == \A x \in S : Rank(x) \in Nat
Local  ==
    \A x \in S : \A g, h :
        (\A y \in S : Rank(y) < Rank(x) => g[y] = h[y]) => Step(g, x) = Step(h, x)

Below     == {ss \in Nat \X Nat : ss[1] < ss[2]}
UpTo(n)   == {x \in S : Rank(x) < n}
Solves(f, n) == f = [x \in UpTo(n) |-> Step(f, x)]

-----------------------------------------------------------------------------
LEMMA BelowIsWellFounded == IsWellFoundedOn(Below, Nat)
BY NatLessThanWellFounded DEF OpToRel, Below

LEMMA LeastNumber ==
    ASSUME NEW T \in SUBSET Nat, T # {}
    PROVE  \E n \in T : \A k \in T : n <= k
<1>1. PICK n \in T : \A k \in T : <<k, n>> \notin Below
  BY BelowIsWellFounded, WFMin, Zenon
<1>2. \A k \in T : ~(k < n)
  BY <1>1 DEF Below
<1>. QED BY <1>2

\* Every set of elements has one of a smallest rank.
THEOREM LeastRank ==
    ASSUME Ranked, NEW T \in SUBSET S, T # {}
    PROVE  \E x \in T : \A y \in T : Rank(x) <= Rank(y)
<1>. DEFINE R == {Rank(x) : x \in T}
<1>1. R \in SUBSET Nat /\ R # {}
  BY DEF Ranked
<1>. HIDE DEF R
<1>2. PICK n \in R : \A k \in R : n <= k
  BY <1>1, LeastNumber
<1>3. PICK x \in T : n = Rank(x)
  BY DEF R
<1>4. \A y \in T : Rank(y) \in R
  BY DEF R
<1>. QED BY <1>2, <1>3, <1>4

LEMMA SolutionsAgree ==
    ASSUME Ranked, Local, NEW n \in Nat, NEW m \in Nat, NEW f, NEW g, Solves(f, n), Solves(g, m)
    PROVE  \A x \in UpTo(n) \cap UpTo(m) : f[x] = g[x]
<1>. DEFINE T == {x \in UpTo(n) \cap UpTo(m) : f[x] # g[x]}
<1>. SUFFICES ASSUME T # {} PROVE FALSE
  OBVIOUS
<1>1. T \in SUBSET S
  BY DEF UpTo
<1>2. PICK x \in T : \A y \in T : Rank(x) <= Rank(y)
  BY <1>1, LeastRank
<1>3. x \in S /\ Rank(x) \in Nat /\ Rank(x) < n /\ Rank(x) < m
  BY DEF UpTo, Ranked
<1>4. ASSUME NEW y \in S, Rank(y) < Rank(x) PROVE f[y] = g[y]
  <2>1. Rank(y) \in Nat
    BY DEF Ranked
  <2>2. Rank(y) < n /\ Rank(y) < m /\ ~(Rank(x) <= Rank(y))
    BY <1>3, <1>4, <2>1
  <2>. QED BY <1>2, <2>2 DEF UpTo
<1>5. Step(f, x) = Step(g, x)
  BY <1>3, <1>4 DEF Local
<1>6. f[x] = Step(f, x) /\ g[x] = Step(g, x)
  <2>1. x \in UpTo(n) /\ x \in UpTo(m)
    OBVIOUS
  <2>. QED BY <2>1 DEF Solves
<1>. QED BY <1>5, <1>6

LEMMA SolutionsExist ==
    ASSUME Ranked, Local
    PROVE  \A n \in Nat : \E f : Solves(f, n)
<1>. DEFINE T == {n \in Nat : ~\E f : Solves(f, n)}
<1>. SUFFICES ASSUME T # {} PROVE FALSE
  OBVIOUS
<1>1. PICK n \in T : \A k \in T : n <= k
  <2>1. T \in SUBSET Nat
    OBVIOUS
  <2>. HIDE DEF T
  <2>. QED BY <2>1, LeastNumber
<1>2. n \in Nat /\ ~\E f : Solves(f, n)
  OBVIOUS
<1>3. CASE n = 0
  <2>1. UpTo(n) = {}
    BY <1>3 DEF UpTo, Ranked
  <2>. DEFINE f == [x \in {} |-> x]
  <2>2. f = [x \in UpTo(n) |-> Step(f, x)]
    BY <2>1
  <2>. QED BY <1>2, <2>2 DEF Solves
<1>4. CASE n # 0
  <2>1. n - 1 \in Nat /\ ~(n <= n - 1)
    BY <1>2, <1>4
  <2>2. n - 1 \notin T
    BY <1>1, <2>1
  <2>3. PICK f : Solves(f, n - 1)
    BY <2>1, <2>2
  <2>. DEFINE g == [x \in UpTo(n) |-> Step(f, x)]
  <2>4. ASSUME NEW x \in UpTo(n) PROVE Step(f, x) = Step(g, x)
    <3>1. x \in S /\ Rank(x) < n /\ Rank(x) \in Nat
      BY <2>4 DEF UpTo, Ranked
    <3>2. ASSUME NEW y \in S, Rank(y) < Rank(x) PROVE f[y] = g[y]
      <4>1. Rank(y) \in Nat
        BY DEF Ranked
      <4>2. Rank(y) < n - 1 /\ Rank(y) < n
        BY <1>2, <3>1, <3>2, <4>1
      <4>3. y \in UpTo(n - 1) /\ y \in UpTo(n)
        BY <4>2 DEF UpTo
      <4>4. f[y] = Step(f, y)
        BY <2>3, <4>3 DEF Solves
      <4>. QED BY <4>3, <4>4
    <3>. HIDE DEF g
    <3>. QED BY <3>1, <3>2 DEF Local
  <2>5. Solves(g, n)
    <3>1. g = [x \in UpTo(n) |-> Step(g, x)]
      BY <2>4
    <3>. QED BY <3>1 DEF Solves
  <2>. QED BY <1>2, <2>5
<1>. QED BY <1>3, <1>4

\* The recursive equation has a solution, so that what is defined by it satisfies it.
THEOREM RecursionHolds ==
    ASSUME Ranked, Local
    PROVE  \E f : f = [x \in S |-> Step(f, x)]
<1>. DEFINE part(n) == CHOOSE f : Solves(f, n)
            F == [x \in S |-> part(Rank(x) + 1)[x]]
<1>1. \A n \in Nat : Solves(part(n), n)
  BY SolutionsExist
<1>. HIDE DEF part
<1>2. ASSUME NEW x \in S PROVE F[x] = Step(F, x)
  <2>1. Rank(x) \in Nat /\ Rank(x) + 1 \in Nat /\ x \in UpTo(Rank(x) + 1)
    BY DEF Ranked, UpTo
  <2>. DEFINE f == part(Rank(x) + 1)
  <2>2. Solves(f, Rank(x) + 1)
    BY <1>1, <2>1
  <2>. HIDE DEF f
  <2>3. f[x] = Step(f, x)
    BY <2>1, <2>2 DEF Solves
  <2>4. ASSUME NEW y \in S, Rank(y) < Rank(x) PROVE f[y] = F[y]
    <3>1. Rank(y) \in Nat /\ Rank(y) + 1 \in Nat /\ y \in UpTo(Rank(y) + 1) /\ y \in UpTo(Rank(x) + 1)
      BY <2>1, <2>4 DEF Ranked, UpTo
    <3>2. Solves(part(Rank(y) + 1), Rank(y) + 1)
      BY <1>1, <3>1
    <3>3. f[y] = part(Rank(y) + 1)[y]
      BY <2>1, <2>2, <3>1, <3>2, SolutionsAgree
    <3>. QED BY <3>3
  <2>5. F[x] = f[x]
    BY DEF f
  <2>. HIDE DEF F
  <2>. QED BY <2>3, <2>4, <2>5 DEF Local
<1>3. F = [x \in S |-> Step(F, x)]
  BY <1>2
<1>. QED BY <1>3
===============================================================================
