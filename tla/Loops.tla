--------------------------------- MODULE Loops ---------------------------------
(***************************************************************************)
(* Induction, as lemmas about sets of natural numbers, and the course of a *)
(* loop: what the proofs about recursive functions, which model the loops  *)
(* over slices of peers and servers, rest on.                              *)
(***************************************************************************)
EXTENDS Integers, WellFoundedInduction, TLAPS

\* A set of natural numbers has a least element.
LEMMA Least ==
    ASSUME NEW T \in SUBSET Nat, T # {}
    PROVE  \E m \in T : \A k \in T : m <= k
<1>1. PICK m \in T : \A k \in T : ~(<<k, m>> \in OpToRel(<, Nat))
  BY NatLessThanWellFounded, WFMin, Zenon
<1>2. \A k \in T : ~(k < m)
  <2> TAKE k \in T
  <2> SUFFICES ASSUME k < m PROVE FALSE
    OBVIOUS
  <2>1. <<k, m>> \in Nat \X Nat
    OBVIOUS
  <2>2. <<k, m>> \in OpToRel(<, Nat)
    BY <2>1, Zenon DEF OpToRel
  <2> QED
    BY <1>1, <2>2
<1> QED
  BY <1>2

\* Induction up to N: a set that has 0 and with i - 1 also i has all of 0 .. N.
LEMMA UpTo ==
    ASSUME NEW N \in Nat, NEW T,
           0 \in T, \A i \in 1 .. N : i - 1 \in T => i \in T
    PROVE  0 .. N \subseteq T
<1> DEFINE Out == {i \in 0 .. N : i \notin T}
<1> SUFFICES ASSUME Out # {} PROVE FALSE
  OBVIOUS
<1>1. Out \in SUBSET Nat
  OBVIOUS
<1>2. PICK m \in Out : \A k \in Out : m <= k
  BY <1>1, Least
<1>3. m \in 1 .. N /\ m - 1 \in 0 .. N /\ m - 1 \notin Out
  BY <1>2
<1> QED
  BY <1>2, <1>3

\* The values a variable has in a loop that starts with s and applies V[i] for
\* i = 1, 2, .. N.
course(f, N, s, V) == f[0] = s /\ \A i \in 1 .. N : f[i] = V[i][f[i - 1]]

\* Such a loop has a well-defined course.
LEMMA Loop ==
    ASSUME NEW N \in Nat, NEW S, NEW s \in S, NEW V \in [Nat -> [S -> S]]
    PROVE  \E f \in [Nat -> S] : course(f, N, s, V)
<1> DEFINE T == {n \in Nat : \E f \in [Nat -> S] : course(f, n, s, V)}
<1>1. 0 \in T
  <2>1. [i \in Nat |-> s] \in [Nat -> S] /\ course([i \in Nat |-> s], 0, s, V)
    BY DEF course
  <2> QED BY <2>1
<1>2. ASSUME NEW n \in 1 .. N, n - 1 \in T PROVE n \in T
  <2>1. PICK f \in [Nat -> S] : course(f, n - 1, s, V)
    BY <1>2
  <2> DEFINE g == [f EXCEPT ![n] = V[n][f[n - 1]]]
  <2>2. g \in [Nat -> S] /\ g[n] = V[n][f[n - 1]] /\ \A i \in 0 .. n - 1 : g[i] = f[i]
    OBVIOUS
  <2> HIDE DEF g
  <2>3. course(g, n, s, V)
    BY <2>1, <2>2 DEF course
  <2> QED BY <2>2, <2>3
<1>3. 0 .. N \subseteq T
  <2> HIDE DEF T
  <2> QED BY <1>1, <1>2, UpTo
<1> QED
  BY <1>3

===============================================================================
