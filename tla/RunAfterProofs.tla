--------------------------- MODULE RunAfterProofs ---------------------------
(***************************************************************************)
(* Proofs about what runs after what: the closures the canvas and the      *)
(* run-after menu compute, and the menu itself in a workflow without       *)
(* scopes, for every number of operations and every definition in which    *)
(* nothing runs after itself.                                              *)
(***************************************************************************)
EXTENDS WorkflowGraphProofs, FiniteSetTheorems, WellFoundedInduction

-----------------------------------------------------------------------------
(* Least numbers, which stand in for induction.                            *)

LessThan == OpToRel(<, Nat)

(* A set of numbers that is not empty has a least member. *)
LEMMA LeastNumber ==
  ASSUME NEW S, S \subseteq Nat, S # {}
  PROVE  \E i \in S : \A j \in S : i =< j
<1>1. IsWellFoundedOn(LessThan, Nat)
  BY NatLessThanWellFounded DEF LessThan
<1>2. PICK i \in S : \A j \in S : ~ (<<j, i>> \in LessThan)
  <2> HIDE DEF LessThan
  <2>1. S \subseteq Nat /\ S # {}
    OBVIOUS
  <2> QED BY <1>1, <2>1, WFMin
<1>3. \A j \in S : ~ (j < i)
  <2> SUFFICES ASSUME NEW j \in S, j < i PROVE FALSE
    OBVIOUS
  <2>1. <<j, i>> \in Nat \X Nat /\ <<j, i>>[1] < <<j, i>>[2]
    OBVIOUS
  <2>2. <<j, i>> \in LessThan
    BY <2>1 DEF LessThan, OpToRel
  <2> QED BY <1>2, <2>2
<1> QED BY <1>3

(* A set with zero and the successor of each of its members has them all,  *)
(* up to any bound.                                                        *)
LEMMA UpTo ==
  ASSUME NEW N \in Nat, NEW P, 0 \in P,
         \A i \in 1..N : i - 1 \in P => i \in P
  PROVE  \A i \in 0..N : i \in P
<1> SUFFICES ASSUME NEW k \in 0..N, k \notin P PROVE FALSE
  OBVIOUS
<1> DEFINE S == {i \in 0..N : i \notin P}
<1>1. S \subseteq Nat /\ S # {}
  OBVIOUS
<1>2. PICK i \in S : \A j \in S : i =< j
  <2> HIDE DEF S
  <2> QED BY <1>1, LeastNumber
<1>3. i \in 1..N /\ i - 1 \in 0..N
  BY <1>2
<1>4. i - 1 \in P
  BY <1>2, <1>3
<1> QED BY <1>2, <1>3, <1>4

-----------------------------------------------------------------------------
(* Closures.                                                               *)

(* X and what a step of the function step leads to from X. *)
Onwards(step, X) == X \cup UNION {step[m] : m \in X}

(* f is the function Closure computes: what N steps reach from S. *)
Reaches(f, step, S, N) ==
  f = [i \in 0..N |-> IF i = 0 THEN S ELSE Onwards(step, f[i - 1])]

(* There is such a function. *)
LEMMA ReachExists ==
  ASSUME NEW step, NEW S, NEW N \in Nat
  PROVE  \E f : Reaches(f, step, S, N)
<1> DEFINE P == {i \in Nat : \E f : Reaches(f, step, S, i)}
<1>1. 0 \in P
  <2>1. Reaches([i \in 0..0 |-> S], step, S, 0)
    BY DEF Reaches
  <2> QED BY <2>1
<1>2. ASSUME NEW k \in 1..N, k - 1 \in P
      PROVE  k \in P
  <2>1. k \in Nat /\ k - 1 \in Nat
    OBVIOUS
  <2>2. PICK f : Reaches(f, step, S, k - 1)
    BY <1>2
  <2> DEFINE g == [i \in 0..k |-> IF i < k THEN f[i] ELSE Onwards(step, f[k - 1])]
             h == [i \in 0..k |-> IF i = 0 THEN S ELSE Onwards(step, g[i - 1])]
  <2>3. f[0] = S /\ \A i \in 1..(k - 1) : f[i] = Onwards(step, f[i - 1])
    BY <2>1, <2>2 DEF Reaches
  <2>4. ASSUME NEW i \in 0..k PROVE g[i] = h[i]
    <3>1. CASE i = 0
      BY <2>3, <3>1
    <3>2. CASE i \in 1..(k - 1)
      <4>1. g[i] = f[i] /\ g[i - 1] = f[i - 1] /\ h[i] = Onwards(step, g[i - 1])
        BY <3>2
      <4> QED BY <2>3, <3>2, <4>1
    <3>3. CASE i = k
      <4>1. g[k] = Onwards(step, f[k - 1]) /\ g[k - 1] = f[k - 1]
            /\ h[k] = Onwards(step, g[k - 1])
        BY <2>1
      <4> QED BY <3>3, <4>1
    <3> QED BY <3>1, <3>2, <3>3
  <2>5. g = h
    BY <2>4
  <2>6. Reaches(g, step, S, k)
    BY <2>5 DEF Reaches
  <2> QED BY <2>1, <2>6
<1> HIDE DEF P
<1>3. N \in P
  BY <1>1, <1>2, UpTo
<1> QED BY <1>3 DEF P

(* What a closure reaches is in every set that has its start and is closed *)
(* under its steps.                                                        *)
LEMMA ReachIsWithin ==
  ASSUME NEW step, NEW S, NEW N \in Nat, NEW f, Reaches(f, step, S, N),
         NEW T, S \subseteq T, \A m \in T : step[m] \subseteq T
  PROVE  \A i \in 0..N : f[i] \subseteq T
<1> DEFINE P == {i \in 0..N : f[i] \subseteq T}
<1>1. 0 \in P
  BY DEF Reaches
<1>2. ASSUME NEW i \in 1..N, i - 1 \in P PROVE i \in P
  <2>1. f[i] = Onwards(step, f[i - 1])
    BY DEF Reaches
  <2>2. f[i - 1] \subseteq T
    BY <1>2
  <2> QED BY <2>1, <2>2 DEF Onwards
<1> HIDE DEF P
<1>3. \A i \in 0..N : i \in P
  BY <1>1, <1>2, UpTo
<1> QED BY <1>3 DEF P

(* After as many steps as there are ids, less one, nothing new is reached. *)
LEMMA ReachIsClosedAfter ==
  ASSUME NEW X, IsFiniteSet(X), NEW step, \A m \in X : step[m] \subseteq X,
         NEW N \in Nat, Cardinality(X) =< N + 1,
         NEW S, S \subseteq X, NEW f, Reaches(f, step, S, N)
  PROVE  /\ S \subseteq f[N]
         /\ f[N] \subseteq X
         /\ \A m \in f[N] : step[m] \subseteq f[N]
<1> DEFINE IsClosed(Y) == \A m \in Y : step[m] \subseteq Y
           P == {i \in 0..N : S \subseteq f[i] /\ (IsClosed(f[i]) \/ Cardinality(f[i]) >= i + 1)}
<1>0. N \in Nat /\ Cardinality(X) \in Nat
  BY FS_CardinalityType
<1>1. \A i \in 0..N : f[i] \subseteq X
  BY <1>0, ReachIsWithin
<1>2. f[0] = S /\ \A i \in 1..N : f[i] = Onwards(step, f[i - 1])
  BY <1>0 DEF Reaches
<1>3. \A i \in 0..N : IsFiniteSet(f[i]) /\ Cardinality(f[i]) \in Nat /\ Cardinality(f[i]) =< Cardinality(X)
  <2> TAKE i \in 0..N
  <2>1. f[i] \in SUBSET X
    BY <1>1
  <2>2. IsFiniteSet(f[i]) /\ Cardinality(f[i]) =< Cardinality(X)
    BY <2>1, FS_Subset
  <2> QED BY <2>2, FS_CardinalityType
<1>4. 0 \in P
  <2>1. 0 \in 0..N
    BY <1>0
  <2>2. CASE S = {}
    BY <1>2, <2>1, <2>2
  <2>3. CASE S # {}
    <3>1. Cardinality(f[0]) # 0
      BY <1>2, <1>3, <2>1, <2>3, FS_EmptySet
    <3> QED BY <1>2, <1>3, <2>1, <3>1
  <2> QED BY <2>2, <2>3
<1>5. ASSUME NEW i \in 1..N, i - 1 \in P PROVE i \in P
  <2>1. i - 1 \in 0..N /\ i \in 0..N
    BY <1>0
  <2>2. f[i] = Onwards(step, f[i - 1])
    BY <1>2
  <2>3. S \subseteq f[i] /\ f[i - 1] \subseteq f[i]
    BY <1>5, <2>2 DEF Onwards
  <2>4. CASE IsClosed(f[i - 1])
    <3>1. f[i] = f[i - 1]
      BY <2>2, <2>4 DEF Onwards
    <3> QED BY <2>1, <2>3, <2>4, <3>1
  <2>5. CASE ~IsClosed(f[i - 1])
    <3>1. f[i] # f[i - 1]
      BY <2>2, <2>5 DEF Onwards
    <3>2. Cardinality(f[i - 1]) =< Cardinality(f[i])
          /\ Cardinality(f[i - 1]) # Cardinality(f[i])
      <4>1. IsFiniteSet(f[i]) /\ f[i - 1] \in SUBSET f[i]
        BY <1>3, <2>1, <2>3
      <4> QED BY <4>1, <3>1, FS_Subset
    <3>3. Cardinality(f[i - 1]) >= (i - 1) + 1
      BY <1>5, <2>5
    <3>4. Cardinality(f[i]) \in Nat /\ Cardinality(f[i - 1]) \in Nat
      BY <1>3, <2>1
    <3>5. Cardinality(f[i]) >= i + 1
      BY <2>1, <3>2, <3>3, <3>4
    <3> QED BY <2>1, <2>3, <3>5
  <2> QED BY <2>4, <2>5
<1>6. N \in P
  <2> HIDE DEF P
  <2>1. \A i \in 0..N : i \in P
    BY <1>0, <1>4, <1>5, UpTo
  <2> QED BY <1>0, <2>1
<1>7. N \in 0..N
  BY <1>0
<1>8. IsClosed(f[N])
  <2> SUFFICES ASSUME Cardinality(f[N]) >= N + 1 PROVE IsClosed(f[N])
    BY <1>6
  <2>1. f[N] \in SUBSET X /\ Cardinality(f[N]) = Cardinality(X)
    BY <1>0, <1>1, <1>3, <1>7
  <2>2. f[N] = X
    BY <2>1, FS_Subset
  <2> QED BY <2>2
<1> QED BY <1>1, <1>6, <1>7, <1>8

(* After as many steps as there are ids nothing new is reached. *)
LEMMA ReachIsClosed ==
  ASSUME NEW X, IsFiniteSet(X), NEW step, \A m \in X : step[m] \subseteq X,
         NEW S, S \subseteq X, NEW f, Reaches(f, step, S, Cardinality(X))
  PROVE  /\ S \subseteq f[Cardinality(X)]
         /\ f[Cardinality(X)] \subseteq X
         /\ \A m \in f[Cardinality(X)] : step[m] \subseteq f[Cardinality(X)]
<1> DEFINE N == Cardinality(X)
<1>1. N \in Nat /\ Cardinality(X) =< N + 1
  BY FS_CardinalityType
<1>2. Reaches(f, step, S, N)
  OBVIOUS
<1> HIDE DEF N
<1>3. /\ S \subseteq f[N] /\ f[N] \subseteq X
      /\ \A m \in f[N] : step[m] \subseteq f[N]
  BY <1>1, <1>2, ReachIsClosedAfter
<1> QED BY <1>3 DEF N

-----------------------------------------------------------------------------
(* The closures of the model.                                              *)

(* What runs after an operation is an operation. *)
LEMMA RunsAfterAreDefined ==
  ASSUME NEW w, NEW n
  PROVE  RunsAfter(w, n) \subseteq Defined(w)
BY DEF RunsAfter

(* getSuccessorNodes finds exactly what runs after n, directly or not: all *)
(* of it, and nothing that another closed set leaves out.                  *)
LEMMA SuccessorsAreClosed ==
  ASSUME NEW w, Defined(w) \subseteq Operations, NEW n
  PROVE  /\ RunsAfter(w, n) \subseteq Successors(w, n)
         /\ Successors(w, n) \subseteq Defined(w)
         /\ \A m \in Successors(w, n) : RunsAfter(w, m) \subseteq Successors(w, n)
         /\ \A T : /\ RunsAfter(w, n) \subseteq T
                   /\ \A m \in T : RunsAfter(w, m) \subseteq T
                   => Successors(w, n) \subseteq T
<1> DEFINE N == Cardinality(Operations)
           S == RunsAfter(w, n)
           step == [m \in Operations |-> RunsAfter(w, m)]
           IsIt(f) == f = [i \in 0..N |->
                             IF i = 0 THEN S
                             ELSE LET before == f[i - 1]
                                  IN  before \cup UNION {RunsAfter(w, m) : m \in before}]
<1>1. IsFiniteSet(Operations) /\ N \in Nat
  BY OperationsAreFinite, FS_CardinalityType
<1>2. S \subseteq Operations /\ \A m \in Operations : step[m] \subseteq Operations
  BY RunsAfterAreDefined
<1>3. ASSUME NEW f PROVE Reaches(f, step, S, N) <=> IsIt(f)
  <2> DEFINE A(i) == IF i = 0 THEN S ELSE Onwards(step, f[i - 1])
             B(i) == IF i = 0 THEN S
                     ELSE LET before == f[i - 1]
                          IN  before \cup UNION {RunsAfter(w, m) : m \in before}
  <2>0. N \in 0..N
    BY <1>1
  <2>1. ASSUME f = [i \in 0..N |-> A(i)] \/ f = [i \in 0..N |-> B(i)]
        PROVE  \A i \in 0..N : A(i) = B(i)
    <3> DEFINE P == {i \in 0..N : f[i] \subseteq Operations /\ A(i) = B(i)}
    <3>1. \A i \in 0..N : f[i] = A(i) \/ f[i] = B(i)
      BY <2>1
    <3>2. 0 \in P
      <4>1. 0 \in 0..N /\ A(0) = S /\ B(0) = S
        BY <1>1
      <4> QED BY <3>1, <4>1, <1>2
    <3>3. ASSUME NEW i \in 1..N, i - 1 \in P PROVE i \in P
      <4>1. i \in 0..N /\ i # 0
        BY <1>1
      <4>2. A(i) = Onwards(step, f[i - 1])
        BY <4>1
      <4>3. B(i) = f[i - 1] \cup UNION {RunsAfter(w, m) : m \in f[i - 1]}
        BY <4>1
      <4>4. f[i - 1] \subseteq Operations
        BY <3>3
      <4>5. A(i) = B(i)
        BY <4>2, <4>3, <4>4 DEF Onwards
      <4>6. A(i) \subseteq Operations
        <5>1. \A m \in f[i - 1] : step[m] \subseteq Operations
          BY <4>4, <1>2
        <5> HIDE DEF step
        <5> QED BY <4>2, <4>4, <5>1 DEF Onwards
      <4> HIDE DEF A, B
      <4> QED BY <3>1, <4>1, <4>5, <4>6
    <3> HIDE DEF P, A, B
    <3>4. \A i \in 0..N : i \in P
      BY <1>1, <3>2, <3>3, UpTo
    <3> QED BY <3>4 DEF P
  <2>2. Reaches(f, step, S, N) <=> f = [i \in 0..N |-> A(i)]
    BY DEF Reaches
  <2>3. IsIt(f) <=> f = [i \in 0..N |-> B(i)]
    OBVIOUS
  <2>4. (\A i \in 0..N : A(i) = B(i)) => [i \in 0..N |-> A(i)] = [i \in 0..N |-> B(i)]
    <3> HIDE DEF A, B
    <3> QED OBVIOUS
  <2> HIDE DEF A, B, IsIt
  <2> QED BY <2>1, <2>2, <2>3, <2>4
<1>4. Successors(w, n) = (CHOOSE f : IsIt(f))[N]
  BY DEF Successors, Closure
<1>5. PICK f : Reaches(f, step, S, N) /\ Successors(w, n) = f[N]
  <2> DEFINE r == CHOOSE f : IsIt(f)
  <2>1. \E f : IsIt(f)
    BY <1>1, <1>3, ReachExists
  <2>2. IsIt(r)
    <3> HIDE DEF IsIt
    <3> QED BY <2>1
  <2>3. Reaches(r, step, S, N)
    BY <1>3, <2>2
  <2> HIDE DEF r, IsIt
  <2> QED BY <1>4, <2>3 DEF r
<1>6. /\ S \subseteq f[N] /\ f[N] \subseteq Operations
      /\ \A m \in f[N] : step[m] \subseteq f[N]
  <2> HIDE DEF step, S
  <2> QED BY <1>1, <1>2, <1>5, ReachIsClosed
<1>7. \A m \in f[N] : RunsAfter(w, m) \subseteq f[N]
  BY <1>6
<1>8. ASSUME NEW T, S \subseteq T, \A m \in T : RunsAfter(w, m) \subseteq T
      PROVE  f[N] \subseteq T
  <2> DEFINE U == T \cap Operations
  <2>1. S \subseteq U /\ \A m \in U : step[m] \subseteq U
    BY <1>2, <1>8
  <2>2. N \in 0..N
    BY <1>1
  <2> HIDE DEF U, step, S
  <2>3. f[N] \subseteq U
    BY <1>1, <1>5, <2>1, <2>2, ReachIsWithin
  <2> QED BY <2>3 DEF U
<1>9. f[N] \subseteq Defined(w)
  <2>1. \A m \in Defined(w) : RunsAfter(w, m) \subseteq Defined(w)
    BY RunsAfterAreDefined
  <2>2. S \subseteq Defined(w)
    BY RunsAfterAreDefined
  <2> HIDE DEF S
  <2> QED BY <1>8, <2>1, <2>2
<1> QED BY <1>5, <1>6, <1>7, <1>8, <1>9

(* What is drawn below n is in every set that has the targets of n and     *)
(* those of its members.                                                   *)
LEMMA BelowIsWithin ==
  ASSUME NEW w, NEW g, NEW n, NEW T, Targets(Links(w, g), n) \subseteq T,
         \A m \in T : Targets(Links(w, g), m) \subseteq T
  PROVE  Below(w, g, n) \subseteq T
<1> DEFINE N == Cardinality(Operations)
           S == Targets(Links(w, g), n)
           X == {e[2] : e \in w.edges[g]}
           step == [m \in X |-> Targets(Links(w, g), m)]
           IsIt(f) == f = [i \in 0..N |->
                             IF i = 0 THEN S
                             ELSE LET before == f[i - 1]
                                  IN  before \cup UNION {Targets(Links(w, g), m) : m \in before}]
           r == CHOOSE f : IsIt(f)
<1>1. N \in Nat
  BY OperationsAreFinite, FS_CardinalityType
<1>2. S \subseteq X /\ \A m \in X : step[m] \subseteq X
  BY DEF Targets, Links
<1>3. PICK f : Reaches(f, step, S, N)
  BY <1>1, ReachExists
<1>4. \A i \in 0..N : f[i] \subseteq X
  <2> HIDE DEF step, S, X
  <2> QED BY <1>1, <1>2, <1>3, ReachIsWithin
<1>5. \A i \in 0..N : i # 0 =>
        Onwards(step, f[i - 1]) = f[i - 1] \cup UNION {Targets(Links(w, g), m) : m \in f[i - 1]}
  <2> TAKE i \in 0..N
  <2> HAVE i # 0
  <2>1. f[i - 1] \subseteq X
    BY <1>1, <1>4
  <2> HIDE DEF X
  <2> QED BY <2>1 DEF Onwards
<1>6. IsIt(f)
  <2> HIDE DEF step, S
  <2> QED BY <1>3, <1>5 DEF Reaches
<1>7. IsIt(r)
  <2> HIDE DEF IsIt
  <2> QED BY <1>6
<1>8. Below(w, g, n) = r[N]
  BY DEF Below, Closure
<1> DEFINE P == {i \in 0..N : r[i] \subseteq T}
<1>9. 0 \in P
  <2>1. 0 \in 0..N
    BY <1>1
  <2>2. r[0] = S
    <3> HIDE DEF r, S
    <3> QED BY <1>7, <2>1
  <2> HIDE DEF r, S
  <2> QED BY <2>1, <2>2 DEF S
<1>10. ASSUME NEW i \in 1..N, i - 1 \in P PROVE i \in P
  <2>1. i \in 0..N /\ i # 0
    BY <1>1
  <2>2. r[i] = r[i - 1] \cup UNION {Targets(Links(w, g), m) : m \in r[i - 1]}
    <3> HIDE DEF r, S
    <3> QED BY <1>7, <2>1
  <2> HIDE DEF r
  <2> QED BY <1>10, <2>1, <2>2
<1>11. N \in P
  <2> HIDE DEF P
  <2>1. \A i \in 0..N : i \in P
    BY <1>1, <1>9, <1>10, UpTo
  <2> QED BY <1>1, <2>1
<1> QED BY <1>8, <1>11

(* What is drawn inside n is in every set that has n and, with a graph,    *)
(* what is drawn in it.                                                    *)
LEMMA ContentsAreWithin ==
  ASSUME NEW w, IsState(w), NEW n, NEW T, n \in T,
         \A m \in T \cap Graphs : w.children[m] \subseteq T
  PROVE  Contents(w, n) \subseteq T
<1> DEFINE N == Cardinality(Operations)
           S == {n}
           Inside(m) == IF m \in Graphs THEN w.children[m] ELSE {}
           X == {n} \cup UNION {w.children[h] : h \in Graphs}
           step == [m \in X |-> Inside(m)]
           IsIt(f) == f = [i \in 0..N |->
                             IF i = 0 THEN S
                             ELSE LET before == f[i - 1]
                                  IN  before \cup UNION {Inside(m) : m \in before}]
           r == CHOOSE f : IsIt(f)
<1>1. N \in Nat
  BY OperationsAreFinite, FS_CardinalityType
<1>2. S \subseteq X /\ \A m \in X : step[m] \subseteq X
  OBVIOUS
<1>3. PICK f : Reaches(f, step, S, N)
  BY <1>1, ReachExists
<1>4. \A i \in 0..N : f[i] \subseteq X
  <2> HIDE DEF step, S, X
  <2> QED BY <1>1, <1>2, <1>3, ReachIsWithin
<1>5. \A i \in 0..N : i # 0 =>
        Onwards(step, f[i - 1]) = f[i - 1] \cup UNION {Inside(m) : m \in f[i - 1]}
  <2> TAKE i \in 0..N
  <2> HAVE i # 0
  <2>1. f[i - 1] \subseteq X
    BY <1>1, <1>4
  <2> HIDE DEF X, Inside
  <2> QED BY <2>1 DEF Onwards
<1>6. IsIt(f)
  <2> HIDE DEF step, S, Inside
  <2> QED BY <1>3, <1>5 DEF Reaches
<1>7. IsIt(r)
  <2> HIDE DEF IsIt
  <2> QED BY <1>6
<1>8. Contents(w, n) = Operations \cap r[N]
  BY DEF Contents, Closure
<1> DEFINE P == {i \in 0..N : r[i] \subseteq T}
<1>9. 0 \in P
  <2>1. 0 \in 0..N
    BY <1>1
  <2>2. r[0] = S
    <3> HIDE DEF r, S
    <3> QED BY <1>7, <2>1
  <2> HIDE DEF r
  <2> QED BY <2>1, <2>2
<1>10. ASSUME NEW i \in 1..N, i - 1 \in P PROVE i \in P
  <2>1. i \in 0..N /\ i # 0
    BY <1>1
  <2>2. r[i] = r[i - 1] \cup UNION {Inside(m) : m \in r[i - 1]}
    <3> HIDE DEF r, S, Inside
    <3> QED BY <1>7, <2>1
  <2>3. \A m \in T : Inside(m) \subseteq T
    OBVIOUS
  <2> HIDE DEF r, Inside
  <2> QED BY <1>10, <2>1, <2>2, <2>3
<1>11. N \in P
  <2> HIDE DEF P
  <2>1. \A i \in 0..N : i \in P
    BY <1>1, <1>9, <1>10, UpTo
  <2> QED BY <1>1, <2>1
<1> QED BY <1>8, <1>11

-----------------------------------------------------------------------------
(* The keys of a run-after value.                                          *)

(* Setting a key adds it, with its status, and changes no other. *)
LEMMA WithKeyHasKeys ==
  ASSUME NEW r, IsRunAfter(r), NEW p \in Ends, NEW status \in Status
  PROVE  /\ WithKey(r, p, status) # Absent
         /\ Keys(WithKey(r, p, status)) = Keys(r) \cup {p}
         /\ WithKey(r, p, status)[p] = status
         /\ \A k \in Keys(r) \ {p} : WithKey(r, p, status)[k] = r[k]
<1> DEFINE f == WithKey(r, p, status)
<1>1. Keys(r) \cup {p} \in SUBSET Ends /\ \A k \in Keys(r) : r[k] \in Status
  BY DEF IsRunAfter, Keys
<1>2. f \in [Keys(r) \cup {p} -> Status]
  BY <1>1 DEF WithKey
<1>3. f # Absent
  BY <1>1, <1>2, AbsentIsNoObject
<1>4. Keys(f) = Keys(r) \cup {p}
  BY <1>2, <1>3 DEF Keys
<1> QED BY <1>3, <1>4 DEF WithKey

(* Deleting a key leaves the others, with their statuses. *)
LEMMA WithoutKeyHasKeys ==
  ASSUME NEW r, IsRunAfter(r), NEW p
  PROVE  /\ Keys(WithoutKey(r, p)) = Keys(r) \ {p}
         /\ \A k \in Keys(r) \ {p} : WithoutKey(r, p)[k] = r[k]
<1>1. CASE r = Absent
  BY <1>1 DEF WithoutKey, Keys
<1>2. CASE r # Absent
  <2> DEFINE f == [k \in DOMAIN r \ {p} |-> r[k]]
  <2>1. WithoutKey(r, p) = f /\ Keys(r) = DOMAIN r
    BY <1>2 DEF WithoutKey, Keys
  <2>2. DOMAIN r \ {p} \in SUBSET Ends /\ f \in [DOMAIN r \ {p} -> Status]
    BY <1>2 DEF IsRunAfter, Keys
  <2>3. f # Absent
    <3> HIDE DEF f
    <3> QED BY <2>2, AbsentIsNoObject
  <2>4. Keys(f) = DOMAIN r \ {p}
    BY <2>3 DEF Keys
  <2> QED BY <2>1, <2>4
<1> QED BY <1>1, <1>2

(* Every key has a status. *)
HasStatuses(r) == \A k \in Keys(r) : r[k] # Undefined

(* What becomes of a configuration whose key old moves to new, where roots *)
(* are the operations that are roots.                                      *)
MovedFrom(before, old, new, roots) ==
  MoveRunAfterSource(before, old, new, FALSE, new \in roots)

(* A key that moves from old to new takes its status along; it goes when   *)
(* new has an entry already, or is the trigger.                            *)
LEMMA MovedKeys ==
  ASSUME NEW r, IsRunAfter(r), HasStatuses(r), NEW old, old \in Keys(r),
         NEW new \in Ends, new # old,
         NEW roots, NEW before, before \in {r, WithoutKey(r, old)},
         before = r \/ new \in roots \/ new \in Keys(r),
         NEW after, after = MovedFrom(before, old, new, roots)
  PROVE  /\ \A k : k \in Keys(after) <=>
                    (k # old /\ (k \in Keys(r) \/ (new \notin roots /\ k = new)))
         /\ HasStatuses(after)
<1> DEFINE moved == StatusOf(before, old)
           keep == new \in roots \/ StatusOf(before, new) # Undefined
           kept == IF keep THEN before ELSE WithKey(before, new, moved)
<1>1. IsRunAfter(before) /\ Keys(before) \in {Keys(r), Keys(r) \ {old}}
      /\ HasStatuses(before) /\ before # Absent
  <2>1. r # Absent /\ WithoutKey(r, old) # Absent
    <3>1. r # Absent
      BY DEF Keys
    <3> DEFINE f == [k \in DOMAIN r \ {old} |-> r[k]]
    <3>2. DOMAIN r \ {old} \in SUBSET Ends /\ f \in [DOMAIN r \ {old} -> Status]
      BY <3>1 DEF IsRunAfter, Keys
    <3>3. f # Absent
      <4> HIDE DEF f
      <4> QED BY <3>2, AbsentIsNoObject
    <3> QED BY <3>1, <3>3 DEF WithoutKey
  <2>2. CASE before = r
    BY <2>1, <2>2
  <2>3. CASE before = WithoutKey(r, old)
    BY <2>1, <2>3, WithoutKeyIsRunAfter, WithoutKeyHasKeys DEF HasStatuses
  <2> QED BY <2>2, <2>3
<1>2. keep <=> new \in roots \/ new \in Keys(before)
  BY <1>1 DEF StatusOf, HasStatuses
<1>3. /\ IsRunAfter(kept) /\ HasStatuses(kept) /\ kept # Absent
      /\ \A k : k \in Keys(kept) \cup {old} <=>
                  k \in Keys(r) \/ (new \notin roots /\ k = new)
  <2>1. CASE keep
    <3>1. kept = before
      BY <2>1
    <3>2. new \in roots \/ new \in Keys(r)
      BY <1>1, <1>2, <2>1
    <3> QED BY <1>1, <3>1, <3>2
  <2>2. CASE ~keep
    <3>1. before = r /\ moved = r[old] /\ moved # Undefined /\ new \notin roots
      BY <1>1, <1>2, <2>2, WithoutKeyHasKeys DEF StatusOf, HasStatuses
    <3>2. moved \in Status
      BY <1>1, StatusOfIsStatus
    <3>3. kept = WithKey(r, new, moved)
      BY <2>2, <3>1
    <3> HIDE DEF moved, kept, keep
    <3>4. IsRunAfter(kept) /\ kept # Absent /\ Keys(kept) = Keys(r) \cup {new}
          /\ kept[new] = moved /\ \A k \in Keys(r) \ {new} : kept[k] = r[k]
      BY <3>2, <3>3, WithKeyIsRunAfter, WithKeyHasKeys
    <3> QED BY <3>1, <3>4 DEF HasStatuses
  <2> QED BY <2>1, <2>2
<1>4. after = WithoutKey(kept, old)
  BY <1>1 DEF MovedFrom, MoveRunAfterSource
<1> HIDE DEF kept
<1>5. /\ Keys(WithoutKey(kept, old)) = Keys(kept) \ {old}
      /\ \A k \in Keys(kept) \ {old} : WithoutKey(kept, old)[k] = kept[k]
  BY <1>3, WithoutKeyHasKeys
<1> QED BY <1>3, <1>4, <1>5 DEF HasStatuses

-----------------------------------------------------------------------------
(* The menu of a workflow without scopes.                                  *)

(* A definition is sound to run: every key has a status, and nothing runs  *)
(* after itself.                                                           *)
RunsInOrder(d) ==
  LET w == Deserialize(d)
  IN  /\ \A n \in DOMAIN d.runAfter : HasStatuses(d.runAfter[n])
      /\ \A n \in Defined(w) : n \notin Successors(w, n)

(* The workflows and edits of the run-after menu: no scopes, definitions   *)
(* that are sound to run, operations added side by side, deleted when one  *)
(* edge enters them, and run-after configurations ticked, unticked and     *)
(* given other statuses.                                                   *)
MenuOnly ==
  /\ Scopes = {}
  /\ Edits \subseteq {"parallel", "delete", "runAfter", "status"}
  /\ \A d \in Definitions : RunsInOrder(d)

(* Without scopes there is one graph, and its operations are triggers and  *)
(* actions.                                                                *)
LEMMA FlatIds ==
  ASSUME Scopes = {}
  PROVE  /\ Graphs = {Root} /\ Headings = {} /\ Footers = {}
         /\ Operations = Triggers \cup Actions /\ Triggers \cap Actions = {}
         /\ Ends = Operations \cup {Placeholder, NoNode}
         /\ Heading(Root) \notin Ends
BY IdsAreDistinct, CardsAreNoOperations DEF Graphs, Headings, Footers, Operations, Ends

(* What the menu needs of a state w: edges lead from operations to actions,*)
(* every key is drawn and has a status, and every edge that does not come  *)
(* from a trigger is a key (that of a missing parent only when it has      *)
(* been passed on by a delete).                                            *)
EdgesEnterActions(w) ==
  \A p, c : <<p, c>> \in w.edges[Root] =>
    p \in Defined(w) \cup {NoNode} /\ c \in Defined(w) \ Triggers

KeysAreDrawn(w) ==
  \A c \in Defined(w) :
    /\ HasStatuses(w.runAfter[c])
    /\ \A p \in Keys(w.runAfter[c]) : <<p, c>> \in w.edges[Root]

EdgesAreKeys(w) ==
  \A p, c : <<p, c>> \in w.edges[Root] =>
    \/ p \in Triggers \cup Keys(w.runAfter[c])
    \/ p = NoNode /\ Keys(w.runAfter[c]) = {}

MenuState(w) ==
  /\ IsWellFormed(w)
  /\ HasMetadata(w) = Defined(w)
  /\ w.isRoot = Triggers \cap Defined(w)
  /\ EdgesEnterActions(w)
  /\ KeysAreDrawn(w)
  /\ EdgesAreKeys(w)

InOrder(w) == \A n \in Defined(w) : n \notin Successors(w, n)

(* What runs after p are the operations that have its key. *)
LEMMA RunsAfterAreKeyed ==
  ASSUME NEW w, KeysAreDrawn(w), NEW p
  PROVE  RunsAfter(w, p) = {c \in Defined(w) : p \in Keys(w.runAfter[c])}
BY DEF RunsAfter, StatusOf, KeysAreDrawn, HasStatuses

(* No trigger runs after anything. *)
LEMMA TriggersRunFirst ==
  ASSUME NEW w, MenuState(w), NEW n
  PROVE  Successors(w, n) \cap Triggers = {}
<1> DEFINE T == Defined(w) \ Triggers
<1>1. \A m : RunsAfter(w, m) \subseteq T
  <2> SUFFICES ASSUME NEW m, NEW c \in RunsAfter(w, m) PROVE c \in T
    OBVIOUS
  <2>1. c \in Defined(w) /\ m \in Keys(w.runAfter[c])
    BY RunsAfterAreKeyed DEF MenuState
  <2>2. <<m, c>> \in w.edges[Root]
    BY <2>1 DEF MenuState, KeysAreDrawn
  <2> QED BY <2>2 DEF MenuState, EdgesEnterActions
<1>2. Defined(w) \subseteq Operations
  BY DEF MenuState, IsWellFormed, IsState
<1> HIDE DEF T
<1>3. Successors(w, n) \subseteq T
  BY <1>1, <1>2, SuccessorsAreClosed
<1> QED BY <1>3 DEF T

(* What runs after n in w is at most what runs after it in v, when every   *)
(* step of w stays within.                                                 *)
LEMMA SuccessorsShrink ==
  ASSUME NEW v, NEW w, Defined(v) \subseteq Operations, Defined(w) \subseteq Operations, NEW n,
         RunsAfter(w, n) \subseteq Successors(v, n),
         \A m \in Successors(v, n) : RunsAfter(w, m) \subseteq Successors(v, n)
  PROVE  Successors(w, n) \subseteq Successors(v, n)
BY SuccessorsAreClosed

(* One operation c more that runs after p puts nothing after itself, when  *)
(* p is not c and does not run after it.                                   *)
LEMMA OrderOfOneMore ==
  ASSUME NEW v, NEW w, Defined(v) \subseteq Operations, Defined(w) \subseteq Operations,
         NEW p, NEW c, p # c, p \notin Successors(v, c),
         \A m : RunsAfter(w, m) \subseteq RunsAfter(v, m) \cup (IF m = p THEN {c} ELSE {}),
         NEW n, n \notin Successors(v, n)
  PROVE  n \notin Successors(w, n)
<1> DEFINE S(m) == Successors(v, m)
           T == S(n) \cup (IF n = p \/ p \in S(n) THEN {c} \cup S(c) ELSE {})
<1>1. \A m : RunsAfter(v, m) \subseteq S(m) /\ \A k \in S(m) : RunsAfter(v, k) \subseteq S(m)
  BY SuccessorsAreClosed
<1>2. RunsAfter(w, n) \subseteq T
  <2> HIDE DEF S
  <2> QED BY <1>1
<1>3. \A m \in T : RunsAfter(w, m) \subseteq T
  <2> SUFFICES ASSUME NEW m \in T, NEW k \in RunsAfter(w, m) PROVE k \in T
    OBVIOUS
  <2>1. k \in RunsAfter(v, m) \/ (m = p /\ k = c)
    OBVIOUS
  <2>2. CASE m = p /\ k = c
    <3>1. p \notin S(c) /\ p # c
      OBVIOUS
    <3> HIDE DEF S
    <3> QED BY <2>2, <3>1
  <2>3. CASE k \in RunsAfter(v, m)
    <3> HIDE DEF S
    <3> QED BY <1>1, <2>3
  <2> QED BY <2>1, <2>2, <2>3
<1>4. Successors(w, n) \subseteq T
  <2> HIDE DEF T
  <2> QED BY <1>2, <1>3, SuccessorsAreClosed
<1>5. n \notin T
  <2>1. ASSUME n = p \/ p \in S(n) PROVE n # c /\ n \notin S(c)
    <3>1. CASE n = p
      BY <3>1
    <3>2. CASE p \in S(n)
      <4>1. n # c
        BY <3>2
      <4>2. ASSUME n \in S(c) PROVE FALSE
        <5>1. RunsAfter(v, n) \subseteq S(c) /\ \A k \in S(c) : RunsAfter(v, k) \subseteq S(c)
          BY <1>1, <4>2
        <5>2. S(n) \subseteq S(c)
          BY <5>1, SuccessorsAreClosed
        <5> QED BY <3>2, <5>2
      <4> QED BY <4>1, <4>2
    <3> QED BY <2>1, <3>1, <3>2
  <2>2. n \notin S(n)
    OBVIOUS
  <2> HIDE DEF S
  <2> QED BY <2>1, <2>2
<1> QED BY <1>4, <1>5

-----------------------------------------------------------------------------
(* Each edit of the menu keeps its state.                                  *)

(* The members of a state of the menu. *)
LEMMA MenuHasParts ==
  ASSUME Scopes = {}, NEW w, MenuState(w)
  PROVE  /\ Defined(w) \subseteq Operations
         /\ \A c \in Defined(w) : IsRunAfter(w.runAfter[c]) /\ Keys(w.runAfter[c]) \subseteq Ends
         /\ w.edges[Root] \subseteq Ends \X Ends
         /\ \A x \in Defined(w) : w.graphOf[x] = Root
         /\ DOMAIN w.edges = {Root}
         /\ w.children[Root] \subseteq Defined(w)
<1>1. IsState(w)
  BY DEF MenuState, IsWellFormed
<1>2. Defined(w) \subseteq Operations
      /\ \A c \in Defined(w) : IsRunAfter(w.runAfter[c]) /\ Keys(w.runAfter[c]) \subseteq Ends
  BY <1>1 DEF IsState, IsRunAfter, Keys
<1>3. w.edges[Root] \subseteq Ends \X Ends /\ DOMAIN w.edges = {Root}
      /\ \A x \in Defined(w) : w.graphOf[x] = Root
  BY <1>1, FlatIds DEF IsState, MenuState
<1>4. w.children[Root] \subseteq Defined(w)
  BY FlatIds, DrawnHasMetadata DEF MenuState
<1> QED BY <1>2, <1>3, <1>4

(* What adding n beside the ones that run after p, and ticking p for n,    *)
(* make of the workflow w.                                                 *)
AddedBeside(w, n, p) == AddNodeToWorkflow(w, n, Root, p, NoNode, TRUE, FALSE)
Ticked(w, n, p) == WithLinks(w, Root, AddNewEdge(Links(w, Root), p, n, TRUE))

(* An operation is added beside the ones that run after p. *)
LEMMA ParallelKeepsMenu ==
  ASSUME Scopes = {}, NEW w, MenuState(w), NEW n \in Actions, n \notin Defined(w),
         NEW p \in Defined(w), NEW v,
         v = AddedBeside(w, n, p), IsWellFormed(v)
  PROVE  /\ MenuState(v)
         /\ Defined(v) = Defined(w) \cup {n}
         /\ \A m : RunsAfter(v, m) \subseteq RunsAfter(w, m) \cup (IF m = p THEN {n} ELSE {})
<1> DEFINE add == ~(p \in w.isRoot)
           own == IF add THEN WithKey(Absent, p, Succeeded) ELSE Absent
           links == [edges |-> w.edges[Root],
                     runAfter |-> [x \in Defined(w) \cup {n} |->
                                     IF x = n THEN Absent ELSE w.runAfter[x]]]
           placed == AddNewEdge(links, p, n, add)
<1>1. p \in Ends /\ p # NoNode /\ p # Heading(Root) /\ n # Root /\ p # n
  BY MenuHasParts, FlatIds, IdsAreDistinct DEF Operations
<1>2. placed.edges = w.edges[Root] \cup {<<p, n>>}
      /\ placed.runAfter = [x \in Defined(w) \cup {n} |-> IF x = n THEN own ELSE w.runAfter[x]]
  BY DEF AddNewEdge
<1>3. /\ v.edges[Root] = placed.edges /\ v.runAfter = placed.runAfter
      /\ v.isRoot = w.isRoot /\ HasMetadata(v) = HasMetadata(w) \cup {n}
  <2> HIDE DEF placed
  <2>1. \A ra, gr : DOMAIN [x \in HasMetadata(w) \cup {n} |-> IF x = n THEN gr ELSE ra[x]]
          = HasMetadata(w) \cup {n}
    OBVIOUS
  <2> QED BY <1>1, FlatIds DEF AddedBeside, AddNodeToWorkflow, placed, HasMetadata
<1> HIDE DEF placed, links
<1>4. Defined(v) = Defined(w) \cup {n}
      /\ v.runAfter[n] = own /\ \A x \in Defined(w) : v.runAfter[x] = w.runAfter[x]
  BY <1>2, <1>3 DEF Defined
<1>5. Keys(own) = (IF p \in Triggers THEN {} ELSE {p}) /\ HasStatuses(own)
  <2>1. p \in w.isRoot <=> p \in Triggers
    BY DEF MenuState
  <2>2. IsRunAfter(Absent) /\ Keys(Absent) = {} /\ Succeeded \in Status
    BY DEF IsRunAfter, Keys, Status
  <2>3. Keys(WithKey(Absent, p, Succeeded)) = {p} /\ WithKey(Absent, p, Succeeded)[p] = Succeeded
    BY <1>1, <2>2, WithKeyHasKeys
  <2> QED BY <2>1, <2>2, <2>3, StatusesDistinct DEF HasStatuses
<1> HIDE DEF own, add
<1>6. \A m \in Defined(w) : Keys(v.runAfter[m]) = Keys(w.runAfter[m])
  BY <1>4
<1>7. HasMetadata(v) = Defined(v) /\ v.isRoot = Triggers \cap Defined(v)
  BY <1>3, <1>4, FlatIds DEF MenuState
<1>8. EdgesEnterActions(v)
  <2> SUFFICES ASSUME NEW q, NEW c, <<q, c>> \in v.edges[Root]
               PROVE  q \in Defined(v) \cup {NoNode} /\ c \in Defined(v) \ Triggers
    BY DEF EdgesEnterActions
  <2>1. CASE <<q, c>> = <<p, n>>
    BY <1>4, <2>1, FlatIds
  <2>2. CASE <<q, c>> \in w.edges[Root]
    BY <1>4, <2>2 DEF MenuState, EdgesEnterActions
  <2> QED BY <1>2, <1>3, <2>1, <2>2
<1>9. KeysAreDrawn(v)
  <2> SUFFICES ASSUME NEW c \in Defined(v)
               PROVE  /\ HasStatuses(v.runAfter[c])
                      /\ \A q \in Keys(v.runAfter[c]) : <<q, c>> \in v.edges[Root]
    BY DEF KeysAreDrawn
  <2>1. CASE c = n
    BY <1>2, <1>3, <1>4, <1>5, <2>1
  <2>2. CASE c \in Defined(w)
    BY <1>2, <1>3, <1>4, <2>2 DEF MenuState, KeysAreDrawn
  <2> QED BY <1>4, <2>1, <2>2
<1>10. EdgesAreKeys(v)
  <2> SUFFICES ASSUME NEW q, NEW c, <<q, c>> \in v.edges[Root]
               PROVE  \/ q \in Triggers \cup Keys(v.runAfter[c])
                      \/ q = NoNode /\ Keys(v.runAfter[c]) = {}
    BY DEF EdgesAreKeys
  <2>1. CASE <<q, c>> = <<p, n>>
    BY <1>4, <1>5, <2>1
  <2>2. CASE <<q, c>> \in w.edges[Root]
    <3>1. c \in Defined(w)
      BY <2>2 DEF MenuState, EdgesEnterActions
    <3> QED BY <1>6, <2>2, <3>1 DEF MenuState, EdgesAreKeys
  <2> QED BY <1>2, <1>3, <2>1, <2>2
<1>11. ASSUME NEW m PROVE RunsAfter(v, m) \subseteq RunsAfter(w, m) \cup (IF m = p THEN {n} ELSE {})
  <2>1. RunsAfter(v, m) = {c \in Defined(v) : m \in Keys(v.runAfter[c])}
        /\ RunsAfter(w, m) = {c \in Defined(w) : m \in Keys(w.runAfter[c])}
    BY <1>9, RunsAfterAreKeyed DEF MenuState
  <2> QED BY <2>1, <1>4, <1>5, <1>6
<1> QED BY <1>4, <1>7, <1>8, <1>9, <1>10, <1>11 DEF MenuState

(* A state whose metadata is that of w, with other edges and keys. *)
LEMMA MenuOfLinks ==
  ASSUME NEW w, MenuState(w), NEW v, IsWellFormed(v), v.isRoot = w.isRoot,
         HasMetadata(v) = HasMetadata(w), Defined(v) = Defined(w),
         EdgesEnterActions(v), KeysAreDrawn(v), EdgesAreKeys(v)
  PROVE  MenuState(v)
BY DEF MenuState

(* A parent p is ticked for n, which has another one. *)
LEMMA TickKeepsMenu ==
  ASSUME Scopes = {}, NEW w, MenuState(w), NEW n \in Defined(w), Keys(w.runAfter[n]) # {},
         NEW p \in Defined(w),
         NEW v, v = Ticked(w, n, p), IsWellFormed(v)
  PROVE  /\ MenuState(v)
         /\ Defined(v) = Defined(w)
         /\ \A m : RunsAfter(v, m) \subseteq RunsAfter(w, m) \cup (IF m = p THEN {n} ELSE {})
<1> DEFINE own == WithKey(w.runAfter[n], p, Succeeded)
<1>1. w.runAfter = [x \in Defined(w) |-> w.runAfter[x]] /\ p \in Ends
      /\ IsRunAfter(w.runAfter[n]) /\ n \in DOMAIN w.runAfter
  BY MenuHasParts, FlatIds DEF MenuState, IsWellFormed, IsState, Defined
<1>2. /\ v.edges[Root] = w.edges[Root] \cup {<<p, n>>}
      /\ v.runAfter = [w.runAfter EXCEPT ![n] = own]
      /\ v.isRoot = w.isRoot /\ HasMetadata(v) = HasMetadata(w)
  BY <1>1, MenuHasParts DEF Ticked, WithLinks, AddNewEdge, Links, HasMetadata
<1> HIDE DEF own
<1>3. Defined(v) = Defined(w) /\ v.runAfter[n] = own
      /\ \A x \in Defined(w) \ {n} : v.runAfter[x] = w.runAfter[x]
  BY <1>1, <1>2 DEF Defined
<1>4. Keys(own) = Keys(w.runAfter[n]) \cup {p} /\ HasStatuses(own)
  <2>1. Succeeded \in Status /\ Succeeded # Undefined
    BY StatusesDistinct DEF Status
  <2>2. HasStatuses(w.runAfter[n])
    BY DEF MenuState, KeysAreDrawn
  <2> QED BY <1>1, <2>1, <2>2, WithKeyHasKeys DEF own, HasStatuses
<1>5. n \notin Triggers
  BY DEF MenuState, KeysAreDrawn, EdgesEnterActions
<1>6. EdgesEnterActions(v)
  <2> SUFFICES ASSUME NEW q, NEW c, <<q, c>> \in v.edges[Root]
               PROVE  q \in Defined(v) \cup {NoNode} /\ c \in Defined(v) \ Triggers
    BY DEF EdgesEnterActions
  <2>1. CASE <<q, c>> = <<p, n>>
    BY <1>3, <1>5, <2>1
  <2>2. CASE <<q, c>> \in w.edges[Root]
    BY <1>3, <2>2 DEF MenuState, EdgesEnterActions
  <2> QED BY <1>2, <2>1, <2>2
<1>7. KeysAreDrawn(v)
  <2> SUFFICES ASSUME NEW c \in Defined(w)
               PROVE  /\ HasStatuses(v.runAfter[c])
                      /\ \A q \in Keys(v.runAfter[c]) : <<q, c>> \in v.edges[Root]
    BY <1>3 DEF KeysAreDrawn
  <2>1. CASE c = n
    BY <1>2, <1>3, <1>4, <2>1 DEF MenuState, KeysAreDrawn
  <2>2. CASE c # n
    BY <1>2, <1>3, <2>2 DEF MenuState, KeysAreDrawn
  <2> QED BY <2>1, <2>2
<1>8. EdgesAreKeys(v)
  <2> SUFFICES ASSUME NEW q, NEW c, <<q, c>> \in v.edges[Root]
               PROVE  \/ q \in Triggers \cup Keys(v.runAfter[c])
                      \/ q = NoNode /\ Keys(v.runAfter[c]) = {}
    BY DEF EdgesAreKeys
  <2>1. CASE <<q, c>> = <<p, n>>
    BY <1>3, <1>4, <2>1
  <2>2. CASE <<q, c>> \in w.edges[Root]
    <3>1. c \in Defined(w)
      BY <2>2 DEF MenuState, EdgesEnterActions
    <3>2. CASE c = n
      BY <1>3, <1>4, <2>2, <3>2 DEF MenuState, EdgesAreKeys
    <3>3. CASE c # n
      BY <1>3, <2>2, <3>1, <3>3 DEF MenuState, EdgesAreKeys
    <3> QED BY <3>2, <3>3
  <2> QED BY <1>2, <2>1, <2>2
<1>9. ASSUME NEW m PROVE RunsAfter(v, m) \subseteq RunsAfter(w, m) \cup (IF m = p THEN {n} ELSE {})
  <2>1. RunsAfter(v, m) = {c \in Defined(v) : m \in Keys(v.runAfter[c])}
        /\ RunsAfter(w, m) = {c \in Defined(w) : m \in Keys(w.runAfter[c])}
    BY <1>7, RunsAfterAreKeyed DEF MenuState
  <2>2. \A c \in Defined(w) \ {n} : Keys(v.runAfter[c]) = Keys(w.runAfter[c])
    BY <1>3
  <2> QED BY <2>1, <2>2, <1>3, <1>4
<1> QED BY <1>2, <1>3, <1>6, <1>7, <1>8, <1>9, MenuOfLinks

(* A parent p of n is unticked, and another key is left. *)
LEMMA UntickKeepsMenu ==
  ASSUME Scopes = {}, NEW w, MenuState(w), NEW n \in Defined(w),
         NEW p \in Defined(w), p \in Keys(w.runAfter[n]),
         NEW v, v = WithLinks(w, Root, RemoveEdge(Links(w, Root), p, n)), IsWellFormed(v)
  PROVE  /\ MenuState(v)
         /\ Defined(v) = Defined(w)
         /\ \A m : RunsAfter(v, m) \subseteq RunsAfter(w, m)
<1> DEFINE own == WithoutKey(w.runAfter[n], p)
<1>1. w.runAfter = [x \in Defined(w) |-> w.runAfter[x]]
      /\ IsRunAfter(w.runAfter[n]) /\ n \in DOMAIN w.runAfter
  BY MenuHasParts, FlatIds DEF MenuState, IsWellFormed, IsState, Defined
<1>2. /\ v.edges[Root] = w.edges[Root] \ {<<p, n>>}
      /\ v.runAfter = [w.runAfter EXCEPT ![n] = own]
      /\ v.isRoot = w.isRoot /\ HasMetadata(v) = HasMetadata(w)
  BY <1>1, MenuHasParts DEF WithLinks, RemoveEdge, Links, HasMetadata
<1> HIDE DEF own
<1>3. Defined(v) = Defined(w) /\ v.runAfter[n] = own
      /\ \A x \in Defined(w) \ {n} : v.runAfter[x] = w.runAfter[x]
  BY <1>1, <1>2 DEF Defined
<1>4. Keys(own) = Keys(w.runAfter[n]) \ {p} /\ HasStatuses(own)
  <2>1. HasStatuses(w.runAfter[n])
    BY DEF MenuState, KeysAreDrawn
  <2> QED BY <1>1, <2>1, WithoutKeyHasKeys DEF own, HasStatuses
<1>5. EdgesEnterActions(v)
  BY <1>2, <1>3 DEF MenuState, EdgesEnterActions
<1>6. KeysAreDrawn(v)
  <2> SUFFICES ASSUME NEW c \in Defined(w)
               PROVE  /\ HasStatuses(v.runAfter[c])
                      /\ \A q \in Keys(v.runAfter[c]) : <<q, c>> \in v.edges[Root]
    BY <1>3 DEF KeysAreDrawn
  <2>1. CASE c = n
    BY <1>2, <1>3, <1>4, <2>1 DEF MenuState, KeysAreDrawn
  <2>2. CASE c # n
    BY <1>2, <1>3, <2>2 DEF MenuState, KeysAreDrawn
  <2> QED BY <2>1, <2>2
<1>7. EdgesAreKeys(v)
  <2> SUFFICES ASSUME NEW q, NEW c, <<q, c>> \in v.edges[Root]
               PROVE  \/ q \in Triggers \cup Keys(v.runAfter[c])
                      \/ q = NoNode /\ Keys(v.runAfter[c]) = {}
    BY DEF EdgesAreKeys
  <2>1. <<q, c>> \in w.edges[Root] /\ <<q, c>> # <<p, n>>
    BY <1>2
  <2>2. c \in Defined(w)
    BY <2>1 DEF MenuState, EdgesEnterActions
  <2>3. \/ q \in Triggers \cup Keys(w.runAfter[c])
        \/ q = NoNode /\ Keys(w.runAfter[c]) = {}
    BY <2>1 DEF MenuState, EdgesAreKeys
  <2>4. CASE c = n
    BY <1>3, <1>4, <2>1, <2>3, <2>4
  <2>5. CASE c # n
    BY <1>3, <2>2, <2>3, <2>5
  <2> QED BY <2>4, <2>5
<1>8. ASSUME NEW m PROVE RunsAfter(v, m) \subseteq RunsAfter(w, m)
  <2>1. RunsAfter(v, m) = {c \in Defined(v) : m \in Keys(v.runAfter[c])}
        /\ RunsAfter(w, m) = {c \in Defined(w) : m \in Keys(w.runAfter[c])}
    BY <1>6, RunsAfterAreKeyed DEF MenuState
  <2>2. \A c \in Defined(w) \ {n} : Keys(v.runAfter[c]) = Keys(w.runAfter[c])
    BY <1>3
  <2> QED BY <2>1, <2>2, <1>3, <1>4
<1> QED BY <1>2, <1>3, <1>5, <1>6, <1>7, <1>8, MenuOfLinks

(* A parent of n is given another status. *)
LEMMA StatusKeepsMenu ==
  ASSUME Scopes = {}, NEW w, MenuState(w), NEW n \in Defined(w),
         NEW p \in Keys(w.runAfter[n]), NEW status \in Status \ {Undefined},
         NEW v, v = [w EXCEPT !.runAfter[n] = WithKey(w.runAfter[n], p, status)],
         IsWellFormed(v)
  PROVE  /\ MenuState(v)
         /\ Defined(v) = Defined(w)
         /\ \A m : RunsAfter(v, m) \subseteq RunsAfter(w, m)
<1> DEFINE own == WithKey(w.runAfter[n], p, status)
<1>1. /\ w = [children |-> w.children, edges |-> w.edges, runAfter |-> w.runAfter,
              graphOf |-> w.graphOf, isRoot |-> w.isRoot]
      /\ w.runAfter = [x \in Defined(w) |-> w.runAfter[x]]
      /\ IsRunAfter(w.runAfter[n]) /\ p \in Ends
  BY MenuHasParts, FlatIds DEF MenuState, IsWellFormed, IsState
<1> HIDE DEF own
<1>2. v = [w EXCEPT !.runAfter[n] = own]
  BY DEF own
<1>3. /\ v.edges = w.edges /\ v.runAfter = [w.runAfter EXCEPT ![n] = own]
      /\ v.isRoot = w.isRoot /\ HasMetadata(v) = HasMetadata(w)
  BY <1>1, <1>2 DEF HasMetadata
<1>4. Defined(v) = Defined(w) /\ v.runAfter[n] = own
      /\ \A x \in Defined(w) \ {n} : v.runAfter[x] = w.runAfter[x]
  BY <1>1, <1>3 DEF Defined
<1>5. Keys(own) = Keys(w.runAfter[n]) /\ HasStatuses(own)
  <2>1. HasStatuses(w.runAfter[n])
    BY DEF MenuState, KeysAreDrawn
  <2>2. /\ Keys(own) = Keys(w.runAfter[n]) \cup {p} /\ own[p] = status
        /\ \A k \in Keys(w.runAfter[n]) \ {p} : own[k] = w.runAfter[n][k]
    BY <1>1, WithKeyHasKeys DEF own
  <2> QED BY <2>1, <2>2 DEF HasStatuses
<1>6. \A x \in Defined(w) : Keys(v.runAfter[x]) = Keys(w.runAfter[x])
                           /\ HasStatuses(v.runAfter[x])
  BY <1>4, <1>5 DEF MenuState, KeysAreDrawn
<1>7. EdgesEnterActions(v)
  BY <1>3, <1>4 DEF MenuState, EdgesEnterActions
<1>8. KeysAreDrawn(v)
  BY <1>3, <1>4, <1>6 DEF MenuState, KeysAreDrawn
<1>9. EdgesAreKeys(v)
  BY <1>3, <1>6 DEF MenuState, EdgesAreKeys, EdgesEnterActions
<1>10. ASSUME NEW m PROVE RunsAfter(v, m) \subseteq RunsAfter(w, m)
  <2>1. RunsAfter(v, m) = {c \in Defined(v) : m \in Keys(v.runAfter[c])}
        /\ RunsAfter(w, m) = {c \in Defined(w) : m \in Keys(w.runAfter[c])}
    BY <1>8, RunsAfterAreKeyed DEF MenuState
  <2> QED BY <2>1, <1>4, <1>6
<1> QED BY <1>3, <1>4, <1>7, <1>8, <1>9, <1>10, MenuOfLinks

(* An operation that one edge enters at most has one key at most. *)
LEMMA OneEdgeOneKey ==
  ASSUME Scopes = {}, NEW w, MenuState(w), NEW n \in Defined(w),
         Cardinality(Sources(Links(w, Root), n)) < 2
  PROVE  /\ ~HasMultipleParents(w, n)
         /\ \A p, q \in Sources(Links(w, Root), n) : p = q
<1> DEFINE S == Sources(Links(w, Root), n)
           K == Keys(w.runAfter[n])
<1>1. IsFiniteSet(S) /\ Cardinality(S) \in Nat
  <2>1. IsFiniteSet(Operations \cup {NoNode})
    BY OperationsAreFinite, FS_AddElement
  <2>2. S \in SUBSET (Operations \cup {NoNode})
    BY MenuHasParts DEF Sources, Links, MenuState, EdgesEnterActions
  <2> HIDE DEF S
  <2> QED BY <2>1, <2>2, FS_Subset, FS_CardinalityType
<1>2. K \subseteq S
  <2> SUFFICES ASSUME NEW p \in K PROVE p \in S
    OBVIOUS
  <2>1. <<p, n>> \in w.edges[Root]
    BY DEF MenuState, KeysAreDrawn
  <2> QED BY <2>1 DEF Sources, Links
<1>3. Cardinality(K) =< Cardinality(S) /\ Cardinality(K) \in Nat
  <2> HIDE DEF K, S
  <2> QED BY <1>1, <1>2, FS_Subset, FS_CardinalityType
<1>4. ~HasMultipleParents(w, n)
  <2>1. RunAfterOf(w.runAfter, n) = w.runAfter[n]
    BY DEF RunAfterOf, Defined
  <2> HIDE DEF S
  <2> QED BY <1>1, <1>3, <2>1 DEF HasMultipleParents, S
<1>5. ASSUME NEW p \in S PROVE S = {p}
  <2>1. {p} \in SUBSET S /\ Cardinality({p}) = 1
    BY FS_Singleton
  <2> HIDE DEF S
  <2>2. 1 =< Cardinality(S)
    BY <1>1, <2>1, FS_Subset
  <2>3. Cardinality(S) = Cardinality({p})
    BY <1>1, <2>1, <2>2 DEF S
  <2> QED BY <1>1, <2>1, <2>3, FS_Subset
<1> QED BY <1>4, <1>5

(* An operation n that one edge at most enters, from x, is deleted.        *)
LEMMA DeleteKeepsMenu ==
  ASSUME Scopes = {}, NEW w, MenuState(w), InOrder(w), NEW n \in Actions, n \in Defined(w),
         ~HasMultipleParents(w, n), NEW x \in Ends,
         \A p \in Sources(Links(w, Root), n) : p = x,
         x # NoNode => <<x, n>> \in w.edges[Root],
         NEW v, v = DeleteNodeFromWorkflow(w, n, Root, x), IsWellFormed(v)
  PROVE  /\ MenuState(v)
         /\ Defined(v) = Defined(w) \ {n}
         /\ \A m : RunsAfter(v, m) \subseteq
                     (RunsAfter(w, m) \cup (IF m = x THEN RunsAfter(w, n) ELSE {})) \ {n}
         /\ x \in Actions => n \in RunsAfter(w, x)
<1> DEFINE l == Links(w, Root)
           ra == w.runAfter
           children == Targets(l, n)
           isNew == IsRootNodeInGraph(w, x, Root)
           Before(c) == IF c \in {d \in children : <<x, d>> \in w.edges[Root]}
                        THEN WithoutKey(ra[c], n) ELSE ra[c]
           After(c) == IF c \in children
                       THEN MoveRunAfterSource(Before(c), n, x, FALSE, isNew)
                       ELSE ra[c]
           given == ReassignEdgeSources(l, n, x, FALSE, isNew)
           left == RemoveEdge(given, x, n)
<1>1. /\ n \notin Triggers /\ n # Root /\ n # NoNode /\ n \in Operations
      /\ n \notin w.isRoot /\ NoNode \notin Operations
  BY FlatIds, IdsAreDistinct, Ids DEF MenuState
<1>2. \A c : c \in children <=> <<n, c>> \in w.edges[Root]
  BY MenuHasParts DEF Targets, Links
<1>3. \A p : <<p, n>> \in w.edges[Root] => p = x
  BY DEF Sources, Links
<1>4. \A c \in children : /\ c \in Defined(w) \ Triggers
                          /\ n \in Keys(ra[c])
  BY <1>1, <1>2 DEF MenuState, EdgesEnterActions, EdgesAreKeys
<1>5. n \notin children
  <2> SUFFICES ASSUME n \in children PROVE FALSE
    OBVIOUS
  <2>1. n \in RunsAfter(w, n)
    BY <1>4, RunsAfterAreKeyed DEF MenuState
  <2> QED BY <2>1, MenuHasParts, SuccessorsAreClosed DEF InOrder
<1>6. x # n
  BY <1>1, <1>2, <1>5
<1>7. isNew <=> x \in Triggers /\ x \in Defined(w)
  BY MenuHasParts DEF MenuState, IsRootNodeInGraph
<1>8. x \in Triggers => x \in Defined(w)
  <2> SUFFICES ASSUME x \in Triggers PROVE x \in Defined(w)
    OBVIOUS
  <2>1. x # NoNode
    BY <1>1 DEF Operations
  <2> QED BY <2>1 DEF MenuState, EdgesEnterActions
<1> HIDE DEF isNew
<1>9. v.edges[Root] = left.edges /\ Defined(v) = Defined(w) \ {n}
      /\ HasMetadata(v) = HasMetadata(w) \ {n} /\ v.isRoot = w.isRoot
      /\ v.runAfter = [m \in Defined(w) \ {n} |-> left.runAfter[m]]
  <2>1. DetachNode(l, w, n, x) = left
    BY DEF DetachNode, isNew
  <2> HIDE DEF left
  <2> QED BY <2>1, <1>1, FlatIds DEF DeleteNodeFromWorkflow, Defined, HasMetadata
<1>10. left.edges = {IF e[1] = n THEN <<x, e[2]>> ELSE e : e \in w.edges[Root]} \ {<<x, n>>}
  BY DEF RemoveEdge, ReassignEdgeSources, Links
<1>11. given.runAfter = [m \in Defined(w) |-> After(m)]
  BY DEF ReassignEdgeSources, Links, Defined
<1>12. \A m \in Defined(w) \ {n} : left.runAfter[m] = After(m)
  <2> HIDE DEF After, given
  <2> QED BY <1>11 DEF RemoveEdge
<1>13. \A m \in Defined(v) : v.runAfter[m] = After(m)
  <2> HIDE DEF After, left
  <2> QED BY <1>9, <1>12
<1> HIDE DEF left, given
<1>14. ASSUME NEW c \in children
       PROVE  /\ \A q : q \in Keys(After(c)) <=>
                         (q # n /\ (q \in Keys(ra[c]) \/ (~isNew /\ q = x)))
              /\ HasStatuses(After(c))
  <2>1. IsRunAfter(ra[c]) /\ HasStatuses(ra[c]) /\ n \in Keys(ra[c])
    BY <1>4, MenuHasParts DEF MenuState, KeysAreDrawn
  <2>2. Before(c) \in {ra[c], WithoutKey(ra[c], n)}
    OBVIOUS
  <2>3. Before(c) = ra[c] \/ isNew \/ x \in Keys(ra[c])
    <3>1. CASE <<x, c>> \in w.edges[Root]
      BY <1>4, <1>7, <1>8, <3>1 DEF MenuState, EdgesAreKeys
    <3>2. CASE <<x, c>> \notin w.edges[Root]
      BY <3>2
    <3> QED BY <3>1, <3>2
  <2>4. isNew \in BOOLEAN
    BY DEF isNew, IsRootNodeInGraph
  <2>5. After(c) = MoveRunAfterSource(Before(c), n, x, FALSE, isNew)
    OBVIOUS
  <2> HIDE DEF Before, After, ra, children
  <2>6. PICK R : isNew = (x \in R)
    <3> DEFINE R == IF isNew THEN {x} ELSE {}
    <3>1. isNew = (x \in R)
      BY <2>4
    <3> QED BY <3>1, Zenon
  <2>7. Before(c) = ra[c] \/ x \in R \/ x \in Keys(ra[c])
    BY <2>3, <2>6, Zenon
  <2>8. After(c) = MovedFrom(Before(c), n, x, R)
    BY <2>5, <2>6, Zenon DEF MovedFrom
  <2>9. /\ \A q : q \in Keys(After(c)) <=>
                   (q # n /\ (q \in Keys(ra[c]) \/ (x \notin R /\ q = x)))
        /\ HasStatuses(After(c))
    <3> HIDE <2>6
    <3> QED BY <1>6, <2>1, <2>2, <2>7, <2>8, MovedKeys
  <2>10. isNew <=> x \in R
    BY <2>6, Zenon
  <2> QED BY <2>9, <2>10
<1>15. \A c \in Defined(w) \ children : After(c) = ra[c]
  OBVIOUS
<1> HIDE DEF After, Before
<1>16. \A q, c : <<q, c>> \in v.edges[Root] <=>
         c # n /\ (\/ <<q, c>> \in w.edges[Root] /\ q # n
                   \/ q = x /\ c \in children)
  <2> SUFFICES ASSUME NEW q, NEW c
               PROVE  <<q, c>> \in v.edges[Root] <=>
                        c # n /\ (\/ <<q, c>> \in w.edges[Root] /\ q # n
                                  \/ q = x /\ c \in children)
    OBVIOUS
  <2>1. ASSUME <<q, c>> \in v.edges[Root]
        PROVE  c # n /\ (\/ <<q, c>> \in w.edges[Root] /\ q # n
                         \/ q = x /\ c \in children)
    <3>1. PICK e \in w.edges[Root] : <<q, c>> = IF e[1] = n THEN <<x, e[2]>> ELSE e
      BY <1>9, <1>10, <2>1
    <3>2. e = <<e[1], e[2]>> /\ <<q, c>> # <<x, n>>
      BY <1>9, <1>10, <2>1, MenuHasParts
    <3>3. CASE e[1] = n
      BY <1>2, <1>5, <3>1, <3>2, <3>3
    <3>4. CASE e[1] # n
      BY <1>3, <3>1, <3>2, <3>4
    <3> QED BY <3>3, <3>4
  <2>2. ASSUME c # n, <<q, c>> \in w.edges[Root], q # n
        PROVE  <<q, c>> \in v.edges[Root]
    BY <1>9, <1>10, <2>2
  <2>3. ASSUME c # n, q = x, c \in children
        PROVE  <<q, c>> \in v.edges[Root]
    <3> DEFINE e == <<n, c>>
    <3>1. e \in w.edges[Root]
      BY <1>2, <2>3
    <3>2. <<x, c>> = (IF e[1] = n THEN <<x, e[2]>> ELSE e) /\ <<x, c>> # <<x, n>>
      BY <2>3
    <3> HIDE DEF e
    <3> QED BY <1>9, <1>10, <2>3, <3>1, <3>2
  <2> QED BY <2>1, <2>2, <2>3
<1>17. EdgesEnterActions(v)
  <2> SUFFICES ASSUME NEW q, NEW c, <<q, c>> \in v.edges[Root]
               PROVE  q \in Defined(v) \cup {NoNode} /\ c \in Defined(v) \ Triggers
    BY DEF EdgesEnterActions
  <2>1. CASE <<q, c>> \in w.edges[Root] /\ q # n
    BY <1>9, <1>16, <2>1 DEF MenuState, EdgesEnterActions
  <2>2. CASE q = x /\ c \in children
    BY <1>4, <1>6, <1>9, <1>16, <2>2 DEF MenuState, EdgesEnterActions
  <2> QED BY <1>16, <2>1, <2>2
<1>18. KeysAreDrawn(v)
  <2> SUFFICES ASSUME NEW c \in Defined(v)
               PROVE  /\ HasStatuses(v.runAfter[c])
                      /\ \A q \in Keys(v.runAfter[c]) : <<q, c>> \in v.edges[Root]
    BY DEF KeysAreDrawn
  <2>1. c \in Defined(w) /\ c # n /\ \A q \in Keys(ra[c]) : <<q, c>> \in w.edges[Root]
    BY <1>9 DEF MenuState, KeysAreDrawn
  <2>2. CASE c \in children
    BY <1>13, <1>14, <1>16, <2>1, <2>2
  <2>3. CASE c \notin children
    <3>1. v.runAfter[c] = ra[c] /\ HasStatuses(ra[c])
      BY <1>13, <1>15, <2>1, <2>3 DEF MenuState, KeysAreDrawn
    <3>2. n \notin Keys(ra[c])
      BY <1>2, <2>1, <2>3
    <3> QED BY <1>16, <2>1, <3>1, <3>2
  <2> QED BY <2>2, <2>3
<1>19. EdgesAreKeys(v)
  <2> SUFFICES ASSUME NEW q, NEW c, <<q, c>> \in v.edges[Root]
               PROVE  \/ q \in Triggers \cup Keys(v.runAfter[c])
                      \/ q = NoNode /\ Keys(v.runAfter[c]) = {}
    BY DEF EdgesAreKeys
  <2>0. c \in Defined(v) /\ c \in Defined(w)
    BY <1>9, <1>17 DEF EdgesEnterActions
  <2>1. CASE q = x /\ c \in children
    BY <1>6, <1>7, <1>13, <1>14, <2>0, <2>1
  <2>2. CASE <<q, c>> \in w.edges[Root] /\ q # n
    <3>1. \/ q \in Triggers \cup Keys(ra[c])
          \/ q = NoNode /\ Keys(ra[c]) = {}
      BY <2>2 DEF MenuState, EdgesAreKeys
    <3>2. CASE c \in children
      BY <1>4, <1>13, <1>14, <2>0, <2>2, <3>1, <3>2
    <3>3. CASE c \notin children
      BY <1>13, <1>15, <2>0, <3>1, <3>3
    <3> QED BY <3>2, <3>3
  <2> QED BY <1>16, <2>1, <2>2
<1>20. MenuState(v)
  BY <1>1, <1>9, <1>17, <1>18, <1>19 DEF MenuState
<1>21. ASSUME NEW m
       PROVE  RunsAfter(v, m) \subseteq
                (RunsAfter(w, m) \cup (IF m = x THEN RunsAfter(w, n) ELSE {})) \ {n}
  <2>1. \A k : /\ RunsAfter(v, k) = {c \in Defined(v) : k \in Keys(v.runAfter[c])}
               /\ RunsAfter(w, k) = {c \in Defined(w) : k \in Keys(w.runAfter[c])}
    BY <1>18, RunsAfterAreKeyed DEF MenuState
  <2> SUFFICES ASSUME NEW c \in Defined(v), m \in Keys(v.runAfter[c])
               PROVE  c # n /\ (c \in RunsAfter(w, m) \/ (m = x /\ c \in RunsAfter(w, n)))
    BY <2>1
  <2>2. c \in Defined(w) /\ c # n
    BY <1>9
  <2>3. CASE c \in children
    BY <1>4, <1>13, <1>14, <2>1, <2>2, <2>3
  <2>4. CASE c \notin children
    BY <1>13, <1>15, <2>1, <2>2, <2>4
  <2> QED BY <2>2, <2>3, <2>4
<1>22. x \in Actions => n \in RunsAfter(w, x)
  <2> SUFFICES ASSUME x \in Actions PROVE n \in RunsAfter(w, x)
    OBVIOUS
  <2>1. x # NoNode /\ x \notin Triggers
    BY FlatIds, Ids
  <2>2. x \in Keys(ra[n])
    BY <2>1 DEF MenuState, EdgesAreKeys
  <2> QED BY <2>2, RunsAfterAreKeyed DEF MenuState
<1> QED BY <1>9, <1>20, <1>21, <1>22

-----------------------------------------------------------------------------
(* The menu's state always holds.                                          *)

(* What a definition without scopes is opened as: one graph of its trigger *)
(* and actions, in which the actions that run after nothing hang from the  *)
(* trigger, and an edge is drawn for every key.                            *)
LEMMA FlatIsOpened ==
  ASSUME Scopes = {}, NEW d \in Definitions, NEW w, w = Deserialize(d),
         NEW trigger, trigger = {d.trigger} \ {NoNode}
  PROVE  /\ DOMAIN d.graphOf \subseteq Actions /\ trigger \subseteq Triggers
         /\ Defined(w) = DOMAIN d.graphOf \cup trigger
         /\ HasMetadata(w) = Defined(w) /\ w.children[Root] = Defined(w)
         /\ \A a \in DOMAIN d.graphOf : w.runAfter[a] = d.runAfter[a]
                                        /\ Keys(d.runAfter[a]) \subseteq DOMAIN d.graphOf
         /\ \A n \in trigger : w.runAfter[n] = Absent
         /\ w.isRoot = trigger /\ trigger = Triggers \cap Defined(w)
         /\ \A p, c : <<p, c>> \in w.edges[Root] <=>
              c \in DOMAIN d.graphOf /\ (\/ p = d.trigger /\ Keys(d.runAfter[c]) = {}
                                         \/ p \in Keys(d.runAfter[c]))
<1> DEFINE actions == DOMAIN d.graphOf
           In(g) == {a \in actions : d.graphOf[a] = g}
           Roots(g) == {a \in In(g) : Keys(d.runAfter[a]) = {}}
           After(g) == UNION {{<<p, a>> : p \in Keys(d.runAfter[a])} : a \in In(g)}
           Heads(g) == {IF g = Root THEN d.trigger ELSE Heading(g)}
           Flow(g) == (Heads(g) \X Roots(g)) \cup After(g)
           Leaves(g) == {n \in In(g) \cup Heads(g) : \A e \in Flow(g) : e[1] # n}
           Tail(g) == IF g \in Untils \cap actions THEN Leaves(g) \X {Footer(g)} ELSE {}
           present == {Root} \cup (Scopes \cap actions)
<1>1. /\ Untils = {} /\ Graphs = {Root} /\ Triggers \cap Actions = {}
      /\ NoNode \notin Triggers /\ NoNode \notin Actions
  BY FlatIds, IdsAreDistinct
<1>2. /\ d.trigger \in Triggers \cup {NoNode} /\ actions \subseteq Actions
      /\ DOMAIN d.runAfter = actions
      /\ \A a \in actions : d.graphOf[a] = Root /\ Keys(d.runAfter[a]) \subseteq actions
  BY <1>1, DefinitionsAreSound
<1>3. /\ w.children = [g \in Graphs |-> In(g) \cup (IF g = Root THEN trigger ELSE {})]
      /\ w.edges = [g \in Graphs |-> IF g \in present THEN Flow(g) \cup Tail(g) ELSE {}]
      /\ w.runAfter = [n \in actions \cup trigger |->
                         IF n \in trigger THEN Absent ELSE d.runAfter[n]]
      /\ w.graphOf = [n \in actions \cup trigger |->
                         IF n \in trigger THEN Root ELSE d.graphOf[n]]
      /\ w.isRoot = trigger \cup UNION {Roots(g) : g \in Scopes}
  BY DEF Deserialize
<1>4. actions \cap trigger = {} /\ trigger \subseteq Triggers /\ actions \cap Triggers = {}
  BY <1>1, <1>2
<1>5. /\ Defined(w) = actions \cup trigger /\ HasMetadata(w) = Defined(w)
      /\ \A a \in actions : w.runAfter[a] = d.runAfter[a]
      /\ \A n \in trigger : w.runAfter[n] = Absent
  <2> HIDE DEF Flow, Tail, Roots, In
  <2> QED BY <1>2, <1>3, <1>4 DEF Defined, HasMetadata
<1>6. w.isRoot = trigger /\ trigger = Triggers \cap Defined(w)
  <2>1. UNION {Roots(g) : g \in Scopes} = {}
    OBVIOUS
  <2> HIDE DEF Flow, Tail, Roots, In
  <2> QED BY <1>3, <1>4, <1>5, <2>1
<1>7. In(Root) = actions
  BY <1>2
<1>8. w.children[Root] = Defined(w)
  <2> HIDE DEF Flow, Tail, Roots, In
  <2> QED BY <1>1, <1>3, <1>5, <1>7
<1>9. w.edges[Root] = Flow(Root)
  <2> HIDE DEF Flow
  <2> QED BY <1>1, <1>3
<1>10. ASSUME NEW p, NEW c
       PROVE  <<p, c>> \in Flow(Root) <=>
                c \in actions /\ (\/ p = d.trigger /\ Keys(d.runAfter[c]) = {}
                                  \/ p \in Keys(d.runAfter[c]))
  <2>1. <<p, c>> \in After(Root) <=> c \in actions /\ p \in Keys(d.runAfter[c])
    BY <1>7
  <2>2. <<p, c>> \in Heads(Root) \X Roots(Root) <=>
          c \in actions /\ p = d.trigger /\ Keys(d.runAfter[c]) = {}
    BY <1>7
  <2> HIDE DEF After, Heads, Roots
  <2> QED BY <2>1, <2>2
<1> HIDE DEF Flow
<1> QED BY <1>2, <1>4, <1>5, <1>6, <1>8, <1>9, <1>10

(* A definition that is sound to run is opened in a state of the menu. *)
LEMMA DeserializeIsMenu ==
  ASSUME Scopes = {}, NEW d \in Definitions, RunsInOrder(d)
  PROVE  MenuState(Deserialize(d)) /\ InOrder(Deserialize(d))
<1> DEFINE w == Deserialize(d)
           actions == DOMAIN d.graphOf
           trigger == {d.trigger} \ {NoNode}
<1>1. /\ actions \subseteq Actions /\ trigger \subseteq Triggers
      /\ Defined(w) = actions \cup trigger
      /\ HasMetadata(w) = Defined(w)
      /\ \A a \in actions : w.runAfter[a] = d.runAfter[a] /\ Keys(d.runAfter[a]) \subseteq actions
      /\ \A n \in trigger : w.runAfter[n] = Absent
      /\ w.isRoot = Triggers \cap Defined(w)
      /\ \A p, c : <<p, c>> \in w.edges[Root] <=>
           c \in actions /\ (\/ p = d.trigger /\ Keys(d.runAfter[c]) = {}
                             \/ p \in Keys(d.runAfter[c]))
  <2>1. w = Deserialize(d) /\ trigger = {d.trigger} \ {NoNode}
    OBVIOUS
  <2> HIDE DEF w, trigger, actions
  <2> QED BY <2>1, FlatIsOpened DEF actions
<1>2. /\ DOMAIN d.runAfter = actions /\ d.trigger \in Triggers \cup {NoNode}
      /\ Triggers \cap Actions = {} /\ Keys(Absent) = {}
  BY DefinitionsAreSound, FlatIds DEF Keys
<1>3. InOrder(w)
  BY DEF RunsInOrder, InOrder
<1>4. IsWellFormed(w)
  BY DeserializeWellFormed
<1>5. \A a \in actions : HasStatuses(d.runAfter[a])
  BY <1>2 DEF RunsInOrder
<1> HIDE DEF w
<1>6. EdgesEnterActions(w)
  BY <1>1, <1>2 DEF EdgesEnterActions
<1>7. KeysAreDrawn(w)
  BY <1>1, <1>2, <1>5 DEF KeysAreDrawn, HasStatuses
<1>8. EdgesAreKeys(w)
  BY <1>1, <1>2 DEF EdgesAreKeys
<1> QED BY <1>1, <1>3, <1>4, <1>6, <1>7, <1>8 DEF MenuState, w

(* Nothing runs after itself once n is gone and what ran after it runs     *)
(* after x, which n ran after.                                             *)
LEMMA DeleteKeepsOrder ==
  ASSUME Scopes = {}, NEW w, MenuState(w), InOrder(w), NEW v, MenuState(v),
         NEW n, NEW x, Defined(v) = Defined(w) \ {n},
         \A m : RunsAfter(v, m) \subseteq
                  (RunsAfter(w, m) \cup (IF m = x THEN RunsAfter(w, n) ELSE {})) \ {n},
         x \in Actions => n \in RunsAfter(w, x)
  PROVE  InOrder(v)
<1> SUFFICES ASSUME NEW m \in Defined(v) PROVE m \notin Successors(v, m)
  BY DEF InOrder
<1>1. CASE m \in Triggers
  BY <1>1, TriggersRunFirst
<1>2. CASE m \notin Triggers
  <2> DEFINE S == Successors(w, m)
  <2>1. /\ m \in Defined(w) /\ m \notin S
        /\ Defined(w) \subseteq Triggers \cup Actions /\ Defined(v) \subseteq Operations
    BY MenuHasParts, FlatIds DEF InOrder
  <2>2. /\ RunsAfter(w, m) \subseteq S /\ S \subseteq Defined(w)
        /\ \A k \in S : RunsAfter(w, k) \subseteq S
    BY MenuHasParts, SuccessorsAreClosed
  <2>3. S \cap Triggers = {}
    BY TriggersRunFirst
  <2> HIDE DEF S
  <2>4. ASSUME NEW k \in S \cup {m} PROVE RunsAfter(v, k) \subseteq S
    <3>1. k \in Actions /\ RunsAfter(w, k) \subseteq S
      BY <1>2, <2>1, <2>2, <2>3
    <3>2. k = x => RunsAfter(w, n) \subseteq S
      BY <2>2, <3>1
    <3> QED BY <3>1, <3>2
  <2>5. Successors(v, m) \subseteq S
    BY <2>1, <2>4, SuccessorsAreClosed
  <2> QED BY <2>1, <2>5
<1> QED BY <1>1, <1>2

(* The parent a site of the canvas offers is a card of the workflow. *)
LEMMA ParentsAreDefined ==
  ASSUME Scopes = {}, NEW w, MenuState(w), NEW site \in Sites(w)
  PROVE  site.graph = Root /\ site.parent \in Defined(w) \cup {NoNode}
<1>1. site \in EdgeSites(w, Root) \cup LeafSites(w, Root)
  BY FlatIds DEF Sites
<1>2. Cards(w, Root) \subseteq Defined(w)
  BY MenuHasParts DEF Cards
<1>3. CASE site \in EdgeSites(w, Root)
  <2>1. PICK e \in w.edges[Root] :
          /\ {e[1], e[2]} \subseteq Cards(w, Root)
          /\ site \in {Site(Root, e[1], e[2]), Site(Root, e[1], NoNode), Site(Root, NoNode, e[2])}
    BY <1>3 DEF EdgeSites, DrawnEdges
  <2> QED BY <1>2, <2>1 DEF Site
<1>4. CASE site \in LeafSites(w, Root)
  BY <1>2, <1>4 DEF LeafSites, Site
<1> QED BY <1>1, <1>3, <1>4

(* The inductive invariant: no scope is being deleted, the workflow is in  *)
(* a state of the menu, and nothing runs after itself.                     *)
MenuInv == Inv /\ IsRendered /\ doomed = {} /\ MenuState(wf) /\ InOrder(wf)

(* A definition that is opened is in a state of the menu.                  *)
LEMMA InitMenu == MenuOnly /\ Init => MenuInv
<1> SUFFICES ASSUME MenuOnly, Init PROVE MenuInv
  OBVIOUS
<1>1. Inv
  BY InitInv
<1>2. IsRendered
  BY DEF Init, IsRendered, GraphPath
<1> QED BY <1>1, <1>2, DeserializeIsMenu DEF Init, MenuInv, MenuOnly

(* No edit near the menu leads out of these states.                        *)
LEMMA NextMenu == MenuOnly /\ MenuInv /\ [Next]_vars => MenuInv'
<1> SUFFICES ASSUME MenuOnly, MenuInv, [Next]_vars PROVE MenuInv'
  OBVIOUS
<1>1. Inv' /\ IsRendered' /\ IsWellFormed(wf')
  BY NextInv, NextRendered DEF MenuInv, Inv
<1>2. /\ Scopes = {} /\ MenuState(wf) /\ InOrder(wf) /\ doomed = {}
      /\ Graphs = {Root} /\ DOMAIN zones = Sites(wf)
      /\ Defined(wf) \subseteq Operations
  BY FlatIds, MenuHasParts DEF MenuOnly, MenuInv, IsRendered
<1>3. SUFFICES doomed' = {} /\ MenuState(wf') /\ InOrder(wf')
  BY <1>1 DEF MenuInv
<1>4. ASSUME NEW w, MenuState(w), MenuState(wf'),
             NEW p, NEW c, p # c, p \notin Successors(w, c), InOrder(w),
             Defined(wf') \subseteq Defined(w) \cup {c}, c \notin Successors(w, c),
             \A m : RunsAfter(wf', m) \subseteq RunsAfter(w, m) \cup (IF m = p THEN {c} ELSE {})
      PROVE  InOrder(wf')
  <2> SUFFICES ASSUME NEW m \in Defined(wf') PROVE m \notin Successors(wf', m)
    BY DEF InOrder
  <2>1. m \notin Successors(w, m)
    BY <1>4 DEF InOrder
  <2>2. Defined(w) \subseteq Operations /\ Defined(wf') \subseteq Operations
    BY <1>2, <1>4, MenuHasParts
  <2> QED BY <1>4, <2>1, <2>2, OrderOfOneMore
<1>5. ASSUME NEW n \in Actions \cup Scopes, NEW site \in Sites(wf), AddParallelBranch(n, site)
      PROVE  doomed' = {} /\ MenuState(wf') /\ InOrder(wf')
  <2> DEFINE p == site.parent
  <2>1. n \in Actions /\ n \notin Defined(wf) /\ p \in Defined(wf) /\ p # n
        /\ wf' = AddedBeside(wf, n, p) /\ doomed' = {}
    BY <1>2, <1>5, ParentsAreDefined DEF AddParallelBranch, AddedBeside
  <2> HIDE DEF p
  <2>2. /\ MenuState(wf') /\ Defined(wf') = Defined(wf) \cup {n}
        /\ \A m : RunsAfter(wf', m) \subseteq RunsAfter(wf, m) \cup (IF m = p THEN {n} ELSE {})
    BY <1>1, <1>2, <2>1, ParallelKeepsMenu
  <2>3. Successors(wf, n) = {}
    <3>1. RunsAfter(wf, n) = {}
      <4>1. \A c \in Defined(wf) : n \notin Keys(wf.runAfter[c])
        BY <1>2, <2>1, Ids, IdsAreDistinct DEF MenuState, KeysAreDrawn, EdgesEnterActions
      <4> QED BY <1>2, <4>1, RunsAfterAreKeyed DEF MenuState
    <3>2. \A m \in {} : RunsAfter(wf, m) \subseteq {}
      OBVIOUS
    <3> QED BY <1>2, <3>1, <3>2, SuccessorsAreClosed
  <2> QED BY <1>2, <1>4, <2>1, <2>2, <2>3
<1>6. ASSUME NEW n \in Actions, DeleteAction(n)
      PROVE  doomed' = {} /\ MenuState(wf') /\ InOrder(wf')
  <2>1. PICK x \in Neighbours(wf, n, Root) :
          /\ n \in wf.children[Root] /\ Cardinality(Sources(Links(wf, Root), n)) < 2
          /\ DeleteOperation(n, Root, x) /\ doomed' = {}
    BY <1>2, <1>6 DEF DeleteAction, HasCardIn, MayDetach, MenuOnly
  <2>2. n \in Defined(wf)
    BY <1>2, <2>1, MenuHasParts
  <2>3. /\ ~HasMultipleParents(wf, n)
        /\ \A p, q \in Sources(Links(wf, Root), n) : p = q
    BY <1>2, <2>1, <2>2, OneEdgeOneKey
  <2>4. x \in Ends
    BY <2>1, NeighboursAreEnds, Ids DEF MenuInv, Inv
  <2>5. /\ \A p \in Sources(Links(wf, Root), n) : p = x
        /\ x # NoNode => <<x, n>> \in wf.edges[Root]
    <3>1. x \in OrNoNode(Sources(Links(wf, Root), n))
      BY <2>1, <2>3 DEF Neighbours
    <3>2. wf.edges[Root] \subseteq Ends \X Ends
      BY <1>2, MenuHasParts
    <3>3. CASE Sources(Links(wf, Root), n) = {}
      BY <3>1, <3>3 DEF OrNoNode
    <3>4. CASE Sources(Links(wf, Root), n) # {}
      <4>1. x \in Sources(Links(wf, Root), n)
        BY <3>1, <3>4 DEF OrNoNode
      <4>2. \E e \in wf.edges[Root] : e[2] = n /\ e[1] = x
        BY <4>1 DEF Sources, Links
      <4> QED BY <2>3, <3>2, <4>1, <4>2
    <3> QED BY <3>3, <3>4
  <2>6. CASE wf' = wf
    BY <1>2, <2>1, <2>6
  <2>7. CASE wf' = DeleteNodeFromWorkflow(wf, n, Root, x)
    <3>1. /\ MenuState(wf')
          /\ Defined(wf') = Defined(wf) \ {n}
          /\ \A m : RunsAfter(wf', m) \subseteq
                     (RunsAfter(wf, m) \cup (IF m = x THEN RunsAfter(wf, n) ELSE {})) \ {n}
          /\ x \in Actions => n \in RunsAfter(wf, x)
      BY <1>1, <1>2, <2>2, <2>3, <2>4, <2>5, <2>7, DeleteKeepsMenu
    <3> QED BY <1>2, <2>1, <3>1, DeleteKeepsOrder
  <2> QED BY <2>1, <2>6, <2>7 DEF DeleteOperation
<1>7. ASSUME NEW n \in Operations, NEW p \in Operations, AddEdgeFromRunAfter(n, p)
      PROVE  doomed' = {} /\ MenuState(wf') /\ InOrder(wf')
  <2>1. /\ n \in Defined(wf) /\ Keys(wf.runAfter[n]) # {}
        /\ p \in Defined(wf) /\ p # n /\ p \notin Successors(wf, n)
        /\ wf' = Ticked(wf, n, p) /\ doomed' = {}
    BY <1>2, <1>7 DEF Ticked, AddEdgeFromRunAfter, HasRunAfterSection, RunAfterCandidates
  <2>2. /\ MenuState(wf') /\ Defined(wf') = Defined(wf)
        /\ \A m : RunsAfter(wf', m) \subseteq RunsAfter(wf, m) \cup (IF m = p THEN {n} ELSE {})
    BY <1>1, <1>2, <2>1, TickKeepsMenu
  <2>3. n \notin Successors(wf, n)
    BY <1>2, <2>1 DEF InOrder
  <2> QED BY <1>2, <1>4, <2>1, <2>2, <2>3
<1>8. ASSUME MenuState(wf'), Defined(wf') = Defined(wf),
             \A m : RunsAfter(wf', m) \subseteq RunsAfter(wf, m)
      PROVE  InOrder(wf')
  <2> SUFFICES ASSUME NEW m \in Defined(wf') PROVE m \notin Successors(wf', m)
    BY DEF InOrder
  <2>1. m \notin Successors(wf, m)
    BY <1>2, <1>8 DEF InOrder
  <2>2. /\ RunsAfter(wf, m) \subseteq Successors(wf, m)
        /\ \A k \in Successors(wf, m) : RunsAfter(wf, k) \subseteq Successors(wf, m)
    BY <1>2, SuccessorsAreClosed
  <2>3. Successors(wf', m) \subseteq Successors(wf, m)
    BY <1>2, <1>8, <2>2, SuccessorsShrink
  <2> QED BY <2>1, <2>3
<1>9. ASSUME NEW n \in Operations, NEW p \in Operations, RemoveEdgeFromRunAfter(n, p)
      PROVE  doomed' = {} /\ MenuState(wf') /\ InOrder(wf')
  <2>1. /\ n \in Defined(wf) /\ p \in Defined(wf) /\ p \in Keys(wf.runAfter[n])
        /\ wf' = WithLinks(wf, Root, RemoveEdge(Links(wf, Root), p, n)) /\ doomed' = {}
    BY <1>2, <1>9 DEF RemoveEdgeFromRunAfter, HasRunAfterSection
  <2> QED BY <1>1, <1>2, <1>8, <2>1, UntickKeepsMenu
<1>10. ASSUME NEW n \in Operations, NEW p \in Ends, NEW status \in {Succeeded, Custom},
              UpdateRunAfter(n, p, status)
       PROVE  doomed' = {} /\ MenuState(wf') /\ InOrder(wf')
  <2>1. /\ n \in Defined(wf) /\ p \in Keys(wf.runAfter[n]) /\ doomed' = {}
        /\ wf' = [wf EXCEPT !.runAfter[n] = WithKey(wf.runAfter[n], p, status)]
    BY <1>2, <1>10 DEF UpdateRunAfter, HasRunAfterSection, StatusOf
  <2>2. status \in Status \ {Undefined}
    BY StatusesDistinct DEF Status
  <2> QED BY <1>1, <1>2, <1>8, <2>1, <2>2, StatusKeepsMenu
<1>11. CASE UNCHANGED vars
  BY <1>2, <1>11 DEF vars
<1>12. ~DeleteNext
  BY <1>2 DEF DeleteNext, DeleteNextOfGraph
<1>13. /\ \A n, site : ~AddOperation(n, site) /\ ~MoveOperation(n, site)
       /\ \A t : ~AddTrigger(t) /\ ~DeleteTrigger(t)
       /\ \A n, s : ~AddImplicitForeach(n, s)
       /\ ~\E s \in Scopes : DeleteGraphNode(s)
  BY <1>2 DEF MenuOnly, AddOperation, MoveOperation, AddTrigger, DeleteTrigger, AddImplicitForeach
<1> QED BY <1>2, <1>5, <1>6, <1>7, <1>9, <1>10, <1>11, <1>12, <1>13 DEF Next

(* So the workflow is always in one.                                       *)
LEMMA MenuInvariant == MenuOnly => (Spec => []MenuInv)
<1> SUFFICES ASSUME MenuOnly PROVE Spec => []MenuInv
  OBVIOUS
<1>1. Init => MenuInv
  BY InitMenu
<1>2. MenuInv /\ [Next]_vars => MenuInv'
  BY NextMenu
<1> QED BY <1>1, <1>2, PTL DEF Spec

(* Only triggers are saved without a runAfter. *)
LEMMA ActionsAreSavedAsTheyAre ==
  ASSUME Scopes = {}, MenuState(wf), NEW n \in Defined(wf)
  PROVE  SavedRunAfter(n) = IF n \in Triggers THEN NoKeys ELSE wf.runAfter[n]
BY DEF MenuState, SavedRunAfter, RunAfterOf, Defined

(* However parents are ticked, unticked and given other statuses,          *)
(* operations added beside others and deleted: an edge that is drawn       *)
(* between two actions is a run-after configuration that is saved.         *)
THEOREM DrawnEdgesAreAlwaysSaved == MenuOnly => (Spec => []DrawnEdgesAreSaved)
<1> SUFFICES ASSUME MenuOnly PROVE Spec => []DrawnEdgesAreSaved
  OBVIOUS
<1>1. MenuInv => DrawnEdgesAreSaved
  <2> SUFFICES ASSUME MenuInv, NEW e \in wf.edges[Root], {e[1], e[2]} \subseteq Actions
               PROVE  e[1] \in Keys(SavedRunAfter(e[2]))
    BY FlatIds DEF MenuOnly, CanvasGraphs, DrawnEdgesAreSaved
  <2>1. /\ Scopes = {} /\ MenuState(wf) /\ Triggers \cap Actions = {} /\ NoNode \notin Actions
        /\ e = <<e[1], e[2]>>
    BY FlatIds, IdsAreDistinct, MenuHasParts DEF MenuOnly, MenuInv
  <2>2. e[2] \in Defined(wf) /\ e[1] \in Keys(wf.runAfter[e[2]])
    BY <2>1 DEF MenuState, EdgesEnterActions, EdgesAreKeys
  <2> QED BY <2>1, <2>2, ActionsAreSavedAsTheyAre
<1> QED BY <1>1, MenuInvariant, PTL

(* Every run-after configuration that would be saved has a status: a       *)
(* parent that a deleted operation leaves to its successors brings the     *)
(* status the deleted one had, never an undefined one.                     *)
THEOREM SavedStatusesAreAlwaysChecked == MenuOnly => (Spec => []SavedStatusesAreChecked)
<1> SUFFICES ASSUME MenuOnly PROVE Spec => []SavedStatusesAreChecked
  OBVIOUS
<1>1. MenuInv => SavedStatusesAreChecked
  <2> SUFFICES ASSUME MenuInv, NEW n \in Defined(wf), NEW p \in Keys(SavedRunAfter(n))
               PROVE  SavedRunAfter(n)[p] # Undefined
    BY DEF SavedStatusesAreChecked
  <2>1. Scopes = {} /\ MenuState(wf)
    BY DEF MenuOnly, MenuInv
  <2>2. Keys(NoKeys) = {}
    BY DEF Keys, NoKeys
  <2>3. SavedRunAfter(n) = wf.runAfter[n]
    BY <2>1, <2>2, ActionsAreSavedAsTheyAre
  <2> QED BY <2>1, <2>3 DEF MenuState, KeysAreDrawn, HasStatuses
<1> QED BY <1>1, MenuInvariant, PTL

(* The menu offers no operation that runs after the one it is open for,    *)
(* and that is enough: nothing ever comes after itself on the canvas or    *)
(* runs after itself, so that getSuccessorNodes always ends.               *)
THEOREM AlwaysAcyclic == MenuOnly => (Spec => []Acyclic)
<1> SUFFICES ASSUME MenuOnly PROVE Spec => []Acyclic
  OBVIOUS
<1>1. MenuInv => Acyclic
  <2> SUFFICES ASSUME MenuInv, NEW n \in wf.children[Root]
               PROVE  n \notin Below(wf, Root, n)
    BY FlatIds DEF MenuOnly, MenuInv, InOrder, CanvasGraphs, Acyclic
  <2>1. /\ Scopes = {} /\ MenuState(wf) /\ n \in Defined(wf) /\ n \notin Successors(wf, n)
        /\ NoNode \notin Operations /\ Defined(wf) \subseteq Operations
        /\ wf.edges[Root] \subseteq Ends \X Ends
    BY Ids, MenuHasParts DEF MenuOnly, MenuInv, InOrder
  <2>2. \A m, c : c \in Targets(Links(wf, Root), m) <=> <<m, c>> \in wf.edges[Root]
    BY <2>1 DEF Targets, Links
  <2>3. CASE n \in Triggers
    <3> DEFINE T == Defined(wf) \ Triggers
    <3>1. \A m : Targets(Links(wf, Root), m) \subseteq T
      BY <2>1, <2>2 DEF MenuState, EdgesEnterActions
    <3> HIDE DEF T
    <3>2. Below(wf, Root, n) \subseteq T
      BY <3>1, BelowIsWithin
    <3> QED BY <2>3, <3>2 DEF T
  <2>4. CASE n \notin Triggers
    <3> DEFINE T == Successors(wf, n)
    <3>1. \A m \in Operations \ Triggers : Targets(Links(wf, Root), m) \subseteq RunsAfter(wf, m)
      <4> SUFFICES ASSUME NEW m \in Operations \ Triggers, NEW c, <<m, c>> \in wf.edges[Root]
                   PROVE  c \in RunsAfter(wf, m)
        BY <2>2
      <4>1. c \in Defined(wf) /\ m \in Keys(wf.runAfter[c])
        BY <2>1 DEF MenuState, EdgesEnterActions, EdgesAreKeys
      <4> QED BY <2>1, <4>1, RunsAfterAreKeyed DEF MenuState
    <3>2. /\ RunsAfter(wf, n) \subseteq T /\ T \subseteq Defined(wf) /\ T \cap Triggers = {}
          /\ \A m \in T : RunsAfter(wf, m) \subseteq T
      BY <2>1, SuccessorsAreClosed, TriggersRunFirst
    <3> HIDE DEF T
    <3>3. /\ Targets(Links(wf, Root), n) \subseteq T
          /\ \A m \in T : Targets(Links(wf, Root), m) \subseteq T
      BY <2>1, <2>4, <3>1, <3>2
    <3>4. Below(wf, Root, n) \subseteq T
      BY <3>3, BelowIsWithin
    <3> QED BY <2>1, <3>4 DEF T
  <2> QED BY <2>3, <2>4
<1> QED BY <1>1, MenuInvariant, PTL
=============================================================================
