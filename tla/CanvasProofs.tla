---------------------------- MODULE CanvasProofs ----------------------------
(***************************************************************************)
(* The canvas under every edit but the ticks of the run-after menu, with   *)
(* scopes, foreach and until loops: operations and triggers are added,     *)
(* inserted, moved, wrapped and deleted, scopes in one thunk after         *)
(* another, in any order.  Each graph stays one that hangs from the        *)
(* trigger or from the heading of its scope, in which no edit of one       *)
(* operation changes the order of the others, and the graphs stay a tree.  *)
(***************************************************************************)
EXTENDS RunAfterProofs

-----------------------------------------------------------------------------
(* What is drawn below a node.                                             *)

(* Below finds what the targets of n lead to, all of it. *)
LEMMA BelowIsClosed ==
  ASSUME NEW w, NEW g, NEW n, NEW last, \A e \in w.edges[g] : e[2] \in Operations \cup {last}
  PROVE  /\ Targets(Links(w, g), n) \subseteq Below(w, g, n)
         /\ \A m \in Below(w, g, n) : Targets(Links(w, g), m) \subseteq Below(w, g, n)
<1> DEFINE N == Cardinality(Operations)
           X == Operations \cup {last}
           S == Targets(Links(w, g), n)
           step == [m \in X |-> Targets(Links(w, g), m)]
           IsIt(f) == f = [i \in 0..N |->
                             IF i = 0 THEN S
                             ELSE LET before == f[i - 1]
                                  IN  before \cup UNION {Targets(Links(w, g), m) : m \in before}]
           r == CHOOSE f : IsIt(f)
<1>1. /\ N \in Nat /\ N \in 0..N
      /\ IsFiniteSet(X) /\ Cardinality(X) \in Nat /\ Cardinality(X) =< N + 1
  <2>1. IsFiniteSet(Operations) /\ N \in Nat
    BY OperationsAreFinite, FS_CardinalityType
  <2>2. IsFiniteSet(X) /\ (Cardinality(X) = N \/ Cardinality(X) = N + 1)
    BY <2>1, FS_AddElement
  <2> HIDE DEF X, N
  <2> QED BY <2>1, <2>2
<1>2. S \subseteq X /\ \A m : Targets(Links(w, g), m) \subseteq X
  BY DEF Targets, Links
<1>3. \A Y : Y \subseteq X =>
        Onwards(step, Y) = Y \cup UNION {Targets(Links(w, g), m) : m \in Y}
  BY DEF Onwards
<1>4. PICK f : Reaches(f, step, S, N)
  <2> HIDE DEF step, S, X
  <2> QED BY <1>1, ReachExists
<1>5. \A i \in 0..N : f[i] \subseteq X
  <2>1. \A m \in X : step[m] \subseteq X
    BY <1>2
  <2> HIDE DEF step, S, X
  <2> QED BY <1>1, <1>2, <1>4, <2>1, ReachIsWithin
<1>6. IsIt(f)
  <2>1. \A i \in 0..N : i # 0 => i - 1 \in 0..N
    BY <1>1
  <2> HIDE DEF step, S, X
  <2> QED BY <1>3, <1>4, <1>5, <2>1 DEF Reaches
<1>7. IsIt(r)
  <2> HIDE DEF IsIt
  <2> QED BY <1>6
<1>8. Below(w, g, n) = r[N]
  BY DEF Below, Closure
<1> HIDE DEF r
<1>9. \A i \in 0..N : i \in {j \in 0..N : r[j] \subseteq X}
  <2> DEFINE P == {j \in 0..N : r[j] \subseteq X}
  <2>1. 0 \in P
    <3>1. 0 \in 0..N
      BY <1>1
    <3>2. r[0] = S
      BY <1>7, <3>1
    <3> QED BY <1>2, <3>1, <3>2
  <2>2. ASSUME NEW i \in 1..N, i - 1 \in P PROVE i \in P
    <3>1. i \in 0..N /\ i # 0
      BY <1>1
    <3>2. r[i] = r[i - 1] \cup UNION {Targets(Links(w, g), m) : m \in r[i - 1]}
      BY <1>7, <3>1
    <3> QED BY <1>2, <2>2, <3>1, <3>2
  <2> HIDE DEF P
  <2>3. \A i \in 0..N : i \in P
    BY <1>1, <2>1, <2>2, UpTo
  <2> QED BY <2>3 DEF P
<1>10. Reaches(r, step, S, N)
  <2>1. \A i \in 0..N : i # 0 => i - 1 \in 0..N
    BY <1>1
  <2> HIDE DEF step, S, X
  <2> QED BY <1>3, <1>7, <1>9, <2>1 DEF Reaches
<1>11. /\ S \subseteq r[N] /\ r[N] \subseteq X
       /\ \A m \in r[N] : step[m] \subseteq r[N]
  <2>1. \A m \in X : step[m] \subseteq X
    BY <1>2
  <2>2. S \subseteq X
    BY <1>2
  <2> HIDE DEF step, S, X
  <2>3. N \in Nat
    BY <1>1
  <2> HIDE DEF N
  <2> QED BY ONLY <1>1, <1>10, <2>1, <2>2, <2>3, ReachIsClosedAfter
<1>12. r[N] \subseteq X
  BY <1>1, <1>9
<1> QED BY <1>8, <1>11, <1>12

(* T has what m and its own members lead to. *)
Leads(E, m, T) == \A p, c : <<p, c>> \in E /\ (p = m \/ p \in T) => c \in T

(* What comes after m by the edges E: what is in all such sets. *)
Later(E, m) == {k \in Ends : \A T \in SUBSET Ends : Leads(E, m, T) => k \in T}

(* Later is itself such a set, so it is the least one.                     *)
LEMMA LaterIsLeast ==
  ASSUME NEW E, E \subseteq Ends \X Ends, NEW m
  PROVE  /\ Later(E, m) \subseteq Ends
         /\ Leads(E, m, Later(E, m))
         /\ \A T : Leads(E, m, T) => Later(E, m) \subseteq T
<1>1. Later(E, m) \subseteq Ends
  BY DEF Later
<1>2. Leads(E, m, Later(E, m))
  <2> SUFFICES ASSUME NEW p, NEW c, <<p, c>> \in E, p = m \/ p \in Later(E, m)
               PROVE  c \in Later(E, m)
    BY DEF Leads
  <2>1. c \in Ends
    OBVIOUS
  <2>2. ASSUME NEW T \in SUBSET Ends, Leads(E, m, T) PROVE c \in T
    <3>1. p = m \/ p \in T
      BY <2>2 DEF Later
    <3> QED BY <2>2, <3>1 DEF Leads
  <2> QED BY <2>1, <2>2 DEF Later
<1>3. ASSUME NEW T, Leads(E, m, T) PROVE Later(E, m) \subseteq T
  <2> DEFINE U == T \cap Ends
  <2>1. U \in SUBSET Ends /\ Leads(E, m, U)
    BY <1>3 DEF Leads
  <2> HIDE DEF U
  <2>2. Later(E, m) \subseteq U
    BY <2>1 DEF Later
  <2> QED BY <2>2 DEF U
<1> QED BY <1>1, <1>2, <1>3

(* What comes after what comes after m comes after m. *)
LEMMA LaterIsTransitive ==
  ASSUME NEW E, E \subseteq Ends \X Ends, NEW m, NEW k \in Later(E, m)
  PROVE  Later(E, k) \subseteq Later(E, m)
<1>1. Leads(E, m, Later(E, m))
  BY LaterIsLeast
<1>2. Leads(E, k, Later(E, m))
  BY <1>1 DEF Leads
<1> QED BY <1>2, LaterIsLeast

(* What is drawn below n is what comes after it by the edges of its graph. *)
LEMMA BelowIsLater ==
  ASSUME NEW w, NEW g, NEW n, NEW last \in Ends,
         w.edges[g] \subseteq Ends \X (Operations \cup {last})
  PROVE  Below(w, g, n) = Later(w.edges[g], n)
<1> DEFINE E == w.edges[g]
<1>1. E \subseteq Ends \X Ends /\ \A e \in E : e[2] \in Operations \cup {last}
  BY Ids
<1>2. \A m, c : c \in Targets(Links(w, g), m) <=> <<m, c>> \in E
  BY DEF Targets, Links
<1>3. Leads(E, n, Below(w, g, n))
  <2>1. /\ Targets(Links(w, g), n) \subseteq Below(w, g, n)
        /\ \A m \in Below(w, g, n) : Targets(Links(w, g), m) \subseteq Below(w, g, n)
    BY <1>1, BelowIsClosed
  <2> HIDE DEF E
  <2> QED BY <1>2, <2>1 DEF Leads
<1>4. Leads(E, n, Later(E, n)) /\ Later(E, n) \subseteq Below(w, g, n)
  <2> HIDE DEF E
  <2> QED BY <1>1, <1>3, LaterIsLeast
<1>5. Below(w, g, n) \subseteq Later(E, n)
  <2> DEFINE T == Later(E, n)
  <2>1. /\ Targets(Links(w, g), n) \subseteq T
        /\ \A m \in T : Targets(Links(w, g), m) \subseteq T
    BY <1>2, <1>4 DEF Leads
  <2> HIDE DEF T
  <2>2. Below(w, g, n) \subseteq T
    BY <2>1, BelowIsWithin
  <2> QED BY <2>2 DEF T
<1> QED BY <1>4, <1>5

-----------------------------------------------------------------------------
(* One node less.                                                          *)

(* The edges F are those of E without n: what led to n leads to what n     *)
(* led to.  Read from F to E, n is put between nodes that were joined, or  *)
(* at an end.                                                              *)
IsWithout(F, E, n) ==
  /\ <<n, n>> \notin E
  /\ \A p, c : <<p, c>> \in F <=>
       /\ p # n /\ c # n
       /\ <<p, c>> \in E \/ (<<p, n>> \in E /\ <<n, c>> \in E)

(* All others come after one another as they did. *)
LEMMA OthersInOrder ==
  ASSUME NEW E, E \subseteq Ends \X Ends, NEW F, F \subseteq Ends \X Ends,
         NEW n, IsWithout(F, E, n), NEW m, m # n
  PROVE  Later(F, m) = Later(E, m) \ {n}
<1> DEFINE L == Later(E, m)
           K == Later(F, m)
           T == K \cup (IF \E q : <<q, n>> \in E /\ (q = m \/ q \in K) THEN {n} ELSE {})
<1>1. /\ Leads(E, m, L) /\ Leads(F, m, K)
      /\ \A U : Leads(E, m, U) => L \subseteq U
      /\ \A U : Leads(F, m, U) => K \subseteq U
  BY LaterIsLeast
<1> HIDE DEF L, K
<1>2. Leads(F, m, L \ {n})
  BY <1>1 DEF Leads, IsWithout
<1>3. n \notin K /\ K \subseteq L
  BY <1>1, <1>2
<1>4. Leads(E, m, T)
  <2> SUFFICES ASSUME NEW p, NEW c, <<p, c>> \in E, p = m \/ p \in T
               PROVE  c \in T
    BY DEF Leads
  <2>1. CASE c = n
    BY <2>1 DEF IsWithout
  <2>2. CASE c # n /\ p # n
    BY <1>1, <2>2 DEF IsWithout, Leads
  <2>3. CASE c # n /\ p = n
    <3>1. PICK q : <<q, n>> \in E /\ (q = m \/ q \in K)
      BY <1>3, <2>3
    <3>2. <<q, c>> \in F
      BY <2>3, <3>1 DEF IsWithout
    <3> QED BY <1>1, <3>1, <3>2 DEF Leads
  <2> QED BY <2>1, <2>2, <2>3
<1>5. L \subseteq T
  <2> HIDE DEF T
  <2> QED BY <1>1, <1>4
<1> QED BY <1>3, <1>5 DEF L, K

(* When nothing else comes after itself, n does not either. *)
LEMMA LoopsHaveOthers ==
  ASSUME NEW E, E \subseteq Ends \X Ends, NEW n, <<n, n>> \notin E, n \in Later(E, n)
  PROVE  \E c : c # n /\ c \in Later(E, c)
<1> DEFINE T == {k \in Ends : \E c : <<n, c>> \in E /\ (k = c \/ k \in Later(E, c))}
<1>1. Leads(E, n, T)
  <2> SUFFICES ASSUME NEW p, NEW k, <<p, k>> \in E, p = n \/ p \in T
               PROVE  k \in T
    BY DEF Leads
  <2>1. CASE p = n
    BY <2>1
  <2>2. CASE p \in T
    <3>1. PICK c : <<n, c>> \in E /\ (p = c \/ p \in Later(E, c))
      BY <2>2
    <3>2. k \in Later(E, c)
      BY <3>1, LaterIsLeast DEF Leads
    <3> QED BY <3>1, <3>2
  <2> QED BY <2>1, <2>2
<1>2. n \in T
  <2> HIDE DEF T
  <2> QED BY <1>1, LaterIsLeast
<1>3. PICK c : <<n, c>> \in E /\ (n = c \/ n \in Later(E, c))
  BY <1>2
<1>4. c # n /\ c \in Later(E, n)
  BY <1>3, LaterIsLeast DEF Leads
<1> QED BY <1>3, <1>4, LaterIsTransitive

(* A node s that nothing leads to is given another name r. *)
IsRenamed(F, E, s, r) ==
  /\ r # s /\ \A p, c : <<p, c>> \in E => c # s /\ c # r /\ p # r
  /\ \A p, c : <<p, c>> \in F <=> \/ p = r /\ <<s, c>> \in E
                                  \/ p # s /\ <<p, c>> \in E

(* Under a new name a node comes before what it came before, and nothing   *)
(* else has changed its place.                                             *)
LEMMA RenamedInOrder ==
  ASSUME NEW E, E \subseteq Ends \X Ends, NEW F, F \subseteq Ends \X Ends,
         NEW s, NEW r, IsRenamed(F, E, s, r)
  PROVE  /\ Later(F, r) = Later(E, s)
         /\ \A m : m # s /\ m # r => Later(F, m) = Later(E, m)
         /\ \A m : s \notin Later(E, m) /\ r \notin Later(E, m)
<1>1. ASSUME NEW m PROVE s \notin Later(E, m) /\ r \notin Later(E, m)
                         /\ s \notin Later(F, m) /\ r \notin Later(F, m)
  <2>1. Leads(E, m, Ends \ {s, r}) /\ Leads(F, m, Ends \ {s, r})
    BY DEF IsRenamed, Leads
  <2> QED BY <2>1, LaterIsLeast
<1>2. Leads(F, r, Later(E, s)) /\ Leads(E, s, Later(F, r))
  <2>1. Leads(E, s, Later(E, s)) /\ Leads(F, r, Later(F, r))
    BY LaterIsLeast
  <2>2. s \notin Later(E, s) /\ s \notin Later(F, r) /\ r \notin Later(E, s)
    BY <1>1
  <2> QED BY <2>1, <2>2 DEF IsRenamed, Leads
<1>3. ASSUME NEW m, m # s, m # r
      PROVE  Leads(F, m, Later(E, m)) /\ Leads(E, m, Later(F, m))
  <2>1. Leads(E, m, Later(E, m)) /\ Leads(F, m, Later(F, m))
    BY LaterIsLeast
  <2>2. s \notin Later(E, m) /\ s \notin Later(F, m) /\ r \notin Later(E, m)
    BY <1>1
  <2> QED BY <1>3, <2>1, <2>2 DEF IsRenamed, Leads
<1>4. Later(F, r) = Later(E, s)
  <2>1. Later(F, r) \subseteq Later(E, s) /\ Later(E, s) \subseteq Later(F, r)
    BY <1>2, LaterIsLeast
  <2> QED BY <2>1
<1>5. ASSUME NEW m, m # s, m # r PROVE Later(F, m) = Later(E, m)
  <2>1. Later(F, m) \subseteq Later(E, m) /\ Later(E, m) \subseteq Later(F, m)
    BY <1>3, <1>5, LaterIsLeast
  <2> QED BY <2>1
<1> QED BY <1>1, <1>4, <1>5

-----------------------------------------------------------------------------
(* Graphs that hang from a trigger.                                        *)

(* The edges E join the nodes C and enter all but the first one, the       *)
(* member of S; none comes after itself, and all others come after the     *)
(* first.                                                                  *)
IsCanvas(E, C, S) ==
  /\ S \subseteq C /\ \A s, r \in S : s = r
  /\ \A p, c : <<p, c>> \in E => p \in C /\ c \in C \ S
  /\ \A m \in C : m \notin Later(E, m)
  /\ \A s \in S, k \in C \ S : k \in Later(E, s)

(* Something leads to every node but the first, and not the node itself.   *)
LEMMA NodesAreEntered ==
  ASSUME NEW E, E \subseteq Ends \X Ends, NEW C, NEW S, IsCanvas(E, C, S),
         NEW s \in S, NEW n \in C \ S
  PROVE  /\ <<n, n>> \notin E
         /\ \E p \in C : <<p, n>> \in E /\ p # n
<1>1. <<n, n>> \notin E
  BY LaterIsLeast DEF IsCanvas, Leads
<1>2. ASSUME \A p : <<p, n>> \notin E PROVE FALSE
  <2>1. Leads(E, s, Ends \ {n})
    BY <1>2 DEF Leads
  <2>2. n \in Later(E, s)
    BY DEF IsCanvas
  <2> QED BY <2>1, <2>2, LaterIsLeast
<1> QED BY <1>1, <1>2 DEF IsCanvas

(* A canvas without one of its nodes. *)
LEMMA CanvasWithout ==
  ASSUME NEW E, E \subseteq Ends \X Ends, NEW F, F \subseteq Ends \X Ends,
         NEW C, NEW S, IsCanvas(E, C, S), NEW n \in C \ S, IsWithout(F, E, n)
  PROVE  IsCanvas(F, C \ {n}, S)
<1>1. \A m : m # n => Later(F, m) = Later(E, m) \ {n}
  BY OthersInOrder
<1>2. \A p, c : <<p, c>> \in F => p \in C \ {n} /\ c \in (C \ {n}) \ S
  BY DEF IsWithout, IsCanvas
<1> QED BY <1>1, <1>2 DEF IsCanvas

(* A canvas with a node more, which something leads to. *)
LEMMA CanvasWith ==
  ASSUME NEW E, E \subseteq Ends \X Ends, NEW F, F \subseteq Ends \X Ends,
         NEW C, C \subseteq Ends, NEW S, IsCanvas(F, C, S),
         NEW n, n \in Ends \ C, IsWithout(F, E, n),
         \A p, c : <<p, c>> \in E => p \in C \cup {n} /\ c \in (C \cup {n}) \ S,
         \E p \in C : <<p, n>> \in E
  PROVE  IsCanvas(E, C \cup {n}, S)
<1>1. \A m : m # n => Later(F, m) = Later(E, m) \ {n}
  BY OthersInOrder
<1>2. \A m \in C : m \notin Later(E, m)
  BY <1>1 DEF IsCanvas
<1>3. n \notin Later(E, n)
  <2> SUFFICES ASSUME n \in Later(E, n) PROVE FALSE
    OBVIOUS
  <2>1. PICK c : c # n /\ c \in Later(E, c)
    BY LoopsHaveOthers DEF IsWithout
  <2>2. c \in C
    <3>1. c \in Later(F, c)
      BY <1>1, <2>1
    <3>2. Leads(F, c, C)
      BY DEF IsCanvas, Leads
    <3> QED BY <3>1, <3>2, LaterIsLeast
  <2> QED BY <1>2, <2>1, <2>2
<1>4. ASSUME NEW s \in S PROVE n \in Later(E, s)
  <2>1. PICK p \in C : <<p, n>> \in E
    OBVIOUS
  <2>2. p # n /\ s # n /\ Leads(E, s, Later(E, s))
    BY LaterIsLeast DEF IsCanvas
  <2>3. p = s \/ p \in Later(E, s)
    BY <1>1, <2>2 DEF IsCanvas
  <2> QED BY <2>1, <2>2, <2>3 DEF Leads
<1>5. \A s \in S, k \in C \ S : k \in Later(E, s)
  BY <1>1 DEF IsCanvas
<1> QED BY <1>2, <1>3, <1>4, <1>5 DEF IsCanvas

(* The first node of a canvas is given another name. *)
LEMMA CanvasRenamed ==
  ASSUME NEW E, E \subseteq Ends \X Ends, NEW F, F \subseteq Ends \X Ends,
         NEW C, NEW S, IsCanvas(E, C, S), NEW s, S = C \cap {s}, S = {} => C = {},
         NEW r, r \notin C, IsRenamed(F, E, s, r)
  PROVE  IsCanvas(F, (C \ {s}) \cup {r}, {r})
<1>1. /\ Later(F, r) = Later(E, s)
      /\ \A m : m # s /\ m # r => Later(F, m) = Later(E, m)
      /\ \A m : s \notin Later(E, m) /\ r \notin Later(E, m)
  BY RenamedInOrder
<1>2. \A p, c : <<p, c>> \in F => p \in (C \ {s}) \cup {r} /\ c \in C \ {s}
  BY DEF IsRenamed, IsCanvas
<1> QED BY <1>1, <1>2 DEF IsCanvas

-----------------------------------------------------------------------------
(* The helpers of RunAfter, on a graph whose keys follow its edges.        *)

(* Whatever an operation of C runs after is drawn before it, and is no     *)
(* trigger.                                                                *)
KeysFollow(l, C) ==
  \A c \in C \cap DOMAIN l.runAfter : \A p \in Keys(l.runAfter[c]) :
    <<p, c>> \in l.edges /\ p \notin Triggers

(* A key that moves from old to new is the only one to come or to go. *)
LEMMA MovedKeysAreFew ==
  ASSUME NEW r, IsRunAfter(r), NEW old, NEW new \in Ends,
         NEW isOld \in BOOLEAN, NEW isNew \in BOOLEAN,
         NEW before \in {r, WithoutKey(r, old)},
         NEW after, after = MoveRunAfterSource(before, old, new, isOld, isNew)
  PROVE  \A k \in Keys(after) : k # old /\ (k \in Keys(r) \/ (~isNew /\ k = new))
<1> DEFINE moved == IF isOld THEN Succeeded ELSE StatusOf(before, old)
           keep  == isNew \/ StatusOf(before, new) # Undefined
           kept  == IF keep THEN before ELSE WithKey(before, new, moved)
<1>1. IsRunAfter(before) /\ Keys(before) \subseteq Keys(r)
  BY WithoutKeyIsRunAfter, WithoutKeyHasKeys
<1>2. moved \in Status
  BY <1>1, StatusOfIsStatus DEF Status
<1>3. after = IF before = Absent THEN Absent ELSE WithoutKey(kept, old)
  BY DEF MoveRunAfterSource
<1>4. IsRunAfter(kept) /\ \A k \in Keys(kept) : k \in Keys(r) \/ (~isNew /\ k = new)
  <2> HIDE DEF moved
  <2>1. CASE keep
    BY <1>1, <2>1
  <2>2. CASE ~keep
    <3>1. /\ IsRunAfter(WithKey(before, new, moved))
          /\ Keys(WithKey(before, new, moved)) = Keys(before) \cup {new}
      BY <1>1, <1>2, WithKeyIsRunAfter, WithKeyHasKeys
    <3> QED BY <1>1, <2>2, <3>1
  <2> QED BY <2>1, <2>2
<1> HIDE DEF kept
<1>5. Keys(Absent) = {} /\ Keys(WithoutKey(kept, old)) = Keys(kept) \ {old}
  BY <1>4, WithoutKeyHasKeys DEF Keys
<1> QED BY <1>3, <1>4, <1>5

(* An edge is added, with a key or, from a trigger, without. *)
LEMMA AddedKeysFollow ==
  ASSUME NEW l, IsLinks(l), NEW C, KeysFollow(l, C), NEW p \in Ends, NEW c, NEW add \in BOOLEAN,
         add => p \notin Triggers,
         NEW r, r = AddNewEdge(l, p, c, add)
  PROVE  KeysFollow(r, C)
<1>1. \A k \in DOMAIN l.runAfter : IsRunAfter(l.runAfter[k])
  BY DEF IsLinks, IsRunAfterMap
<1>2. r.edges = l.edges \cup {<<p, c>>}
  BY DEF AddNewEdge
<1>3. CASE add /\ c \in DOMAIN l.runAfter
  <2>1. r.runAfter = [l.runAfter EXCEPT ![c] = WithKey(@, p, Succeeded)]
    BY <1>3 DEF AddNewEdge
  <2>2. Keys(WithKey(l.runAfter[c], p, Succeeded)) = Keys(l.runAfter[c]) \cup {p}
    BY <1>1, <1>3, WithKeyHasKeys DEF Status
  <2> QED BY <1>2, <1>3, <2>1, <2>2 DEF KeysFollow
<1>4. CASE ~(add /\ c \in DOMAIN l.runAfter)
  <2>1. r.runAfter = l.runAfter
    BY <1>4 DEF AddNewEdge
  <2> QED BY <1>2, <2>1 DEF KeysFollow
<1> QED BY <1>3, <1>4

(* An edge is removed, and its key with it. *)
LEMMA RemovedKeysFollow ==
  ASSUME NEW l, IsLinks(l), NEW C, KeysFollow(l, C), NEW p, NEW c,
         NEW r, r = RemoveEdge(l, p, c)
  PROVE  /\ KeysFollow(r, C)
         /\ c \in DOMAIN l.runAfter => Keys(r.runAfter[c]) = Keys(l.runAfter[c]) \ {p}
<1>1. \A k \in DOMAIN l.runAfter : IsRunAfter(l.runAfter[k])
  BY DEF IsLinks, IsRunAfterMap
<1>2. r.edges = l.edges \ {<<p, c>>}
  BY DEF RemoveEdge
<1>3. CASE c \in DOMAIN l.runAfter
  <2>1. r.runAfter = [l.runAfter EXCEPT ![c] = WithoutKey(@, p)]
    BY <1>3 DEF RemoveEdge
  <2>2. Keys(WithoutKey(l.runAfter[c], p)) = Keys(l.runAfter[c]) \ {p}
    BY <1>1, <1>3, WithoutKeyHasKeys
  <2> QED BY <1>2, <1>3, <2>1, <2>2 DEF KeysFollow
<1>4. CASE c \notin DOMAIN l.runAfter
  <2>1. r.runAfter = l.runAfter
    BY <1>4 DEF RemoveEdge
  <2> QED BY <1>2, <1>4, <2>1 DEF KeysFollow
<1> QED BY <1>3, <1>4

(* The children of old are given to new. *)
LEMMA ReassignedKeysFollow ==
  ASSUME NEW l, IsLinks(l), NEW C, KeysFollow(l, C), NEW old, NEW new \in Ends,
         NEW isOld \in BOOLEAN, NEW isNew \in BOOLEAN, new \in Triggers => isNew,
         <<old, old>> \notin l.edges,
         NEW r, r = ReassignEdgeSources(l, old, new, isOld, isNew)
  PROVE  /\ KeysFollow(r, C)
         /\ old \in DOMAIN l.runAfter => r.runAfter[old] = l.runAfter[old]
<1> DEFINE ra == l.runAfter
           children == Targets(l, old)
           Before(c) == IF c \in {k \in children : <<new, k>> \in l.edges}
                        THEN WithoutKey(ra[c], old) ELSE ra[c]
           After(c) == MoveRunAfterSource(Before(c), old, new, isOld, isNew)
<1>1. /\ \A k \in DOMAIN ra : IsRunAfter(ra[k])
      /\ \A e \in l.edges : e = <<e[1], e[2]>>
  BY DEF IsLinks, IsRunAfterMap
<1>2. \A c : c \in children <=> <<old, c>> \in l.edges
  BY <1>1 DEF Targets
<1>3. r.runAfter = [n \in DOMAIN ra |-> IF n \in children THEN After(n) ELSE ra[n]]
  BY DEF ReassignEdgeSources
<1>4. r.edges = {IF e[1] = old THEN <<new, e[2]>> ELSE e : e \in l.edges}
  BY DEF ReassignEdgeSources
<1>5. ASSUME NEW c \in DOMAIN ra, c \in children
      PROVE  \A k \in Keys(After(c)) : k # old /\ (k \in Keys(ra[c]) \/ (~isNew /\ k = new))
  <2>1. Before(c) \in {ra[c], WithoutKey(ra[c], old)} /\ IsRunAfter(ra[c]) /\ new \in Ends
    BY <1>1
  <2>2. After(c) = MoveRunAfterSource(Before(c), old, new, isOld, isNew)
    OBVIOUS
  <2> HIDE DEF After, Before, ra, children
  <2>3. \A o, i \in BOOLEAN : \A after :
          after = MoveRunAfterSource(Before(c), old, new, o, i) =>
            \A k \in Keys(after) : k # old /\ (k \in Keys(ra[c]) \/ (~i /\ k = new))
    BY ONLY <2>1, MovedKeysAreFew, SMTT(60)
  <2> QED BY <2>2, <2>3, Zenon
<1> HIDE DEF After, Before
<1>6. /\ \A p, c : <<p, c>> \in l.edges /\ p # old => <<p, c>> \in r.edges
      /\ \A c \in children : <<new, c>> \in r.edges
  <2>1. ASSUME NEW p, NEW c, <<p, c>> \in l.edges, p # old PROVE <<p, c>> \in r.edges
    BY <1>4, <2>1
  <2>2. ASSUME NEW c \in children PROVE <<new, c>> \in r.edges
    <3> DEFINE e == <<old, c>>
    <3>1. e \in l.edges /\ <<new, c>> = IF e[1] = old THEN <<new, e[2]>> ELSE e
      BY <1>2
    <3> HIDE DEF e
    <3> QED BY <1>4, <3>1
  <2> QED BY <2>1, <2>2
<1>7. KeysFollow(r, C)
  <2> SUFFICES ASSUME NEW c \in C \cap DOMAIN ra, NEW p \in Keys(r.runAfter[c])
               PROVE  <<p, c>> \in r.edges /\ p \notin Triggers
    BY <1>3 DEF KeysFollow
  <2>1. CASE c \in children
    BY <1>3, <1>5, <1>6, <2>1 DEF KeysFollow
  <2>2. CASE c \notin children
    BY <1>2, <1>3, <1>6, <2>2 DEF KeysFollow
  <2> QED BY <2>1, <2>2
<1>8. old \in DOMAIN ra => r.runAfter[old] = ra[old]
  BY <1>2, <1>3
<1> QED BY <1>7, <1>8

(* The parents of old are given to new. *)
LEMMA RetargetedKeysFollow ==
  ASSUME NEW l, IsLinks(l), NEW C, KeysFollow(l, C),
         NEW old \in C, NEW new \in DOMAIN l.runAfter, new # old,
         Keys(l.runAfter[new]) = {},
         NEW r, r = ReassignEdgeTargets(l, old, new)
  PROVE  KeysFollow(r, C)
<1> DEFINE ra == l.runAfter
<1>1. \A e \in l.edges : e = <<e[1], e[2]>>
  BY DEF IsLinks
<1>2. r.edges = {IF e[2] = old THEN <<e[1], new>> ELSE e : e \in l.edges}
      /\ r.runAfter = MoveRunAfterTarget(ra, old, new)
  BY DEF ReassignEdgeTargets
<1>3. /\ \A p, c : <<p, c>> \in l.edges /\ c # old => <<p, c>> \in r.edges
      /\ \A p : <<p, old>> \in l.edges => <<p, new>> \in r.edges
  <2>1. ASSUME NEW p, NEW c, <<p, c>> \in l.edges, c # old PROVE <<p, c>> \in r.edges
    BY <1>2, <2>1
  <2>2. ASSUME NEW p, <<p, old>> \in l.edges PROVE <<p, new>> \in r.edges
    <3> DEFINE e == <<p, old>>
    <3>1. e \in l.edges /\ <<p, new>> = IF e[2] = old THEN <<e[1], new>> ELSE e
      BY <2>2
    <3> HIDE DEF e
    <3> QED BY <1>2, <3>1
  <2> QED BY <2>1, <2>2
<1>4. Keys(NoKeys) = {} /\ Keys(Absent) = {}
  BY DEF Keys, NoKeys
<1>5. CASE RunAfterOf(ra, old) = Absent
  <2>1. r.runAfter = ra /\ \A c \in DOMAIN ra : c = old => Keys(ra[c]) = {}
    BY <1>2, <1>4, <1>5 DEF MoveRunAfterTarget, RunAfterOf
  <2> QED BY <1>3, <2>1 DEF KeysFollow
<1>6. CASE RunAfterOf(ra, old) # Absent
  <2>1. old \in DOMAIN ra /\ r.runAfter = [ra EXCEPT ![new] = ra[old], ![old] = NoKeys]
    BY <1>2, <1>6 DEF MoveRunAfterTarget, RunAfterOf
  <2>2. /\ DOMAIN r.runAfter = DOMAIN ra /\ r.runAfter[new] = ra[old] /\ r.runAfter[old] = NoKeys
        /\ \A c \in DOMAIN ra \ {new, old} : r.runAfter[c] = ra[c]
    BY <2>1
  <2> QED BY <1>3, <1>4, <2>1, <2>2 DEF KeysFollow
<1> QED BY <1>5, <1>6

(* A node with one parent x leaves: x takes its place, and n keeps no key. *)
LEMMA DetachedKeysFollow ==
  ASSUME NEW l, IsLinks(l), NEW C, KeysFollow(l, C), NEW w, NEW n \in C \cap DOMAIN l.runAfter,
         ~HasMultipleParents(w, n), NEW x \in Ends,
         x \in Triggers => IsRootNodeInGraph(w, x, Root),
         <<n, n>> \notin l.edges, \A p : <<p, n>> \in l.edges <=> p = x,
         NEW r, r = DetachNode(l, w, n, x)
  PROVE  /\ KeysFollow(r, C)
         /\ Keys(r.runAfter[n]) = {}
         /\ IsWithout(r.edges, l.edges, n)
<1> DEFINE isNew == IsRootNodeInGraph(w, x, Root)
           given == ReassignEdgeSources(l, n, x, FALSE, isNew)
<1>1. r = RemoveEdge(given, x, n)
  BY DEF DetachNode
<1>2. given.edges = {IF e[1] = n THEN <<x, e[2]>> ELSE e : e \in l.edges}
  BY DEF ReassignEdgeSources
<1>3. /\ IsLinks(given) /\ KeysFollow(given, C)
      /\ DOMAIN given.runAfter = DOMAIN l.runAfter /\ given.runAfter[n] = l.runAfter[n]
  <2>1. isNew \in BOOLEAN /\ (x \in Triggers => isNew)
    BY DEF IsRootNodeInGraph
  <2>2. \A o, i \in BOOLEAN : \A g :
          (x \in Triggers => i) /\ g = ReassignEdgeSources(l, n, x, o, i) =>
            /\ IsLinks(g) /\ KeysFollow(g, C)
            /\ DOMAIN g.runAfter = DOMAIN l.runAfter /\ g.runAfter[n] = l.runAfter[n]
    BY ReassignEdgeSourcesIsLinks, ReassignedKeysFollow
  <2>3. given = ReassignEdgeSources(l, n, x, FALSE, isNew)
    OBVIOUS
  <2> HIDE DEF given, isNew
  <2> QED BY <2>1, <2>2, <2>3, Zenon
<1> HIDE DEF given
<1>4. KeysFollow(r, C) /\ Keys(r.runAfter[n]) = {}
  <2>1. KeysFollow(r, C) /\ Keys(r.runAfter[n]) = Keys(l.runAfter[n]) \ {x}
    BY <1>1, <1>3, RemovedKeysFollow
  <2>2. \A p \in Keys(l.runAfter[n]) : p = x
    BY DEF KeysFollow
  <2> QED BY <2>1, <2>2
<1>5. r.edges = {IF e[1] = n THEN <<x, e[2]>> ELSE e : e \in l.edges} \ {<<x, n>>}
  BY <1>1, <1>2 DEF RemoveEdge
<1>6. \A e \in l.edges : e = <<e[1], e[2]>>
  BY DEF IsLinks
<1>7. ASSUME NEW p, NEW c, <<p, c>> \in r.edges
      PROVE  /\ p # n /\ c # n
             /\ <<p, c>> \in l.edges \/ (<<p, n>> \in l.edges /\ <<n, c>> \in l.edges)
  <2>1. PICK e \in l.edges : <<p, c>> = IF e[1] = n THEN <<x, e[2]>> ELSE e
    BY <1>5, <1>7
  <2>2. e = <<e[1], e[2]>> /\ <<p, c>> # <<x, n>>
    BY <1>5, <1>6, <1>7
  <2>3. CASE e[1] = n
    BY <2>1, <2>2, <2>3
  <2>4. CASE e[1] # n
    BY <2>1, <2>2, <2>4
  <2> QED BY <2>3, <2>4
<1>8. ASSUME NEW p, NEW c, p # n, c # n, <<p, c>> \in l.edges
      PROVE  <<p, c>> \in r.edges
  BY <1>5, <1>8
<1>9. ASSUME NEW c, c # n, <<n, c>> \in l.edges
      PROVE  <<x, c>> \in r.edges
  <2> DEFINE e == <<n, c>>
  <2>1. e \in l.edges /\ <<x, c>> = (IF e[1] = n THEN <<x, e[2]>> ELSE e)
        /\ <<x, c>> # <<x, n>>
    BY <1>9
  <2> HIDE DEF e
  <2> QED BY <1>5, <2>1
<1> QED BY <1>4, <1>7, <1>8, <1>9 DEF IsWithout

(* What putting n between parent and child, before child, or after parent  *)
(* makes of the edges E.                                                   *)
Inserted(E, n, parent, child) ==
  IF parent # NoNode /\ child # NoNode
  THEN (E \cup {<<parent, n>>, <<n, child>>}) \ {<<parent, child>>}
  ELSE IF child # NoNode
  THEN {IF e[2] = child THEN <<e[1], n>> ELSE e : e \in E} \cup {<<n, child>>}
  ELSE {IF e[1] = parent THEN <<n, e[2]>> ELSE e : e \in E} \cup {<<parent, n>>}

(* What the canvas offers: an edge, or one of its ends. *)
IsPlace(E, parent, child) ==
  /\ parent # NoNode \/ child # NoNode
  /\ parent # NoNode /\ child # NoNode => <<parent, child>> \in E

(* The edges F join n, parent, child and what E joins. *)
InsertedJoin(E, F, n, parent, child) ==
  \A p, c : <<p, c>> \in F =>
    /\ p = n \/ (p = parent /\ p # NoNode) \/ \E k : <<p, k>> \in E
    /\ c = n \/ (c = child /\ c # NoNode) \/ \E k : <<k, c>> \in E

(* At most one edge enters n. *)
OneSource(E, n) == \A p, q : <<p, n>> \in E /\ <<q, n>> \in E => p = q

(* The node n, put before child, takes its one source, and no node gets    *)
(* two that had one.                                                       *)
StaysAlone(E, F, n, child) ==
  (child # NoNode => OneSource(E, child)) =>
    /\ OneSource(F, n)
    /\ \A k : k # n /\ OneSource(E, k) => OneSource(F, k)

(* Nothing is joined to n. *)
Untouched(E, n) == \A p, c : <<p, c>> \in E => p # n /\ c # n

(* InsertNode draws the new node between parent and child, whichever of    *)
(* the two there is.                                                       *)
LEMMA InsertNodeInserts ==
  ASSUME NEW l, NEW n, NEW parent, NEW child, NEW add, NEW isOld,
         parent # NoNode \/ child # NoNode, n # child,
         NEW r, r = InsertNode(l, n, parent, child, add, isOld)
  PROVE  r.edges = Inserted(l.edges, n, parent, child)
<1> DEFINE between ==
             RemoveEdge(AddNewEdge(AddNewEdge(l, parent, n, add), n, child, TRUE), parent, child)
           before == RunAfterOf(l.runAfter, child)
<1>1. CASE parent # NoNode /\ child # NoNode
  <2>1. between.edges = (l.edges \cup {<<parent, n>>, <<n, child>>}) \ {<<parent, child>>}
    BY DEF AddNewEdge, RemoveEdge
  <2>2. r = IF before # Absent /\ add
            THEN [between EXCEPT !.runAfter[n] = WithKey(@, parent, StatusOf(before, parent))]
            ELSE between
    BY <1>1 DEF InsertNode
  <2>3. \E ra : between = [edges |-> between.edges, runAfter |-> ra]
    BY DEF RemoveEdge
  <2> HIDE DEF between, before
  <2>4. r.edges = between.edges
    BY <2>2, <2>3
  <2> QED BY <1>1, <2>1, <2>4 DEF Inserted
<1>2. CASE parent = NoNode /\ child # NoNode
  BY <1>2 DEF InsertNode, Inserted, AddNewEdge, ReassignEdgeTargets
<1>3. CASE parent # NoNode /\ child = NoNode
  BY <1>3 DEF InsertNode, Inserted, AddNewEdge, ReassignEdgeSources
<1> QED BY <1>1, <1>2, <1>3

(* A node that nothing is joined to is put where it was dropped. *)
LEMMA InsertedIsWithout ==
  ASSUME NEW E, E \subseteq Ends \X Ends, NEW n, NEW parent, NEW child,
         n # parent, n # child, Untouched(E, n), IsPlace(E, parent, child),
         NEW F, F = Inserted(E, n, parent, child)
  PROVE  /\ IsWithout(E, F, n)
         /\ \A p : <<p, n>> \in F <=>
              IF parent # NoNode THEN p = parent ELSE <<p, child>> \in E
         /\ InsertedJoin(E, F, n, parent, child)
         /\ StaysAlone(E, F, n, child)
<1>0. /\ \A e \in E : e = <<e[1], e[2]>>
      /\ \A p, c : <<p, c>> \in E => p # n /\ c # n
      /\ parent # NoNode \/ child # NoNode
      /\ parent # NoNode /\ child # NoNode => <<parent, child>> \in E
  BY DEF Untouched, IsPlace
<1>1. CASE parent # NoNode /\ child # NoNode
  <2>1. F = (E \cup {<<parent, n>>, <<n, child>>}) \ {<<parent, child>>}
    BY <1>1 DEF Inserted
  <2>2. \A p, c : <<p, c>> \in F <=>
          /\ <<p, c>> # <<parent, child>>
          /\ <<p, c>> \in E \/ (p = parent /\ c = n) \/ (p = n /\ c = child)
    BY <2>1
  <2>3. IsWithout(E, F, n)
    BY <1>0, <1>1, <2>2 DEF IsWithout
  <2>4. StaysAlone(E, F, n, child)
    BY <1>0, <1>1, <2>2 DEF StaysAlone, OneSource
  <2> QED BY <1>0, <1>1, <2>2, <2>3, <2>4 DEF InsertedJoin
<1>2. CASE parent = NoNode /\ child # NoNode
  <2> DEFINE G == {IF e[2] = child THEN <<e[1], n>> ELSE e : e \in E}
  <2>1. F = G \cup {<<n, child>>}
    BY <1>2 DEF Inserted
  <2>2. ASSUME NEW p, NEW c
        PROVE  <<p, c>> \in G <=> \/ <<p, c>> \in E /\ c # child
                                  \/ c = n /\ <<p, child>> \in E
    <3>1. ASSUME <<p, c>> \in G
          PROVE  (<<p, c>> \in E /\ c # child) \/ (c = n /\ <<p, child>> \in E)
      <4>1. PICK e \in E : <<p, c>> = IF e[2] = child THEN <<e[1], n>> ELSE e
        BY <3>1
      <4>2. CASE e[2] = child
        BY <1>0, <4>1, <4>2
      <4>3. CASE e[2] # child
        BY <1>0, <4>1, <4>3
      <4> QED BY <4>2, <4>3
    <3>2. ASSUME <<p, c>> \in E, c # child PROVE <<p, c>> \in G
      BY <3>2
    <3>3. ASSUME c = n, <<p, child>> \in E PROVE <<p, c>> \in G
      <4> DEFINE e == <<p, child>>
      <4>1. e \in E /\ <<p, c>> = IF e[2] = child THEN <<e[1], n>> ELSE e
        BY <3>3
      <4> HIDE DEF e
      <4> QED BY <4>1
    <3> QED BY <3>1, <3>2, <3>3
  <2> HIDE DEF G
  <2>3. \A p, c : <<p, c>> \in F <=> \/ <<p, c>> \in E /\ c # child
                                     \/ c = n /\ <<p, child>> \in E
                                     \/ p = n /\ c = child
    BY <2>1, <2>2
  <2>4. IsWithout(E, F, n)
    BY <1>0, <2>3 DEF IsWithout
  <2>5. StaysAlone(E, F, n, child)
    BY <1>0, <1>2, <2>3 DEF StaysAlone, OneSource
  <2> QED BY <1>0, <1>2, <2>3, <2>4, <2>5 DEF InsertedJoin
<1>3. CASE parent # NoNode /\ child = NoNode
  <2> DEFINE G == {IF e[1] = parent THEN <<n, e[2]>> ELSE e : e \in E}
  <2>1. F = G \cup {<<parent, n>>}
    BY <1>3 DEF Inserted
  <2>2. ASSUME NEW p, NEW c
        PROVE  <<p, c>> \in G <=> \/ <<p, c>> \in E /\ p # parent
                                  \/ p = n /\ <<parent, c>> \in E
    <3>1. ASSUME <<p, c>> \in G
          PROVE  (<<p, c>> \in E /\ p # parent) \/ (p = n /\ <<parent, c>> \in E)
      <4>1. PICK e \in E : <<p, c>> = IF e[1] = parent THEN <<n, e[2]>> ELSE e
        BY <3>1
      <4>2. CASE e[1] = parent
        BY <1>0, <4>1, <4>2
      <4>3. CASE e[1] # parent
        BY <1>0, <4>1, <4>3
      <4> QED BY <4>2, <4>3
    <3>2. ASSUME <<p, c>> \in E, p # parent PROVE <<p, c>> \in G
      BY <3>2
    <3>3. ASSUME p = n, <<parent, c>> \in E PROVE <<p, c>> \in G
      <4> DEFINE e == <<parent, c>>
      <4>1. e \in E /\ <<p, c>> = IF e[1] = parent THEN <<n, e[2]>> ELSE e
        BY <3>3
      <4> HIDE DEF e
      <4> QED BY <4>1
    <3> QED BY <3>1, <3>2, <3>3
  <2> HIDE DEF G
  <2>3. \A p, c : <<p, c>> \in F <=> \/ <<p, c>> \in E /\ p # parent
                                     \/ p = n /\ <<parent, c>> \in E
                                     \/ p = parent /\ c = n
    BY <2>1, <2>2
  <2>4. IsWithout(E, F, n)
    BY <1>0, <2>3 DEF IsWithout
  <2>5. StaysAlone(E, F, n, child)
    <3>1. OneSource(F, n)
      BY <1>0, <1>3, <2>3 DEF OneSource
    <3>2. ASSUME NEW k, k # n, OneSource(E, k) PROVE OneSource(F, k)
      <4>1. \A p : <<p, k>> \in F => \/ <<p, k>> \in E /\ p # parent
                                     \/ p = n /\ <<parent, k>> \in E
        BY <2>3, <3>2
      <4>2. \A p : <<p, k>> \in E => p # n
        BY <1>0
      <4>3. ASSUME NEW p, NEW q, <<p, k>> \in F, <<q, k>> \in F PROVE p = q
        <5>1. CASE <<parent, k>> \in E
          BY <3>2, <4>1, <4>3, <5>1 DEF OneSource
        <5>2. CASE <<parent, k>> \notin E
          BY <3>2, <4>1, <4>3, <5>2 DEF OneSource
        <5> QED BY <5>1, <5>2
      <4> QED BY <4>3 DEF OneSource
    <3> QED BY <3>1, <3>2 DEF StaysAlone
  <2> QED BY <1>0, <1>3, <2>3, <2>4, <2>5 DEF InsertedJoin
<1> QED BY <1>0, <1>1, <1>2, <1>3

(* An inserted node runs after its parent, and its child after it:         *)
(* runAfter still follows the edges.                                       *)
LEMMA InsertedKeysFollow ==
  ASSUME NEW l, IsLinks(l), NEW C, KeysFollow(l, C), NEW n \in C \cap DOMAIN l.runAfter,
         n \notin Triggers, Keys(l.runAfter[n]) = {},
         \A p, c : <<p, c>> \in l.edges => p # n /\ c # n /\ p # c,
         NEW parent \in Ends, NEW child \in C \cup {NoNode}, C \subseteq Ends,
         n # parent, n # child,
         NEW add \in BOOLEAN, NEW isOld \in BOOLEAN, add => parent \notin Triggers,
         NEW r, r = InsertNode(l, n, parent, child, add, isOld)
  PROVE  KeysFollow(r, C)
<1>1. n \in Ends /\ child \in Ends
  BY Ids DEF IsLinks, IsRunAfterMap
<1>2. ASSUME NEW m, IsLinks(m), KeysFollow(m, C), NEW p \in Ends, p \notin Triggers,
             NEW c \in Ends, NEW g, g = AddNewEdge(m, p, c, TRUE)
      PROVE  IsLinks(g) /\ KeysFollow(g, C) /\ DOMAIN g.runAfter = DOMAIN m.runAfter
  <2>1. ASSUME NEW i \in BOOLEAN, NEW h, h = AddNewEdge(m, p, c, i)
        PROVE  IsLinks(h) /\ KeysFollow(h, C) /\ DOMAIN h.runAfter = DOMAIN m.runAfter
    <3>1. IsLinks(h) /\ DOMAIN h.runAfter = DOMAIN m.runAfter
      BY <1>2, <2>1, AddNewEdgeIsLinks
    <3>2. KeysFollow(h, C)
      BY <1>2, <2>1, AddedKeysFollow
    <3> QED BY <3>1, <3>2
  <2> QED BY <1>2, <2>1, Zenon
<1>3. CASE parent # NoNode /\ child # NoNode
  <2> DEFINE first == AddNewEdge(l, parent, n, add)
             second == AddNewEdge(first, n, child, TRUE)
             between == RemoveEdge(second, parent, child)
             before == RunAfterOf(l.runAfter, child)
             own == WithKey(between.runAfter[n], parent, StatusOf(before, parent))
  <2>1. r = IF before # Absent /\ add
            THEN [between EXCEPT !.runAfter[n] = own]
            ELSE between
    BY <1>3 DEF InsertNode
  <2>2. <<parent, n>> \in between.edges
    BY DEF RemoveEdge, AddNewEdge
  <2>3. between = [edges |-> between.edges, runAfter |-> between.runAfter]
    BY DEF RemoveEdge
  <2>4. IsLinks(first) /\ KeysFollow(first, C) /\ DOMAIN first.runAfter = DOMAIN l.runAfter
    <3>1. first = AddNewEdge(l, parent, n, add)
      OBVIOUS
    <3> HIDE DEF first
    <3> QED BY <1>1, <3>1, AddNewEdgeIsLinks, AddedKeysFollow
  <2> HIDE DEF first
  <2>5. IsLinks(second) /\ KeysFollow(second, C) /\ DOMAIN second.runAfter = DOMAIN l.runAfter
    <3>1. second = AddNewEdge(first, n, child, TRUE)
      OBVIOUS
    <3> HIDE DEF second
    <3> QED BY <1>1, <1>2, <2>4, <3>1
  <2> HIDE DEF second
  <2>6. IsLinks(between) /\ KeysFollow(between, C) /\ DOMAIN between.runAfter = DOMAIN l.runAfter
    BY <2>5, RemoveEdgeIsLinks, RemovedKeysFollow
  <2> HIDE DEF between
  <2>7. Keys(own) = Keys(between.runAfter[n]) \cup {parent}
    <3>1. IsRunAfter(between.runAfter[n])
      BY <2>6 DEF IsLinks, IsRunAfterMap
    <3>2. StatusOf(before, parent) \in Status
      BY RunAfterOfIsRunAfter, StatusOfIsStatus
    <3> HIDE DEF before
    <3> QED BY <3>1, <3>2, WithKeyHasKeys
  <2> HIDE DEF own
  <2>8. CASE before # Absent /\ add
    <3>1. r.edges = between.edges /\ r.runAfter = [between.runAfter EXCEPT ![n] = own]
      BY <2>1, <2>3, <2>8
    <3>2. /\ DOMAIN r.runAfter = DOMAIN l.runAfter /\ r.runAfter[n] = own
          /\ \A c \in DOMAIN l.runAfter \ {n} : r.runAfter[c] = between.runAfter[c]
      BY <2>6, <3>1
    <3>3. /\ parent \notin Triggers
          /\ \A c \in C \cap DOMAIN l.runAfter : \A p \in Keys(between.runAfter[c]) :
               <<p, c>> \in between.edges /\ p \notin Triggers
      BY <2>6, <2>8 DEF KeysFollow
    <3>4. \A p \in Keys(r.runAfter[n]) : <<p, n>> \in r.edges /\ p \notin Triggers
      BY <2>2, <2>7, <3>1, <3>2, <3>3
    <3>5. \A c \in (C \cap DOMAIN l.runAfter) \ {n} : \A p \in Keys(r.runAfter[c]) :
            <<p, c>> \in r.edges /\ p \notin Triggers
      BY <3>1, <3>2, <3>3
    <3> QED BY <3>2, <3>4, <3>5 DEF KeysFollow
  <2>9. CASE ~(before # Absent /\ add)
    BY <2>1, <2>6, <2>9
  <2> QED BY <2>8, <2>9
<1>4. CASE parent = NoNode /\ child # NoNode
  <2> DEFINE taken == ReassignEdgeTargets(l, child, n)
  <2>1. r = AddNewEdge(taken, n, child, TRUE)
    BY <1>4 DEF InsertNode
  <2>2. IsLinks(taken) /\ KeysFollow(taken, C)
    <3>1. taken = ReassignEdgeTargets(l, child, n)
      OBVIOUS
    <3> HIDE DEF taken
    <3> QED BY <1>1, <1>4, <3>1, ReassignEdgeTargetsIsLinks, RetargetedKeysFollow
  <2> HIDE DEF taken
  <2> QED BY <1>1, <1>2, <2>1, <2>2
<1>5. CASE parent # NoNode /\ child = NoNode
  <2> DEFINE given == ReassignEdgeSources(l, parent, n, isOld, FALSE)
  <2>1. r = AddNewEdge(given, parent, n, add)
    BY <1>5 DEF InsertNode
  <2>2. IsLinks(given) /\ KeysFollow(given, C)
    <3>1. \A i \in BOOLEAN : \A g :
            g = ReassignEdgeSources(l, parent, n, isOld, i) => IsLinks(g) /\ KeysFollow(g, C)
      <4> SUFFICES ASSUME NEW i \in BOOLEAN, NEW g, g = ReassignEdgeSources(l, parent, n, isOld, i)
                   PROVE  IsLinks(g) /\ KeysFollow(g, C)
        OBVIOUS
      <4>1. <<parent, parent>> \notin l.edges
        OBVIOUS
      <4>2. IsLinks(g)
        BY <1>1, ReassignEdgeSourcesIsLinks
      <4> QED BY <1>1, <4>1, <4>2, ReassignedKeysFollow
    <3>2. given = ReassignEdgeSources(l, parent, n, isOld, FALSE)
      OBVIOUS
    <3> HIDE DEF given
    <3> QED BY <3>1, <3>2, Zenon
  <2> HIDE DEF given
  <2> QED BY <1>1, <2>1, <2>2, AddedKeysFollow
<1>6. CASE parent = NoNode /\ child = NoNode
  BY <1>6 DEF InsertNode
<1> QED BY <1>3, <1>4, <1>5, <1>6

-----------------------------------------------------------------------------
(* One graph under the edits.                                              *)

(* n has no parent but the one it was put under, if it was. *)
HangsFrom(E, n, parent) == parent # NoNode => \A p : <<p, n>> \in E => p = parent

(* The graph of the cards C, which hangs from S: its edges lead from cards *)
(* to cards and to the footers T, and keys follow them.                    *)
IsGraph(l, C, T, S) ==
  /\ IsCanvas(l.edges, C \cup T, S)
  /\ \A p, c : <<p, c>> \in l.edges => p \in C
  /\ KeysFollow(l, C)

(* A node more is on the canvas, wherever it is put. *)
LEMMA InsertedOnCanvas ==
  ASSUME NEW F, F \subseteq Ends \X Ends, NEW C, C \subseteq Ends \ {NoNode},
         NEW S, S # {}, IsCanvas(F, C, S),
         NEW n, n \in Ends \ C, n # NoNode,
         NEW parent \in C \cup {NoNode}, NEW child \in (C \ S) \cup {NoNode},
         IsPlace(F, parent, child),
         NEW E, E \subseteq Ends \X Ends, E = Inserted(F, n, parent, child)
  PROVE  /\ IsWithout(F, E, n)
         /\ IsCanvas(E, C \cup {n}, S)
         /\ HangsFrom(E, n, parent)
         /\ InsertedJoin(F, E, n, parent, child)
         /\ StaysAlone(F, E, n, child)
<1>1. \A p, c : <<p, c>> \in F => p \in C /\ c \in C \ S
  BY DEF IsCanvas
<1>2. n # parent /\ n # child /\ Untouched(F, n)
  BY <1>1 DEF Untouched
<1>3. /\ IsWithout(F, E, n)
      /\ \A p : <<p, n>> \in E <=> IF parent # NoNode THEN p = parent ELSE <<p, child>> \in F
      /\ InsertedJoin(F, E, n, parent, child)
      /\ StaysAlone(F, E, n, child)
  <2> HIDE <1>1
  <2>1. IsWithout(F, E, n)
    BY <1>2, InsertedIsWithout
  <2>2. \A p : <<p, n>> \in E <=> IF parent # NoNode THEN p = parent ELSE <<p, child>> \in F
    BY <1>2, InsertedIsWithout
  <2>3. InsertedJoin(F, E, n, parent, child) /\ StaysAlone(F, E, n, child)
    BY <1>2, InsertedIsWithout
  <2> QED BY <2>1, <2>2, <2>3
<1>4. S \subseteq C
  BY DEF IsCanvas
<1>5. \E p \in C : <<p, n>> \in E
  <2>1. CASE parent # NoNode
    BY <1>3, <2>1
  <2>2. CASE parent = NoNode
    <3>1. PICK s : s \in S
      OBVIOUS
    <3>2. PICK p \in C : <<p, child>> \in F
      BY <2>2, <3>1, NodesAreEntered DEF IsPlace
    <3> QED BY <1>3, <2>2, <3>2
  <2> QED BY <2>1, <2>2
<1>6. \A p, c : <<p, c>> \in E => p \in C \cup {n} /\ c \in (C \cup {n}) \ S
  BY <1>1, <1>3, <1>4 DEF InsertedJoin
<1>7. IsCanvas(E, C \cup {n}, S)
  BY <1>3, <1>5, <1>6, CanvasWith
<1>8. HangsFrom(E, n, parent)
  BY <1>3 DEF HangsFrom
<1> QED BY <1>3, <1>7, <1>8

(* InsertNode changes the keys of n, of its children and of no other.      *)
LEMMA InsertedElsewhere ==
  ASSUME NEW l, IsLinks(l), NEW n, NEW parent, NEW child, n # child, n # parent,
         parent # NoNode \/ child # NoNode,
         NEW add, NEW isOld, NEW r, r = InsertNode(l, n, parent, child, add, isOld),
         NEW k \in DOMAIN l.runAfter, k # n, k # child,
         child = NoNode => <<parent, k>> \notin l.edges
  PROVE  r.runAfter[k] = l.runAfter[k]
<1>1. ASSUME NEW m, NEW p, NEW c, NEW a, m.runAfter[k] = l.runAfter[k],
             k \in DOMAIN m.runAfter, k # c
      PROVE  /\ AddNewEdge(m, p, c, a).runAfter[k] = l.runAfter[k]
             /\ k \in DOMAIN AddNewEdge(m, p, c, a).runAfter
             /\ RemoveEdge(m, p, c).runAfter[k] = l.runAfter[k]
             /\ k \in DOMAIN RemoveEdge(m, p, c).runAfter
  BY <1>1 DEF AddNewEdge, RemoveEdge
<1>2. CASE parent # NoNode /\ child # NoNode
  <2> DEFINE one == AddNewEdge(l, parent, n, add)
             two == AddNewEdge(one, n, child, TRUE)
             between == RemoveEdge(two, parent, child)
             before == RunAfterOf(l.runAfter, child)
  <2>1. one.runAfter[k] = l.runAfter[k] /\ k \in DOMAIN one.runAfter
    BY <1>1
  <2> HIDE DEF one
  <2>2. two.runAfter[k] = l.runAfter[k] /\ k \in DOMAIN two.runAfter
    BY <1>1, <2>1
  <2> HIDE DEF two
  <2>3. between.runAfter[k] = l.runAfter[k] /\ k \in DOMAIN between.runAfter
    BY <1>1, <2>2
  <2>4. r = IF before # Absent /\ add
            THEN [between EXCEPT !.runAfter[n] = WithKey(@, parent, StatusOf(before, parent))]
            ELSE between
    BY <1>2 DEF InsertNode, one, two
  <2>5. between = [edges |-> between.edges, runAfter |-> between.runAfter]
    BY DEF RemoveEdge
  <2> HIDE DEF between, before
  <2> QED BY <2>3, <2>4, <2>5
<1>3. CASE parent = NoNode /\ child # NoNode
  <2> DEFINE one == ReassignEdgeTargets(l, child, n)
  <2>1. r = AddNewEdge(one, n, child, TRUE)
    BY <1>3 DEF InsertNode
  <2>2. one.runAfter[k] = l.runAfter[k] /\ k \in DOMAIN one.runAfter
    BY DEF ReassignEdgeTargets, MoveRunAfterTarget
  <2> HIDE DEF one
  <2> QED BY <2>1, <2>2 DEF AddNewEdge
<1>4. CASE parent # NoNode /\ child = NoNode
  <2> DEFINE one == ReassignEdgeSources(l, parent, n, isOld, FALSE)
  <2>1. r = AddNewEdge(one, parent, n, add)
    BY <1>4 DEF InsertNode
  <2>2. k \notin Targets(l, parent)
    <3>1. l.edges \subseteq Ends \X Ends
      BY DEF IsLinks
    <3> QED BY <1>4, <3>1 DEF Targets
  <2>3. one.runAfter[k] = l.runAfter[k] /\ k \in DOMAIN one.runAfter
    BY <2>2 DEF ReassignEdgeSources
  <2> HIDE DEF one
  <2> QED BY <1>1, <2>1, <2>3
<1> QED BY <1>2, <1>3, <1>4

(* Detaching n changes its keys, those of its children, and no other.      *)
LEMMA DetachedElsewhere ==
  ASSUME NEW l, IsLinks(l), NEW w, NEW n, ~HasMultipleParents(w, n), NEW x,
         NEW r, r = DetachNode(l, w, n, x),
         NEW k \in DOMAIN l.runAfter, k # n, <<n, k>> \notin l.edges
  PROVE  r.runAfter[k] = l.runAfter[k]
<1> DEFINE one == ReassignEdgeSources(l, n, x, FALSE, IsRootNodeInGraph(w, x, Root))
<1>1. r = RemoveEdge(one, x, n)
  BY DEF DetachNode
<1>2. k \notin Targets(l, n)
  <2>1. l.edges \subseteq Ends \X Ends
    BY DEF IsLinks
  <2> QED BY <2>1 DEF Targets
<1>3. one.runAfter[k] = l.runAfter[k] /\ k \in DOMAIN one.runAfter
  BY <1>2 DEF ReassignEdgeSources
<1> HIDE DEF one
<1> QED BY <1>1, <1>3 DEF RemoveEdge

(* The ids of cards and footers, apart from each other. *)
LEMMA CardIds ==
  /\ Footers \cap Operations = {} /\ Headings \cap Operations = {}
  /\ NoNode \notin Footers /\ NoNode \notin Headings
  /\ Placeholder \notin Footers /\ Placeholder \notin Headings
  /\ Footers \subseteq Ends /\ Headings \subseteq Ends
  /\ Footers \cap Headings = {}
  /\ \A g \in Scopes : Heading(g) \in Headings /\ Footer(g) \in Footers
  /\ \A g, h : Heading(g) = Heading(h) => g = h
  /\ \A g, h : Footer(g) = Footer(h) => g = h
  /\ \A g : Heading(g) \in Headings => g \in Scopes
  /\ \A g : Footer(g) \in Footers => g \in Scopes
<1>1. \A g, h : (Heading(g) = Heading(h) => g = h) /\ (Footer(g) = Footer(h) => g = h)
  BY DEF Heading, Footer
<1>2. \A g, h : Heading(g) # Footer(h)
  BY DEF Heading, Footer
<1>3. /\ Footers \cap Operations = {} /\ Headings \cap Operations = {}
      /\ NoNode \notin Footers /\ NoNode \notin Headings
      /\ Placeholder \notin Footers /\ Placeholder \notin Headings
  BY CardsAreNoOperations
<1>4. Footers \subseteq Ends /\ Headings \subseteq Ends
  BY DEF Ends
<1>5. Footers \cap Headings = {}
  BY <1>2 DEF Headings, Footers
<1>6. \A g \in Scopes : Heading(g) \in Headings /\ Footer(g) \in Footers
  BY DEF Headings, Footers
<1>7. \A g : (Heading(g) \in Headings => g \in Scopes) /\ (Footer(g) \in Footers => g \in Scopes)
  BY <1>1 DEF Headings, Footers
<1> QED BY <1>1, <1>3, <1>4, <1>5, <1>6, <1>7

(* r is m with n put below parent and before child, as good a graph as m. *)
IsJoined(m, r, C, T, S, n, parent, child) ==
  /\ IsGraph(r, C \cup {n}, T, S)
  /\ IsLinks(r) /\ DOMAIN r.runAfter = DOMAIN m.runAfter
  /\ IsWithout(m.edges, r.edges, n)
  /\ HangsFrom(r.edges, n, parent)
  /\ StaysAlone(m.edges, r.edges, n, child)
  /\ \A k \in DOMAIN m.runAfter : k \notin C \cup T \cup {n} => r.runAfter[k] = m.runAfter[k]

(* A node more is in the graph. *)
LEMMA InsertedGraph ==
  ASSUME NEW l, IsLinks(l), NEW C, C \subseteq Ends \ {NoNode}, NEW T, T \subseteq Ends \ {NoNode},
         NEW S, S # {}, S \subseteq C, IsGraph(l, C, T, S),
         NEW n \in DOMAIN l.runAfter, n \notin C \cup T, n \notin Triggers, Keys(l.runAfter[n]) = {},
         NEW parent \in C \cup {NoNode}, NEW child \in (C \ S) \cup {NoNode},
         IsPlace(l.edges, parent, child),
         NEW add \in BOOLEAN, NEW isOld \in BOOLEAN, add => parent \notin Triggers,
         NEW r, r = InsertNode(l, n, parent, child, add, isOld)
  PROVE  IsJoined(l, r, C, T, S, n, parent, child)
<1> DEFINE D == C \cup T
<1>1. /\ DOMAIN l.runAfter \subseteq Operations /\ l.edges \subseteq Ends \X Ends
      /\ n \in Ends /\ n # NoNode /\ n # parent /\ n # child
      /\ parent \in Ends /\ child \in Ends
      /\ \A k \in DOMAIN l.runAfter : k # NoNode
  BY Ids DEF IsLinks, IsRunAfterMap
<1>2. /\ IsCanvas(l.edges, D, S) /\ KeysFollow(l, C)
      /\ \A p, c : <<p, c>> \in l.edges => p \in C /\ c \in D \ S
  BY DEF IsGraph, IsCanvas
<1>3. \A p, c : <<p, c>> \in l.edges => p # n /\ c # n /\ p # c
  <2>1. ASSUME NEW p, <<p, p>> \in l.edges PROVE FALSE
    <3>1. p \in D /\ p \notin Later(l.edges, p) /\ p \in Ends
      BY <1>1, <1>2, <2>1 DEF IsCanvas
    <3>2. Leads(l.edges, p, Later(l.edges, p))
      BY <1>1, LaterIsLeast
    <3> QED BY <2>1, <3>1, <3>2 DEF Leads
  <2> QED BY <1>2, <2>1
<1>4. /\ IsLinks(r) /\ DOMAIN r.runAfter = DOMAIN l.runAfter
  <2>1. \A a, i \in BOOLEAN : \A q : q = InsertNode(l, n, parent, child, a, i) =>
          IsLinks(q) /\ DOMAIN q.runAfter = DOMAIN l.runAfter
    BY <1>1, InsertNodeIsLinks, SMTT(30)
  <2> QED BY <2>1, Zenon
<1>5. r.edges = Inserted(l.edges, n, parent, child)
  <2>1. parent # NoNode \/ child # NoNode
    BY DEF IsPlace
  <2>2. \A a, i \in BOOLEAN : \A q : q = InsertNode(l, n, parent, child, a, i) =>
          q.edges = Inserted(l.edges, n, parent, child)
    BY <1>1, <2>1, InsertNodeInserts
  <2> QED BY <2>2, Zenon
<1>6. r.edges \subseteq Ends \X Ends
  BY <1>4 DEF IsLinks
<1>7. /\ IsWithout(l.edges, r.edges, n) /\ IsCanvas(r.edges, D \cup {n}, S)
      /\ HangsFrom(r.edges, n, parent) /\ InsertedJoin(l.edges, r.edges, n, parent, child)
      /\ StaysAlone(l.edges, r.edges, n, child)
  <2>1. /\ D \subseteq Ends \ {NoNode} /\ parent \in D \cup {NoNode} /\ child \in (D \ S) \cup {NoNode}
        /\ n \in Ends \ D
    BY <1>1
  <2> HIDE DEF D
  <2> QED BY <1>1, <1>2, <1>5, <1>6, <2>1, InsertedOnCanvas
<1>8. \A p, c : <<p, c>> \in r.edges => p \in C \cup {n}
  BY <1>2, <1>7 DEF InsertedJoin
<1>9. KeysFollow(r, C \cup {n})
  <2>1. KeysFollow(l, C \cup {n}) /\ C \cup {n} \subseteq Ends
        /\ n \in (C \cup {n}) \cap DOMAIN l.runAfter /\ child \in (C \cup {n}) \cup {NoNode}
    BY <1>1, <1>2 DEF KeysFollow
  <2> DEFINE B == C \cup {n}
  <2> HIDE DEF B
  <2>2. \A a, i \in BOOLEAN : \A q : q = InsertNode(l, n, parent, child, a, i) /\ (a => parent \notin Triggers) =>
          KeysFollow(q, B)
    BY <1>1, <1>3, <2>1, InsertedKeysFollow DEF B
  <2> QED BY <2>2, Zenon DEF B
<1>10. \A k \in DOMAIN l.runAfter : k \notin C \cup T \cup {n} => r.runAfter[k] = l.runAfter[k]
  <2>1. ASSUME NEW k \in DOMAIN l.runAfter, k \notin C \cup T \cup {n}
        PROVE  r.runAfter[k] = l.runAfter[k]
    <3>1. k # child /\ <<parent, k>> \notin l.edges
      BY <1>1, <1>2, <2>1
    <3>2. parent # NoNode \/ child # NoNode
      BY DEF IsPlace
    <3> QED BY <1>1, <2>1, <3>1, <3>2, InsertedElsewhere
  <2> QED BY <2>1
<1>11. (C \cup {n}) \cup T = D \cup {n}
  OBVIOUS
<1> QED BY <1>4, <1>7, <1>8, <1>9, <1>10, <1>11 DEF IsGraph, IsJoined

(* A node more is in the graph, beside the other children of its parent. *)
LEMMA ParallelGraph ==
  ASSUME NEW l, IsLinks(l), NEW C, C \subseteq Ends \ {NoNode}, NEW T, T \subseteq Ends \ {NoNode},
         NEW S, S \subseteq C, IsGraph(l, C, T, S),
         NEW n \in DOMAIN l.runAfter, n \notin C \cup T, Keys(l.runAfter[n]) = {},
         NEW parent \in C, NEW add \in BOOLEAN, add => parent \notin Triggers,
         NEW r, r = AddNewEdge(l, parent, n, add)
  PROVE  IsJoined(l, r, C, T, S, n, parent, NoNode)
<1> DEFINE D == C \cup T
<1>1. /\ DOMAIN l.runAfter \subseteq Operations /\ l.edges \subseteq Ends \X Ends
      /\ n \in Ends /\ n # NoNode /\ n # parent
      /\ parent \in Ends
  BY Ids DEF IsLinks, IsRunAfterMap
<1>2. /\ IsCanvas(l.edges, D, S) /\ KeysFollow(l, C)
      /\ \A p, c : <<p, c>> \in l.edges => p \in C /\ c \in D \ S
  BY DEF IsGraph, IsCanvas
<1>3. r.edges = l.edges \cup {<<parent, n>>}
  BY DEF AddNewEdge
<1>4. IsLinks(r) /\ DOMAIN r.runAfter = DOMAIN l.runAfter
  <2>1. \A a \in BOOLEAN : \A q : q = AddNewEdge(l, parent, n, a) =>
          IsLinks(q) /\ DOMAIN q.runAfter = DOMAIN l.runAfter
    BY <1>1, AddNewEdgeIsLinks
  <2> QED BY <2>1, Zenon
<1>5. \A p, c : <<p, c>> \in r.edges <=> <<p, c>> \in l.edges \/ (p = parent /\ c = n)
  BY <1>3
<1>6. IsWithout(l.edges, r.edges, n)
  BY <1>1, <1>2, <1>5 DEF IsWithout
<1>7. HangsFrom(r.edges, n, parent) /\ StaysAlone(l.edges, r.edges, n, NoNode)
  BY <1>2, <1>5 DEF HangsFrom, StaysAlone, OneSource
<1>8. IsCanvas(r.edges, D \cup {n}, S)
  <2>1. /\ r.edges \subseteq Ends \X Ends /\ D \subseteq Ends /\ n \in Ends \ D
        /\ \A p, c : <<p, c>> \in r.edges => p \in D \cup {n} /\ c \in (D \cup {n}) \ S
        /\ \E p \in D : <<p, n>> \in r.edges
    BY <1>1, <1>2, <1>4, <1>5 DEF IsLinks
  <2> HIDE DEF D
  <2> QED BY <1>1, <1>2, <1>6, <2>1, CanvasWith
<1>9. KeysFollow(r, C \cup {n})
  <2>1. KeysFollow(l, C \cup {n})
    BY <1>2 DEF KeysFollow
  <2> DEFINE B == C \cup {n}
  <2> HIDE DEF B
  <2>2. \A a \in BOOLEAN : \A q : q = AddNewEdge(l, parent, n, a) /\ (a => parent \notin Triggers) =>
          KeysFollow(q, B)
    BY <1>1, <2>1, AddedKeysFollow DEF B
  <2> QED BY <2>2, Zenon DEF B
<1>10. \A k \in DOMAIN l.runAfter : k # n => r.runAfter[k] = l.runAfter[k]
  BY DEF AddNewEdge
<1>11. (C \cup {n}) \cup T = D \cup {n}
  OBVIOUS
<1>12. \A p, c : <<p, c>> \in r.edges => p \in C \cup {n}
  BY <1>2, <1>5
<1> QED BY <1>4, <1>6, <1>7, <1>8, <1>9, <1>10, <1>11, <1>12 DEF IsGraph, IsJoined

(* r is m without n, as good a graph as m. *)
IsDetached(m, r, C, T, S, n) ==
  /\ IsGraph(r, C \ {n}, T, S)
  /\ IsLinks(r) /\ DOMAIN r.runAfter = DOMAIN m.runAfter
  /\ IsWithout(r.edges, m.edges, n)
  /\ Keys(r.runAfter[n]) = {}
  /\ \A k : OneSource(m.edges, k) => OneSource(r.edges, k)
  /\ \A k \in DOMAIN m.runAfter : k \notin C \cup T => r.runAfter[k] = m.runAfter[k]

(* A node less is in the graph. *)
LEMMA DetachedGraph ==
  ASSUME NEW l, IsLinks(l), NEW C, C \subseteq Ends, NEW T, T \subseteq Ends,
         NEW S, IsGraph(l, C, T, S),
         NEW n \in (C \ S) \cap DOMAIN l.runAfter, n \notin T,
         NEW w, ~HasMultipleParents(w, n),
         NEW x \in Ends, x \in Triggers => IsRootNodeInGraph(w, x, Root),
         \A p : <<p, n>> \in l.edges <=> p = x,
         NEW r, r = DetachNode(l, w, n, x)
  PROVE  IsDetached(l, r, C, T, S, n)
<1> DEFINE D == C \cup T
<1>1. l.edges \subseteq Ends \X Ends /\ D \subseteq Ends
  BY DEF IsLinks
<1>2. /\ IsCanvas(l.edges, D, S) /\ KeysFollow(l, C)
      /\ \A p, c : <<p, c>> \in l.edges => p \in C /\ c \in D \ S
  BY DEF IsGraph, IsCanvas
<1>3. <<n, n>> \notin l.edges
  <2>1. Leads(l.edges, n, Later(l.edges, n))
    BY <1>1, LaterIsLeast
  <2> QED BY <1>2, <2>1 DEF Leads, IsCanvas
<1>4. IsLinks(r) /\ DOMAIN r.runAfter = DOMAIN l.runAfter
  BY DetachNodeIsLinks
<1>5. /\ KeysFollow(r, C) /\ Keys(r.runAfter[n]) = {}
      /\ IsWithout(r.edges, l.edges, n)
  <2> HIDE <1>1
  <2> QED BY <1>2, <1>3, DetachedKeysFollow
<1>6. r.edges \subseteq Ends \X Ends
  BY <1>4 DEF IsLinks
<1>7. IsCanvas(r.edges, D \ {n}, S)
  <2>1. n \in D \ S
    OBVIOUS
  <2> HIDE DEF D
  <2> QED BY <1>1, <1>2, <1>5, <1>6, <2>1, CanvasWithout
<1>8. \A p, c : <<p, c>> \in r.edges <=>
        /\ p # n /\ c # n
        /\ <<p, c>> \in l.edges \/ (p = x /\ <<n, c>> \in l.edges)
  BY <1>5 DEF IsWithout
<1>9. \A k : OneSource(l.edges, k) => OneSource(r.edges, k)
  <2>1. ASSUME NEW k, OneSource(l.edges, k), NEW p, NEW q, <<p, k>> \in r.edges, <<q, k>> \in r.edges
        PROVE  p = q
    <3>1. CASE <<n, k>> \in l.edges
      BY <1>8, <2>1, <3>1 DEF OneSource
    <3>2. CASE <<n, k>> \notin l.edges
      BY <1>8, <2>1, <3>2 DEF OneSource
    <3> QED BY <3>1, <3>2
  <2> QED BY <2>1 DEF OneSource
<1>10. <<x, n>> \in l.edges /\ x # n
  BY <1>3
<1>11. \A p, c : <<p, c>> \in r.edges => p \in C \ {n}
  BY <1>2, <1>8, <1>10
<1>12. \A k \in DOMAIN l.runAfter : k \notin C \cup T => r.runAfter[k] = l.runAfter[k]
  <2>1. ASSUME NEW k \in DOMAIN l.runAfter, k \notin C \cup T
        PROVE  r.runAfter[k] = l.runAfter[k]
    <3>1. k # n /\ <<n, k>> \notin l.edges
      BY <1>2, <2>1
    <3> QED BY <2>1, <3>1, DetachedElsewhere
  <2> QED BY <2>1
<1>13. (C \ {n}) \cup T = D \ {n} /\ KeysFollow(r, C \ {n})
  BY <1>5 DEF KeysFollow
<1> QED BY <1>4, <1>5, <1>7, <1>9, <1>11, <1>12, <1>13 DEF IsGraph, IsDetached

-----------------------------------------------------------------------------
(* The state of the canvas.                                                *)

(* What graph g starts at: the trigger or placeholder, or the heading. *)
Start(w, g) == IF g = Root THEN w.children[Root] \cap w.isRoot ELSE {Heading(g)}

IsDrawn(w, g) ==
  \E T \in SUBSET (Footers \cap {Footer(g)}) :
    IsGraph(Links(w, g), Cards(w, g), T, Start(w, g))

(* At most one edge enters each card. *)
SingleParents(E) == \A n : n \notin Footers => OneSource(E, n)

(* What every edit keeps of a workflow w: each graph hangs from its start, *)
(* the root graph from its one trigger or the placeholder; a scope holds   *)
(* actions and scopes that one edge enters, and nothing once it is gone.   *)
CanvasState(w) ==
  /\ IsWellFormed(w)
  /\ \A g \in Graphs : IsDrawn(w, g)
  /\ \A s \in Scopes :
       /\ w.children[s] \subseteq (Actions \cup Scopes) \ {s}
       /\ SingleParents(w.edges[s])
       /\ s \notin Defined(w) => w.children[s] = {}
  /\ w.isRoot \subseteq HasMetadata(w)
  /\ w.children[Root] \subseteq Start(w, Root) \cup Actions \cup Scopes
  /\ Start(w, Root) \subseteq Triggers \cup {Placeholder}
  /\ Start(w, Root) = {} => w.children[Root] = {}
  /\ "joins" \in Edits => SingleParents(w.edges[Root])

(* What there is in a graph. *)
LEMMA CanvasHasParts ==
  ASSUME NEW w, CanvasState(w), NEW g \in Graphs
  PROVE  /\ IsState(w) /\ Agrees(w) /\ IsWellFormed(w)
         /\ Cards(w, g) \subseteq Ends \ {NoNode} /\ Cards(w, g) \cap Footers = {}
         /\ Start(w, g) \subseteq Cards(w, g) /\ w.children[g] \subseteq Cards(w, g)
         /\ w.children[g] \subseteq Operations \cup {Placeholder}
         /\ w.children[g] \ Start(w, g) \subseteq Actions \cup Scopes
         /\ Start(w, g) = {} => Cards(w, g) = {}
         /\ Cards(w, g) \subseteq w.children[g] \cup Start(w, g)
         /\ w.edges[g] \subseteq Ends \X Ends
         /\ \A p, c : <<p, c>> \in w.edges[g] =>
              /\ p \in Cards(w, g)
              /\ c \in (w.children[g] \ Start(w, g)) \cup (Footers \cap {Footer(g)})
         /\ IsLinks(Links(w, g)) /\ DOMAIN Links(w, g).runAfter = Defined(w)
         /\ Defined(w) = HasMetadata(w) \ {Placeholder} /\ Defined(w) \subseteq Operations
         /\ \A n \in w.children[g] : n \in HasMetadata(w) /\ w.graphOf[n] = g
         /\ \A n \in w.children[g] \ {Placeholder} : n \in Defined(w)
         /\ \A n \in Cards(w, g) \cap Triggers : g = Root /\ IsRootNodeInGraph(w, n, Root)
         /\ \A n \in Cards(w, g) \cap (Actions \cup Scopes) : n \in w.children[g] \ Start(w, g)
<1>1. /\ IsState(w) /\ Agrees(w) /\ IsWellFormed(w) /\ Root \in Graphs
      /\ w.children[g] \subseteq Operations \cup {Placeholder}
      /\ IsDrawn(w, g)
  BY Ids DEF CanvasState, IsWellFormed, IsState
<1>2. PICK T \in SUBSET (Footers \cap {Footer(g)}) :
        IsGraph(Links(w, g), Cards(w, g), T, Start(w, g))
  BY <1>1 DEF IsDrawn
<1>3. g # Root => g \in Scopes /\ Heading(g) \in Headings
  BY CardIds DEF Graphs
<1>4. Cards(w, g) = w.children[g] \cup (IF g = Root THEN {} ELSE {Heading(g)})
  BY DEF Cards
<1>5. /\ Cards(w, g) \subseteq Ends \ {NoNode} /\ Cards(w, g) \cap Footers = {}
      /\ w.children[g] \subseteq Cards(w, g)
  BY <1>1, <1>3, <1>4, CardIds, Ids
<1>6. Start(w, g) \subseteq Cards(w, g) /\ Cards(w, g) \subseteq w.children[g] \cup Start(w, g)
  BY <1>4 DEF Start
<1>7. /\ w.children[g] \ Start(w, g) \subseteq Actions \cup Scopes
      /\ Start(w, g) = {} => Cards(w, g) = {}
  BY <1>3, <1>4 DEF CanvasState, Start
<1>8. w.edges[g] \subseteq Ends \X Ends /\ IsLinks(Links(w, g)) /\ DOMAIN Links(w, g).runAfter = Defined(w)
  BY <1>1, StateHasLinks DEF IsState
<1>9. \A p, c : <<p, c>> \in w.edges[g] =>
        /\ p \in Cards(w, g)
        /\ c \in (w.children[g] \ Start(w, g)) \cup (Footers \cap {Footer(g)})
  <2>1. \A p, c : <<p, c>> \in w.edges[g] =>
          p \in Cards(w, g) /\ c \in (Cards(w, g) \cup T) \ Start(w, g)
    BY <1>2 DEF IsGraph, IsCanvas, Links
  <2> QED BY <1>6, <2>1
<1>10. Defined(w) = HasMetadata(w) \ {Placeholder} /\ Defined(w) \subseteq Operations
  BY <1>1 DEF Agrees, IsState
<1>11. \A n \in w.children[g] : n \in HasMetadata(w) /\ w.graphOf[n] = g
  BY <1>1, DrawnHasMetadata
<1>12. \A n \in Cards(w, g) \cap Operations : n \in w.children[g]
  BY <1>3, <1>4, CardIds
<1>13. \A n \in Cards(w, g) \cap Triggers : g = Root /\ IsRootNodeInGraph(w, n, Root)
  <2> SUFFICES ASSUME NEW n \in Cards(w, g) \cap Triggers
               PROVE  g = Root /\ IsRootNodeInGraph(w, n, Root)
    OBVIOUS
  <2>1. n \in w.children[g] /\ n \notin Actions \cup Scopes
    BY <1>12, Ids, IdsAreDistinct
  <2>2. n \in Start(w, g)
    BY <1>7, <2>1
  <2>3. n \notin Headings
    BY CardIds, Ids
  <2>4. g = Root
    BY <1>3, <2>2, <2>3 DEF Start
  <2> QED BY <1>11, <2>1, <2>2, <2>4 DEF Start, IsRootNodeInGraph
<1>14. \A n \in Cards(w, g) \cap (Actions \cup Scopes) : n \in w.children[g] \ Start(w, g)
  <2> SUFFICES ASSUME NEW n \in Cards(w, g) \cap (Actions \cup Scopes)
               PROVE  n \in w.children[g] \ Start(w, g)
    OBVIOUS
  <2>1. n \in w.children[g] /\ n \notin Triggers /\ n # Placeholder /\ n \notin Headings
    BY <1>12, CardIds, Ids, IdsAreDistinct DEF Operations
  <2> QED BY <1>3, <2>1 DEF CanvasState, Start
<1>15. \A n \in w.children[g] \ {Placeholder} : n \in Defined(w)
  BY <1>10, <1>11
<1> HIDE <1>2
<1> QED BY <1>1, <1>5, <1>6, <1>7, <1>8, <1>9, <1>10, <1>11, <1>13, <1>14, <1>15

(* No card is in two graphs. *)
LEMMA CardsAreApart ==
  ASSUME NEW w, CanvasState(w), NEW g \in Graphs, NEW h \in Graphs, g # h
  PROVE  Cards(w, g) \cap Cards(w, h) = {}
<1> SUFFICES ASSUME NEW n \in Cards(w, g), n \in Cards(w, h) PROVE FALSE
  OBVIOUS
<1>1. /\ \A k \in Graphs : \A m \in w.children[k] : w.graphOf[m] = k /\ m \notin Headings
  BY CanvasHasParts, CardIds
<1>2. \A k \in Graphs : k # Root => Heading(k) \in Headings
  BY CardIds DEF Graphs
<1> QED BY <1>1, <1>2, CardIds DEF Cards

(* A place the canvas offers lies at an edge or a card of its graph. *)
LEMMA SitesAreInGraph ==
  ASSUME NEW w, CanvasState(w), NEW site \in Sites(w),
         NEW g, g = site.graph
  PROVE  /\ g \in Graphs /\ OnCanvas(w, g)
         /\ site.parent \in Cards(w, g) \cup {NoNode}
         /\ site.child \in (w.children[g] \ Start(w, g)) \cup {NoNode}
         /\ IsPlace(w.edges[g], site.parent, site.child)
         /\ Start(w, g) # {}
         /\ site.parent = NoNode => HasMultipleParents(w, site.child)
<1>1. PICK h \in Graphs : OnCanvas(w, h) /\ site \in EdgeSites(w, h) \cup LeafSites(w, h)
  BY DEF Sites
<1>2. /\ NoNode \notin Cards(w, h) /\ Cards(w, h) \cap Footers = {}
      /\ Start(w, h) = {} => Cards(w, h) = {}
      /\ w.edges[h] \subseteq Ends \X Ends
      /\ \A p, c : <<p, c>> \in w.edges[h] =>
           /\ p \in Cards(w, h)
           /\ c \in (w.children[h] \ Start(w, h)) \cup (Footers \cap {Footer(h)})
  BY CanvasHasParts
<1>3. CASE site \in EdgeSites(w, h)
  <2>1. PICK e \in w.edges[h] :
          /\ e[2] \notin Footers
          /\ \/ site = Site(h, e[1], e[2])
             \/ site = Site(h, e[1], NoNode)
             \/ site = Site(h, NoNode, e[2]) /\ HasMultipleParents(w, e[2])
    BY <1>3 DEF EdgeSites, DrawnEdges
  <2>2. e = <<e[1], e[2]>> /\ e[1] \in Cards(w, h) /\ e[2] \in w.children[h] \ Start(w, h)
    BY <1>2, <2>1
  <2>3. e[1] # NoNode /\ e[2] # NoNode
    BY <1>2, <2>2 DEF Cards
  <2>4. /\ site.graph = h /\ site.parent \in {e[1], NoNode} /\ site.child \in {e[2], NoNode}
        /\ site.parent = NoNode => site.child = e[2] /\ HasMultipleParents(w, e[2])
    BY <2>1, <2>3 DEF Site
  <2> QED BY <1>1, <1>2, <2>2, <2>3, <2>4 DEF IsPlace
<1>4. CASE site \in LeafSites(w, h)
  BY <1>1, <1>2, <1>4 DEF LeafSites, Site, IsPlace
<1> QED BY <1>1, <1>3, <1>4

(* An operation that one edge enters runs after one other at most. *)
LEMMA FewKeys ==
  ASSUME NEW w, CanvasState(w), NEW g \in Graphs, NEW n \in w.children[g],
         OneSource(w.edges[g], n)
  PROVE  ~HasMultipleParents(w, n)
<1> DEFINE K == Keys(RunAfterOf(w.runAfter, n))
<1>1. \A p \in K : <<p, n>> \in w.edges[g]
  <2>1. PICK T : IsGraph(Links(w, g), Cards(w, g), T, Start(w, g))
    BY DEF CanvasState, IsDrawn
  <2>2. n \in Cards(w, g)
    BY CanvasHasParts
  <2> QED BY <2>1, <2>2 DEF IsGraph, KeysFollow, Links, RunAfterOf, Keys
<1>2. K = {} \/ \E q : K = {q}
  <2>1. \A p, q \in K : p = q
    BY <1>1 DEF OneSource
  <2> HIDE DEF K
  <2>2. CASE K # {}
    <3>1. PICK q : q \in K
      BY <2>2
    <3>2. K = {q}
      BY <2>1, <3>1
    <3> QED BY <3>2
  <2> QED BY <2>2
<1>3. Cardinality(K) \in {0, 1}
  <2> HIDE DEF K
  <2> QED BY <1>2, FS_EmptySet, FS_Singleton
<1> HIDE DEF K
<1>4. ~(Cardinality(K) > 1)
  BY <1>3
<1> QED BY <1>4 DEF HasMultipleParents, K

(* Such an operation has one parent, the neighbour a delete or move finds. *)
LEMMA OneParent ==
  ASSUME NEW w, CanvasState(w), NEW g \in Graphs, NEW n \in w.children[g], n \in Actions \cup Scopes,
         OneSource(w.edges[g], n), NEW x \in Neighbours(w, n, g)
  PROVE  /\ ~HasMultipleParents(w, n) /\ ~DetachThrows(w, n, x)
         /\ x \in Cards(w, g) /\ x # n /\ x \in Ends
         /\ \A p : <<p, n>> \in w.edges[g] <=> p = x
         /\ <<n, n>> \notin w.edges[g]
         /\ x \in Triggers => IsRootNodeInGraph(w, x, Root)
         /\ n \in Defined(w) /\ n \notin Triggers /\ n \notin Start(w, g)
<1>1. /\ n \notin Start(w, g) /\ n \in Cards(w, g)
      /\ Cards(w, g) \subseteq Ends
      /\ Start(w, g) # {} /\ n # Placeholder /\ n \in Defined(w)
      /\ \A p, c : <<p, c>> \in w.edges[g] => p \in Cards(w, g)
      /\ w.edges[g] \subseteq Ends \X Ends
      /\ x \in Cards(w, g) \cap Triggers => IsRootNodeInGraph(w, x, Root)
  BY CanvasHasParts, Ids
<1>2. PICK q : <<q, n>> \in w.edges[g] /\ q # n /\ <<n, n>> \notin w.edges[g]
  <2>1. PICK T : IsCanvas(w.edges[g], Cards(w, g) \cup T, Start(w, g))
    BY DEF CanvasState, IsDrawn, IsGraph, Links
  <2> DEFINE D == Cards(w, g) \cup T
  <2>2. n \in D \ Start(w, g)
    BY <1>1
  <2>3. PICK s : s \in Start(w, g)
    BY <1>1
  <2> DEFINE E == w.edges[g]
             S == Start(w, g)
  <2>4. IsCanvas(E, D, S) /\ E \subseteq Ends \X Ends /\ n \in D \ S /\ s \in S
    BY <1>1, <2>1, <2>2, <2>3
  <2> HIDE DEF D, E, S
  <2>5. <<n, n>> \notin E /\ \E p \in D : <<p, n>> \in E /\ p # n
    BY <2>4, NodesAreEntered
  <2> QED BY <2>5 DEF E
<1>3. ~HasMultipleParents(w, n)
  BY FewKeys
<1>4. Sources(Links(w, g), n) = {q}
  <2>1. \A p : p \in Sources(Links(w, g), n) <=> <<p, n>> \in w.edges[g]
    BY <1>1 DEF Sources, Links
  <2> QED BY <1>2, <2>1 DEF OneSource
<1>5. x = q
  BY <1>3, <1>4 DEF Neighbours, OrNoNode
<1>6. n \notin Triggers
  BY IdsAreDistinct
<1> QED BY <1>1, <1>2, <1>3, <1>5, <1>6 DEF DetachThrows, OneSource

(* The user only deletes, moves and wraps such operations. *)
LEMMA DetachableHasOneSource ==
  ASSUME CanvasState(wf), NEW g \in Graphs, NEW n \in wf.children[g], MayDetach(n, g)
  PROVE  OneSource(wf.edges[g], n)
<1> DEFINE S == Sources(Links(wf, g), n)
<1>1. /\ Cards(wf, g) \subseteq Operations \cup {Placeholder} \cup {Heading(g)}
      /\ n \notin Footers
      /\ wf.edges[g] \subseteq Ends \X Ends
      /\ \A p, c : <<p, c>> \in wf.edges[g] => p \in Cards(wf, g)
  BY CanvasHasParts, CardIds DEF Cards
<1>2. CASE "joins" \in Edits
  <2>1. SingleParents(wf.edges[g])
    BY <1>2 DEF CanvasState, Graphs
  <2> QED BY <1>1, <2>1 DEF SingleParents
<1>3. CASE Cardinality(S) < 2
  <2>1. \A p : p \in S <=> <<p, n>> \in wf.edges[g]
    BY <1>1 DEF Sources, Links
  <2>2. IsFiniteSet(S)
    <3>1. IsFiniteSet((Operations \cup {Placeholder}) \cup {Heading(g)})
      BY OperationsAreFinite, FS_AddElement
    <3>2. S \subseteq (Operations \cup {Placeholder}) \cup {Heading(g)}
      BY <1>1, <2>1
    <3> HIDE DEF S
    <3> QED BY <3>1, <3>2, FS_Subset
  <2> HIDE DEF S
  <2>3. ASSUME NEW p \in S, NEW q \in S, p # q PROVE FALSE
    <3>1. IsFiniteSet({p}) /\ Cardinality({p}) = 1
      BY FS_Singleton
    <3>2. Cardinality({p} \cup {q}) = 2
      <4> DEFINE P == {p}
      <4>1. q \notin P /\ IsFiniteSet(P) /\ Cardinality(P) = 1
        BY <2>3, <3>1
      <4> HIDE DEF P
      <4>2. Cardinality(P \cup {q}) = Cardinality(P) + 1
        BY <4>1, FS_AddElement
      <4> QED BY <4>1, <4>2 DEF P
    <3>3. {p} \cup {q} \subseteq S
      OBVIOUS
    <3>4. Cardinality({p} \cup {q}) =< Cardinality(S) /\ Cardinality(S) \in Nat
      BY <2>2, <3>3, FS_Subset, FS_CardinalityType
    <3> QED BY <1>3, <3>2, <3>4
  <2> QED BY <2>1, <2>3 DEF OneSource
<1> QED BY <1>2, <1>3 DEF MayDetach

-----------------------------------------------------------------------------
(* Adding a node.                                                          *)

(* What the targets of a node are. *)
LEMMA TargetsAre ==
  ASSUME NEW l, l.edges \subseteq Ends \X Ends, NEW p
  PROVE  \A c : c \in Targets(l, p) <=> <<p, c>> \in l.edges
BY DEF Targets

(* A graph is drawn from links when its keys are among theirs. *)
LEMMA DrawnFromGraph ==
  ASSUME NEW v, NEW g, NEW l, NEW T \in SUBSET (Footers \cap {Footer(g)}),
         IsGraph(l, Cards(v, g), T, Start(v, g)),
         v.edges[g] = l.edges,
         \A k \in Cards(v, g) \cap Defined(v) :
           k \in DOMAIN l.runAfter /\ Keys(v.runAfter[k]) \subseteq Keys(l.runAfter[k])
  PROVE  IsDrawn(v, g)
<1>1. IsGraph(Links(v, g), Cards(v, g), T, Start(v, g))
  BY DEF IsGraph, KeysFollow, Links, Defined
<1> QED BY <1>1 DEF IsDrawn

(* A graph the edit is not about is drawn as it was. *)
LEMMA StillDrawn ==
  ASSUME NEW w, NEW g, IsDrawn(w, g), NEW v,
         v.children[g] = w.children[g], v.edges[g] = w.edges[g], Start(v, g) = Start(w, g),
         \A k \in Cards(w, g) \cap Defined(v) :
           k \in Defined(w) /\ Keys(v.runAfter[k]) \subseteq Keys(w.runAfter[k])
  PROVE  IsDrawn(v, g)
<1>1. PICK T \in SUBSET (Footers \cap {Footer(g)}) :
        IsGraph(Links(w, g), Cards(w, g), T, Start(w, g))
  BY DEF IsDrawn
<1>2. Cards(v, g) = Cards(w, g)
  BY DEF Cards
<1>3. IsGraph(Links(v, g), Cards(v, g), T, Start(v, g))
  BY <1>1, <1>2 DEF IsGraph, KeysFollow, Links, Defined
<1> QED BY <1>3 DEF IsDrawn

(* Only what is on the canvas is offered: the root graph and scopes there  *)
(* are.                                                                    *)
LEMMA CanvasIsDefined ==
  ASSUME NEW w, CanvasState(w), NEW g \in Graphs, OnCanvas(w, g)
  PROVE  g \in {Root} \cup Defined(w)
<1> DEFINE T == {Root, Placeholder} \cup Defined(w)
<1>1. \A h \in Graphs : w.children[h] \subseteq T
  BY CanvasHasParts
<1>2. IsState(w) /\ Root \in T
  BY CanvasHasParts, Ids
<1>3. Contents(w, Root) \subseteq T
  <2> HIDE DEF T
  <2> QED BY <1>1, <1>2, ContentsAreWithin
<1> QED BY <1>3, Ids DEF OnCanvas

(* The links of graph g with those of a new node n, which has none. *)
LinksAnd(w, n, g) ==
  [edges    |-> w.edges[g],
   runAfter |-> [x \in Defined(w) \cup {n} |-> IF x = n THEN Absent ELSE w.runAfter[x]]]

(* What addNodeToWorkflow makes of them, where n is no trigger. *)
PlacedAt(w, n, g, parent, child, isParallel) ==
  LET isRoot == parent = Heading(g)
      isAfterTrigger == parent \in w.isRoot /\ g = Root
      addRunAfters == ~isRoot /\ ~isAfterTrigger
  IN  IF isParallel /\ parent # NoNode
      THEN AddNewEdge(LinksAnd(w, n, g), parent, n, addRunAfters)
      ELSE InsertNode(LinksAnd(w, n, g), n, parent, child, addRunAfters, ~addRunAfters)

OwnEdges(n) == IF n \in Untils THEN {<<Heading(n), Footer(n)>>} ELSE {}

(* The operations that are no longer the first of their graph. *)
Demoted(w, n, g, parent, l) ==
  IF parent = Heading(g) THEN Targets(l, n) \cap (HasMetadata(w) \cup {n}) ELSE {}

(* v is w with n in graph g, whose links are now l. *)
HasAdded(w, v, n, g, parent, l, demoted) ==
  /\ v.children = [w.children EXCEPT ![g] = @ \cup {n}]
  /\ v.edges = [x \in Graphs |-> IF x = g THEN l.edges
                                 ELSE IF x = n THEN OwnEdges(n) ELSE w.edges[x]]
  /\ Defined(v) = Defined(w) \cup {n}
  /\ \A k \in Defined(v) : v.runAfter[k] = IF k \in demoted THEN NoKeys ELSE l.runAfter[k]
  /\ v.graphOf = [x \in HasMetadata(w) \cup {n} |-> IF x = n THEN g ELSE w.graphOf[x]]
  /\ v.isRoot = (IF parent = Heading(g) THEN w.isRoot \cup {n} ELSE w.isRoot) \ demoted

(* What addNodeToWorkflow leaves, part by part. *)
LEMMA AddedParts ==
  ASSUME NEW w, IsState(w), NEW n, NEW g \in Graphs, NEW parent, NEW child, NEW isParallel,
         NEW l, l = PlacedAt(w, n, g, parent, child, isParallel),
         DOMAIN l.runAfter = Defined(w) \cup {n},
         NEW demoted, demoted = Demoted(w, n, g, parent, l),
         NEW v, v = AddNodeToWorkflow(w, n, g, parent, child, isParallel, FALSE)
  PROVE  HasAdded(w, v, n, g, parent, l, demoted)
<1> DEFINE isRoot == parent = Heading(g)
           added == [children |-> [w.children EXCEPT ![g] = @ \cup {n}],
                     edges    |-> [x \in Graphs |-> IF x = g THEN l.edges
                                                    ELSE IF x = n THEN OwnEdges(n)
                                                    ELSE w.edges[x]],
                     runAfter |-> l.runAfter,
                     graphOf  |-> [x \in HasMetadata(w) \cup {n} |->
                                     IF x = n THEN g ELSE w.graphOf[x]],
                     isRoot   |-> IF isRoot THEN w.isRoot \cup {n} ELSE w.isRoot]
<1>1. v = IF isRoot THEN ApplyIsRootNode(added, n, g) ELSE added
  BY DEF AddNodeToWorkflow, PlacedAt, LinksAnd, OwnEdges
<1>0. /\ added.children = [w.children EXCEPT ![g] = @ \cup {n}]
      /\ added.edges = [x \in Graphs |-> IF x = g THEN l.edges
                                        ELSE IF x = n THEN OwnEdges(n) ELSE w.edges[x]]
      /\ added.runAfter = l.runAfter
      /\ added.graphOf = [x \in HasMetadata(w) \cup {n} |-> IF x = n THEN g ELSE w.graphOf[x]]
      /\ added.isRoot = IF isRoot THEN w.isRoot \cup {n} ELSE w.isRoot
      /\ added.edges[g] = l.edges
  OBVIOUS
<1> HIDE DEF added
<1>2. CASE isRoot
  <2>1. Targets(Links(added, g), n) = Targets(l, n)
    BY <1>0 DEF Targets, Links
  <2>2. HasMetadata(added) = HasMetadata(w) \cup {n} /\ Defined(added) = Defined(w) \cup {n}
    BY <1>0 DEF HasMetadata, Defined
  <2>3. demoted = Targets(Links(added, g), n) \cap HasMetadata(added)
    BY <1>2, <2>1, <2>2 DEF Demoted
  <2>4. v = [children |-> added.children,
             edges    |-> added.edges,
             runAfter |-> [x \in Defined(added) |-> IF x \in demoted THEN NoKeys
                                                    ELSE added.runAfter[x]],
             graphOf  |-> added.graphOf,
             isRoot   |-> added.isRoot \ demoted]
    BY <1>1, <1>2, <2>3 DEF ApplyIsRootNode
  <2>5. /\ v.children = added.children /\ v.edges = added.edges /\ v.graphOf = added.graphOf
        /\ v.isRoot = added.isRoot \ demoted
        /\ v.runAfter = [x \in Defined(added) |-> IF x \in demoted THEN NoKeys
                                                   ELSE added.runAfter[x]]
    BY ONLY <2>4
  <2>6. /\ Defined(v) = Defined(w) \cup {n}
        /\ \A k \in Defined(v) : v.runAfter[k] = IF k \in demoted THEN NoKeys ELSE l.runAfter[k]
    BY ONLY <1>0, <2>2, <2>5 DEF Defined
  <2>7. v.isRoot = (IF parent = Heading(g) THEN w.isRoot \cup {n} ELSE w.isRoot) \ demoted
    BY <1>0, <2>5
  <2> QED BY <1>0, <2>5, <2>6, <2>7 DEF HasAdded
<1>3. CASE ~isRoot
  <2>1. demoted = {}
    BY <1>3 DEF Demoted
  <2>2. v = added
    BY <1>1, <1>3
  <2>3. v.isRoot = (IF parent = Heading(g) THEN w.isRoot \cup {n} ELSE w.isRoot) \ demoted
    BY <1>0, <2>1, <2>2
  <2>4. /\ Defined(v) = Defined(w) \cup {n}
        /\ \A k \in Defined(v) : v.runAfter[k] = IF k \in demoted THEN NoKeys ELSE l.runAfter[k]
    BY <1>0, <2>1, <2>2 DEF Defined
  <2> QED BY <1>0, <2>2, <2>3, <2>4 DEF HasAdded
<1> QED BY <1>2, <1>3

(* The new links l of graph g, which had the cards C, have n below parent  *)
(* and before child.                                                       *)
IsPlaced(w, l, n, g, C, T, S, parent, child) ==
  /\ IsGraph(l, C \cup {n}, T, S)
  /\ IsLinks(l) /\ DOMAIN l.runAfter = Defined(w) \cup {n}
  /\ IsWithout(w.edges[g], l.edges, n)
  /\ HangsFrom(l.edges, n, parent)
  /\ StaysAlone(w.edges[g], l.edges, n, child)
  /\ \A k \in Defined(w) : k \notin C => l.runAfter[k] = w.runAfter[k]

(* The new links of graph g. *)
LEMMA PlacedGraph ==
  ASSUME NEW w, CanvasState(w), NEW n \in Actions \cup Scopes, n \notin Defined(w),
         NEW g \in Graphs, NEW T \in SUBSET (Footers \cap {Footer(g)}),
         NEW C, C = Cards(w, g), NEW S, S = Start(w, g), IsGraph(Links(w, g), C, T, S), S # {},
         NEW parent \in C \cup {NoNode}, NEW child \in (C \ S) \cup {NoNode},
         IsPlace(w.edges[g], parent, child),
         NEW isParallel \in BOOLEAN, isParallel => child = NoNode,
         NEW l, l = PlacedAt(w, n, g, parent, child, isParallel)
  PROVE  IsPlaced(w, l, n, g, C, T, S, parent, child)
<1> DEFINE m == LinksAnd(w, n, g)
           add == ~(parent = Heading(g)) /\ ~(parent \in w.isRoot /\ g = Root)
<1>1. /\ C \subseteq Ends \ {NoNode} /\ S \subseteq C /\ C \cap Footers = {}
      /\ IsState(w) /\ IsLinks(Links(w, g))
      /\ DOMAIN Links(w, g).runAfter = Defined(w) /\ Defined(w) \subseteq Operations
      /\ \A k \in w.children[g] \ {Placeholder} : k \in Defined(w)
      /\ \A k \in C \cap Triggers : g = Root /\ IsRootNodeInGraph(w, k, Root)
      /\ \A k \in C \cap (Actions \cup Scopes) : k \in w.children[g] \ S
  BY CanvasHasParts
<1>2. n \in Operations /\ n \notin Triggers /\ n # Placeholder /\ n \notin Footers /\ n \notin Headings
  BY Ids, CardIds, IdsAreDistinct
<1>3. T \subseteq Ends \ {NoNode} /\ n \notin C \cup T
  BY <1>1, <1>2, CardIds
<1>4. /\ m.edges = w.edges[g] /\ DOMAIN m.runAfter = Defined(w) \cup {n}
      /\ m.runAfter[n] = Absent
      /\ \A k \in Defined(w) : m.runAfter[k] = w.runAfter[k]
  BY DEF LinksAnd
<1>5. IsRunAfterMap(m.runAfter)
  <2>1. \A k \in Defined(w) : IsRunAfter(w.runAfter[k])
    BY <1>1 DEF IsState
  <2>2. m.runAfter = [x \in Defined(w) \cup {n} |-> IF x = n THEN Absent ELSE w.runAfter[x]]
    BY DEF LinksAnd
  <2> QED BY <1>1, <1>2, <2>1, <2>2 DEF IsRunAfterMap, IsRunAfter
<1>6. IsLinks(m)
  BY <1>1, <1>4, <1>5 DEF IsLinks, Links
<1>7. IsGraph(m, C, T, S)
  <2>1. KeysFollow(m, C)
    BY <1>3, <1>4 DEF KeysFollow, IsGraph, Links, Defined
  <2> QED BY <1>4, <2>1 DEF IsGraph, Links
<1>8. Keys(m.runAfter[n]) = {} /\ n \in DOMAIN m.runAfter /\ IsPlace(m.edges, parent, child)
  BY <1>4 DEF Keys
<1>9. add \in BOOLEAN /\ (~add) \in BOOLEAN /\ (add => parent \notin Triggers)
  BY <1>1, Ids DEF IsRootNodeInGraph
<1>10. l = IF isParallel /\ parent # NoNode
           THEN AddNewEdge(m, parent, n, add) ELSE InsertNode(m, n, parent, child, add, ~add)
  BY DEF PlacedAt
<1> HIDE DEF m, add
<1>11. IsJoined(m, l, C, T, S, n, parent, child)
  <2>0. /\ C \subseteq Ends \ {NoNode} /\ T \subseteq Ends \ {NoNode} /\ S \subseteq C
        /\ S # {} /\ n \notin C \cup T /\ n \in DOMAIN m.runAfter /\ n \notin Triggers
        /\ Keys(m.runAfter[n]) = {}
    BY <1>1, <1>2, <1>3, <1>8
  <2>1. CASE isParallel /\ parent # NoNode
    <3>0. parent \in C
      BY <2>1
    <3>1. \A a \in BOOLEAN : \A q : q = AddNewEdge(m, parent, n, a) /\ (a => parent \notin Triggers) =>
            IsJoined(m, q, C, T, S, n, parent, NoNode)
      BY <1>6, <1>7, <2>0, <3>0, ParallelGraph
    <3>2. l = AddNewEdge(m, parent, n, add) /\ child = NoNode
      BY <1>10, <2>1
    <3> QED BY <1>9, <3>1, <3>2, Zenon
  <2>2. CASE ~(isParallel /\ parent # NoNode)
    <3>1. \A a, i \in BOOLEAN : \A q : q = InsertNode(m, n, parent, child, a, i)
                                       /\ (a => parent \notin Triggers) =>
            IsJoined(m, q, C, T, S, n, parent, child)
      BY <1>6, <1>7, <1>8, <2>0, InsertedGraph
    <3>2. l = InsertNode(m, n, parent, child, add, ~add)
      BY <1>10, <2>2
    <3> QED BY <1>9, <3>1, <3>2, Zenon
  <2> QED BY <2>1, <2>2
<1>12. ASSUME NEW k \in Defined(w), k \notin C PROVE l.runAfter[k] = w.runAfter[k]
  <2>1. k \notin C \cup T \cup {n}
    BY <1>1, <1>12, CardIds
  <2> QED BY <1>4, <1>11, <1>12, <2>1 DEF IsJoined
<1> QED BY <1>4, <1>11, <1>12 DEF IsJoined, IsPlaced

(* No node is the heading of the root graph, which has none. *)
LEMMA NoRootHeading == Heading(Root) \notin Ends
<1>1. Heading(Root) \notin Headings
  BY CardIds, Ids
<1>2. Heading(Root) \notin Footers
  <2>1. \A s : Heading(Root) # Footer(s)
    BY DEF Heading, Footer
  <2> QED BY <2>1 DEF Footers
<1> QED BY <1>1, <1>2, CardsAreNoOperations DEF Ends

(* The graph of a scope that has just come. *)
LEMMA OwnGraph ==
  ASSUME NEW n \in Scopes, NEW l, l.edges = OwnEdges(n), Heading(n) \notin DOMAIN l.runAfter
  PROVE  \E T \in SUBSET (Footers \cap {Footer(n)}) :
           IsGraph(l, {Heading(n)}, T, {Heading(n)})
<1> DEFINE H == Heading(n)
           F == Footer(n)
           E == l.edges
<1>1. H \in Ends /\ F \in Ends /\ F \in Footers /\ H # F
  BY CardIds
<1>2. E \subseteq Ends \X Ends /\ KeysFollow(l, {H})
  <2>1. E \in {{}, {<<H, F>>}}
    BY DEF OwnEdges
  <2> QED BY <1>1, <2>1 DEF KeysFollow
<1>3. CASE n \in Untils
  <2>1. E = {<<H, F>>}
    BY <1>3 DEF OwnEdges
  <2> HIDE DEF H, F, E
  <2>2. Leads(E, H, {F}) /\ Leads(E, F, {})
    BY <1>1, <2>1 DEF Leads
  <2>3. Later(E, H) \subseteq {F} /\ Later(E, F) = {}
    BY <1>2, <2>2, LaterIsLeast
  <2>4. F \in Later(E, H)
    <3>1. Leads(E, H, Later(E, H))
      BY <1>2, LaterIsLeast
    <3> QED BY <2>1, <3>1 DEF Leads
  <2>5. IsCanvas(E, {H} \cup {F}, {H})
    BY <1>1, <2>1, <2>3, <2>4 DEF IsCanvas
  <2>6. IsGraph(l, {H}, {F}, {H})
    BY <1>2, <2>1, <2>5 DEF IsGraph, E
  <2> QED BY <1>1, <2>6 DEF H, F
<1>4. CASE n \notin Untils
  <2>1. E = {}
    BY <1>4 DEF OwnEdges
  <2> HIDE DEF H, F, E
  <2>2. Leads(E, H, {})
    BY <2>1 DEF Leads
  <2>3. Later(E, H) = {}
    BY <1>2, <2>2, LaterIsLeast
  <2>4. IsCanvas(E, {H} \cup {}, {H})
    BY <2>1, <2>3 DEF IsCanvas
  <2>5. IsGraph(l, {H}, {}, {H})
    BY <1>2, <2>1, <2>4 DEF IsGraph, E
  <2> QED BY <2>5 DEF H, F
<1> QED BY <1>3, <1>4

(* v is w with the node n put into graph g below parent and before child. *)
AddsNode(w, v, n, g, parent, child) ==
  /\ v.children = [w.children EXCEPT ![g] = @ \cup {n}]
  /\ Defined(v) = Defined(w) \cup {n}
  /\ v.graphOf = [x \in HasMetadata(w) \cup {n} |-> IF x = n THEN g ELSE w.graphOf[x]]
  /\ v.isRoot = IF parent = Heading(g)
                THEN {x \in w.isRoot \cup {n} : <<n, x>> \notin v.edges[g]} ELSE w.isRoot
  /\ \A h \in Graphs \ {g, n} : v.edges[h] = w.edges[h]
  /\ n \in Scopes => v.edges[n] = OwnEdges(n)
  /\ IsWithout(w.edges[g], v.edges[g], n)
  /\ HangsFrom(v.edges[g], n, parent)
  /\ StaysAlone(w.edges[g], v.edges[g], n, child)

(* A new operation or scope, wherever a drop zone is, keeps the canvas one. *)
LEMMA AddKeepsCanvas ==
  ASSUME NEW w, CanvasState(w), NEW n \in Actions \cup Scopes, n \notin Defined(w),
         NEW g \in Graphs, g \in {Root} \cup Defined(w), Start(w, g) # {},
         NEW parent \in Cards(w, g) \cup {NoNode},
         NEW child \in (w.children[g] \ Start(w, g)) \cup {NoNode},
         IsPlace(w.edges[g], parent, child),
         NEW isParallel \in BOOLEAN, isParallel => child = NoNode,
         NEW v, v = AddNodeToWorkflow(w, n, g, parent, child, isParallel, FALSE)
  PROVE  CanvasState(v) /\ AddsNode(w, v, n, g, parent, child)
<1> DEFINE l == PlacedAt(w, n, g, parent, child, isParallel)
           C == Cards(w, g)
           S == Start(w, g)
           demoted == Demoted(w, n, g, parent, l)
<1>1. /\ IsState(w) /\ IsWellFormed(w)
      /\ C \subseteq Ends \ {NoNode} /\ S \subseteq C /\ w.children[g] \subseteq C
      /\ C \cap Footers = {}
      /\ w.edges[g] \subseteq Ends \X Ends
      /\ Defined(w) = HasMetadata(w) \ {Placeholder}
      /\ DOMAIN w.children = Graphs /\ DOMAIN w.edges = Graphs
  BY CanvasHasParts DEF IsState
<1>2. /\ n \in Operations /\ n \notin Triggers /\ n # Placeholder /\ n # Root
      /\ n \notin Footers /\ n \notin Headings /\ n \notin HasMetadata(w) /\ n # g
      /\ n \notin w.isRoot /\ \A h \in Graphs : n \notin w.children[h] /\ n \notin Cards(w, h)
  <2>1. n \in Operations /\ n \notin Triggers /\ n # Placeholder /\ n # Root
        /\ n \notin Footers /\ n \notin Headings
    BY Ids, CardIds, IdsAreDistinct
  <2>2. n \notin HasMetadata(w) /\ n # g /\ n \notin w.isRoot
    BY <1>1, <2>1 DEF CanvasState
  <2>3. \A h \in Graphs : n \notin w.children[h]
    BY <2>2, CanvasHasParts
  <2>4. \A h \in Graphs : n \notin Cards(w, h)
    BY <2>1, <2>3, CardIds DEF Cards, Graphs
  <2> QED BY <2>1, <2>2, <2>3, <2>4
<1>3. parent \in Ends /\ child \in Ends /\ child \in (C \ S) \cup {NoNode}
  BY <1>1, Ids
<1>4. PICK T \in SUBSET (Footers \cap {Footer(g)}) : IsGraph(Links(w, g), C, T, S)
  BY DEF CanvasState, IsDrawn
<1>5. /\ IsGraph(l, C \cup {n}, T, S)
      /\ IsLinks(l) /\ DOMAIN l.runAfter = Defined(w) \cup {n}
      /\ IsWithout(w.edges[g], l.edges, n)
      /\ HangsFrom(l.edges, n, parent)
      /\ StaysAlone(w.edges[g], l.edges, n, child)
      /\ \A k \in Defined(w) : k \notin C => l.runAfter[k] = w.runAfter[k]
  <2> HIDE DEF l, C, S
  <2>1. \A i \in BOOLEAN : \A q : q = PlacedAt(w, n, g, parent, child, i) /\ (i => child = NoNode) =>
          IsPlaced(w, q, n, g, C, T, S, parent, child)
    BY <1>3, <1>4, PlacedGraph DEF C, S
  <2>2. IsPlaced(w, l, n, g, C, T, S, parent, child)
    BY <2>1, Zenon DEF l
  <2> QED BY <2>2 DEF IsPlaced
<1>6. /\ v.children = [w.children EXCEPT ![g] = @ \cup {n}]
      /\ v.edges = [x \in Graphs |-> IF x = g THEN l.edges
                                     ELSE IF x = n THEN OwnEdges(n) ELSE w.edges[x]]
      /\ Defined(v) = Defined(w) \cup {n}
      /\ \A k \in Defined(v) : v.runAfter[k] = IF k \in demoted THEN NoKeys ELSE l.runAfter[k]
      /\ v.graphOf = [x \in HasMetadata(w) \cup {n} |-> IF x = n THEN g ELSE w.graphOf[x]]
      /\ v.isRoot = (IF parent = Heading(g) THEN w.isRoot \cup {n} ELSE w.isRoot) \ demoted
  <2> HIDE DEF l, demoted
  <2>1. HasAdded(w, v, n, g, parent, l, demoted)
    BY <1>1, <1>5, AddedParts DEF l, demoted
  <2> QED BY <2>1 DEF HasAdded
<1> HIDE DEF l
<1>7. /\ l.edges \subseteq Ends \X Ends
      /\ \A p, c : <<p, c>> \in l.edges => c \in C \cup {n} \cup Footers
  <2>1. l.edges \subseteq Ends \X Ends
    BY <1>5 DEF IsLinks
  <2> QED BY <1>5, <2>1 DEF IsGraph, IsCanvas
<1>8. demoted = IF parent = Heading(g)
                THEN {c \in HasMetadata(w) \cup {n} : <<n, c>> \in l.edges} ELSE {}
  BY <1>7, TargetsAre DEF Demoted
<1>9. demoted \subseteq C \cup {n} /\ (parent = Heading(g) => g \in Scopes)
  <2>1. (C \cup {n} \cup Footers) \cap (HasMetadata(w) \cup {n}) \subseteq C \cup {n}
    BY <1>1, <1>2, CardIds, Ids DEF IsState
  <2>2. parent = Heading(g) => g \in Scopes
    BY <1>3, NoRootHeading DEF Graphs
  <2> QED BY <1>7, <1>8, <2>1, <2>2
<1> HIDE DEF demoted
<1>10. /\ v.children[g] = w.children[g] \cup {n} /\ v.edges[g] = l.edges
       /\ \A h \in Graphs \ {g} : v.children[h] = w.children[h]
       /\ \A h \in Graphs \ {g, n} : v.edges[h] = w.edges[h]
       /\ n \in Scopes => v.edges[n] = OwnEdges(n)
       /\ HasMetadata(v) = HasMetadata(w) \cup {n}
  BY <1>1, <1>2, <1>6 DEF HasMetadata, Graphs
<1>11. v.isRoot = IF parent = Heading(g)
                  THEN {x \in w.isRoot \cup {n} : <<n, x>> \notin v.edges[g]} ELSE w.isRoot
  <2>1. w.isRoot \subseteq HasMetadata(w)
    BY DEF CanvasState
  <2> QED BY <1>6, <1>8, <1>10, <2>1
<1>12. AddsNode(w, v, n, g, parent, child)
  BY <1>5, <1>6, <1>10, <1>11 DEF AddsNode
<1>13. IsWellFormed(v)
  <2>1. \A i, t \in BOOLEAN : IsWellFormed(AddNodeToWorkflow(w, n, g, parent, child, i, t))
    BY <1>1, <1>2, <1>3, AddNodeWellFormed
  <2> QED BY <2>1, Zenon
<1>14. Start(v, Root) = Start(w, Root) /\ \A h \in Graphs : Start(v, h) = Start(w, h)
  <2>1. CASE g = Root
    <3>1. g \notin Scopes /\ parent # Heading(g)
      BY <1>9, <2>1, Ids
    <3>2. v.isRoot = w.isRoot /\ v.children[Root] = w.children[Root] \cup {n}
      BY <1>10, <1>11, <2>1, <3>1
    <3>3. n \notin w.isRoot
      BY <1>2
    <3>4. v.children[Root] \cap v.isRoot = w.children[Root] \cap w.isRoot
      BY ONLY <3>2, <3>3
    <3> QED BY <3>4 DEF Start
  <2>2. CASE g # Root
    <3>1. C \cap w.children[Root] = {}
      <4>1. w.children[Root] \subseteq Cards(w, Root) /\ Root \in Graphs
        BY CanvasHasParts, Ids
      <4> QED BY <2>2, <4>1, CardsAreApart
    <3>2. v.children[Root] \cap v.isRoot = w.children[Root] \cap w.isRoot
      <4>1. v.children[Root] = w.children[Root] /\ n \notin w.children[Root]
        BY <1>2, <1>10, <2>2, Ids
      <4>2. v.isRoot = w.isRoot \ demoted \/ v.isRoot = (w.isRoot \cup {n}) \ demoted
        BY <1>6
      <4>3. w.children[Root] \cap demoted = {}
        BY <1>9, <3>1, <4>1
      <4> QED BY <4>1, <4>2, <4>3
    <3> QED BY <3>2 DEF Start
  <2> QED BY <2>1, <2>2
<1>15. ASSUME NEW h \in Graphs PROVE IsDrawn(v, h)
  <2>1. CASE h = g
    <3>1. Cards(v, g) = C \cup {n} /\ Start(v, g) = S
      BY <1>10, <1>14 DEF Cards
    <3>2. \A k \in Cards(v, g) \cap Defined(v) :
            k \in DOMAIN l.runAfter /\ Keys(v.runAfter[k]) \subseteq Keys(l.runAfter[k])
      <4>1. Keys(NoKeys) = {}
        BY DEF Keys, NoKeys
      <4> QED BY <1>5, <1>6, <4>1
    <3>3. IsGraph(l, Cards(v, g), T, Start(v, g))
      BY <1>5, <3>1
    <3> QED BY <1>10, <2>1, <3>2, <3>3, DrawnFromGraph, ZenonT(30)
  <2>2. CASE h = n
    <3>1. n \in Scopes
      BY <1>2, <2>2 DEF Graphs
    <3>2. w.children[n] = {}
      BY <3>1 DEF CanvasState
    <3>3. Cards(v, n) = {Heading(n)} /\ Start(v, n) = {Heading(n)}
      BY <1>2, <1>10, <2>2, <3>2 DEF Cards, Start
    <3>4. Links(v, n).edges = OwnEdges(n) /\ Heading(n) \notin DOMAIN Links(v, n).runAfter
      <4>1. Defined(v) \subseteq Operations
        BY <1>1, <1>2, <1>6 DEF IsState
      <4> QED BY <1>10, <3>1, <4>1, CardIds DEF Links, Defined
    <3> DEFINE m == Links(v, n)
    <3>5. m.edges = OwnEdges(n) /\ Heading(n) \notin DOMAIN m.runAfter
      BY <3>4
    <3> HIDE DEF m
    <3>6. \E U \in SUBSET (Footers \cap {Footer(n)}) : IsGraph(m, {Heading(n)}, U, {Heading(n)})
      BY <3>1, <3>5, OwnGraph
    <3> QED BY <2>2, <3>3, <3>6 DEF IsDrawn, m
  <2>3. CASE h # g /\ h # n
    <3>1. C \cap Cards(w, h) = {}
      BY <2>3, CardsAreApart
    <3>2. \A k \in Cards(w, h) \cap Defined(v) :
            k \in Defined(w) /\ Keys(v.runAfter[k]) \subseteq Keys(w.runAfter[k])
      BY <1>2, <1>5, <1>6, <1>9, <3>1, ZenonT(30)
    <3>3. IsDrawn(w, h)
      BY DEF CanvasState
    <3> QED BY <1>10, <1>14, <2>3, <3>2, <3>3, StillDrawn
  <2> QED BY <2>1, <2>2, <2>3
<1>16. ASSUME NEW h \in Graphs, h # n, SingleParents(w.edges[h]) PROVE SingleParents(v.edges[h])
  <2>1. CASE h = g
    <3>1. child # NoNode => OneSource(w.edges[g], child)
      BY <1>1, <1>16, <2>1 DEF SingleParents
    <3> QED BY <1>5, <1>10, <1>16, <2>1, <3>1 DEF StaysAlone, SingleParents
  <2>2. CASE h # g
    BY <1>10, <1>16, <2>2
  <2> QED BY <2>1, <2>2
<1>17. ASSUME NEW s \in Scopes
       PROVE  /\ v.children[s] \subseteq (Actions \cup Scopes) \ {s}
              /\ SingleParents(v.edges[s])
              /\ s \notin Defined(v) => v.children[s] = {}
  <2>0. s \in Graphs /\ s # Root
    BY Ids DEF Graphs
  <2>1. /\ w.children[s] \subseteq (Actions \cup Scopes) \ {s}
        /\ SingleParents(w.edges[s])
        /\ s \notin Defined(w) => w.children[s] = {}
    BY DEF CanvasState
  <2>2. SingleParents(v.edges[s])
    <3>1. CASE s = n
      BY <1>10, <3>1, CardIds DEF OwnEdges, SingleParents, OneSource
    <3>2. CASE s # n
      BY <1>16, <2>0, <2>1, <3>2
    <3> QED BY <3>1, <3>2
  <2>3. v.children[s] \subseteq (Actions \cup Scopes) \ {s}
    <3>1. CASE s = g
      BY <1>2, <1>10, <2>1, <3>1
    <3>2. CASE s # g
      BY <1>10, <2>0, <2>1, <3>2
    <3> QED BY <3>1, <3>2
  <2>4. s \notin Defined(v) => v.children[s] = {}
    BY <1>6, <1>10, <2>0, <2>1
  <2> QED BY <2>2, <2>3, <2>4
<1>18. v.isRoot \subseteq HasMetadata(v)
  BY <1>6, <1>10 DEF CanvasState
<1>19. /\ v.children[Root] \subseteq Start(v, Root) \cup Actions \cup Scopes
       /\ Start(v, Root) \subseteq Triggers \cup {Placeholder}
       /\ Start(v, Root) = {} => v.children[Root] = {}
       /\ "joins" \in Edits => SingleParents(v.edges[Root])
  <2>1. /\ Root \in Graphs /\ Root # n
        /\ w.children[Root] \subseteq Start(w, Root) \cup Actions \cup Scopes
        /\ Start(w, Root) \subseteq Triggers \cup {Placeholder}
        /\ Start(w, Root) = {} => w.children[Root] = {}
        /\ "joins" \in Edits => SingleParents(w.edges[Root])
    BY <1>2, Ids DEF CanvasState
  <2>2. "joins" \in Edits => SingleParents(v.edges[Root])
    BY <1>16, <2>1
  <2>3. CASE g = Root
    BY <1>10, <1>14, <2>1, <2>2, <2>3
  <2>4. CASE g # Root
    BY <1>10, <1>14, <2>1, <2>2, <2>4
  <2> QED BY <2>3, <2>4
<1>20. CanvasState(v)
  BY <1>13, <1>15, <1>17, <1>18, <1>19 DEF CanvasState
<1> QED BY <1>12, <1>20

-----------------------------------------------------------------------------
(* Deleting a node.                                                        *)

(* v is w with the node n taken out of graph g. *)
RemovesNode(w, v, n, g) ==
  /\ v.children = [c \in Graphs |-> IF c = n THEN {}
                                    ELSE IF c = g THEN w.children[g] \ {n} ELSE w.children[c]]
  /\ Defined(v) = Defined(w) \ {n}
  /\ v.graphOf = [m \in HasMetadata(w) \ {n} |-> w.graphOf[m]]
  /\ v.isRoot = (w.isRoot \cup (IF n \in w.isRoot
                                THEN {c \in HasMetadata(w) : <<n, c>> \in w.edges[g]} ELSE {}))
                \ {n}
  /\ \A h \in Graphs \ {g, n} : v.edges[h] = w.edges[h]
  /\ n \in Scopes => v.edges[n] = {}
  /\ IsWithout(v.edges[g], w.edges[g], n)
  /\ \A k : OneSource(w.edges[g], k) => OneSource(v.edges[g], k)

(* A graph with nothing in it. *)
LEMMA EmptyGraph ==
  ASSUME NEW n \in Scopes, NEW l, l.edges = {}, Heading(n) \notin DOMAIN l.runAfter
  PROVE  \E T \in SUBSET (Footers \cap {Footer(n)}) :
           IsGraph(l, {Heading(n)}, T, {Heading(n)})
<1> DEFINE H == Heading(n)
           E == l.edges
<1>1. H \in Ends /\ E = {} /\ E \subseteq Ends \X Ends /\ KeysFollow(l, {H})
  BY CardIds DEF KeysFollow
<1> HIDE DEF H, E
<1>2. Leads(E, H, {})
  BY <1>1 DEF Leads
<1>3. Later(E, H) = {}
  BY <1>1, <1>2, LaterIsLeast
<1>4. IsCanvas(E, {H} \cup {}, {H})
  BY <1>1, <1>3 DEF IsCanvas
<1>5. IsGraph(l, {H}, {}, {H})
  BY <1>1, <1>4 DEF IsGraph, E
<1> QED BY <1>5 DEF H

(* So does taking out an operation with at most one parent. *)
LEMMA DeleteKeepsCanvas ==
  ASSUME NEW w, CanvasState(w), NEW g \in Graphs, NEW n \in w.children[g], n \in Actions \cup Scopes,
         OneSource(w.edges[g], n), NEW x \in Neighbours(w, n, g),
         NEW v, v = DeleteNodeFromWorkflow(w, n, g, x)
  PROVE  CanvasState(v) /\ RemovesNode(w, v, n, g)
<1> DEFINE l == DetachNode(Links(w, g), w, n, x)
           C == Cards(w, g)
           S == Start(w, g)
           heirs == IF n \in w.isRoot THEN Targets(Links(w, g), n) \cap HasMetadata(w) ELSE {}
<1>1. /\ IsState(w) /\ IsWellFormed(w)
      /\ C \subseteq Ends \ {NoNode} /\ S \subseteq C /\ w.children[g] \subseteq C
      /\ C \cap Footers = {}
      /\ w.edges[g] \subseteq Ends \X Ends
      /\ \A p, c : <<p, c>> \in w.edges[g] => c \in w.children[g] \cup Footers
      /\ Defined(w) = HasMetadata(w) \ {Placeholder} /\ Defined(w) \subseteq Operations
      /\ IsLinks(Links(w, g)) /\ DOMAIN Links(w, g).runAfter = Defined(w)
      /\ DOMAIN w.children = Graphs /\ DOMAIN w.edges = Graphs
      /\ w.graphOf[n] = g
  BY CanvasHasParts DEF IsState
<1>2. /\ ~HasMultipleParents(w, n)
      /\ x \in C /\ x # n /\ x \in Ends
      /\ \A p : <<p, n>> \in w.edges[g] <=> p = x
      /\ x \in Triggers => IsRootNodeInGraph(w, x, Root)
      /\ n \in Defined(w) /\ n \notin S
  BY OneParent
<1>3. /\ n \in Operations /\ n \notin Footers /\ n \notin Headings /\ n # Root /\ n # g
      /\ n # Placeholder
  BY Ids, CardIds, IdsAreDistinct DEF CanvasState, Graphs
<1>4. PICK T \in SUBSET (Footers \cap {Footer(g)}) : IsGraph(Links(w, g), C, T, S)
  BY DEF CanvasState, IsDrawn
<1>5. T \subseteq Ends /\ n \notin T
  BY <1>3, CardIds
<1>6. /\ IsGraph(l, C \ {n}, T, S)
      /\ IsLinks(l) /\ DOMAIN l.runAfter = Defined(w)
      /\ IsWithout(l.edges, w.edges[g], n)
      /\ \A k : OneSource(w.edges[g], k) => OneSource(l.edges, k)
      /\ \A k \in Defined(w) : k \notin C => l.runAfter[k] = w.runAfter[k]
  <2> DEFINE m == Links(w, g)
  <2>1. /\ IsLinks(m) /\ C \subseteq Ends /\ IsGraph(m, C, T, S)
        /\ n \in (C \ S) \cap DOMAIN m.runAfter
        /\ \A p : <<p, n>> \in m.edges <=> p = x
        /\ l = DetachNode(m, w, n, x)
        /\ m.edges = w.edges[g] /\ m.runAfter = w.runAfter /\ DOMAIN m.runAfter = Defined(w)
    BY <1>1, <1>2, <1>4 DEF Links, Defined
  <2> HIDE DEF m, l, C, S
  <2>2. IsDetached(m, l, C, T, S, n)
    BY <1>2, <1>5, <2>1, DetachedGraph
  <2>3. ASSUME NEW k \in Defined(w), k \notin C PROVE l.runAfter[k] = w.runAfter[k]
    <3>1. k \notin T
      BY <1>1, CardIds
    <3> QED BY <2>1, <2>2, <2>3, <3>1 DEF IsDetached
  <2> QED BY <2>1, <2>2, <2>3 DEF IsDetached
<1>7. heirs = IF n \in w.isRoot THEN {c \in HasMetadata(w) : <<n, c>> \in w.edges[g]} ELSE {}
  <2>1. Links(w, g).edges = w.edges[g]
    BY DEF Links
  <2> QED BY <1>1, <2>1, TargetsAre
<1>8. heirs \subseteq w.children[g]
  <2>1. HasMetadata(w) \cap Footers = {}
    BY <1>1, CardIds
  <2> QED BY <1>1, <1>7, <2>1
<1>9. /\ v.children = [c \in Graphs |-> IF c = n THEN {}
                                        ELSE IF c = g THEN w.children[g] \ {n} ELSE w.children[c]]
      /\ v.edges = [c \in Graphs |-> IF c = n THEN {}
                                     ELSE IF c = g THEN l.edges ELSE w.edges[c]]
      /\ v.runAfter = [m \in Defined(w) \ {n} |-> l.runAfter[m]]
      /\ v.graphOf = [m \in HasMetadata(w) \ {n} |-> w.graphOf[m]]
      /\ v.isRoot = (w.isRoot \cup heirs) \ {n}
  <2>1. v = [children |-> [c \in Graphs |-> IF c = n THEN {}
                                            ELSE IF c = g THEN w.children[g] \ {n} ELSE w.children[c]],
             edges    |-> [c \in Graphs |-> IF c = n THEN {}
                                            ELSE IF c = g THEN l.edges ELSE w.edges[c]],
             runAfter |-> [m \in Defined(w) \ {n} |-> l.runAfter[m]],
             graphOf  |-> [m \in HasMetadata(w) \ {n} |-> w.graphOf[m]],
             isRoot   |-> (w.isRoot \cup heirs) \ {n}]
    BY DEF DeleteNodeFromWorkflow
  <2> HIDE DEF l, heirs
  <2> QED BY ONLY <2>1
<1> HIDE DEF l, heirs
<1>10. /\ v.children[g] = w.children[g] \ {n} /\ v.edges[g] = l.edges
       /\ \A h \in Graphs \ {g, n} : v.children[h] = w.children[h] /\ v.edges[h] = w.edges[h]
       /\ n \in Scopes => v.children[n] = {} /\ v.edges[n] = {}
       /\ Defined(v) = Defined(w) \ {n} /\ HasMetadata(v) = HasMetadata(w) \ {n}
       /\ \A k \in Defined(v) : v.runAfter[k] = l.runAfter[k]
  BY <1>3, <1>9 DEF Graphs, Defined, HasMetadata
<1>11. RemovesNode(w, v, n, g)
  BY <1>6, <1>7, <1>9, <1>10 DEF RemovesNode
<1>12. IsWellFormed(v)
  BY <1>1, <1>2, <1>3, DeleteNodeWellFormed
<1>13. \A h \in Graphs : Start(v, h) = Start(w, h)
  <2>1. CASE g = Root
    <3>1. n \notin w.isRoot
      BY <1>2, <2>1 DEF Start
    <3>2. heirs = {}
      BY <1>7, <3>1
    <3>3. v.isRoot = w.isRoot /\ v.children[Root] = w.children[Root] \ {n}
      BY <1>9, <1>10, <2>1, <3>1, <3>2
    <3>4. v.children[Root] \cap v.isRoot = w.children[Root] \cap w.isRoot
      BY <3>1, <3>3
    <3> QED BY <3>4 DEF Start
  <2>2. CASE g # Root
    <3>1. C \cap w.children[Root] = {}
      <4>1. w.children[Root] \subseteq Cards(w, Root) /\ Root \in Graphs
        BY CanvasHasParts, Ids
      <4> QED BY <2>2, <4>1, CardsAreApart
    <3>2. v.children[Root] = w.children[Root]
      BY <1>3, <1>10, <2>2, Ids
    <3>3. v.children[Root] \cap v.isRoot = w.children[Root] \cap w.isRoot
      <4>1. w.children[Root] \cap heirs = {} /\ n \notin w.children[Root]
        BY <1>1, <1>8, <3>1
      <4> QED BY <1>9, <3>2, <4>1
    <3> QED BY <3>3 DEF Start
  <2> QED BY <2>1, <2>2
<1>14. ASSUME NEW h \in Graphs PROVE IsDrawn(v, h)
  <2>1. CASE h = g
    <3>1. Cards(v, g) = C \ {n}
      BY <1>3, <1>10, CardIds DEF Cards, Graphs
    <3>2. \A k \in Cards(v, g) \cap Defined(v) :
            k \in DOMAIN l.runAfter /\ Keys(v.runAfter[k]) \subseteq Keys(l.runAfter[k])
      BY <1>6, <1>10
    <3>3. IsGraph(l, Cards(v, g), T, Start(v, g))
      BY <1>6, <1>13, <3>1
    <3> QED BY <1>10, <2>1, <3>2, <3>3, DrawnFromGraph
  <2>2. CASE h = n
    <3>1. n \in Scopes
      BY <1>3, <2>2 DEF Graphs
    <3>2. Cards(v, n) = {Heading(n)} /\ Start(v, n) = {Heading(n)}
      BY <1>3, <1>10, <2>2, <3>1 DEF Cards, Start
    <3> DEFINE m == Links(v, n)
    <3>3. m.edges = {} /\ Heading(n) \notin DOMAIN m.runAfter
      <4>1. Defined(v) \subseteq Operations
        BY <1>1, <1>10
      <4> QED BY <1>10, <3>1, <4>1, CardIds DEF Links, Defined
    <3> HIDE DEF m
    <3>4. \E U \in SUBSET (Footers \cap {Footer(n)}) : IsGraph(m, {Heading(n)}, U, {Heading(n)})
      BY <3>1, <3>3, EmptyGraph
    <3> QED BY <2>2, <3>2, <3>4 DEF IsDrawn, m
  <2>3. CASE h # g /\ h # n
    <3>1. C \cap Cards(w, h) = {}
      BY <2>3, CardsAreApart
    <3>2. \A k \in Cards(w, h) \cap Defined(v) :
            k \in Defined(w) /\ Keys(v.runAfter[k]) \subseteq Keys(w.runAfter[k])
      BY <1>6, <1>10, <3>1
    <3>3. IsDrawn(w, h)
      BY DEF CanvasState
    <3>4. v.children[h] = w.children[h] /\ v.edges[h] = w.edges[h] /\ Start(v, h) = Start(w, h)
      BY <1>10, <1>13, <2>3
    <3> QED BY <3>2, <3>3, <3>4, StillDrawn
  <2> QED BY <2>1, <2>2, <2>3
<1>15. ASSUME NEW h \in Graphs, SingleParents(w.edges[h]) PROVE SingleParents(v.edges[h])
  <2>1. CASE h = g
    BY <1>6, <1>10, <1>15, <2>1 DEF SingleParents
  <2>2. CASE h = n
    BY <1>3, <1>10, <2>2 DEF SingleParents, OneSource, Graphs
  <2>3. CASE h # g /\ h # n
    BY <1>10, <1>15, <2>3
  <2> QED BY <2>1, <2>2, <2>3
<1>16. ASSUME NEW s \in Scopes
       PROVE  /\ v.children[s] \subseteq (Actions \cup Scopes) \ {s}
              /\ SingleParents(v.edges[s])
              /\ s \notin Defined(v) => v.children[s] = {}
  <2>0. s \in Graphs /\ s # Root
    BY Ids DEF Graphs
  <2>1. /\ w.children[s] \subseteq (Actions \cup Scopes) \ {s}
        /\ SingleParents(w.edges[s])
        /\ s \notin Defined(w) => w.children[s] = {}
    BY DEF CanvasState
  <2>2. v.children[s] \subseteq w.children[s] /\ (s = n => v.children[s] = {})
    BY <1>10, <2>0
  <2> QED BY <1>10, <1>15, <2>0, <2>1, <2>2
<1>17. v.isRoot \subseteq HasMetadata(v)
  <2>1. w.isRoot \subseteq HasMetadata(w) /\ heirs \subseteq HasMetadata(w)
    BY <1>7 DEF CanvasState
  <2> QED BY <1>9, <1>10, <2>1
<1>18. /\ v.children[Root] \subseteq Start(v, Root) \cup Actions \cup Scopes
       /\ Start(v, Root) \subseteq Triggers \cup {Placeholder}
       /\ Start(v, Root) = {} => v.children[Root] = {}
       /\ "joins" \in Edits => SingleParents(v.edges[Root])
  <2>1. /\ Root \in Graphs /\ Root # n
        /\ w.children[Root] \subseteq Start(w, Root) \cup Actions \cup Scopes
        /\ Start(w, Root) \subseteq Triggers \cup {Placeholder}
        /\ Start(w, Root) = {} => w.children[Root] = {}
        /\ "joins" \in Edits => SingleParents(w.edges[Root])
    BY <1>3, Ids DEF CanvasState
  <2>2. "joins" \in Edits => SingleParents(v.edges[Root])
    BY <1>15, <2>1
  <2>3. v.children[Root] \subseteq w.children[Root]
    BY <1>10, <2>1
  <2> QED BY <1>13, <2>1, <2>2, <2>3
<1>19. CanvasState(v)
  BY <1>12, <1>14, <1>16, <1>17, <1>18 DEF CanvasState
<1> QED BY <1>11, <1>19

-----------------------------------------------------------------------------
(* Moving a node.                                                          *)

(* The links of graph g, the operations in heirs left without run-after. *)
Freed(w, g, heirs) ==
  [edges    |-> w.edges[g],
   runAfter |-> [m \in Defined(w) |-> IF m \in heirs THEN Absent ELSE w.runAfter[m]]]

(* The operations that take over n's place below a heading. *)
Heirs(w, n, g) == IF n \in w.isRoot THEN Targets(Links(w, g), n) ELSE {}

RootsAfter(w, n, old, parent) ==
  ((w.isRoot \cup (Heirs(w, n, old) \cap HasMetadata(w))) \ {n})
  \cup (IF parent \in Headings THEN {n} ELSE {})

(* The links of graph new where n arrives, detached from graph old. *)
LinksBetween(w, d, old, new) ==
  [edges |-> [w.edges EXCEPT ![old] = d.edges][new], runAfter |-> d.runAfter]

(* What moveNodeInWorkflow makes of them. *)
MovedTo(w, m, n, old, new, parent, child) ==
  LET isAfterTrigger == parent \in RootsAfter(w, n, old, parent) /\ new = Root
  IN  InsertNode(m, n, parent, child, ~(parent \in Headings) /\ ~isAfterTrigger, isAfterTrigger)

(* v is w with n taken out of graph old, which d is without it, and put    *)
(* into graph new, whose links are then l.                                 *)
HasMoved(w, v, n, old, new, parent, d, l, demoted) ==
  /\ v.children = [[w.children EXCEPT ![old] = @ \ {n}] EXCEPT ![new] = @ \cup {n}]
  /\ v.edges = [[w.edges EXCEPT ![old] = d.edges] EXCEPT ![new] = l.edges]
  /\ Defined(v) = Defined(w)
  /\ \A k \in Defined(v) : v.runAfter[k] = IF parent \in Headings /\ k = n THEN Absent
                                           ELSE IF k \in demoted THEN NoKeys ELSE l.runAfter[k]
  /\ v.graphOf = [w.graphOf EXCEPT ![n] = new]
  /\ v.isRoot = RootsAfter(w, n, old, parent) \ demoted

(* What moveNodeInWorkflow leaves, part by part. *)
LEMMA MovedParts ==
  ASSUME NEW w, IsState(w), NEW n \in HasMetadata(w), NEW old \in Graphs, NEW new \in Graphs,
         NEW parent, NEW child, NEW x,
         ~HasMultipleParents(w, n), ~DetachThrows(w, n, x),
         NEW d, d = DetachNode(Freed(w, old, Heirs(w, n, old)), w, n, x),
         NEW l, l = MovedTo(w, LinksBetween(w, d, old, new), n, old, new, parent, child),
         DOMAIN l.runAfter = Defined(w), n \in Defined(w),
         NEW demoted, demoted = IF parent \in Headings THEN Targets(l, n) \cap HasMetadata(w) ELSE {},
         NEW v, v = MoveNodeInWorkflow(w, n, old, new, parent, child, x)
  PROVE  HasMoved(w, v, n, old, new, parent, d, l, demoted)
<1> DEFINE left == [w.edges EXCEPT ![old] = d.edges]
           roots == RootsAfter(w, n, old, parent)
           children == [[w.children EXCEPT ![old] = @ \ {n}] EXCEPT ![new] = @ \cup {n}]
           edges == [left EXCEPT ![new] = l.edges]
           placed == [children |-> children, edges |-> edges, runAfter |-> l.runAfter,
                      graphOf |-> WithGraphId(w, n, new), isRoot |-> roots]
           root == ApplyIsRootNode(placed, n, new)
<1>1. DOMAIN w.edges = Graphs /\ DOMAIN w.graphOf = HasMetadata(w)
  BY DEF IsState, HasMetadata
<1>2. left[new] = IF new = old THEN d.edges ELSE w.edges[new]
  BY <1>1
<1>3. v = IF parent \in Headings THEN [root EXCEPT !.runAfter[n] = Absent] ELSE placed
  <2> DEFINE dd == DetachNode(Freed(w, old, Heirs(w, n, old)), w, n, x)
             ll == MovedTo(w, LinksBetween(w, dd, old, new), n, old, new, parent, child)
             Placed(a, b) == [children |-> children,
                              edges    |-> [[w.edges EXCEPT ![old] = a.edges] EXCEPT ![new] = b.edges],
                              runAfter |-> b.runAfter,
                              graphOf  |-> WithGraphId(w, n, new),
                              isRoot   |-> roots]
             throws == DetachThrows(w, n, x)
  <2>1. MoveNodeInWorkflow(w, n, old, new, parent, child, x) =
          IF (HasMultipleParents(w, n) /\ HasMultipleChildren(w, n, old)) \/ throws
          THEN w
          ELSE IF parent \in Headings
          THEN [ApplyIsRootNode(Placed(dd, ll), n, new) EXCEPT !.runAfter[n] = Absent]
          ELSE Placed(dd, ll)
    BY ONLY Zenon DEF MoveNodeInWorkflow, MovedTo, RootsAfter, Heirs, Freed, LinksBetween
  <2>2. d = dd /\ l = ll /\ ~HasMultipleParents(w, n) /\ ~throws
    OBVIOUS
  <2> HIDE DEF dd, ll, Placed, throws, roots, children
  <2>3. v = IF parent \in Headings
            THEN [ApplyIsRootNode(Placed(d, l), n, new) EXCEPT !.runAfter[n] = Absent]
            ELSE Placed(d, l)
    BY <2>1, <2>2
  <2> QED BY <2>3 DEF Placed, root, placed, left, edges
<1>4. /\ placed.children = children /\ placed.edges = edges /\ placed.runAfter = l.runAfter
      /\ placed.graphOf = [w.graphOf EXCEPT ![n] = new] /\ placed.isRoot = roots
      /\ placed.edges[new] = l.edges
  BY <1>1 DEF WithGraphId
<1> HIDE DEF placed, left, roots, children, edges
<1>5. CASE parent \in Headings
  <2>1. Targets(Links(placed, new), n) = Targets(l, n)
    BY <1>4 DEF Targets, Links
  <2>2. HasMetadata(placed) = HasMetadata(w) /\ Defined(placed) = Defined(w)
    BY <1>1, <1>4 DEF HasMetadata, Defined
  <2>3. demoted = Targets(Links(placed, new), n) \cap HasMetadata(placed)
    BY <1>5, <2>1, <2>2
  <2>4. root = [children |-> placed.children,
                edges    |-> placed.edges,
                runAfter |-> [y \in Defined(placed) |-> IF y \in demoted THEN NoKeys
                                                        ELSE placed.runAfter[y]],
                graphOf  |-> placed.graphOf,
                isRoot   |-> placed.isRoot \ demoted]
    BY <2>3 DEF ApplyIsRootNode
  <2> HIDE DEF root
  <2>5. v = [root EXCEPT !.runAfter[n] = Absent]
    BY <1>3, <1>5
  <2>6. /\ v.children = placed.children /\ v.edges = placed.edges /\ v.graphOf = placed.graphOf
        /\ v.isRoot = placed.isRoot \ demoted
        /\ v.runAfter = [[y \in Defined(placed) |-> IF y \in demoted THEN NoKeys
                                                    ELSE placed.runAfter[y]] EXCEPT ![n] = Absent]
    BY ONLY <2>4, <2>5
  <2>7. /\ Defined(v) = Defined(w)
        /\ \A k \in Defined(v) : v.runAfter[k] = IF parent \in Headings /\ k = n THEN Absent
                                                 ELSE IF k \in demoted THEN NoKeys ELSE l.runAfter[k]
    BY ONLY <1>4, <1>5, <2>2, <2>6 DEF Defined
  <2> QED BY <1>4, <2>6, <2>7 DEF HasMoved, children, edges, left, roots
<1>6. CASE parent \notin Headings
  <2>1. demoted = {} /\ v = placed
    BY <1>3, <1>6
  <2>2. /\ Defined(v) = Defined(w)
        /\ \A k \in Defined(v) : v.runAfter[k] = l.runAfter[k]
    BY <1>4, <2>1 DEF Defined
  <2> QED BY <1>4, <1>6, <2>1, <2>2 DEF HasMoved, children, edges, left, roots
<1> QED BY <1>5, <1>6

(* v is w with the node n taken out of graph old, which left the edges D   *)
(* there, and put into graph new below parent and before child.            *)
MovesNode(w, v, D, n, old, new, parent, child) ==
  LET before == IF new = old THEN D ELSE w.edges[new]
  IN  /\ v.children = [[w.children EXCEPT ![old] = @ \ {n}] EXCEPT ![new] = @ \cup {n}]
      /\ Defined(v) = Defined(w)
      /\ v.graphOf = [w.graphOf EXCEPT ![n] = new]
      /\ v.isRoot = IF parent \in Headings
                    THEN {y \in RootsAfter(w, n, old, parent) : <<n, y>> \notin v.edges[new]}
                    ELSE RootsAfter(w, n, old, parent)
      /\ D \subseteq Ends \X Ends
      /\ IsWithout(D, w.edges[old], n)
      /\ new # old => v.edges[old] = D
      /\ \A h \in Graphs \ {old, new} : v.edges[h] = w.edges[h]
      /\ IsWithout(before, v.edges[new], n)
      /\ HangsFrom(v.edges[new], n, parent)
      /\ \A k : OneSource(w.edges[old], k) => OneSource(D, k)
      /\ StaysAlone(before, v.edges[new], n, child)

(* Who takes n's place below a heading. *)
LEMMA HeirsAre ==
  ASSUME NEW w, CanvasState(w), NEW g \in Graphs, NEW n \in w.children[g], n \in Actions \cup Scopes
  PROVE  /\ Heirs(w, n, g) = IF n \in w.isRoot THEN {c \in Ends : <<n, c>> \in w.edges[g]} ELSE {}
         /\ Heirs(w, n, g) \cap (Operations \cup {Placeholder}) \subseteq w.children[g]
         /\ g = Root => Heirs(w, n, g) = {}
<1>1. /\ w.edges[g] \subseteq Ends \X Ends
      /\ \A p, c : <<p, c>> \in w.edges[g] => c \in w.children[g] \cup Footers
      /\ \A k \in Cards(w, g) \cap (Actions \cup Scopes) : k \in w.children[g] \ Start(w, g)
      /\ w.children[g] \subseteq Cards(w, g)
  BY CanvasHasParts
<1>2. \A c : c \in Targets(Links(w, g), n) <=> c \in Ends /\ <<n, c>> \in w.edges[g]
  <2>1. Links(w, g).edges = w.edges[g]
    BY DEF Links
  <2> QED BY <1>1, <2>1, TargetsAre
<1>3. Heirs(w, n, g) = IF n \in w.isRoot THEN {c \in Ends : <<n, c>> \in w.edges[g]} ELSE {}
  BY <1>2 DEF Heirs
<1>4. Heirs(w, n, g) \cap (Operations \cup {Placeholder}) \subseteq w.children[g]
  BY <1>1, <1>3, CardIds
<1>5. g = Root => n \notin w.isRoot
  BY <1>1 DEF Start
<1> QED BY <1>3, <1>4, <1>5

(* The links n is taken out of. *)
LEMMA FreedGraph ==
  ASSUME NEW w, CanvasState(w), NEW g \in Graphs, NEW heirs,
         NEW C, NEW T, NEW S, IsGraph(Links(w, g), C, T, S),
         NEW f, f = Freed(w, g, heirs)
  PROVE  /\ IsLinks(f) /\ IsGraph(f, C, T, S)
         /\ f.edges = w.edges[g] /\ DOMAIN f.runAfter = Defined(w)
         /\ \A k \in Defined(w) : f.runAfter[k] = IF k \in heirs THEN Absent ELSE w.runAfter[k]
<1>1. /\ f.edges = w.edges[g]
      /\ f.runAfter = [m \in Defined(w) |-> IF m \in heirs THEN Absent ELSE w.runAfter[m]]
  BY DEF Freed
<1>2. /\ IsState(w) /\ w.edges[g] \subseteq Ends \X Ends /\ Defined(w) \subseteq Operations
  BY CanvasHasParts
<1>3. IsRunAfterMap(f.runAfter)
  BY <1>1, <1>2 DEF IsRunAfterMap, IsState, IsRunAfter
<1>4. KeysFollow(f, C)
  BY <1>1 DEF IsGraph, KeysFollow, Links, Keys, Defined
<1> QED BY <1>1, <1>2, <1>3, <1>4 DEF IsLinks, IsGraph, Links

(* d are the links of graph old without n, and m those n is put among. *)
IsBetween(w, d, m, n, old, new) ==
  /\ \E T \in SUBSET (Footers \cap {Footer(old)}) :
       IsGraph(d, Cards(w, old) \ {n}, T, Start(w, old))
  /\ \E T \in SUBSET (Footers \cap {Footer(new)}) :
       IsGraph(m, Cards(w, new) \ {n}, T, Start(w, new))
  /\ IsLinks(d) /\ DOMAIN d.runAfter = Defined(w)
  /\ IsLinks(m) /\ m.runAfter = d.runAfter
  /\ m.edges = IF new = old THEN d.edges ELSE w.edges[new]
  /\ IsWithout(d.edges, w.edges[old], n)
  /\ Keys(d.runAfter[n]) = {}
  /\ \A k : OneSource(w.edges[old], k) => OneSource(d.edges, k)
  /\ \A k \in Defined(w) : k \notin Cards(w, old) => d.runAfter[k] = w.runAfter[k]

(* The links after n was taken out of graph old, and where it is put. *)
LEMMA BetweenGraph ==
  ASSUME NEW w, CanvasState(w), NEW old \in Graphs, NEW n \in w.children[old], n \in Actions \cup Scopes,
         OneSource(w.edges[old], n), NEW x \in Neighbours(w, n, old), NEW new \in Graphs,
         NEW d, d = DetachNode(Freed(w, old, Heirs(w, n, old)), w, n, x),
         NEW m, m = LinksBetween(w, d, old, new)
  PROVE  IsBetween(w, d, m, n, old, new)
<1> DEFINE C == Cards(w, old)
           S == Start(w, old)
           heirs == Heirs(w, n, old)
           f == Freed(w, old, heirs)
<1>1. /\ C \subseteq Ends /\ C \cap Footers = {} /\ n \in C
      /\ Defined(w) \subseteq Operations /\ DOMAIN w.edges = Graphs
      /\ w.edges[new] \subseteq Ends \X Ends
      /\ IsState(w)
  BY CanvasHasParts DEF IsState
<1>2. /\ ~HasMultipleParents(w, n)
      /\ x \in Ends
      /\ \A p : <<p, n>> \in w.edges[old] <=> p = x
      /\ x \in Triggers => IsRootNodeInGraph(w, x, Root)
      /\ n \in Defined(w) /\ n \notin S
  BY OneParent
<1>3. PICK T \in SUBSET (Footers \cap {Footer(old)}) : IsGraph(Links(w, old), C, T, S)
  BY DEF CanvasState, IsDrawn
<1>4. T \subseteq Ends /\ n \notin T
  BY <1>1, CardIds
<1>5. /\ IsLinks(f) /\ IsGraph(f, C, T, S)
      /\ f.edges = w.edges[old] /\ DOMAIN f.runAfter = Defined(w)
      /\ \A k \in Defined(w) : f.runAfter[k] = IF k \in heirs THEN Absent ELSE w.runAfter[k]
  <2> HIDE DEF C, S, heirs
  <2> QED BY <1>3, FreedGraph
<1>6. IsDetached(f, d, C, T, S, n)
  <2>1. n \in (C \ S) \cap DOMAIN f.runAfter /\ \A p : <<p, n>> \in f.edges <=> p = x
    BY <1>1, <1>2, <1>5
  <2>2. d = DetachNode(f, w, n, x)
    OBVIOUS
  <2> HIDE DEF f, C, S
  <2> QED BY <1>1, <1>2, <1>4, <1>5, <2>1, <2>2, DetachedGraph
<1> HIDE DEF f
<1>7. ASSUME NEW k \in Defined(w), k \notin C PROVE d.runAfter[k] = w.runAfter[k]
  <2>1. k \notin T /\ k \notin heirs
    <3>1. heirs \cap (Operations \cup {Placeholder}) \subseteq w.children[old]
      BY HeirsAre
    <3>2. w.children[old] \subseteq C
      BY DEF Cards
    <3> QED BY <1>1, <1>7, <3>1, <3>2, CardIds
  <2> QED BY <1>5, <1>6, <1>7, <2>1 DEF IsDetached
<1>8. m.edges = (IF new = old THEN d.edges ELSE w.edges[new]) /\ m.runAfter = d.runAfter
  BY <1>1 DEF LinksBetween
<1>9. IsLinks(d) /\ IsLinks(m)
  BY <1>1, <1>6, <1>8 DEF IsLinks, IsDetached
<1>10. \E U \in SUBSET (Footers \cap {Footer(new)}) :
         IsGraph(m, Cards(w, new) \ {n}, U, Start(w, new))
  <2>1. CASE new = old
    <3>1. IsGraph(m, C \ {n}, T, S)
      BY <1>6, <1>8, <2>1 DEF IsDetached, IsGraph, KeysFollow
    <3> QED BY <2>1, <3>1
  <2>2. CASE new # old
    <3>1. PICK U \in SUBSET (Footers \cap {Footer(new)}) :
            IsGraph(Links(w, new), Cards(w, new), U, Start(w, new))
      BY DEF CanvasState, IsDrawn
    <3>2. Cards(w, new) \cap C = {}
      BY <2>2, CardsAreApart
    <3>3. Cards(w, new) \ {n} = Cards(w, new)
      BY <1>1, <3>2
    <3>4. KeysFollow(m, Cards(w, new))
      <4>1. KeysFollow(Links(w, new), Cards(w, new))
        BY <3>1 DEF IsGraph
      <4>2. \A k \in Cards(w, new) \cap DOMAIN m.runAfter :
              k \in Defined(w) /\ m.runAfter[k] = w.runAfter[k]
        BY <1>5, <1>6, <1>7, <1>8, <3>2 DEF IsDetached
      <4> QED BY <1>8, <2>2, <4>1, <4>2 DEF KeysFollow, Links, Defined
    <3>5. IsGraph(m, Cards(w, new), U, Start(w, new))
      BY <1>8, <2>2, <3>1, <3>4 DEF IsGraph, Links
    <3> QED BY <3>3, <3>5
  <2> QED BY <2>1, <2>2
<1>11. /\ IsGraph(d, C \ {n}, T, S) /\ DOMAIN d.runAfter = Defined(w)
       /\ IsWithout(d.edges, w.edges[old], n)
       /\ Keys(d.runAfter[n]) = {}
       /\ \A k : OneSource(w.edges[old], k) => OneSource(d.edges, k)
  BY <1>5, <1>6 DEF IsDetached
<1> QED BY <1>7, <1>8, <1>9, <1>10, <1>11 DEF IsBetween

(* The graph n arrives in. *)
LEMMA ArrivedGraph ==
  ASSUME NEW w, CanvasState(w), NEW new \in Graphs, Start(w, new) # {},
         NEW n \in Actions \cup Scopes, NEW old \in Graphs,
         NEW m, IsLinks(m), n \in DOMAIN m.runAfter, Keys(m.runAfter[n]) = {},
         NEW T \in SUBSET (Footers \cap {Footer(new)}),
         NEW C, C = Cards(w, new) \ {n}, IsGraph(m, C, T, Start(w, new)),
         NEW parent \in C \cup {NoNode},
         NEW child \in ((w.children[new] \ Start(w, new)) \ {n}) \cup {NoNode},
         IsPlace(m.edges, parent, child),
         NEW l, l = MovedTo(w, m, n, old, new, parent, child)
  PROVE  IsJoined(m, l, C, T, Start(w, new), n, parent, child)
<1> DEFINE isAfterTrigger == parent \in RootsAfter(w, n, old, parent) /\ new = Root
           add == ~(parent \in Headings) /\ ~isAfterTrigger
           S == Start(w, new)
<1>1. /\ Cards(w, new) \subseteq Ends \ {NoNode} /\ S \subseteq Cards(w, new)
      /\ w.children[new] \subseteq Cards(w, new) /\ Cards(w, new) \cap Footers = {}
      /\ \A k \in Cards(w, new) \cap Triggers : new = Root /\ IsRootNodeInGraph(w, k, Root)
      /\ \A k \in Cards(w, new) \cap (Actions \cup Scopes) : k \notin S
  BY CanvasHasParts
<1>2. n \in Operations /\ n \notin Triggers /\ n \notin Footers /\ n # NoNode
  BY Ids, CardIds, IdsAreDistinct
<1>3. T \subseteq Ends \ {NoNode} /\ n \notin C \cup T /\ C \subseteq Ends \ {NoNode}
  BY <1>1, <1>2, CardIds
<1>4. S \subseteq C
  <2>1. n \notin S
    BY <1>1
  <2> QED BY <1>1, <2>1
<1>5. child \in (C \ S) \cup {NoNode}
  BY <1>1
<1>6. add => parent \notin Triggers
  <2>1. SUFFICES ASSUME parent \in Triggers PROVE isAfterTrigger
    OBVIOUS
  <2>2. parent # NoNode
    BY <2>1, Ids
  <2>3. new = Root /\ parent \in w.isRoot /\ parent # n
    BY <1>1, <1>2, <2>1, <2>2 DEF IsRootNodeInGraph
  <2> QED BY <2>3 DEF RootsAfter
<1>7. add \in BOOLEAN /\ isAfterTrigger \in BOOLEAN
  OBVIOUS
<1>8. l = InsertNode(m, n, parent, child, add, isAfterTrigger)
  BY DEF MovedTo
<1> HIDE DEF add, isAfterTrigger, S
<1>9. S # {} /\ IsGraph(m, C, T, S)
  BY DEF S
<1>10. \A a, i \in BOOLEAN : \A q : (a => parent \notin Triggers) /\ q = InsertNode(m, n, parent, child, a, i) =>
         IsJoined(m, q, C, T, S, n, parent, child)
  BY <1>2, <1>3, <1>4, <1>5, <1>9, InsertedGraph
<1>11. IsJoined(m, l, C, T, S, n, parent, child)
  BY <1>6, <1>7, <1>8, <1>10, Zenon
<1> QED BY <1>11 DEF S

(* Moving keeps the state of the canvas. *)
LEMMA MoveKeepsCanvas ==
  ASSUME NEW w, CanvasState(w), NEW old \in Graphs, NEW n \in w.children[old], n \in Actions \cup Scopes,
         OneSource(w.edges[old], n), NEW x \in Neighbours(w, n, old),
         NEW new \in Graphs, new \in {Root} \cup Defined(w), n # new, Start(w, new) # {},
         NEW parent \in (Cards(w, new) \ {n}) \cup {NoNode},
         NEW child \in ((w.children[new] \ Start(w, new)) \ {n}) \cup {NoNode},
         IsPlace(w.edges[new], parent, child),
         NEW v, v = MoveNodeInWorkflow(w, n, old, new, parent, child, x)
  PROVE  CanvasState(v) /\ \E D : MovesNode(w, v, D, n, old, new, parent, child)
<1> DEFINE d == DetachNode(Freed(w, old, Heirs(w, n, old)), w, n, x)
           m == LinksBetween(w, d, old, new)
           l == MovedTo(w, m, n, old, new, parent, child)
           C == Cards(w, new) \ {n}
           S == Start(w, new)
           demoted == IF parent \in Headings THEN Targets(l, n) \cap HasMetadata(w) ELSE {}
<1>1. /\ IsState(w) /\ IsWellFormed(w)
      /\ Defined(w) = HasMetadata(w) \ {Placeholder} /\ Defined(w) \subseteq Operations
      /\ DOMAIN w.children = Graphs /\ DOMAIN w.edges = Graphs /\ DOMAIN w.graphOf = HasMetadata(w)
      /\ n \in HasMetadata(w)
  BY CanvasHasParts DEF IsState, HasMetadata
<1>2. /\ Cards(w, new) \subseteq Ends \ {NoNode} /\ S \subseteq Cards(w, new)
      /\ Cards(w, new) \cap Footers = {}
      /\ w.children[new] \subseteq Cards(w, new)
      /\ w.edges[new] \subseteq Ends \X Ends
  BY CanvasHasParts
<1>3. /\ ~HasMultipleParents(w, n) /\ ~DetachThrows(w, n, x)
      /\ x \in Ends /\ n \in Defined(w) /\ n \notin Triggers /\ n \notin Start(w, old)
      /\ \A p : <<p, n>> \in w.edges[old] <=> p = x
  BY OneParent, ZenonT(30)
<1>4. /\ n \in Operations /\ n \notin Footers /\ n \notin Headings /\ n # Root
      /\ n # Placeholder /\ n # NoNode
  BY Ids, CardIds, IdsAreDistinct
<1>5. /\ \E U \in SUBSET (Footers \cap {Footer(old)}) :
           IsGraph(d, Cards(w, old) \ {n}, U, Start(w, old))
      /\ \E U \in SUBSET (Footers \cap {Footer(new)}) : IsGraph(m, C, U, S)
      /\ IsLinks(d) /\ DOMAIN d.runAfter = Defined(w)
      /\ IsLinks(m) /\ m.runAfter = d.runAfter
      /\ m.edges = IF new = old THEN d.edges ELSE w.edges[new]
      /\ IsWithout(d.edges, w.edges[old], n)
      /\ Keys(d.runAfter[n]) = {}
      /\ \A k : OneSource(w.edges[old], k) => OneSource(d.edges, k)
      /\ \A k \in Defined(w) : k \notin Cards(w, old) => d.runAfter[k] = w.runAfter[k]
  <2>1. d = DetachNode(Freed(w, old, Heirs(w, n, old)), w, n, x) /\ m = LinksBetween(w, d, old, new)
    OBVIOUS
  <2> HIDE DEF d, m
  <2>2. IsBetween(w, d, m, n, old, new)
    BY <2>1, BetweenGraph
  <2> QED BY <2>2 DEF IsBetween
<1> HIDE DEF d
<1>6. PICK T \in SUBSET (Footers \cap {Footer(new)}) : IsGraph(m, C, T, S)
  BY <1>5
<1>7. IsPlace(m.edges, parent, child)
  <2>1. CASE new = old
    <3>1. m.edges = d.edges
      BY <1>5, <2>1
    <3>2. parent # n /\ child # n
      BY <1>4
    <3> QED BY <1>5, <2>1, <3>1, <3>2 DEF IsPlace, IsWithout
  <2>2. CASE new # old
    BY <1>5, <2>2
  <2> QED BY <2>1, <2>2
<1> HIDE DEF m
<1>8. IsJoined(m, l, C, T, S, n, parent, child)
  <2>1. n \in DOMAIN m.runAfter /\ Keys(m.runAfter[n]) = {}
    BY <1>3, <1>5
  <2>2. IsLinks(m)
    BY <1>5
  <2>3. IsGraph(m, C, T, Start(w, new)) /\ T \in SUBSET (Footers \cap {Footer(new)})
    BY <1>6
  <2> HIDE DEF l, C, S
  <2>4. C = Cards(w, new) \ {n} /\ l = MovedTo(w, m, n, old, new, parent, child)
    BY DEF C, l
  <2>5. parent \in C \cup {NoNode}
    BY <2>4
  <2>6. IsJoined(m, l, C, T, Start(w, new), n, parent, child)
    BY <1>7, <2>1, <2>2, <2>3, <2>4, <2>5, ArrivedGraph
  <2> QED BY <2>6 DEF S
<1>9. HasMoved(w, v, n, old, new, parent, d, l, demoted)
  <2>1. DOMAIN l.runAfter = Defined(w)
    BY <1>5, <1>8 DEF IsJoined
  <2>2. /\ d = DetachNode(Freed(w, old, Heirs(w, n, old)), w, n, x)
        /\ l = MovedTo(w, LinksBetween(w, d, old, new), n, old, new, parent, child)
    BY DEF d, m
  <2> DEFINE dem == demoted
  <2>3. dem = IF parent \in Headings THEN Targets(l, n) \cap HasMetadata(w) ELSE {}
    OBVIOUS
  <2> HIDE DEF l, dem
  <2>4. HasMoved(w, v, n, old, new, parent, d, l, dem)
    BY <1>1, <1>3, <2>1, <2>2, <2>3, MovedParts
  <2> QED BY <2>4 DEF dem
<1>10. /\ IsGraph(l, C \cup {n}, T, S)
       /\ IsLinks(l) /\ DOMAIN l.runAfter = Defined(w)
       /\ IsWithout(m.edges, l.edges, n)
       /\ HangsFrom(l.edges, n, parent)
       /\ StaysAlone(m.edges, l.edges, n, child)
       /\ \A k \in Defined(w) : k \notin C \cup T \cup {n} => l.runAfter[k] = m.runAfter[k]
  BY <1>5, <1>8 DEF IsJoined
<1> HIDE DEF l
<1>11. demoted = IF parent \in Headings
                 THEN {c \in HasMetadata(w) : <<n, c>> \in l.edges} ELSE {}
  <2>1. l.edges \subseteq Ends \X Ends
    BY <1>10 DEF IsLinks
  <2>2. \A c : c \in Targets(l, n) <=> c \in Ends /\ <<n, c>> \in l.edges
    BY <2>1, TargetsAre
  <2>3. HasMetadata(w) \subseteq Ends
    BY <1>1, Ids
  <2> QED BY <2>2, <2>3
<1>12. demoted \subseteq C \cup {n} /\ (parent \in Headings => new \in Scopes /\ new # Root)
  <2>1. \A c : <<n, c>> \in l.edges => c \in C \cup {n} \cup Footers
    BY <1>10 DEF IsGraph, IsCanvas
  <2>2. HasMetadata(w) \cap Footers = {}
    BY <1>1, CardIds
  <2>3. parent \in Headings => parent \notin w.children[new]
    <3>1. w.children[new] \subseteq Operations \cup {Placeholder}
      BY CanvasHasParts
    <3> QED BY <3>1, CardIds
  <2>4. parent \in Headings => new # Root
    BY <2>3, CardIds DEF Cards
  <2>5. new # Root => new \in Scopes
    BY DEF Graphs
  <2> QED BY <1>11, <2>1, <2>2, <2>4, <2>5
<1> HIDE DEF demoted
<1>13. /\ v.children = [[w.children EXCEPT ![old] = @ \ {n}] EXCEPT ![new] = @ \cup {n}]
       /\ v.edges = [[w.edges EXCEPT ![old] = d.edges] EXCEPT ![new] = l.edges]
       /\ Defined(v) = Defined(w)
       /\ \A k \in Defined(v) : v.runAfter[k] = IF parent \in Headings /\ k = n THEN Absent
                                                ELSE IF k \in demoted THEN NoKeys ELSE l.runAfter[k]
       /\ v.graphOf = [w.graphOf EXCEPT ![n] = new]
       /\ v.isRoot = RootsAfter(w, n, old, parent) \ demoted
  BY <1>9 DEF HasMoved
<1>14. /\ v.children[new] = (w.children[new] \ {n}) \cup {n}
       /\ old # new => v.children[old] = w.children[old] \ {n}
       /\ \A h \in Graphs \ {old, new} : v.children[h] = w.children[h] /\ v.edges[h] = w.edges[h]
       /\ v.edges[new] = l.edges
       /\ old # new => v.edges[old] = d.edges
       /\ HasMetadata(v) = HasMetadata(w)
  BY <1>1, <1>13 DEF HasMetadata
<1>15. \A k \in Defined(v) : Keys(v.runAfter[k]) \subseteq Keys(l.runAfter[k])
  <2>1. Keys(NoKeys) = {} /\ Keys(Absent) = {}
    BY DEF Keys, NoKeys
  <2> QED BY <1>13, <2>1
<1>16. RootsAfter(w, n, old, parent) \subseteq HasMetadata(w)
  BY <1>1 DEF RootsAfter, CanvasState
<1>17. \E D : MovesNode(w, v, D, n, old, new, parent, child)
  <2>1. v.isRoot = IF parent \in Headings
                   THEN {y \in RootsAfter(w, n, old, parent) : <<n, y>> \notin v.edges[new]}
                   ELSE RootsAfter(w, n, old, parent)
    BY <1>11, <1>13, <1>14, <1>16
  <2>2. d.edges \subseteq Ends \X Ends
    BY <1>5 DEF IsLinks
  <2>3. (IF new = old THEN d.edges ELSE w.edges[new]) = m.edges
    BY <1>5
  <2>4. MovesNode(w, v, d.edges, n, old, new, parent, child)
    BY <1>5, <1>10, <1>13, <1>14, <2>1, <2>2, <2>3 DEF MovesNode
  <2> QED BY <2>4
<1>18. IsWellFormed(v)
  <2>1. parent \in Ends /\ child \in Ends
    BY <1>2, Ids
  <2> QED BY <1>1, <1>3, <1>4, <2>1, MoveNodeWellFormed
<1>19. \A h \in Graphs : Start(v, h) = Start(w, h)
  <2>1. Root \in Graphs /\ w.children[Root] \subseteq Cards(w, Root)
        /\ w.children[Root] \subseteq Operations \cup {Placeholder}
    BY CanvasHasParts, Ids
  <2>2. w.children[Root] \cap Heirs(w, n, old) = {}
    <3>1. /\ Heirs(w, n, old) \cap (Operations \cup {Placeholder}) \subseteq w.children[old]
          /\ old = Root => Heirs(w, n, old) = {}
          /\ w.children[old] \subseteq Cards(w, old)
      BY HeirsAre, CanvasHasParts
    <3>2. old # Root => Cards(w, old) \cap Cards(w, Root) = {}
      BY <2>1, CardsAreApart
    <3> QED BY <2>1, <3>1, <3>2
  <2>3. (w.children[Root] \ {n}) \cap demoted = {}
    <3>1. CASE parent \in Headings
      <4>1. Cards(w, new) \cap Cards(w, Root) = {}
        BY <1>12, <2>1, <3>1, CardsAreApart
      <4> QED BY <1>12, <2>1, <4>1
    <3>2. CASE parent \notin Headings
      BY <1>11, <3>2
    <3> QED BY <3>1, <3>2
  <2>4. v.children[Root] \ {n} = w.children[Root] \ {n}
    BY <1>14, <2>1
  <2>5. n \notin w.children[Root] \cap w.isRoot
    <3>1. CASE old = Root
      BY <1>3, <3>1 DEF Start
    <3>2. CASE old # Root
      <4>1. n \in Cards(w, old)
        BY CanvasHasParts
      <4> QED BY <2>1, <3>2, <4>1, CardsAreApart
    <3> QED BY <3>1, <3>2
  <2>6. n \notin v.children[Root] \cap v.isRoot
    <3>1. CASE new = Root
      <4>1. parent \notin Headings
        BY <1>12, <3>1
      <4> QED BY <1>13, <4>1 DEF RootsAfter
    <3>2. CASE new # Root
      <4>1. n \notin v.children[Root]
        <5>1. CASE old = Root
          BY <1>14, <3>2, <5>1
        <5>2. CASE old # Root
          <6>1. v.children[Root] = w.children[Root]
            BY <1>14, <2>1, <3>2, <5>2
          <6>2. n \in Cards(w, old)
            BY CanvasHasParts
          <6> QED BY <2>1, <5>2, <6>1, <6>2, CardsAreApart
        <5> QED BY <5>1, <5>2
      <4> QED BY <4>1
    <3> QED BY <3>1, <3>2
  <2>7. \A y \in w.children[Root] \ {n} : y \in v.isRoot <=> y \in w.isRoot
    BY <1>13, <2>2, <2>3 DEF RootsAfter
  <2>8. v.children[Root] \cap v.isRoot = w.children[Root] \cap w.isRoot
    BY <2>4, <2>5, <2>6, <2>7
  <2> QED BY <2>8 DEF Start
<1>20. ASSUME NEW h \in Graphs PROVE IsDrawn(v, h)
  <2>1. CASE h = new
    <3>1. Cards(v, new) = C \cup {n} /\ Start(v, new) = S
      BY <1>4, <1>14, <1>19, CardIds DEF Cards, Graphs
    <3>2. \A k \in Cards(v, new) \cap Defined(v) :
            k \in DOMAIN l.runAfter /\ Keys(v.runAfter[k]) \subseteq Keys(l.runAfter[k])
      BY <1>10, <1>13, <1>15
    <3>3. IsGraph(l, Cards(v, new), T, Start(v, new))
      BY <1>10, <3>1
    <3> QED BY <1>6, <1>14, <2>1, <3>2, <3>3, DrawnFromGraph
  <2>2. CASE h = old /\ old # new
    <3>1. Cards(v, old) = Cards(w, old) \ {n} /\ Start(v, old) = Start(w, old)
      BY <1>4, <1>14, <1>19, <2>2, CardIds DEF Cards, Graphs
    <3>2. PICK U \in SUBSET (Footers \cap {Footer(old)}) :
            IsGraph(d, Cards(v, old), U, Start(v, old))
      BY <1>5, <3>1
    <3>3. Cards(w, old) \cap Cards(w, new) = {}
      BY <2>2, CardsAreApart
    <3>4. \A k \in Cards(v, old) \cap Defined(v) :
            k \in DOMAIN d.runAfter /\ Keys(v.runAfter[k]) \subseteq Keys(d.runAfter[k])
      <4>1. ASSUME NEW k \in Cards(v, old) \cap Defined(v)
            PROVE  k \in DOMAIN d.runAfter /\ Keys(v.runAfter[k]) \subseteq Keys(d.runAfter[k])
        <5>1. k \in Defined(w) /\ k \in Cards(w, old) /\ k # n
          BY <1>13, <3>1
        <5>2. k \notin C /\ k \notin T
          <6>1. k \notin Footers
            BY <1>1, <5>1, CardIds
          <6> QED BY <3>3, <5>1, <6>1
        <5>3. l.runAfter[k] = m.runAfter[k]
          BY <1>10, <5>1, <5>2
        <5> QED BY <1>5, <1>15, <5>1, <5>3
      <4> QED BY <4>1
    <3> QED BY <1>14, <2>2, <3>2, <3>4, DrawnFromGraph
  <2>3. CASE h \notin {old, new}
    <3>1. Cards(w, h) \cap Cards(w, old) = {} /\ Cards(w, h) \cap Cards(w, new) = {}
      BY <2>3, CardsAreApart
    <3>2. \A k \in Cards(w, h) \cap Defined(v) :
            k \in Defined(w) /\ Keys(v.runAfter[k]) \subseteq Keys(w.runAfter[k])
      <4>1. ASSUME NEW k \in Cards(w, h) \cap Defined(v)
            PROVE  k \in Defined(w) /\ Keys(v.runAfter[k]) \subseteq Keys(w.runAfter[k])
        <5>1. k \in Defined(w) /\ k \notin Footers
          BY <1>1, <1>13, CardIds
        <5>2. n \in Cards(w, old)
          BY CanvasHasParts
        <5>3. k \notin C /\ k \notin T /\ k # n /\ k \notin Cards(w, old)
          BY <3>1, <5>1, <5>2
        <5>4. l.runAfter[k] = m.runAfter[k]
          BY <1>10, <5>1, <5>3
        <5>5. m.runAfter[k] = w.runAfter[k]
          BY <1>5, <5>1, <5>3
        <5> QED BY <1>15, <5>1, <5>4, <5>5
      <4> QED BY <4>1
    <3>3. IsDrawn(w, h)
      BY DEF CanvasState
    <3> QED BY <1>14, <1>19, <2>3, <3>2, <3>3, StillDrawn
  <2> QED BY <2>1, <2>2, <2>3
<1>21. ASSUME NEW h \in Graphs, SingleParents(w.edges[h]) PROVE SingleParents(v.edges[h])
  <2>1. CASE h = new
    <3>1. \A k : OneSource(w.edges[h], k) => OneSource(m.edges, k)
      BY <1>5, <2>1
    <3>2. child # NoNode => child \notin Footers
      BY <1>2
    <3>3. child # NoNode => OneSource(m.edges, child)
      BY <1>21, <3>1, <3>2 DEF SingleParents
    <3> QED BY <1>10, <1>14, <1>21, <2>1, <3>1, <3>3 DEF StaysAlone, SingleParents
  <2>2. CASE h = old /\ old # new
    BY <1>5, <1>14, <1>21, <2>2 DEF SingleParents
  <2>3. CASE h \notin {old, new}
    BY <1>14, <1>21, <2>3
  <2> QED BY <2>1, <2>2, <2>3
<1>22. ASSUME NEW s \in Scopes
       PROVE  /\ v.children[s] \subseteq (Actions \cup Scopes) \ {s}
              /\ SingleParents(v.edges[s])
              /\ s \notin Defined(v) => v.children[s] = {}
  <2>0. s \in Graphs /\ s # Root
    BY Ids DEF Graphs
  <2>1. /\ w.children[s] \subseteq (Actions \cup Scopes) \ {s}
        /\ SingleParents(w.edges[s])
        /\ s \notin Defined(w) => w.children[s] = {}
    BY DEF CanvasState
  <2>2. v.children[s] \subseteq w.children[s] \cup (IF s = new THEN {n} ELSE {})
    BY <1>14, <2>0
  <2>3. v.children[s] \subseteq (Actions \cup Scopes) \ {s}
    BY <2>1, <2>2
  <2>4. SingleParents(v.edges[s])
    BY <1>21, <2>0, <2>1
  <2>5. s \notin Defined(v) => v.children[s] = {}
    BY <1>13, <2>0, <2>1, <2>2
  <2> QED BY <2>3, <2>4, <2>5
<1>23. v.isRoot \subseteq HasMetadata(v)
  BY <1>13, <1>14, <1>16
<1>24. /\ v.children[Root] \subseteq Start(v, Root) \cup Actions \cup Scopes
       /\ Start(v, Root) \subseteq Triggers \cup {Placeholder}
       /\ Start(v, Root) = {} => v.children[Root] = {}
       /\ "joins" \in Edits => SingleParents(v.edges[Root])
  <2>1. /\ Root \in Graphs /\ Start(v, Root) = Start(w, Root)
        /\ w.children[Root] \subseteq Start(w, Root) \cup Actions \cup Scopes
        /\ Start(w, Root) \subseteq Triggers \cup {Placeholder}
        /\ Start(w, Root) = {} => w.children[Root] = {}
        /\ "joins" \in Edits => SingleParents(w.edges[Root])
    BY <1>19, Ids DEF CanvasState
  <2>2. "joins" \in Edits => SingleParents(v.edges[Root])
    BY <1>21, <2>1
  <2>3. v.children[Root] \subseteq w.children[Root] \cup (IF Root = new THEN {n} ELSE {})
    BY <1>14, <2>1
  <2>4. v.children[Root] \subseteq Start(v, Root) \cup Actions \cup Scopes
    BY <2>1, <2>3
  <2>5. Start(v, Root) = {} => v.children[Root] = {}
    BY <2>1, <2>3
  <2> QED BY <2>1, <2>2, <2>4, <2>5
<1>25. CanvasState(v)
  BY <1>18, <1>20, <1>22, <1>23, <1>24 DEF CanvasState
<1> QED BY <1>17, <1>25

-----------------------------------------------------------------------------
(* The first node of the root graph.                                       *)

(* What bringing in the trigger t makes of the workflow w. *)
TriggerAdded(w, t) ==
  AddNodeToWorkflow(WithoutPlaceholder(w, t), t, Root, NoNode, NoNode, FALSE, TRUE)

(* v is w with s, the first node of the root graph if there is one, given  *)
(* up for r.                                                               *)
PutsFirst(w, v, s, r) ==
  /\ v.children = [w.children EXCEPT ![Root] = (@ \ {s}) \cup {r}]
  /\ HasMetadata(v) = (HasMetadata(w) \ {s}) \cup {r}
  /\ \A n \in HasMetadata(v) : v.graphOf[n] = IF n = r THEN Root ELSE w.graphOf[n]
  /\ v.isRoot = (w.isRoot \ {s}) \cup {r}
  /\ IsRenamed(v.edges[Root], w.edges[Root], s, r)
  /\ \A g \in Scopes : v.edges[g] = w.edges[g]

(* What the root graph is like without its first node. *)
LEMMA RootHasParts ==
  ASSUME NEW w, CanvasState(w)
  PROVE  /\ Root \in Graphs /\ Cards(w, Root) = w.children[Root]
         /\ Start(w, Root) = w.children[Root] \cap w.isRoot
         /\ \A s, r \in Start(w, Root) : s = r
         /\ IsCanvas(w.edges[Root], w.children[Root], Start(w, Root))
         /\ \A n \in w.children[Root] : n \in Triggers \cup {Placeholder} => n \in Start(w, Root)
         /\ \A c \in w.children[Root] \cap Defined(w) : \A p \in Keys(w.runAfter[c]) :
              <<p, c>> \in w.edges[Root] /\ p \notin Triggers
         /\ \A p, c : <<p, c>> \in w.edges[Root] =>
              p \in w.children[Root] /\ c \in w.children[Root] \ Start(w, Root) /\ p # c
<1>1. Root \in Graphs /\ Cards(w, Root) = w.children[Root]
      /\ Start(w, Root) = w.children[Root] \cap w.isRoot
  BY Ids DEF Cards, Start
<1>2. PICK T \in SUBSET (Footers \cap {Footer(Root)}) :
        IsGraph(Links(w, Root), Cards(w, Root), T, Start(w, Root))
  BY <1>1 DEF CanvasState, IsDrawn
<1>3. T = {}
  BY CardIds, Ids
<1>4. /\ IsCanvas(w.edges[Root], w.children[Root], Start(w, Root))
      /\ KeysFollow(Links(w, Root), w.children[Root])
  BY <1>1, <1>2, <1>3 DEF IsGraph, Links
<1>5. w.edges[Root] \subseteq Ends \X Ends
  BY <1>1, CanvasHasParts
<1>6. ASSUME NEW p, <<p, p>> \in w.edges[Root] PROVE FALSE
  <2>1. Leads(w.edges[Root], p, Later(w.edges[Root], p))
    BY <1>5, LaterIsLeast
  <2>2. p \in Later(w.edges[Root], p)
    BY <1>6, <2>1 DEF Leads
  <2> QED BY <1>4, <1>6, <2>2 DEF IsCanvas
<1>7. \A n \in w.children[Root] : n \in Triggers \cup {Placeholder} => n \in Start(w, Root)
  <2>1. Placeholder \notin Actions \cup Scopes /\ Triggers \cap (Actions \cup Scopes) = {}
    BY Ids, IdsAreDistinct
  <2> QED BY <2>1 DEF CanvasState
<1>8. \A c \in w.children[Root] \cap Defined(w) : \A p \in Keys(w.runAfter[c]) :
        <<p, c>> \in w.edges[Root] /\ p \notin Triggers
  BY <1>4 DEF KeysFollow, Links, Defined
<1>9. \A p, c : <<p, c>> \in w.edges[Root] =>
        p \in w.children[Root] /\ c \in w.children[Root] \ Start(w, Root) /\ p # c
  BY <1>4, <1>6 DEF IsCanvas
<1>10. \A s, r \in Start(w, Root) : s = r
  BY <1>4 DEF IsCanvas
<1> QED BY <1>1, <1>4, <1>7, <1>8, <1>9, <1>10

(* With another first node, whose targets keep no keys but those that are  *)
(* drawn, the state of the canvas is kept.                                 *)
LEMMA FirstKeepsCanvas ==
  ASSUME NEW w, CanvasState(w), NEW v, IsWellFormed(v), NEW s, NEW r \in Triggers \cup {Placeholder},
         r \notin w.children[Root], w.children[Root] = {} \/ s \in Start(w, Root),
         s \in Triggers \cup {Placeholder}, s # r,
         PutsFirst(w, v, s, r),
         \A g \in Scopes : \A k \in Cards(w, g) \cap Defined(v) :
           k \in Defined(w) /\ Keys(v.runAfter[k]) \subseteq Keys(w.runAfter[k]),
         Defined(v) \ {r} \subseteq Defined(w) \ {s},
         Defined(w) \ {s} \subseteq Defined(v),
         r \in Defined(v) => Keys(v.runAfter[r]) = {},
         \A k \in (w.children[Root] \ {s}) \cap Defined(v) : \A p \in Keys(v.runAfter[k]) :
           <<p, k>> \in v.edges[Root] /\ p \notin Triggers
  PROVE  CanvasState(v)
<1> DEFINE C == w.children[Root]
           E == w.edges[Root]
           S == Start(w, Root)
           B == (C \ {s}) \cup {r}
           F == v.edges[Root]
<1>1. /\ Root \in Graphs /\ Cards(w, Root) = C /\ S = C \cap w.isRoot
      /\ \A y, z \in S : y = z
      /\ IsCanvas(E, C, S)
      /\ \A n \in C : n \in Triggers \cup {Placeholder} => n \in S
  BY RootHasParts
<1>2. /\ C \subseteq Ends \ {NoNode} /\ C \ S \subseteq Actions \cup Scopes
      /\ (S = {} => C = {})
      /\ E \subseteq Ends \X Ends
      /\ DOMAIN w.children = Graphs
  BY <1>1, CanvasHasParts DEF IsState
<1>3. r \in Ends /\ r # NoNode /\ r \notin Actions \cup Scopes /\ s \notin Actions \cup Scopes
  BY Ids, IdsAreDistinct
<1>4. S = C \cap {s}
  BY <1>1
<1>5. F \subseteq Ends \X Ends
  BY <1>1 DEF IsWellFormed, IsState
<1>6. IsRenamed(F, E, s, r) /\ v.children[Root] = B
      /\ \A g \in Scopes : v.children[g] = w.children[g] /\ v.edges[g] = w.edges[g]
  BY <1>1, <1>2, Ids DEF PutsFirst, Graphs
<1>7. IsCanvas(F, B, {r})
  <2> HIDE DEF C, E, S, F
  <2> QED BY <1>1, <1>2, <1>4, <1>5, <1>6, CanvasRenamed
<1>8. Start(v, Root) = {r}
  <2>1. v.isRoot = (w.isRoot \ {s}) \cup {r}
    BY DEF PutsFirst
  <2>2. B \cap v.isRoot = {r}
    BY <1>1, <1>4, <2>1
  <2> QED BY <1>6, <2>2 DEF Start
<1>9. \A p, c : <<p, c>> \in F => p \in B
  BY <1>7 DEF IsCanvas
<1>10. KeysFollow(Links(v, Root), B)
  <2>1. ASSUME NEW k \in B \cap Defined(v), NEW p \in Keys(v.runAfter[k])
        PROVE  <<p, k>> \in F /\ p \notin Triggers
    BY <2>1
  <2> QED BY <2>1 DEF KeysFollow, Links, Defined
<1>11. IsDrawn(v, Root)
  <2>1. IsGraph(Links(v, Root), Cards(v, Root), {}, Start(v, Root))
    <3>1. Cards(v, Root) = B
      BY <1>6 DEF Cards
    <3> HIDE DEF B, F
    <3>2. Links(v, Root).edges = F
      BY DEF Links, F
    <3> QED BY <1>7, <1>8, <1>9, <1>10, <3>1, <3>2 DEF IsGraph
  <2> QED BY <2>1 DEF IsDrawn
<1>12. ASSUME NEW g \in Scopes PROVE IsDrawn(v, g)
  <2>1. g # Root /\ g \in Graphs
    BY Ids DEF Graphs
  <2>2. IsDrawn(w, g)
    BY <2>1 DEF CanvasState
  <2>3. Start(v, g) = Start(w, g)
    BY <2>1 DEF Start
  <2> QED BY <1>6, <2>2, <2>3, StillDrawn
<1>13. \A g \in Graphs : IsDrawn(v, g)
  BY <1>11, <1>12 DEF Graphs
<1>14. \A g \in Scopes :
         /\ v.children[g] \subseteq (Actions \cup Scopes) \ {g}
         /\ SingleParents(v.edges[g])
         /\ g \notin Defined(v) => v.children[g] = {}
  <2>1. SUFFICES ASSUME NEW g \in Scopes
                 PROVE  g \notin Defined(v) => g \notin Defined(w)
    BY <1>6 DEF CanvasState
  <2> QED BY <1>3
<1>15. v.isRoot \subseteq HasMetadata(v)
  BY DEF PutsFirst, CanvasState
<1>16. /\ v.children[Root] \subseteq Start(v, Root) \cup Actions \cup Scopes
       /\ Start(v, Root) \subseteq Triggers \cup {Placeholder}
       /\ Start(v, Root) # {}
  BY <1>2, <1>4, <1>6, <1>8
<1>17. "joins" \in Edits => SingleParents(v.edges[Root])
  <2>1. SUFFICES ASSUME SingleParents(E) PROVE SingleParents(F)
    BY DEF CanvasState
  <2>2. ASSUME NEW n, NEW p, NEW q, n \notin Footers, <<p, n>> \in F, <<q, n>> \in F
        PROVE  p = q
    <3>1. \/ p = r /\ <<s, n>> \in E
          \/ p # s /\ <<p, n>> \in E
      BY <1>6, <2>2 DEF IsRenamed
    <3>2. \/ q = r /\ <<s, n>> \in E
          \/ q # s /\ <<q, n>> \in E
      BY <1>6, <2>2 DEF IsRenamed
    <3> QED BY <2>1, <2>2, <3>1, <3>2 DEF SingleParents, OneSource
  <2> QED BY <2>2 DEF SingleParents, OneSource
<1> QED BY <1>13, <1>14, <1>15, <1>16, <1>17 DEF CanvasState

(* A trigger takes the place of the placeholder, or is the first node.     *)
LEMMA TriggerKeepsCanvas ==
  ASSUME NEW w, CanvasState(w), NEW t \in Triggers, t \notin Defined(w),
         Placeholder \in w.children[Root] \/ w.children[Root] = {},
         NEW v, v = TriggerAdded(w, t), IsWellFormed(v)
  PROVE  /\ CanvasState(v) /\ PutsFirst(w, v, Placeholder, t)
         /\ Defined(v) = Defined(w) \cup {t}
<1> DEFINE C == w.children[Root]
           E == w.edges[Root]
           S == Start(w, Root)
           F == {IF e[1] = Placeholder THEN <<t, e[2]>> ELSE e : e \in E}
           demoted == {c \in C : <<Placeholder, c>> \in E}
<1>1. /\ Root \in Graphs /\ S = C \cap w.isRoot
      /\ \A n \in C : n \in Triggers \cup {Placeholder} => n \in S
      /\ \A c \in C \cap Defined(w) : \A p \in Keys(w.runAfter[c]) :
           <<p, c>> \in E /\ p \notin Triggers
      /\ \A p, c : <<p, c>> \in E => p \in C /\ c \in C \ S /\ p # c
      /\ \A s, r \in S : s = r
  BY RootHasParts
<1>2. /\ C \subseteq Ends \ {NoNode} /\ E \subseteq Ends \X Ends
      /\ Defined(w) = HasMetadata(w) \ {Placeholder}
      /\ \A n \in C : n \in HasMetadata(w)
      /\ DOMAIN w.children = Graphs /\ DOMAIN w.edges = Graphs
      /\ w.graphOf = [n \in HasMetadata(w) |-> w.graphOf[n]]
  BY <1>1, CanvasHasParts DEF IsState, HasMetadata
<1>3. /\ t # Placeholder /\ t # NoNode /\ t # Root /\ t \notin Untils /\ t \notin Graphs
      /\ t \in Ends /\ Placeholder \in Ends
      /\ t \notin HasMetadata(w) /\ t \notin C
      /\ Root # Placeholder
  <2>1. t # Placeholder /\ t # NoNode /\ t # Root /\ t \notin Untils /\ t \notin Graphs
        /\ t \in Ends /\ Placeholder \in Ends /\ Root # Placeholder
    BY IdsAreDistinct, Ids DEF Graphs
  <2> QED BY <1>2, <2>1
<1>4. NoNode # Heading(Root)
  BY CardsAreNoOperations
<1>5. \A p, c : <<p, c>> \in F <=> \/ p = t /\ <<Placeholder, c>> \in E
                                   \/ p # Placeholder /\ <<p, c>> \in E
  <2>1. \A e \in E : e = <<e[1], e[2]>>
    BY <1>2
  <2>2. ASSUME NEW p, NEW c, <<p, c>> \in F
        PROVE  \/ p = t /\ <<Placeholder, c>> \in E
               \/ p # Placeholder /\ <<p, c>> \in E
    <3>1. PICK e \in E : <<p, c>> = IF e[1] = Placeholder THEN <<t, e[2]>> ELSE e
      BY <2>2
    <3>2. e = <<e[1], e[2]>>
      BY <2>1
    <3> QED BY <3>1, <3>2
  <2>3. ASSUME NEW c, <<Placeholder, c>> \in E PROVE <<t, c>> \in F
    <3> DEFINE e == <<Placeholder, c>>
    <3>1. e \in E /\ <<t, c>> = (IF e[1] = Placeholder THEN <<t, e[2]>> ELSE e)
      BY <2>3
    <3> HIDE DEF e
    <3> QED BY <3>1
  <2>4. ASSUME NEW p, NEW c, p # Placeholder, <<p, c>> \in E PROVE <<p, c>> \in F
    <3> DEFINE e == <<p, c>>
    <3>1. e \in E /\ <<p, c>> = (IF e[1] = Placeholder THEN <<t, e[2]>> ELSE e)
      BY <2>4
    <3> HIDE DEF e
    <3> QED BY <3>1
  <2> HIDE DEF F
  <2> QED BY <2>2, <2>3, <2>4
<1>6. F \subseteq Ends \X Ends
  BY <1>2, <1>3
<1> DEFINE l == [edges |-> F,
                 runAfter |-> [x \in Defined(w) \cup {t} |-> IF x = t THEN Absent
                                                             ELSE w.runAfter[x]]]
<1>7. /\ v.children = [[w.children EXCEPT ![Root] = C \ {Placeholder}]
                         EXCEPT ![Root] = @ \cup {t}]
      /\ v.edges = [x \in Graphs |-> IF x = Root THEN F ELSE IF x = t THEN {} ELSE w.edges[x]]
      /\ v.graphOf = [x \in (HasMetadata(w) \ {Placeholder}) \cup {t} |->
                        IF x = t THEN Root ELSE w.graphOf[x]]
      /\ v.runAfter = [x \in Defined(w) \cup {t} |->
                         IF x \in demoted THEN NoKeys ELSE l.runAfter[x]]
      /\ v.isRoot = ((w.isRoot \ {Placeholder}) \cup {t}) \ demoted
  <2> DEFINE u == WithoutPlaceholder(w, t)
             kept == [children |-> [u.children EXCEPT ![Root] = @ \cup {t}],
                      edges    |-> [x \in Graphs |-> IF x = Root THEN l.edges
                                                     ELSE IF x = t THEN {} ELSE u.edges[x]],
                      runAfter |-> l.runAfter,
                      graphOf  |-> [x \in HasMetadata(u) \cup {t} |->
                                      IF x = t THEN Root ELSE u.graphOf[x]],
                      isRoot   |-> u.isRoot \cup {t}]
  <2>1. /\ u.children = [w.children EXCEPT ![Root] = C \ {Placeholder}]
        /\ u.edges = [w.edges EXCEPT ![Root] = F] /\ u.edges[Root] = F
        /\ u.runAfter = w.runAfter /\ u.isRoot = w.isRoot \ {Placeholder}
        /\ HasMetadata(u) = HasMetadata(w) \ {Placeholder}
        /\ \A x \in HasMetadata(u) : u.graphOf[x] = w.graphOf[x]
    <3>1. /\ u.children = [w.children EXCEPT ![Root] = C \ {Placeholder}]
          /\ u.runAfter = w.runAfter /\ u.isRoot = w.isRoot \ {Placeholder}
          /\ HasMetadata(u) = HasMetadata(w) \ {Placeholder}
          /\ \A x \in HasMetadata(u) : u.graphOf[x] = w.graphOf[x]
      BY DEF WithoutPlaceholder, HasMetadata
    <3>2. u.edges = [w.edges EXCEPT ![Root] = F]
      BY Zenon DEF WithoutPlaceholder
    <3> HIDE DEF u, F
    <3> QED BY <1>1, <1>2, <3>1, <3>2
  <2> HIDE DEF u
  <2>2. v = ApplyIsRootNode(kept, t, Root)
    <3> HIDE DEF C, E, S, F, demoted
    <3>1. l = [edges |-> u.edges[Root],
               runAfter |-> [x \in Defined(u) \cup {t} |-> IF x = t THEN Absent
                                                           ELSE u.runAfter[x]]]
      BY <2>1 DEF Defined
    <3>2. v = AddNodeToWorkflow(u, t, Root, NoNode, NoNode, FALSE, TRUE)
      BY DEF TriggerAdded, u
    <3> HIDE DEF l
    <3> QED BY <1>3, <1>4, <3>1, <3>2, Zenon DEF AddNodeToWorkflow, InsertNode
  <2>3. /\ kept.edges = [x \in Graphs |-> IF x = Root THEN F ELSE IF x = t THEN {} ELSE w.edges[x]]
        /\ kept.edges[Root] = F /\ HasMetadata(kept) = (HasMetadata(w) \ {Placeholder}) \cup {t}
        /\ kept.runAfter = l.runAfter /\ Defined(kept) = Defined(w) \cup {t}
        /\ kept.isRoot = (w.isRoot \ {Placeholder}) \cup {t}
        /\ kept.children = [[w.children EXCEPT ![Root] = C \ {Placeholder}]
                              EXCEPT ![Root] = @ \cup {t}]
        /\ kept.graphOf = [x \in (HasMetadata(w) \ {Placeholder}) \cup {t} |->
                             IF x = t THEN Root ELSE w.graphOf[x]]
    BY <1>1, <1>2, <1>3, <2>1 DEF HasMetadata, Defined
  <2> HIDE DEF kept, F
  <2>4. Targets(Links(kept, Root), t) \cap HasMetadata(kept) = demoted
    <3> DEFINE T == Targets(Links(kept, Root), t)
    <3>1. \A c : c \in T <=> <<t, c>> \in F
      <4>1. T = {e[2] : e \in {x \in F : x[1] = t}}
        BY <2>3 DEF Targets, Links
      <4> HIDE DEF T
      <4>2. \A e \in F : e = <<e[1], e[2]>>
        BY <1>6
      <4> QED BY <4>1, <4>2
    <3>2. \A c : c \in T <=> <<Placeholder, c>> \in E
      BY <1>1, <1>3, <1>5, <3>1
    <3>3. \A c : <<Placeholder, c>> \in E => c \in C /\ c # Placeholder
      BY <1>1
    <3>4. demoted = {c \in C : <<Placeholder, c>> \in E}
      OBVIOUS
    <3> HIDE DEF T, C, E, demoted
    <3>5. T \cap HasMetadata(kept) = demoted
      BY <1>2, <1>3, <2>3, <3>2, <3>3, <3>4
    <3> QED BY <3>5 DEF T
  <2> HIDE DEF demoted, l, E, C, S
  <2> QED BY <2>2, <2>3, <2>4 DEF ApplyIsRootNode, HasMetadata
<1> HIDE DEF F
<1>8. demoted \cap w.isRoot = {} /\ t \notin demoted
  BY <1>1, <1>3
<1>9. /\ HasMetadata(v) = (HasMetadata(w) \ {Placeholder}) \cup {t}
      /\ \A n \in HasMetadata(v) : v.graphOf[n] = IF n = t THEN Root ELSE w.graphOf[n]
      /\ v.edges[Root] = F /\ \A g \in Scopes : v.edges[g] = w.edges[g]
      /\ v.isRoot = (w.isRoot \ {Placeholder}) \cup {t}
      /\ v.children = [w.children EXCEPT ![Root] = (@ \ {Placeholder}) \cup {t}]
  <2>1. v.isRoot = (w.isRoot \ {Placeholder}) \cup {t}
    BY <1>7, <1>8
  <2>2. v.children = [w.children EXCEPT ![Root] = (@ \ {Placeholder}) \cup {t}]
    BY <1>1, <1>2, <1>7
  <2>3. v.edges[Root] = F /\ \A g \in Scopes : v.edges[g] = w.edges[g]
    <3>1. \A g \in Scopes : g \in Graphs /\ g # Root /\ g # t
      BY <1>3, Ids DEF Graphs
    <3> HIDE DEF demoted, l, C, E, S
    <3> QED BY <1>1, <1>7, <3>1
  <2> QED BY <1>7, <2>1, <2>2, <2>3 DEF HasMetadata
<1>10. IsRenamed(F, E, Placeholder, t)
  BY <1>1, <1>3, <1>5 DEF IsRenamed
<1>11. PutsFirst(w, v, Placeholder, t)
  BY <1>9, <1>10 DEF PutsFirst
<1>12. Defined(v) = Defined(w) \cup {t}
  BY <1>7 DEF Defined
<1>13. \A k \in Defined(w) : v.runAfter[k] = IF k \in demoted THEN NoKeys ELSE w.runAfter[k]
  BY <1>7
<1>14. Keys(NoKeys) = {} /\ Keys(Absent) = {}
  BY DEF Keys, NoKeys
<1>15. Keys(v.runAfter[t]) = {}
  BY <1>7, <1>8, <1>14
<1>16. \A g \in Scopes : \A k \in Cards(w, g) \cap Defined(v) :
         k \in Defined(w) /\ Keys(v.runAfter[k]) \subseteq Keys(w.runAfter[k])
  <2>1. \A g \in Scopes : t \notin Cards(w, g)
    <3>1. \A g \in Scopes : g # Root /\ g \in Graphs
      BY Ids DEF Graphs
    <3> QED BY <3>1, CanvasHasParts
  <2> QED BY <1>12, <1>13, <1>14, <2>1
<1>17. ASSUME NEW k \in (C \ {Placeholder}) \cap Defined(v), NEW p \in Keys(v.runAfter[k])
       PROVE  <<p, k>> \in v.edges[Root] /\ p \notin Triggers
  <2>1. k \in Defined(w) /\ k \notin demoted /\ v.runAfter[k] = w.runAfter[k]
    BY <1>3, <1>12, <1>13, <1>14, <1>17
  <2>2. <<p, k>> \in E /\ p \notin Triggers /\ p # Placeholder
    BY <1>1, <2>1, <1>17
  <2> QED BY <1>5, <1>9, <2>2
<1>18. CanvasState(v)
  <2>1. C = {} \/ Placeholder \in S
    BY <1>1
  <2>2. Defined(v) \ {t} \subseteq Defined(w) \ {Placeholder} /\ Defined(w) \ {Placeholder} \subseteq Defined(v)
    BY <1>2, <1>12
  <2> HIDE DEF demoted
  <2>3. t \in Triggers \cup {Placeholder} /\ Placeholder \in Triggers \cup {Placeholder}
    OBVIOUS
  <2> QED BY <1>3, <1>11, <1>15, <1>16, <1>17, <2>1, <2>2, <2>3, FirstKeepsCanvas
<1> QED BY <1>11, <1>12, <1>18


(* The trigger leaves its place to the placeholder. *)
LEMMA PlaceholderKeepsCanvas ==
  ASSUME NEW w, CanvasState(w), NEW t \in Triggers, t \in w.children[Root],
         NEW v, v = DeleteTriggerFromWorkflow(w, t), IsWellFormed(v)
  PROVE  /\ CanvasState(v) /\ PutsFirst(w, v, t, Placeholder)
         /\ Defined(v) = Defined(w) \ {t} /\ Placeholder \notin w.children[Root]
<1> DEFINE C == w.children[Root]
           E == w.edges[Root]
           S == Start(w, Root)
           heirs == Targets(Links(w, Root), t)
           F == {e \in E : e[1] # t} \cup ({Placeholder} \X heirs)
<1>1. /\ Root \in Graphs /\ S = C \cap w.isRoot
      /\ \A n \in C : n \in Triggers \cup {Placeholder} => n \in S
      /\ \A c \in C \cap Defined(w) : \A p \in Keys(w.runAfter[c]) :
           <<p, c>> \in E /\ p \notin Triggers
      /\ \A p, c : <<p, c>> \in E => p \in C /\ c \in C \ S /\ p # c
      /\ \A s, r \in S : s = r
  BY RootHasParts
<1>2. /\ C \subseteq Ends \ {NoNode} /\ E \subseteq Ends \X Ends
      /\ Defined(w) = HasMetadata(w) \ {Placeholder}
      /\ \A n \in C : n \in HasMetadata(w)
      /\ DOMAIN w.children = Graphs /\ DOMAIN w.edges = Graphs
      /\ \A c \in Defined(w) : IsRunAfter(w.runAfter[c])
  BY <1>1, CanvasHasParts DEF IsState, HasMetadata
<1>3. /\ t # Placeholder /\ t # Root /\ t \notin Scopes
      /\ Placeholder \in Ends /\ Placeholder \notin Triggers /\ Placeholder \notin Scopes
  BY IdsAreDistinct, Ids
<1>4. t \in S /\ Placeholder \notin C
  BY <1>1, <1>3
<1>5. \A c : c \in heirs <=> <<t, c>> \in E
  BY <1>2 DEF Targets, Links
<1> HIDE DEF heirs
<1>6. \A p, c : <<p, c>> \in F <=> \/ p = Placeholder /\ <<t, c>> \in E
                                   \/ p # t /\ <<p, c>> \in E
  BY <1>2, <1>3, <1>5
<1>7. /\ v.children = [w.children EXCEPT ![Root] = (C \ {t}) \cup {Placeholder}]
      /\ v.edges = [w.edges EXCEPT ![Root] = F]
      /\ v.runAfter = [m \in Defined(w) \ {t} |->
                         IF m \in heirs THEN WithKey(w.runAfter[m], Placeholder, Succeeded)
                                        ELSE w.runAfter[m]]
      /\ v.graphOf = [m \in (HasMetadata(w) \ {t}) \cup {Placeholder} |->
                        IF m = Placeholder THEN Root ELSE w.graphOf[m]]
      /\ v.isRoot = (w.isRoot \ {t}) \cup {Placeholder}
  BY DEF DeleteTriggerFromWorkflow, heirs
<1> HIDE DEF F
<1>8. IsRenamed(F, E, t, Placeholder)
  BY <1>1, <1>3, <1>4, <1>6 DEF IsRenamed
<1>9. PutsFirst(w, v, t, Placeholder)
  <2>1. v.edges[Root] = F /\ \A g \in Scopes : v.edges[g] = w.edges[g]
    <3>1. \A g \in Scopes : g \in Graphs /\ g # Root
      BY Ids DEF Graphs
    <3> HIDE DEF C, E, S
    <3> QED BY <1>1, <1>2, <1>7, <3>1
  <2>2. HasMetadata(v) = (HasMetadata(w) \ {t}) \cup {Placeholder}
    BY <1>7 DEF HasMetadata
  <2>3. \A n \in HasMetadata(v) : v.graphOf[n] = IF n = Placeholder THEN Root ELSE w.graphOf[n]
    BY <1>7, <2>2
  <2>4. v.children = [w.children EXCEPT ![Root] = (@ \ {t}) \cup {Placeholder}]
    BY <1>7
  <2> QED BY <1>7, <1>8, <2>1, <2>2, <2>3, <2>4 DEF PutsFirst
<1>10. Defined(v) = Defined(w) \ {t}
  BY <1>7 DEF Defined
<1>11. heirs \subseteq C
  BY <1>1, <1>5
<1>12. \A g \in Scopes : \A k \in Cards(w, g) \cap Defined(v) :
         k \in Defined(w) /\ Keys(v.runAfter[k]) \subseteq Keys(w.runAfter[k])
  <2>1. \A g \in Scopes : Cards(w, g) \cap C = {}
    <3>1. \A g \in Scopes : g # Root /\ g \in Graphs
      BY Ids DEF Graphs
    <3>2. C = Cards(w, Root)
      BY RootHasParts
    <3> QED BY <1>1, <3>1, <3>2, CardsAreApart
  <2>2. \A k \in Defined(v) : k \notin heirs => v.runAfter[k] = w.runAfter[k]
    BY <1>7, <1>10
  <2> QED BY <1>10, <1>11, <2>1, <2>2
<1>13. ASSUME NEW k \in (C \ {t}) \cap Defined(v), NEW p \in Keys(v.runAfter[k])
       PROVE  <<p, k>> \in v.edges[Root] /\ p \notin Triggers
  <2>0. k \in Defined(w) /\ IsRunAfter(w.runAfter[k]) /\ Succeeded \in Status /\ v.edges[Root] = F
    BY <1>1, <1>2, <1>7, <1>10 DEF Status
  <2>1. ASSUME p \in Keys(w.runAfter[k])
        PROVE  <<p, k>> \in F /\ p \notin Triggers
    <3>1. <<p, k>> \in E /\ p \notin Triggers
      BY <1>1, <2>0, <2>1
    <3> HIDE DEF E, C, S
    <3> QED BY <1>6, <3>1
  <2>2. CASE k \in heirs
    <3>1. p \in Keys(w.runAfter[k]) \cup {Placeholder}
      <4>1. v.runAfter[k] = WithKey(w.runAfter[k], Placeholder, Succeeded)
        BY <1>7, <1>10, <2>2
      <4>2. Keys(WithKey(w.runAfter[k], Placeholder, Succeeded)) = Keys(w.runAfter[k]) \cup {Placeholder}
        BY <1>3, <2>0, WithKeyHasKeys
      <4> QED BY <4>1, <4>2
    <3>2. CASE p = Placeholder
      BY <1>3, <1>5, <1>6, <2>0, <2>2, <3>2
    <3>3. CASE p \in Keys(w.runAfter[k])
      BY <2>0, <2>1, <3>3
    <3> QED BY <3>1, <3>2, <3>3
  <2>3. CASE k \notin heirs
    <3>1. v.runAfter[k] = w.runAfter[k]
      BY <1>7, <1>10, <2>3
    <3> QED BY <2>0, <2>1, <3>1
  <2> QED BY <2>2, <2>3
<1>14. CanvasState(v)
  <2>1. C = {} \/ t \in S
    BY <1>4
  <2>2. Placeholder \notin Defined(v)
    BY <1>2, <1>10
  <2>3. Defined(v) \ {Placeholder} \subseteq Defined(w) \ {t} /\ Defined(w) \ {t} \subseteq Defined(v)
    BY <1>10
  <2>4. t \in Triggers \cup {Placeholder} /\ Placeholder \in Triggers \cup {Placeholder}
    OBVIOUS
  <2> HIDE DEF E, S
  <2>5. w.children[Root] = {} \/ t \in Start(w, Root)
    BY <2>1 DEF S
  <2> QED BY <1>3, <1>4, <1>9, <1>12, <1>13, <2>2, <2>3, <2>4, <2>5, FirstKeepsCanvas
<1> QED BY <1>4, <1>9, <1>10, <1>14

(* Other statuses are ticked for a parent that n has. *)
LEMMA StatusKeepsCanvas ==
  ASSUME NEW w, CanvasState(w), NEW n \in Defined(w), NEW p \in Keys(w.runAfter[n]),
         NEW status \in Status,
         NEW v, v = [w EXCEPT !.runAfter[n] = WithKey(w.runAfter[n], p, status)],
         IsWellFormed(v)
  PROVE  /\ CanvasState(v)
         /\ v.children = w.children /\ v.edges = w.edges /\ v.isRoot = w.isRoot
         /\ v.graphOf = w.graphOf /\ Defined(v) = Defined(w)
<1> DEFINE own == WithKey(w.runAfter[n], p, status)
<1>1. IsState(w) /\ IsRunAfter(w.runAfter[n])
  BY DEF CanvasState, IsWellFormed, IsState
<1>2. p \in Ends
  BY <1>1 DEF IsRunAfter, Keys
<1>3. Keys(own) = Keys(w.runAfter[n])
  <2>1. Keys(own) = Keys(w.runAfter[n]) \cup {p}
    BY <1>1, <1>2, WithKeyHasKeys
  <2> HIDE DEF own
  <2> QED BY <2>1
<1> HIDE DEF own
<1>4. /\ v.children = w.children /\ v.edges = w.edges /\ v.isRoot = w.isRoot
      /\ v.graphOf = w.graphOf /\ v.runAfter = [w.runAfter EXCEPT ![n] = own]
  BY <1>1 DEF IsState, own
<1>5. Defined(v) = Defined(w) /\ \A k \in Defined(w) : Keys(v.runAfter[k]) = Keys(w.runAfter[k])
  BY <1>3, <1>4 DEF Defined
<1>6. \A g \in Graphs : Start(v, g) = Start(w, g)
  BY <1>4 DEF Start
<1>7. \A g \in Graphs : IsDrawn(v, g)
  <2>1. \A g \in Graphs : IsDrawn(w, g)
    BY DEF CanvasState
  <2> QED BY <1>4, <1>5, <1>6, <2>1, StillDrawn
<1>8. Start(v, Root) = Start(w, Root)
  BY <1>6, Ids
<1>9. CanvasState(v)
  BY <1>4, <1>5, <1>7, <1>8 DEF CanvasState, HasMetadata
<1> QED BY <1>4, <1>5, <1>9

-----------------------------------------------------------------------------
(* Opening a definition.                                                   *)

(* What graph g of definition d starts at, and the actions in it. *)
HeadCard(d, g) == IF g = Root THEN d.trigger ELSE Heading(g)
MembersOf(d, g) == {a \in DOMAIN d.graphOf : d.graphOf[a] = g}
IsRootOf(d, a) == Keys(d.runAfter[a]) = {}

(* Nothing in graph g of definition d comes after p. *)
IsLast(d, g, p) ==
  \A a \in MembersOf(d, g) :
    p \notin Keys(d.runAfter[a]) /\ ~(p = HeadCard(d, g) /\ IsRootOf(d, a))

(* w is what definition d is opened as: the actions that run after nothing *)
(* hang from the trigger or the heading of their graph, an edge is drawn   *)
(* for every key, and the last ones of an until loop lead to its footer.   *)
IsOpened(d, w) ==
  /\ Defined(w) = DOMAIN d.graphOf \cup ({d.trigger} \ {NoNode})
  /\ HasMetadata(w) = Defined(w)
  /\ \A a \in DOMAIN d.graphOf : w.runAfter[a] = d.runAfter[a] /\ w.graphOf[a] = d.graphOf[a]
  /\ d.trigger # NoNode => w.runAfter[d.trigger] = Absent /\ w.graphOf[d.trigger] = Root
  /\ w.children[Root] = MembersOf(d, Root) \cup ({d.trigger} \ {NoNode})
  /\ \A s \in Scopes : w.children[s] = MembersOf(d, s)
  /\ \A n : n \in w.isRoot <=>
       \/ n = d.trigger /\ n # NoNode
       \/ n \in DOMAIN d.graphOf /\ d.graphOf[n] \in Scopes /\ IsRootOf(d, n)
  /\ \A s \in Scopes \ DOMAIN d.graphOf : w.edges[s] = {}
  /\ \A g \in {Root} \cup (Scopes \cap DOMAIN d.graphOf) : \A p, c :
       <<p, c>> \in w.edges[g] <=>
         \/ /\ c \in MembersOf(d, g)
            /\ (p = HeadCard(d, g) /\ IsRootOf(d, c)) \/ p \in Keys(d.runAfter[c])
         \/ /\ g \in Untils /\ c = Footer(g)
            /\ p \in MembersOf(d, g) \cup {HeadCard(d, g)} /\ IsLast(d, g, p)

(* The parts of a definition. *)
LEMMA DefinitionHasParts ==
  ASSUME NEW d \in Definitions
  PROVE  /\ DOMAIN d.graphOf \subseteq Actions \cup Scopes
         /\ DOMAIN d.runAfter = DOMAIN d.graphOf
         /\ d.trigger \in Triggers \cup {NoNode}
         /\ \A a \in DOMAIN d.graphOf :
              /\ d.graphOf[a] \in {Root} \cup (Scopes \cap DOMAIN d.graphOf)
              /\ Keys(d.runAfter[a]) \subseteq MembersOf(d, d.graphOf[a])
         /\ Triggers \cap (Actions \cup Scopes) = {} /\ NoNode \notin Operations
         /\ Root \notin Scopes
BY DefinitionsAreSound, IdsAreDistinct, Ids DEF MembersOf

(* What the deserializer makes of a definition. *)
LEMMA DefinitionIsOpened ==
  ASSUME NEW d \in Definitions, NEW w, w = Deserialize(d)
  PROVE  IsOpened(d, w)
<1> DEFINE actions == DOMAIN d.graphOf
           trigger == {d.trigger} \ {NoNode}
           In(g) == {a \in actions : d.graphOf[a] = g}
           Roots(g) == {a \in In(g) : Keys(d.runAfter[a]) = {}}
           After(g) == UNION {{<<p, a>> : p \in Keys(d.runAfter[a])} : a \in In(g)}
           Heads(g) == {IF g = Root THEN d.trigger ELSE Heading(g)}
           Flow(g) == (Heads(g) \X Roots(g)) \cup After(g)
           Leaves(g) == {n \in In(g) \cup Heads(g) : \A e \in Flow(g) : e[1] # n}
           Tail(g) == IF g \in Untils \cap actions THEN Leaves(g) \X {Footer(g)} ELSE {}
           present == {Root} \cup (Scopes \cap actions)
<1>1. /\ w.children = [g \in Graphs |-> In(g) \cup (IF g = Root THEN trigger ELSE {})]
      /\ w.edges = [g \in Graphs |-> IF g \in present THEN Flow(g) \cup Tail(g) ELSE {}]
      /\ w.runAfter = [n \in actions \cup trigger |->
                         IF n \in trigger THEN Absent ELSE d.runAfter[n]]
      /\ w.graphOf = [n \in actions \cup trigger |->
                         IF n \in trigger THEN Root ELSE d.graphOf[n]]
      /\ w.isRoot = trigger \cup UNION {Roots(g) : g \in Scopes}
  BY DEF Deserialize
<1>2. /\ actions \cap trigger = {} /\ trigger \subseteq Triggers
      /\ Root \notin Scopes /\ Root \in Graphs /\ Scopes \subseteq Graphs
  BY DefinitionHasParts, Ids DEF Graphs
<1>3. /\ Defined(w) = actions \cup trigger /\ HasMetadata(w) = Defined(w)
      /\ \A a \in actions : w.runAfter[a] = d.runAfter[a] /\ w.graphOf[a] = d.graphOf[a]
      /\ d.trigger # NoNode => w.runAfter[d.trigger] = Absent /\ w.graphOf[d.trigger] = Root
  <2>1. d.trigger # NoNode => d.trigger \in trigger
    OBVIOUS
  <2> HIDE DEF actions, trigger
  <2> QED BY <1>1, <1>2, <2>1 DEF Defined, HasMetadata
<1>4. /\ w.children[Root] = In(Root) \cup trigger
      /\ \A s \in Scopes : w.children[s] = In(s)
  <2> HIDE DEF In, trigger
  <2> QED BY <1>1, <1>2
<1>5. ASSUME NEW n
      PROVE  n \in w.isRoot <=>
               \/ n = d.trigger /\ n # NoNode
               \/ n \in actions /\ d.graphOf[n] \in Scopes /\ IsRootOf(d, n)
  <2>1. n \in UNION {Roots(g) : g \in Scopes} <=>
          n \in actions /\ d.graphOf[n] \in Scopes /\ IsRootOf(d, n)
    BY DEF IsRootOf
  <2> HIDE DEF Roots
  <2> QED BY <1>1, <2>1
<1>6. /\ \A s \in Scopes \ actions : w.edges[s] = {}
      /\ \A g \in present : w.edges[g] = Flow(g) \cup Tail(g)
  <2> HIDE DEF Flow, Tail, actions
  <2> QED BY <1>1, <1>2
<1>7. ASSUME NEW g \in present, NEW p, NEW c
      PROVE  /\ <<p, c>> \in Flow(g) <=>
                  c \in In(g) /\ ((p = HeadCard(d, g) /\ IsRootOf(d, c)) \/ p \in Keys(d.runAfter[c]))
             /\ <<p, c>> \in Tail(g) <=> g \in Untils /\ c = Footer(g) /\ p \in Leaves(g)
  <2>1. <<p, c>> \in After(g) <=> c \in In(g) /\ p \in Keys(d.runAfter[c])
    OBVIOUS
  <2>2. <<p, c>> \in Heads(g) \X Roots(g) <=> c \in In(g) /\ p = HeadCard(d, g) /\ IsRootOf(d, c)
    BY DEF HeadCard, IsRootOf
  <2>3. g \in Untils => g \in actions
    BY <1>2, IdsAreDistinct
  <2>4. <<p, c>> \in Tail(g) <=> g \in Untils /\ c = Footer(g) /\ p \in Leaves(g)
    <3> HIDE DEF Leaves, actions
    <3> QED BY <2>3
  <2> HIDE DEF After, Heads, Roots, Tail
  <2> QED BY <2>1, <2>2, <2>4
<1>8. ASSUME NEW g \in present, NEW p
      PROVE  p \in Leaves(g) <=> p \in In(g) \cup {HeadCard(d, g)} /\ IsLast(d, g, p)
  <2>1. \A e \in Flow(g) : e = <<e[1], e[2]>>
    OBVIOUS
  <2>2. (\A e \in Flow(g) : e[1] # p) <=> \A c : <<p, c>> \notin Flow(g)
    <3> HIDE DEF Flow
    <3> QED BY <2>1
  <2>3. (\A c : <<p, c>> \notin Flow(g)) <=> IsLast(d, g, p)
    <3>1. In(g) = MembersOf(d, g)
      BY DEF MembersOf
    <3>2. \A c : <<p, c>> \in Flow(g) <=>
            c \in In(g) /\ ((p = HeadCard(d, g) /\ IsRootOf(d, c)) \/ p \in Keys(d.runAfter[c]))
      BY <1>7
    <3> HIDE DEF Flow, In
    <3> QED BY <3>1, <3>2 DEF IsLast
  <2>4. Heads(g) = {HeadCard(d, g)}
    BY DEF HeadCard
  <2> HIDE DEF Flow, Heads, In
  <2> QED BY <2>2, <2>3, <2>4
<1>9. \A g : In(g) = MembersOf(d, g)
  BY DEF MembersOf
<1> HIDE DEF Flow, Tail, Leaves, In
<1>10. ASSUME NEW g \in present, NEW p, NEW c
       PROVE  <<p, c>> \in w.edges[g] <=>
           \/ /\ c \in MembersOf(d, g)
              /\ (p = HeadCard(d, g) /\ IsRootOf(d, c)) \/ p \in Keys(d.runAfter[c])
           \/ /\ g \in Untils /\ c = Footer(g)
              /\ p \in MembersOf(d, g) \cup {HeadCard(d, g)} /\ IsLast(d, g, p)
  <2>1. <<p, c>> \in w.edges[g] <=> <<p, c>> \in Flow(g) \/ <<p, c>> \in Tail(g)
    BY <1>6
  <2>2. p \in Leaves(g) <=> p \in MembersOf(d, g) \cup {HeadCard(d, g)} /\ IsLast(d, g, p)
    BY <1>8, <1>9
  <2>3. /\ <<p, c>> \in Flow(g) <=>
             c \in MembersOf(d, g) /\ ((p = HeadCard(d, g) /\ IsRootOf(d, c)) \/ p \in Keys(d.runAfter[c]))
        /\ <<p, c>> \in Tail(g) <=> g \in Untils /\ c = Footer(g) /\ p \in Leaves(g)
    BY <1>7, <1>9
  <2> QED BY <2>1, <2>2, <2>3
<1> QED BY <1>3, <1>4, <1>5, <1>6, <1>9, <1>10 DEF IsOpened

(* Whoever goes back from node to node by the edges E, in a finite set of  *)
(* nodes none of which comes after itself, arrives at a node that nothing  *)
(* in the set leads to.                                                    *)
LEMMA NoEndlessPast ==
  ASSUME NEW E, E \subseteq Ends \X Ends, NEW U, IsFiniteSet(U), U # {},
         \A u \in U : u \notin Later(E, u)
  PROVE  \E u \in U : \A p \in U : <<p, u>> \notin E
<1> SUFFICES ASSUME \A u \in U : \E p \in U : <<p, u>> \in E PROVE FALSE
  OBVIOUS
<1> DEFINE after(u) == Later(E, u) \cap U
           N == Cardinality(U)
           S == {N - Cardinality(after(u)) : u \in U}
<1>1. N \in Nat /\ \A u \in U : /\ IsFiniteSet(after(u)) /\ Cardinality(after(u)) \in Nat
                                /\ Cardinality(after(u)) =< N
  <2> SUFFICES ASSUME NEW u \in U
               PROVE  /\ N \in Nat
                      /\ IsFiniteSet(after(u)) /\ Cardinality(after(u)) \in Nat
                      /\ Cardinality(after(u)) =< N
    BY FS_CardinalityType
  <2>1. after(u) \in SUBSET U
    OBVIOUS
  <2> HIDE DEF after
  <2>2. IsFiniteSet(after(u)) /\ Cardinality(after(u)) =< N
    BY <2>1, FS_Subset
  <2> QED BY <2>2, FS_CardinalityType
<1> HIDE DEF N
<1>2. S \subseteq Nat /\ S # {}
  <2> HIDE DEF after
  <2> QED BY <1>1
<1>3. PICK i \in S : \A j \in S : i =< j
  <2> HIDE DEF S
  <2> QED BY <1>2, LeastNumber
<1>4. PICK u \in U : i = N - Cardinality(after(u))
  OBVIOUS
<1>5. PICK q \in U : <<q, u>> \in E
  OBVIOUS
<1>6. after(u) \cup {u} \subseteq after(q) /\ u \notin after(u)
  <2>1. u \in Later(E, q)
    BY <1>5, LaterIsLeast DEF Leads
  <2>2. Later(E, u) \subseteq Later(E, q)
    BY <2>1, LaterIsTransitive
  <2> QED BY <2>1, <2>2
<1>7. Cardinality(after(q)) >= Cardinality(after(u)) + 1
  <2> DEFINE A == after(u)
             B == after(q)
  <2>1. IsFiniteSet(A) /\ IsFiniteSet(B) /\ u \notin A /\ A \cup {u} \in SUBSET B
        /\ Cardinality(A) \in Nat /\ Cardinality(B) \in Nat
    BY <1>1, <1>6
  <2> HIDE DEF A, B
  <2>2. IsFiniteSet(A \cup {u}) /\ Cardinality(A \cup {u}) = Cardinality(A) + 1
    BY <2>1, FS_AddElement
  <2>3. Cardinality(A \cup {u}) =< Cardinality(B)
    BY <2>1, FS_Subset
  <2> QED BY <2>1, <2>2, <2>3 DEF A, B
<1>8. i =< N - Cardinality(after(q))
  BY <1>3
<1> HIDE DEF S, after
<1> QED BY <1>1, <1>4, <1>7, <1>8

(* And whoever goes on from node to node arrives at one that leads to      *)
(* nothing in the set.                                                     *)
LEMMA NoEndlessFuture ==
  ASSUME NEW E, E \subseteq Ends \X Ends, NEW U, IsFiniteSet(U), U # {},
         \A u \in U : u \notin Later(E, u)
  PROVE  \E u \in U : \A c \in U : <<u, c>> \notin E
<1> DEFINE R == {e \in Ends \X Ends : <<e[2], e[1]>> \in E}
<1>1. R \subseteq Ends \X Ends /\ \A p, c : <<p, c>> \in R <=> <<c, p>> \in E
  OBVIOUS
<1> HIDE DEF R
<1>2. ASSUME NEW u \in U PROVE u \notin Later(R, u)
  <2> DEFINE T == {k \in Ends : u \in Later(E, k)}
  <2>1. Leads(R, u, T)
    <3> SUFFICES ASSUME NEW p, NEW c, <<p, c>> \in R, p = u \/ p \in T PROVE c \in T
      BY DEF Leads
    <3>0. <<c, p>> \in E /\ c \in Ends
      BY <1>1
    <3>1. p \in Later(E, c) /\ c \in Ends
      BY <3>0, LaterIsLeast DEF Leads
    <3>2. Later(E, p) \subseteq Later(E, c)
      BY <3>1, LaterIsTransitive
    <3> QED BY <3>1, <3>2
  <2>2. u \notin T
    OBVIOUS
  <2> HIDE DEF T
  <2> QED BY <1>1, <2>1, <2>2, LaterIsLeast
<1>3. \E u \in U : \A p \in U : <<p, u>> \notin R
  BY <1>1, <1>2, NoEndlessPast
<1> QED BY <1>1, <1>3

-----------------------------------------------------------------------------
(* The tree of the graphs.                                                 *)

(* Everything the slice knows is drawn inside the root graph. *)
IsAllDrawn(w) == Defined(w) \subseteq Contents(w, Root)

(* Whoever goes up the graphs of such a workflow leaves every set of nodes. *)
LEMMA GraphsEndAtRoot ==
  ASSUME NEW w, IsWellFormed(w), IsAllDrawn(w), NEW U \in SUBSET Defined(w), U # {}
  PROVE  \E n \in U : w.graphOf[n] \notin U
<1> SUFFICES ASSUME \A n \in U : w.graphOf[n] \in U PROVE FALSE
  OBVIOUS
<1> DEFINE T == (Operations \cup {Root, Placeholder}) \ U
<1>1. Root \in T
  BY Ids DEF IsWellFormed, IsState
<1>2. ASSUME NEW m \in T \cap Graphs PROVE w.children[m] \subseteq T
  <2> SUFFICES ASSUME NEW n \in w.children[m] PROVE n \in T
    OBVIOUS
  <2>1. w.graphOf[n] = m /\ n \in Operations \cup {Placeholder}
    BY DrawnHasMetadata DEF IsWellFormed, IsState
  <2> QED BY <2>1
<1> HIDE DEF T
<1>3. Contents(w, Root) \subseteq T
  BY <1>1, <1>2, ContentsAreWithin DEF IsWellFormed
<1> QED BY <1>3 DEF IsAllDrawn, T

-----------------------------------------------------------------------------
(* The canvas of a definition.                                             *)

(* A definition is sound: its actions run in order from its trigger, all   *)
(* of them are inside its root graph, and only actions of the root graph   *)
(* that the user may not delete or move run after several others.          *)
IsSound(d) ==
  /\ RunsInOrder(d)
  /\ IsAllDrawn(Deserialize(d))
  /\ d.trigger = NoNode => DOMAIN d.graphOf = {}
  /\ \A a \in DOMAIN d.graphOf : \A p, q \in Keys(d.runAfter[a]) :
       p = q \/ (d.graphOf[a] = Root /\ "joins" \notin Edits)

(* No trigger runs after anything in a definition. *)
LEMMA SuccessorsAreActions ==
  ASSUME NEW d \in Definitions, NEW w, w = Deserialize(d), NEW n
  PROVE  Successors(w, n) \subseteq DOMAIN d.graphOf
<1> DEFINE T == DOMAIN d.graphOf
<1>1. /\ Defined(w) = T \cup ({d.trigger} \ {NoNode}) /\ Defined(w) \subseteq Operations
      /\ d.trigger # NoNode => w.runAfter[d.trigger] = Absent
  BY DefinitionIsOpened, DeserializeWellFormed DEF IsOpened, IsWellFormed, IsState
<1>2. \A m : RunsAfter(w, m) \subseteq T
  BY <1>1 DEF RunsAfter, StatusOf, Keys
<1> HIDE DEF T
<1>3. Successors(w, n) \subseteq T
  BY <1>1, <1>2, SuccessorsAreClosed
<1> QED BY <1>3 DEF T

(* The cards of graph g of a definition, and its edges. *)
LEMMA OpenedGraph ==
  ASSUME NEW d \in Definitions, IsSound(d), NEW w, w = Deserialize(d),
         NEW g \in {Root} \cup (Scopes \cap DOMAIN d.graphOf)
  PROVE  /\ Start(w, g) = {HeadCard(d, g)} \ {NoNode}
         /\ Cards(w, g) = MembersOf(d, g) \cup Start(w, g)
         /\ HeadCard(d, g) \notin Actions \cup Scopes
         /\ HeadCard(d, g) = NoNode => MembersOf(d, g) = {}
         /\ MembersOf(d, g) \subseteq (Actions \cup Scopes) \ {g}
         /\ Cards(w, g) \subseteq Ends \ {NoNode} /\ Cards(w, g) \cap Footers = {}
<1>1. IsOpened(d, w) /\ IsWellFormed(w)
  BY DefinitionIsOpened, DeserializeWellFormed
<1>2. /\ DOMAIN d.graphOf \subseteq Actions \cup Scopes
      /\ d.trigger \in Triggers \cup {NoNode}
      /\ Triggers \cap (Actions \cup Scopes) = {} /\ NoNode \notin Operations
      /\ Root \notin Scopes /\ Actions \cup Scopes \cup Triggers \subseteq Operations
      /\ Operations \subseteq Ends /\ Root \notin Operations
  BY DefinitionHasParts, Ids
<1>3. MembersOf(d, g) \subseteq (Actions \cup Scopes) \ {g}
  <2>1. MembersOf(d, g) \subseteq DOMAIN d.graphOf /\ \A a \in MembersOf(d, g) : d.graphOf[a] = g
    BY DEF MembersOf
  <2>2. ASSUME g \in MembersOf(d, g) PROVE FALSE
    <3>1. g \in Defined(w) /\ w.graphOf[g] = g
      BY <1>1, <2>1, <2>2 DEF IsOpened
    <3>2. \E n \in {g} : w.graphOf[n] \notin {g}
      BY <1>1, <3>1, GraphsEndAtRoot DEF IsSound
    <3> QED BY <3>1, <3>2
  <2> QED BY <1>2, <2>1, <2>2
<1>4. g # Root => Heading(g) \in Headings /\ Heading(g) \in Ends /\ Heading(g) \notin Operations /\ Heading(g) # NoNode
                  /\ Heading(g) \notin Footers
  BY CardIds
<1>5. HeadCard(d, g) = NoNode => MembersOf(d, g) = {}
  BY <1>4 DEF HeadCard, IsSound, MembersOf
<1>6. HeadCard(d, g) \notin Actions \cup Scopes /\ HeadCard(d, g) \in Ends
      /\ HeadCard(d, g) \notin Footers
  BY <1>2, <1>4, CardIds, Ids DEF HeadCard
<1>7. Start(w, g) = {HeadCard(d, g)} \ {NoNode}
  <2>1. CASE g # Root
    BY <1>4, <2>1 DEF Start, HeadCard
  <2>2. CASE g = Root
    <3>1. \A n : n \in w.children[Root] <=> n \in MembersOf(d, Root) \/ (n = d.trigger /\ n # NoNode)
      BY <1>1 DEF IsOpened
    <3>2. \A n : n \in w.isRoot <=>
             \/ n = d.trigger /\ n # NoNode
             \/ n \in DOMAIN d.graphOf /\ d.graphOf[n] \in Scopes /\ IsRootOf(d, n)
      BY <1>1 DEF IsOpened
    <3>3. \A n \in MembersOf(d, Root) : d.graphOf[n] \notin Scopes /\ n # d.trigger
      BY <1>2 DEF MembersOf
    <3>4. w.children[Root] \cap w.isRoot = {d.trigger} \ {NoNode}
      BY <3>1, <3>2, <3>3
    <3> QED BY <2>2, <3>4 DEF Start, HeadCard
  <2> QED BY <2>1, <2>2
<1>8. Cards(w, g) = MembersOf(d, g) \cup Start(w, g)
  <2>1. CASE g # Root
    BY <1>1, <2>1 DEF IsOpened, Cards, Start
  <2>2. CASE g = Root
    <3>1. w.children[Root] = MembersOf(d, Root) \cup ({d.trigger} \ {NoNode})
      BY <1>1 DEF IsOpened
    <3> QED BY <1>7, <2>2, <3>1 DEF Cards, HeadCard
  <2> QED BY <2>1, <2>2
<1>9. Cards(w, g) \subseteq Ends \ {NoNode} /\ Cards(w, g) \cap Footers = {}
  BY <1>2, <1>3, <1>6, <1>7, <1>8, CardIds
<1> QED BY <1>3, <1>5, <1>6, <1>7, <1>8, <1>9

(* Every graph of a sound definition hangs from its head. *)
LEMMA OpenedIsDrawn ==
  ASSUME NEW d \in Definitions, IsSound(d), NEW w, w = Deserialize(d),
         NEW g \in {Root} \cup (Scopes \cap DOMAIN d.graphOf)
  PROVE  /\ IsDrawn(w, g)
         /\ g # Root \/ "joins" \in Edits => SingleParents(w.edges[g])
<1> DEFINE E == w.edges[g]
           H == HeadCard(d, g)
           A == MembersOf(d, g)
           C == Cards(w, g)
           S == Start(w, g)
           F == Footer(g)
           T == IF g \in Untils THEN {F} ELSE {}
<1>1. /\ IsOpened(d, w) /\ IsWellFormed(w) /\ g \in Graphs
      /\ Untils \subseteq Scopes /\ Root \notin Scopes
  BY DefinitionIsOpened, DeserializeWellFormed, IdsAreDistinct, Ids DEF Graphs
<1>2. /\ S = {H} \ {NoNode} /\ C = A \cup S /\ H \notin Actions \cup Scopes
      /\ H = NoNode => A = {}
      /\ A \subseteq Actions \cup Scopes
      /\ C \subseteq Ends \ {NoNode} /\ C \cap Footers = {}
  BY OpenedGraph
<1>3. H = NoNode => g = Root
  BY CardIds DEF HeadCard
<1>4. /\ A \subseteq DOMAIN d.graphOf /\ DOMAIN d.graphOf \subseteq Actions \cup Scopes
      /\ \A a \in A : Keys(d.runAfter[a]) \subseteq A /\ w.runAfter[a] = d.runAfter[a] /\ a \in Defined(w)
      /\ \A a \in A : HasStatuses(d.runAfter[a])
      /\ \A m \in A : m \notin Successors(w, m)
  <2>1. \A a \in DOMAIN d.graphOf : Keys(d.runAfter[a]) \subseteq MembersOf(d, d.graphOf[a])
    BY DefinitionHasParts
  <2>2. /\ A \subseteq DOMAIN d.graphOf /\ DOMAIN d.graphOf \subseteq Actions \cup Scopes
        /\ \A a \in A : d.graphOf[a] = g
        /\ DOMAIN d.runAfter = DOMAIN d.graphOf
    BY DefinitionHasParts DEF MembersOf
  <2>3. \A a \in DOMAIN d.graphOf : w.runAfter[a] = d.runAfter[a] /\ a \in Defined(w)
    BY <1>1 DEF IsOpened
  <2>4. /\ \A n \in DOMAIN d.runAfter : HasStatuses(d.runAfter[n])
        /\ \A n \in Defined(w) : n \notin Successors(w, n)
    BY DEF IsSound, RunsInOrder
  <2> HIDE DEF A
  <2> QED BY <2>1, <2>2, <2>3, <2>4 DEF A
<1>5. \A p, c : <<p, c>> \in E <=>
         \/ c \in A /\ ((p = H /\ IsRootOf(d, c)) \/ p \in Keys(d.runAfter[c]))
         \/ g \in Untils /\ c = F /\ p \in A \cup {H} /\ IsLast(d, g, p)
  BY <1>1 DEF IsOpened
<1>6. E \subseteq Ends \X Ends
  BY <1>1 DEF IsWellFormed, IsState
<1>7. /\ T \subseteq Footers \cap {F} /\ Footers \cap (Actions \cup Scopes) = {}
      /\ g \in Untils => H \in S /\ F \in Ends /\ T = {F} /\ F \in Footers
      /\ g \notin Untils => T = {}
  <2>1. g \in Untils => F \in Footers
    BY <1>1, CardIds
  <2>2. Footers \cap (Actions \cup Scopes) = {}
    BY CardIds, Ids
  <2> QED BY <1>1, <1>2, <1>3, <2>1, <2>2, CardIds
<1>9. ASSUME NEW a \in A, NEW p, NEW q, p \in Keys(d.runAfter[a]), q \in Keys(d.runAfter[a]),
             g # Root \/ "joins" \in Edits
      PROVE  p = q
  <2>1. a \in DOMAIN d.graphOf /\ d.graphOf[a] = g
    BY DEF MembersOf
  <2>2. p = q \/ (d.graphOf[a] = Root /\ "joins" \notin Edits)
    BY <1>9, <2>1 DEF IsSound
  <2> QED BY <1>9, <2>1, <2>2
<1>10. /\ \A c \in C \cap Defined(w) : c \in A \/ Keys(w.runAfter[c]) = {}
       /\ \A a \in A : a \notin Triggers
  <2>1. \A c \in C \cap Defined(w) : c \in A \/ (c = d.trigger /\ c # NoNode)
    <3>1. Defined(w) \subseteq Operations
      BY <1>1 DEF IsWellFormed, IsState
    <3> QED BY <1>2, <3>1, CardIds DEF HeadCard
  <2> QED BY <1>1, <1>2, <2>1, DefinitionHasParts DEF IsOpened, Keys
<1>11. IsLast(d, g, H) <=> \A a \in A : H \notin Keys(d.runAfter[a]) /\ ~IsRootOf(d, a)
  BY DEF IsLast
<1>12. \A p : p # H => (IsLast(d, g, p) <=> \A a \in A : p \notin Keys(d.runAfter[a]))
  BY DEF IsLast
<1>13. ASSUME NEW m PROVE /\ RunsAfter(w, m) \subseteq Successors(w, m)
                          /\ \A k \in Successors(w, m) : RunsAfter(w, k) \subseteq Successors(w, m)
                          /\ Successors(w, m) \subseteq DOMAIN d.graphOf
                          /\ \A a \in A : m \in Keys(d.runAfter[a]) => a \in RunsAfter(w, m)
  <2>1. Defined(w) \subseteq Operations
    BY <1>1 DEF IsWellFormed, IsState
  <2>2. \A a \in A : m \in Keys(d.runAfter[a]) => a \in RunsAfter(w, m)
    BY <1>4 DEF RunsAfter, StatusOf, HasStatuses
  <2> HIDE DEF A
  <2> QED BY <2>1, <2>2, SuccessorsAreClosed, SuccessorsAreActions
<1>14. g \in Untils => IsFiniteSet(A)
  <2>1. A \in SUBSET Operations
    BY <1>4, Ids
  <2> HIDE DEF A
  <2> QED BY <2>1, OperationsAreFinite, FS_Subset
<1>15. IsFiniteSet(A)
  <2>1. A \in SUBSET Operations
    BY <1>4, Ids
  <2> HIDE DEF A
  <2> QED BY <2>1, OperationsAreFinite, FS_Subset
<1>16. KeysFollow(Links(w, g), C)
  <2> SUFFICES ASSUME NEW c \in C \cap Defined(w), NEW p \in Keys(w.runAfter[c])
               PROVE  <<p, c>> \in E /\ p \notin Triggers
    BY DEF KeysFollow, Links, Defined
  <2> HIDE DEF A, C, E
  <2>1. c \in A
    BY <1>10
  <2>2. p \in Keys(d.runAfter[c]) /\ p \in A
    BY <1>4, <2>1
  <2> QED BY <1>5, <1>10, <2>1, <2>2
<1> HIDE DEF E, H, A, C, S, F, T
<1>17. \A p, c : <<p, c>> \in E => p \in C /\ c \in (C \cup T) \ S
  <2> SUFFICES ASSUME NEW p, NEW c, <<p, c>> \in E PROVE p \in C /\ c \in (C \cup T) \ S
    OBVIOUS
  <2>1. CASE c \in A /\ ((p = H /\ IsRootOf(d, c)) \/ p \in Keys(d.runAfter[c]))
    BY <1>2, <1>4, <2>1
  <2>2. CASE g \in Untils /\ c = F /\ p \in A \cup {H} /\ IsLast(d, g, p)
    BY <1>2, <1>7, <2>2
  <2> QED BY <1>5, <2>1, <2>2
<1>18. ASSUME NEW m \in A PROVE m \notin Later(E, m)
  <2> DEFINE L == Successors(w, m) \cup T
  <2>1. Leads(E, m, L)
    <3> SUFFICES ASSUME NEW p, NEW c, <<p, c>> \in E, p = m \/ p \in L PROVE c \in L
      BY DEF Leads
    <3>1. p \in Actions \cup Scopes \/ p \in T
      BY <1>2, <1>4, <1>13
    <3>2. p \notin T /\ p # H
      BY <1>2, <1>7, <1>17, <3>1
    <3>3. CASE c \in A /\ p \in Keys(d.runAfter[c])
      BY <1>13, <3>2, <3>3
    <3>4. CASE g \in Untils /\ c = F
      BY <1>7, <3>4
    <3> QED BY <1>5, <3>2, <3>3, <3>4
  <2>2. m \notin L
    BY <1>2, <1>4, <1>7
  <2> HIDE DEF L
  <2> QED BY <1>6, <2>1, <2>2, LaterIsLeast
<1>19. ASSUME NEW m \in S PROVE m \notin Later(E, m)
  <2>1. Leads(E, m, Ends \ S)
    BY <1>6, <1>17 DEF Leads
  <2> QED BY <1>6, <2>1, LaterIsLeast
<1>20. ASSUME NEW m \in T PROVE m \notin Later(E, m)
  <2>1. Leads(E, m, {})
    BY <1>2, <1>7, <1>17 DEF Leads
  <2> QED BY <1>6, <2>1, LaterIsLeast
<1>21. ASSUME NEW s \in S PROVE A \subseteq Later(E, s)
  <2> DEFINE U == A \ Later(E, s)
  <2>1. IsFiniteSet(U)
    <3>1. U \in SUBSET A
      OBVIOUS
    <3> HIDE DEF U
    <3> QED BY <1>15, <3>1, FS_Subset
  <2>2. Leads(E, s, Later(E, s)) /\ s = H
    BY <1>2, <1>6, LaterIsLeast
  <2>3. ASSUME NEW u \in U PROVE \E p \in U : <<p, u>> \in E
    <3>1. ~IsRootOf(d, u)
      BY <1>5, <2>2 DEF Leads
    <3>2. PICK p \in Keys(d.runAfter[u]) : TRUE
      BY <3>1 DEF IsRootOf
    <3>3. p \in A /\ <<p, u>> \in E
      BY <1>4, <1>5
    <3> QED BY <2>2, <3>3 DEF Leads
  <2>4. \A u \in U : u \notin Later(E, u)
    BY <1>18
  <2> HIDE DEF U
  <2>5. U = {}
    BY <1>6, <2>1, <2>3, <2>4, NoEndlessPast
  <2> QED BY <2>5 DEF U
<1>22. ASSUME NEW s \in S PROVE T \subseteq Later(E, s)
  <2> SUFFICES ASSUME g \in Untils PROVE F \in Later(E, s)
    BY <1>7
  <2>1. Leads(E, s, Later(E, s)) /\ s = H
    BY <1>2, <1>6, LaterIsLeast
  <2>2. CASE A = {}
    <3>1. IsLast(d, g, H)
      BY <1>11, <2>2
    <3>2. <<H, F>> \in E
      BY <1>5, <3>1
    <3> QED BY <2>1, <3>2 DEF Leads
  <2>3. CASE A # {}
    <3>1. PICK u \in A : \A c \in A : <<u, c>> \notin E
      BY <1>6, <1>15, <1>18, <2>3, NoEndlessFuture
    <3>2. u # H
      BY <1>2
    <3>3. IsLast(d, g, u)
      BY <1>5, <1>12, <3>1, <3>2
    <3>4. <<u, F>> \in E
      BY <1>5, <3>3
    <3> QED BY <1>21, <2>1, <3>4 DEF Leads
  <2> QED BY <2>2, <2>3
<1>23. IsCanvas(E, C \cup T, S)
  <2>1. S \subseteq C \cup T /\ \A s, r \in S : s = r
    BY <1>2
  <2>2. \A m \in C \cup T : m \notin Later(E, m)
    BY <1>2, <1>18, <1>19, <1>20
  <2>3. \A s \in S, k \in (C \cup T) \ S : k \in Later(E, s)
    BY <1>2, <1>21, <1>22
  <2> QED BY <1>17, <2>1, <2>2, <2>3 DEF IsCanvas
<1>24. IsGraph(Links(w, g), C, T, S)
  BY <1>16, <1>17, <1>23 DEF IsGraph, Links, E
<1>25. ASSUME g # Root \/ "joins" \in Edits PROVE SingleParents(E)
  <2> SUFFICES ASSUME NEW n, n \notin Footers, NEW p, NEW q, <<p, n>> \in E, <<q, n>> \in E
               PROVE  p = q
    BY DEF SingleParents, OneSource
  <2>1. n # F \/ g \notin Untils
    BY <1>7
  <2>2. /\ n \in A
        /\ (p = H /\ IsRootOf(d, n)) \/ p \in Keys(d.runAfter[n])
        /\ (q = H /\ IsRootOf(d, n)) \/ q \in Keys(d.runAfter[n])
    BY <1>5, <2>1
  <2> QED BY <1>9, <1>25, <2>2 DEF IsRootOf
<1>26. IsDrawn(w, g)
  BY <1>7, <1>24 DEF IsDrawn, C, S, F
<1> QED BY <1>25, <1>26 DEF E

(* A sound definition is opened as a canvas. *)
LEMMA OpenedIsCanvas ==
  ASSUME NEW d \in Definitions, IsSound(d), NEW w, w = Deserialize(d)
  PROVE  CanvasState(w)
<1>1. IsOpened(d, w) /\ IsWellFormed(w)
  BY DefinitionIsOpened, DeserializeWellFormed
<1>2. /\ DOMAIN d.graphOf \subseteq Actions \cup Scopes
      /\ d.trigger \in Triggers \cup {NoNode}
      /\ \A a \in DOMAIN d.graphOf : d.graphOf[a] \in {Root} \cup (Scopes \cap DOMAIN d.graphOf)
      /\ Triggers \cap (Actions \cup Scopes) = {} /\ Root \notin Scopes
      /\ Defined(w) \subseteq Operations
  BY <1>1, DefinitionHasParts DEF IsWellFormed, IsState
<1>3. ASSUME NEW s \in Scopes, s \notin DOMAIN d.graphOf
      PROVE  w.children[s] = {} /\ w.edges[s] = {}
  BY <1>1, <1>2, <1>3 DEF IsOpened, MembersOf
<1>4. \A g \in Graphs : IsDrawn(w, g)
  <2> SUFFICES ASSUME NEW g \in Graphs PROVE IsDrawn(w, g)
    OBVIOUS
  <2>1. CASE g \in {Root} \cup (Scopes \cap DOMAIN d.graphOf)
    BY <2>1, OpenedIsDrawn
  <2>2. CASE g \in Scopes /\ g \notin DOMAIN d.graphOf
    <3>1. /\ Cards(w, g) = {Heading(g)} /\ Start(w, g) = {Heading(g)}
          /\ Links(w, g).edges = {} /\ Links(w, g).runAfter = w.runAfter
      BY <1>2, <1>3, <2>2 DEF Cards, Start, Links
    <3>2. Heading(g) \notin DOMAIN w.runAfter
      BY <1>2, <2>2, CardIds DEF Defined
    <3>3. \E T \in SUBSET (Footers \cap {Footer(g)}) :
            IsGraph(Links(w, g), {Heading(g)}, T, {Heading(g)})
      BY <2>2, <3>1, <3>2, EmptyGraph
    <3> QED BY <3>1, <3>3 DEF IsDrawn
  <2> QED BY <2>1, <2>2 DEF Graphs
<1>5. ASSUME NEW s \in Scopes
      PROVE  /\ w.children[s] \subseteq (Actions \cup Scopes) \ {s}
             /\ SingleParents(w.edges[s])
             /\ s \notin Defined(w) => w.children[s] = {}
  <2>1. s \notin Defined(w) => s \notin DOMAIN d.graphOf
    BY <1>1 DEF IsOpened
  <2>2. CASE s \notin DOMAIN d.graphOf
    BY <1>3, <2>2 DEF SingleParents, OneSource
  <2>3. CASE s \in DOMAIN d.graphOf
    <3>1. w.children[s] = MembersOf(d, s)
      BY <1>1 DEF IsOpened
    <3>2. s # Root /\ SingleParents(w.edges[s])
      BY <1>2, <2>3, OpenedIsDrawn
    <3>3. MembersOf(d, s) \subseteq (Actions \cup Scopes) \ {s}
      BY <2>3, OpenedGraph
    <3>4. s \in Defined(w)
      BY <1>1, <2>3 DEF IsOpened
    <3> QED BY <3>1, <3>2, <3>3, <3>4
  <2> QED BY <2>1, <2>2, <2>3
<1>6. w.isRoot \subseteq HasMetadata(w)
  BY <1>1 DEF IsOpened
<1>7. Start(w, Root) = {d.trigger} \ {NoNode} /\ w.children[Root] = MembersOf(d, Root) \cup Start(w, Root)
  BY <1>1, OpenedGraph DEF HeadCard, IsOpened
<1>8. MembersOf(d, Root) \subseteq Actions \cup Scopes /\ (d.trigger = NoNode => MembersOf(d, Root) = {})
  BY OpenedGraph DEF HeadCard
<1>9. "joins" \in Edits => SingleParents(w.edges[Root])
  BY OpenedIsDrawn
<1> QED BY <1>1, <1>2, <1>4, <1>5, <1>6, <1>7, <1>8, <1>9 DEF CanvasState

(* What is drawn inside n has n itself and all that is drawn in its        *)
(* graphs.                                                                 *)
LEMMA ContentsAreClosed ==
  ASSUME NEW w, IsState(w), NEW n \in Operations \cup {Root}
  PROVE  /\ Contents(w, n) \subseteq Operations
         /\ n \in Operations => n \in Contents(w, n)
         /\ \A m \in (Contents(w, n) \cup {n}) \cap Graphs :
              w.children[m] \cap Operations \subseteq Contents(w, n)
<1> DEFINE N == Cardinality(Operations)
           S == {n}
           Inside(m) == IF m \in Graphs THEN w.children[m] ELSE {}
           X == Operations \cup {n}
           Y == X \cup {Placeholder}
           step == [m \in X |-> Inside(m) \cap Operations]
           IsIt(f) == f = [i \in 0..N |->
                             IF i = 0 THEN S
                             ELSE LET before == f[i - 1]
                                  IN  before \cup UNION {Inside(m) : m \in before}]
           r == CHOOSE f : IsIt(f)
           wide == [m \in Y |-> Inside(m)]
<1>1. /\ N \in Nat /\ N \in 0..N /\ 0 \in 0..N /\ IsFiniteSet(Operations)
      /\ IsFiniteSet(X) /\ Cardinality(X) \in Nat /\ Cardinality(X) =< N + 1
  <2>1. IsFiniteSet(Operations) /\ N \in Nat
    BY OperationsAreFinite, FS_CardinalityType
  <2>2. IsFiniteSet(X) /\ (Cardinality(X) = N \/ Cardinality(X) = N + 1)
    BY <2>1, FS_AddElement
  <2> HIDE DEF X, N
  <2> QED BY <2>1, <2>2
<1>2. \A m : Inside(m) \subseteq Operations \cup {Placeholder}
  BY DEF IsState
<1>3. S \subseteq Y /\ \A m \in Y : wide[m] \subseteq Y
  <2> HIDE DEF Inside
  <2> QED BY <1>2
<1>4. Placeholder \notin Graphs /\ Placeholder \notin X /\ Inside(Placeholder) = {}
  BY Ids DEF Graphs
<1>5. PICK f : Reaches(f, wide, S, N)
  <2> HIDE DEF wide, S
  <2> QED BY <1>1, ReachExists
<1>6. \A i \in 0..N : f[i] \subseteq Y
  <2> HIDE DEF wide, S, Y
  <2> QED BY <1>1, <1>3, <1>5, ReachIsWithin
<1>7. \A i \in 0..N : i # 0 =>
        /\ i - 1 \in 0..N
        /\ Onwards(wide, f[i - 1]) = f[i - 1] \cup UNION {Inside(m) : m \in f[i - 1]}
  <2> TAKE i \in 0..N
  <2> HAVE i # 0
  <2>1. i - 1 \in 0..N
    BY <1>1
  <2>2. f[i - 1] \subseteq Y
    BY <1>6, <2>1
  <2> HIDE DEF Y, Inside
  <2> QED BY <2>1, <2>2 DEF Onwards
<1>8. IsIt(f)
  <2> HIDE DEF wide, S, Inside
  <2> QED BY <1>5, <1>7 DEF Reaches
<1>9. IsIt(r)
  <2> HIDE DEF IsIt
  <2> QED BY <1>8
<1>10. Contents(w, n) = Operations \cap r[N]
  BY DEF Contents, Closure
<1> HIDE DEF r
<1>11. \A i \in 0..N : r[i] \subseteq Y
  <2> DEFINE P == {i \in 0..N : r[i] \subseteq Y}
  <2>1. 0 \in P
    <3>1. r[0] = S
      BY <1>1, <1>9
    <3> QED BY <1>1, <1>3, <3>1
  <2>2. ASSUME NEW i \in 1..N, i - 1 \in P PROVE i \in P
    <3>1. i \in 0..N /\ i # 0
      BY <1>1
    <3>2. r[i] = r[i - 1] \cup UNION {Inside(m) : m \in r[i - 1]}
      BY <1>9, <3>1
    <3> HIDE DEF Inside
    <3> QED BY <1>2, <2>2, <3>1, <3>2
  <2> HIDE DEF P
  <2>3. \A i \in 0..N : i \in P
    BY <1>1, <2>1, <2>2, UpTo
  <2> QED BY <2>3 DEF P
<1> DEFINE h == [i \in 0..N |-> r[i] \cap X]
<1>12. Reaches(h, step, S, N)
  <2>1. h[0] = S
    <3>1. r[0] = S
      BY <1>1, <1>9
    <3> QED BY <1>1, <3>1
  <2>2. ASSUME NEW i \in 0..N, i # 0 PROVE h[i] = Onwards(step, h[i - 1])
    <3>1. i - 1 \in 0..N
      BY <1>1, <2>2
    <3>2. r[i] = r[i - 1] \cup UNION {Inside(m) : m \in r[i - 1]}
      BY <1>9, <2>2
    <3>3. h[i] = r[i] \cap X /\ h[i - 1] = r[i - 1] \cap X /\ r[i - 1] \subseteq Y
      BY <1>11, <3>1
    <3>4. \A m : Inside(m) \cap X = Inside(m) \cap Operations
      <4>1. \A m : n \in Inside(m) => n \in Operations
        BY <1>2, Ids
      <4> HIDE DEF Inside
      <4> QED BY <4>1
    <3>5. \A m \in X : step[m] = Inside(m) \cap X
      BY <3>4
    <3> HIDE DEF Inside, step, h, X
    <3>6. \A c \in X : c \in r[i] <=> c \in h[i - 1] \/ \E m \in r[i - 1] : c \in Inside(m)
      BY <3>2, <3>3
    <3>7. \A c \in X : (\E m \in r[i - 1] : c \in Inside(m)) <=> (\E m \in h[i - 1] : c \in step[m])
      <4>1. \A m \in r[i - 1] : m \in h[i - 1] \/ m = Placeholder
        BY <3>3
      <4> QED BY <1>4, <3>3, <3>5, <4>1
    <3>8. \A c \in Onwards(step, h[i - 1]) : c \in X
      BY <3>3, <3>5 DEF Onwards
    <3>9. \A c \in X : c \in h[i] <=> c \in Onwards(step, h[i - 1])
      BY <3>3, <3>6, <3>7 DEF Onwards
    <3> QED BY <3>3, <3>8, <3>9
  <2>3. h = [i \in 0..N |-> h[i]]
    OBVIOUS
  <2> HIDE DEF h, step, S
  <2> QED BY <2>1, <2>2, <2>3 DEF Reaches
<1>13. /\ S \subseteq h[N] /\ h[N] \subseteq X
       /\ \A m \in h[N] : step[m] \subseteq h[N]
  <2>1. \A m \in X : step[m] \subseteq X
    OBVIOUS
  <2>2. S \subseteq X
    OBVIOUS
  <2> HIDE DEF h, step, S, X
  <2> QED BY <1>1, <1>12, <2>1, <2>2, ReachIsClosedAfter
<1>14. h[N] = r[N] \cap X
  BY <1>1
<1>15. \A m \in X : step[m] = Inside(m) \cap Operations
  OBVIOUS
<1> HIDE DEF h, step, Inside
<1>16. \A m \in Contents(w, n) \cup {n} : m \in h[N] /\ m \in X
  BY <1>10, <1>13, <1>14
<1>17. \A m \in (Contents(w, n) \cup {n}) : Inside(m) \cap Operations \subseteq Contents(w, n)
  BY <1>10, <1>13, <1>14, <1>15, <1>16
<1> QED BY <1>10, <1>13, <1>14, <1>17 DEF Inside

(* Whoever goes up from a node of such a tree gets to the root graph: what *)
(* the slice knows is all drawn inside it.                                 *)
LEMMA AllIsDrawn ==
  ASSUME NEW w, IsState(w), Defined(w) \subseteq HasMetadata(w),
         \A n \in Defined(w) : /\ n \in w.children[w.graphOf[n]]
                               /\ w.graphOf[n] \in {Root} \cup Defined(w),
         \A U \in SUBSET Defined(w) : U # {} => \E n \in U : w.graphOf[n] \notin U
  PROVE  IsAllDrawn(w)
<1> DEFINE U == Defined(w) \ Contents(w, Root)
<1>1. SUFFICES ASSUME U # {} PROVE FALSE
  BY DEF IsAllDrawn
<1>2. PICK n \in U : w.graphOf[n] \notin U
  <2>1. U \in SUBSET Defined(w)
    OBVIOUS
  <2> HIDE DEF U
  <2> QED BY <1>1, <2>1
<1>3. w.graphOf[n] \in (Contents(w, Root) \cup {Root}) \cap Graphs
  <2>1. w.graphOf[n] \in Graphs
    BY DEF IsState
  <2> QED BY <1>2, <2>1
<1>4. n \in Operations /\ n \in w.children[w.graphOf[n]]
  BY DEF IsState
<1> QED BY <1>3, <1>4, ContentsAreClosed

-----------------------------------------------------------------------------
(* The edits.                                                              *)

IsUnchanged(w, v) ==
  /\ v.children = w.children /\ v.edges = w.edges
  /\ v.isRoot = w.isRoot /\ v.graphOf = w.graphOf /\ Defined(v) = Defined(w)

(* n is new in graph g. *)
IsAdded(w, v, n, g, parent, child) ==
  /\ n \in (Actions \cup Scopes) \ Defined(w)
  /\ g \in Graphs /\ g \in {Root} \cup Defined(w)
  /\ parent \in Cards(w, g) \cup {NoNode}
  /\ AddsNode(w, v, n, g, parent, child)

(* n has gone from graph g. *)
IsRemoved(w, v, n, g) ==
  /\ g \in Graphs /\ n \in w.children[g] /\ n \in Actions \cup Scopes
  /\ RemovesNode(w, v, n, g)

(* n was moved from graph old to graph new. *)
IsMoved(w, v, D, n, old, new, parent, child) ==
  /\ old \in Graphs /\ n \in w.children[old] /\ n \in Actions \cup Scopes
  /\ new \in Graphs /\ new \in {Root} \cup Defined(w) /\ n # new
  /\ parent \in (Cards(w, new) \ {n}) \cup {NoNode}
  /\ new \in Scopes => parent # NoNode
  /\ MovesNode(w, v, D, n, old, new, parent, child)

(* A foreach s was put around n. *)
IsWrapped(w, v, n, s) ==
  /\ "foreach" \in Edits /\ n \in Actions /\ s \in Scopes \ Defined(w)
  /\ \E u, g, p, D :
       /\ CanvasState(u)
       /\ IsAdded(w, u, s, g, p, n)
       /\ IsMoved(u, v, D, n, g, s, Heading(s), NoNode)

(* From w to v, one edit of operation n. *)
IsEdit(w, v, n) ==
  \/ IsUnchanged(w, v)
  \/ \E g, parent, child : IsAdded(w, v, n, g, parent, child) /\ (g \in Scopes => parent # NoNode)
  \/ /\ n \in Triggers \ Defined(w)
     /\ PutsFirst(w, v, Placeholder, n) /\ Defined(v) = Defined(w) \cup {n}
  \/ /\ n \in Triggers /\ Placeholder \notin w.children[Root]
     /\ PutsFirst(w, v, n, Placeholder) /\ Defined(v) = Defined(w) \ {n}
  \/ n \in Actions /\ \E g \in Graphs : IsRemoved(w, v, n, g)
  \/ \E D, old, new, parent, child :
       /\ IsMoved(w, v, D, n, old, new, parent, child)
       /\ n \in Scopes => "nest" \in Edits \/ new \in {Root, old}
  \/ \E s : IsWrapped(w, v, n, s)

(* In a scope every place has a parent: no operation there has several. *)
LEMMA SiteHasParent ==
  ASSUME NEW w, CanvasState(w), NEW site \in Sites(w), site.graph \in Scopes
  PROVE  site.parent # NoNode
<1> SUFFICES ASSUME site.parent = NoNode PROVE FALSE
  OBVIOUS
<1> DEFINE g == site.graph
           c == site.child
<1>1. /\ g \in Graphs /\ c \in (w.children[g] \ Start(w, g)) \cup {NoNode}
      /\ IsPlace(w.edges[g], site.parent, c) /\ HasMultipleParents(w, c)
  BY SitesAreInGraph
<1>2. c \in w.children[g]
  BY <1>1 DEF IsPlace
<1>3. c \notin Footers
  BY <1>1, <1>2, CanvasHasParts, CardIds
<1>4. OneSource(w.edges[g], c)
  BY <1>3 DEF CanvasState, SingleParents
<1> HIDE DEF g, c
<1> QED BY <1>1, <1>2, <1>4, FewKeys

(* The state of a running deleteGraphNode: what is to go is drawn where    *)
(* its metadata says, with one edge to it.                                 *)
DoomedAreDrawn(w, D) ==
  /\ D \subseteq Actions \cup Scopes
  /\ \A n \in D \cap HasMetadata(w) :
       n \in w.children[w.graphOf[n]] /\ OneSource(w.edges[w.graphOf[n]], n)

(* A drop zone knows that it is inside of its own graph. *)
ZonesKnowTheirGraph ==
  \A site \in DOMAIN zones : site.graph \in Scopes => site.graph \in zones[site]

CanvasInv ==
  /\ Inv /\ IsRendered
  /\ CanvasState(wf)
  /\ DoomedAreDrawn(wf, doomed)
  /\ ZonesKnowTheirGraph

(* The definitions and edits of the theorems below: sound definitions, and *)
(* no run-after configuration ticked or unticked.                          *)
CanvasOnly ==
  /\ "runAfter" \notin Edits
  /\ \A d \in Definitions : IsSound(d)

(* Every action of the model is an edit of one operation, and keeps the canvas one. *)
LEMMA AddOperationIsEdit ==
  ASSUME CanvasInv, NEW n \in Actions \cup Scopes, NEW site \in DOMAIN zones,
         AddOperation(n, site) \/ AddParallelBranch(n, site)
  PROVE  CanvasState(wf') /\ IsEdit(wf, wf', n)
<1> DEFINE g == site.graph
           parent == site.parent
<1>1. CanvasState(wf) /\ site \in Sites(wf)
  BY DEF CanvasInv, IsRendered
<1>2. /\ g \in Graphs /\ OnCanvas(wf, g) /\ Start(wf, g) # {}
      /\ parent \in Cards(wf, g) \cup {NoNode}
      /\ site.child \in (wf.children[g] \ Start(wf, g)) \cup {NoNode}
      /\ IsPlace(wf.edges[g], parent, site.child)
  BY <1>1, SitesAreInGraph
<1>3. g \in {Root} \cup Defined(wf)
  BY <1>1, <1>2, CanvasIsDefined
<1>4. g \in Scopes => parent # NoNode
  BY <1>1, SiteHasParent
<1>5. IsPlace(wf.edges[g], parent, NoNode) <=> parent # NoNode
  BY DEF IsPlace
<1>6. CASE AddOperation(n, site)
  <2> DEFINE child == site.child
  <2>1. n \notin Defined(wf) /\ wf' = AddNodeToWorkflow(wf, n, g, parent, child, FALSE, FALSE)
    BY <1>6 DEF AddOperation
  <2>2. child \in (wf.children[g] \ Start(wf, g)) \cup {NoNode} /\ (FALSE => child = NoNode)
    BY <1>2
  <2> HIDE DEF g, parent, child
  <2>3. CanvasState(wf') /\ AddsNode(wf, wf', n, g, parent, child)
    BY <1>1, <1>2, <1>3, <2>1, <2>2, AddKeepsCanvas DEF child
  <2> QED BY <1>2, <1>3, <1>4, <2>1, <2>3 DEF IsEdit, IsAdded
<1>7. CASE AddParallelBranch(n, site)
  <2>1. /\ n \notin Defined(wf) /\ parent # NoNode
        /\ wf' = AddNodeToWorkflow(wf, n, g, parent, NoNode, TRUE, FALSE)
    BY <1>7 DEF AddParallelBranch
  <2>2. NoNode \in (wf.children[g] \ Start(wf, g)) \cup {NoNode} /\ (TRUE => NoNode = NoNode)
    OBVIOUS
  <2> HIDE DEF g, parent
  <2>3. CanvasState(wf') /\ AddsNode(wf, wf', n, g, parent, NoNode)
    BY <1>1, <1>2, <1>3, <1>5, <2>1, <2>2, AddKeepsCanvas
  <2> QED BY <1>2, <1>3, <1>4, <2>1, <2>3 DEF IsEdit, IsAdded
<1> QED BY <1>6, <1>7

(* Triggers and the placeholder take the place of one another. *)
LEMMA TriggerIsEdit ==
  ASSUME CanvasInv, Inv', NEW t \in Triggers, AddTrigger(t) \/ DeleteTrigger(t)
  PROVE  CanvasState(wf') /\ IsEdit(wf, wf', t)
<1>1. CanvasState(wf) /\ IsWellFormed(wf')
  BY DEF CanvasInv, Inv
<1>2. CASE AddTrigger(t)
  <2>1. /\ t \notin Defined(wf) /\ (Placeholder \in wf.children[Root] \/ wf.children[Root] = {})
        /\ wf' = TriggerAdded(wf, t)
    BY <1>2 DEF AddTrigger, TriggerAdded
  <2>2. /\ CanvasState(wf') /\ PutsFirst(wf, wf', Placeholder, t)
        /\ Defined(wf') = Defined(wf) \cup {t}
    BY <1>1, <2>1, TriggerKeepsCanvas
  <2> QED BY <2>1, <2>2 DEF IsEdit
<1>3. CASE DeleteTrigger(t)
  <2>1. t \in wf.children[Root] /\ wf' = DeleteTriggerFromWorkflow(wf, t)
    BY <1>3 DEF DeleteTrigger
  <2>2. /\ CanvasState(wf') /\ PutsFirst(wf, wf', t, Placeholder)
        /\ Defined(wf') = Defined(wf) \ {t} /\ Placeholder \notin wf.children[Root]
    BY <1>1, <2>1, PlaceholderKeepsCanvas
  <2> QED BY <2>2 DEF IsEdit
<1> QED BY <1>2, <1>3

(* deleteOperation, of a node that is drawn in its graph. *)
LEMMA DeleteIsEdit ==
  ASSUME CanvasState(wf), NEW n \in Actions \cup Scopes, NEW g \in Graphs, n \in wf.children[g],
         OneSource(wf.edges[g], n), NEW x \in Neighbours(wf, n, g),
         DeleteOperation(n, g, x)
  PROVE  /\ CanvasState(wf')
         /\ (wf' = wf /\ ~OnCanvas(wf, g)) \/ IsRemoved(wf, wf', n, g)
<1>1. ~DetachThrows(wf, n, x)
  BY OneParent
<1>2. CASE wf' = wf /\ ~OnCanvas(wf, g)
  BY <1>2
<1>3. CASE wf' = DeleteNodeFromWorkflow(wf, n, g, x)
  <2>1. CanvasState(wf') /\ RemovesNode(wf, wf', n, g)
    BY <1>3, DeleteKeepsCanvas
  <2> QED BY <2>1 DEF IsRemoved
<1> QED BY <1>1, <1>2, <1>3 DEF DeleteOperation

(* A move is an edit, and scopes are moved where MayNest lets them. *)
LEMMA MoveIsEdit ==
  ASSUME CanvasInv, NEW n \in Actions \cup Scopes, NEW site \in DOMAIN zones, MoveOperation(n, site)
  PROVE  /\ CanvasState(wf')
         /\ \E D, old, child :
              /\ IsMoved(wf, wf', D, n, old, site.graph, site.parent, child)
              /\ n \in Scopes => "nest" \in Edits \/ site.graph \in {Root, old}
<1> DEFINE new == site.graph
           parent == site.parent
           child == site.child
<1>1. CanvasState(wf) /\ site \in Sites(wf)
  BY DEF CanvasInv, IsRendered
<1>2. /\ new \in Graphs /\ OnCanvas(wf, new) /\ Start(wf, new) # {}
      /\ parent \in Cards(wf, new) \cup {NoNode}
      /\ child \in (wf.children[new] \ Start(wf, new)) \cup {NoNode}
      /\ IsPlace(wf.edges[new], parent, child)
  BY <1>1, SitesAreInGraph
<1>3. new \in {Root} \cup Defined(wf)
  BY <1>1, <1>2, CanvasIsDefined
<1>4. new \in Scopes => parent # NoNode
  BY <1>1, SiteHasParent
<1>5. n # parent /\ n # child /\ n # new
  <2>1. n # parent /\ n # child /\ n \notin zones[site]
    BY DEF MoveOperation, CanDrop
  <2>2. new \in Scopes => new \in zones[site]
    BY DEF CanvasInv, ZonesKnowTheirGraph
  <2> QED BY <1>2, <2>1, <2>2, Ids DEF Graphs
<1>6. PICK old \in Graphs :
        /\ n \in wf.children[old] /\ MayDetach(n, old)
        /\ n \in Scopes => "nest" \in Edits \/ new \in {Root, old}
        /\ \E x \in Neighbours(wf, n, old) :
             wf' = MoveNodeInWorkflow(wf, n, old, new, parent, child, x)
  BY DEF MoveOperation, HasCardIn, MayNest
<1>12. PICK x \in Neighbours(wf, n, old) :
         wf' = MoveNodeInWorkflow(wf, n, old, new, parent, child, x)
  BY <1>6
<1>7. OneSource(wf.edges[old], n)
  BY <1>1, <1>6, DetachableHasOneSource
<1>8. parent \in (Cards(wf, new) \ {n}) \cup {NoNode}
      /\ child \in ((wf.children[new] \ Start(wf, new)) \ {n}) \cup {NoNode}
  BY <1>2, <1>5
<1> HIDE DEF new, parent, child
<1>9. CanvasState(wf') /\ \E D : MovesNode(wf, wf', D, n, old, new, parent, child)
  BY <1>1, <1>2, <1>3, <1>5, <1>6, <1>7, <1>8, <1>12, MoveKeepsCanvas
<1>10. PICK D : MovesNode(wf, wf', D, n, old, new, parent, child)
  BY <1>9
<1>11. IsMoved(wf, wf', D, n, old, new, parent, child)
  BY <1>2, <1>3, <1>4, <1>5, <1>6, <1>8, <1>10 DEF IsMoved
<1> QED BY <1>6, <1>9, <1>11 DEF new, parent

(* A foreach is added before the operation, which is then moved into it. *)
LEMMA ForeachIsEdit ==
  ASSUME CanvasInv, NEW n \in Actions, NEW s \in Scopes \ Untils, AddImplicitForeach(n, s)
  PROVE  CanvasState(wf') /\ IsEdit(wf, wf', n)
<1>1. CanvasState(wf) /\ s \notin Defined(wf) /\ "foreach" \in Edits
  BY DEF CanvasInv, AddImplicitForeach
<1>2. PICK g \in Graphs :
        /\ OnCanvas(wf, g) /\ n \in wf.children[g] /\ MayDetach(n, g)
        /\ \E p \in OrNoNode(Sources(Links(wf, g), n) \ Headings) :
             \E x \in Neighbours(AddNodeToWorkflow(wf, s, g, p, n, FALSE, FALSE), n, g) :
               wf' = IF DetachThrows(AddNodeToWorkflow(wf, s, g, p, n, FALSE, FALSE), n, x) THEN wf
                     ELSE MoveNodeInWorkflow(AddNodeToWorkflow(wf, s, g, p, n, FALSE, FALSE),
                                             n, g, s, Heading(s), NoNode, x)
  BY DEF AddImplicitForeach, HasCardIn
<1>21. PICK p \in OrNoNode(Sources(Links(wf, g), n) \ Headings) :
         \E x \in Neighbours(AddNodeToWorkflow(wf, s, g, p, n, FALSE, FALSE), n, g) :
           wf' = IF DetachThrows(AddNodeToWorkflow(wf, s, g, p, n, FALSE, FALSE), n, x) THEN wf
                 ELSE MoveNodeInWorkflow(AddNodeToWorkflow(wf, s, g, p, n, FALSE, FALSE),
                                         n, g, s, Heading(s), NoNode, x)
  BY <1>2
<1>3. PICK u : u = AddNodeToWorkflow(wf, s, g, p, n, FALSE, FALSE)
  OBVIOUS
<1>4. PICK x \in Neighbours(u, n, g) :
        wf' = IF DetachThrows(u, n, x) THEN wf
              ELSE MoveNodeInWorkflow(u, n, g, s, Heading(s), NoNode, x)
  BY <1>21, <1>3
<1>5. /\ n \in wf.children[g] \ Start(wf, g) /\ Start(wf, g) # {}
      /\ wf.edges[g] \subseteq Ends \X Ends
      /\ \A q, c : <<q, c>> \in wf.edges[g] => q \in Cards(wf, g)
      /\ NoNode \notin Cards(wf, g)
  <2>1. n \in Cards(wf, g)
    BY <1>1, <1>2, CanvasHasParts
  <2> QED BY <1>1, <2>1, CanvasHasParts
<1>6. p \in Cards(wf, g) \cup {NoNode} /\ (p # NoNode => <<p, n>> \in wf.edges[g])
  <2>1. \A q \in Sources(Links(wf, g), n) : <<q, n>> \in wf.edges[g]
    BY <1>5 DEF Sources, Links
  <2> QED BY <1>21, <1>5, <2>1 DEF OrNoNode
<1>7. /\ g \in {Root} \cup Defined(wf) /\ OneSource(wf.edges[g], n)
  BY <1>1, <1>2, CanvasIsDefined, DetachableHasOneSource
<1>8. /\ n # NoNode /\ n # s /\ n \in Actions \cup Scopes /\ s \in Actions \cup Scopes
      /\ Heading(s) # NoNode /\ Heading(s) # n /\ s # Root /\ s \in Graphs
      /\ n \in Operations /\ n # Root
  BY IdsAreDistinct, Ids, CardIds DEF Graphs
<1>9. IsPlace(wf.edges[g], p, n)
  BY <1>6, <1>8 DEF IsPlace
<1>10. CanvasState(u) /\ AddsNode(wf, u, s, g, p, n)
  <2>1. n \in (wf.children[g] \ Start(wf, g)) \cup {NoNode} /\ (FALSE => n = NoNode)
    BY <1>5
  <2> QED BY <1>1, <1>3, <1>5, <1>6, <1>7, <1>8, <1>9, <2>1, AddKeepsCanvas
<1>11. IsAdded(wf, u, s, g, p, n)
  BY <1>1, <1>6, <1>7, <1>8, <1>10 DEF IsAdded
<1>12. /\ u.children = [wf.children EXCEPT ![g] = @ \cup {s}]
       /\ Defined(u) = Defined(wf) \cup {s}
       /\ StaysAlone(wf.edges[g], u.edges[g], s, n)
  BY <1>10 DEF AddsNode
<1>13. n \in u.children[g] /\ s \in {Root} \cup Defined(u) /\ OneSource(u.edges[g], n)
  <2>1. DOMAIN wf.children = Graphs
    BY <1>1 DEF CanvasState, IsWellFormed, IsState
  <2> QED BY <1>2, <1>7, <1>8, <1>12, <2>1 DEF StaysAlone
<1>14. /\ Start(u, s) # {} /\ Heading(s) \in (Cards(u, s) \ {n}) \cup {NoNode}
       /\ NoNode \in ((u.children[s] \ Start(u, s)) \ {n}) \cup {NoNode}
       /\ IsPlace(u.edges[s], Heading(s), NoNode)
  BY <1>8 DEF Start, Cards, IsPlace
<1>15. ~DetachThrows(u, n, x)
  BY <1>2, <1>8, <1>10, <1>13, OneParent
<1>16. wf' = MoveNodeInWorkflow(u, n, g, s, Heading(s), NoNode, x)
  BY <1>4, <1>15
<1>17. CanvasState(wf') /\ \E D : MovesNode(u, wf', D, n, g, s, Heading(s), NoNode)
  BY <1>8, <1>10, <1>13, <1>14, <1>16, MoveKeepsCanvas
<1>18. PICK D : MovesNode(u, wf', D, n, g, s, Heading(s), NoNode)
  BY <1>17
<1>19. IsMoved(u, wf', D, n, g, s, Heading(s), NoNode)
  BY <1>8, <1>13, <1>14, <1>18 DEF IsMoved
<1>20. IsWrapped(wf, wf', n, s)
  BY <1>1, <1>10, <1>11, <1>19 DEF IsWrapped
<1> QED BY <1>17, <1>20 DEF IsEdit

(* A status changes no edge and no key. *)
LEMMA StatusIsEdit ==
  ASSUME CanvasInv, Inv', NEW n \in Operations, NEW p \in Ends, NEW status \in {Succeeded, Custom},
         UpdateRunAfter(n, p, status)
  PROVE  CanvasState(wf') /\ IsEdit(wf, wf', n)
<1>1. CanvasState(wf) /\ IsWellFormed(wf')
  BY DEF CanvasInv, Inv
<1>2. /\ n \in Defined(wf) /\ p \in Keys(wf.runAfter[n])
      /\ wf' = [wf EXCEPT !.runAfter[n] = WithKey(wf.runAfter[n], p, status)]
  BY DEF UpdateRunAfter, HasRunAfterSection, StatusOf
<1>3. status \in Status
  BY DEF Status
<1>4. /\ CanvasState(wf')
      /\ wf'.children = wf.children /\ wf'.edges = wf.edges /\ wf'.isRoot = wf.isRoot
      /\ wf'.graphOf = wf.graphOf /\ Defined(wf') = Defined(wf)
  BY <1>1, <1>2, <1>3, StatusKeepsCanvas
<1> QED BY <1>4 DEF IsEdit, IsUnchanged

(* deleteOperation, in a running deleteGraphNode, of the node n. *)
IsDeleteNext(n) ==
  /\ n \in doomed /\ doomed' = doomed \ {n} /\ n \in Actions \cup Scopes
  /\ (Contents(wf, n) \cap doomed) \subseteq {n}
  /\ \/ wf' = wf /\ ~OnCanvas(wf, NodeGraphId(wf, n))
     \/ \E g \in Graphs : IsRemoved(wf, wf', n, g)

(* A step that is about the operation n. *)
IsStep(n) ==
  \/ IsEdit(wf, wf', n) /\ doomed = {} /\ doomed' = {}
  \/ /\ wf' = wf /\ doomed = {}
     /\ \E s \in Scopes, g \in Graphs :
          OnCanvas(wf, g) /\ s \in wf.children[g] /\ doomed' = Contents(wf, s)
  \/ IsDeleteNext(n)

(* What a deleted scope holds is drawn where its metadata says. *)
LEMMA InsideIsDrawn ==
  ASSUME NEW w, CanvasState(w), NEW g \in Graphs, NEW s \in Scopes, s \in w.children[g],
         OneSource(w.edges[g], s)
  PROVE  DoomedAreDrawn(w, Contents(w, s))
<1> DEFINE T == {s} \cup UNION {w.children[h] : h \in Scopes}
<1>1. /\ IsState(w)
      /\ \A h \in Scopes : h \in Graphs /\ w.children[h] \subseteq Actions \cup Scopes
      /\ T \subseteq Actions \cup Scopes
  BY CanvasHasParts DEF CanvasState, Graphs
<1>2. \A m \in T \cap Graphs : w.children[m] \subseteq T
  <2>1. Root \notin T
    BY <1>1, IdsAreDistinct
  <2>2. \A m \in T \cap Graphs : m \in Scopes
    BY <2>1 DEF Graphs
  <2> QED BY <2>2
<1>3. s \in T
  OBVIOUS
<1>4. \A n \in T : n \in w.children[w.graphOf[n]] /\ OneSource(w.edges[w.graphOf[n]], n)
  <2>1. w.graphOf[s] = g
    BY CanvasHasParts
  <2>2. ASSUME NEW h \in Scopes, NEW n \in w.children[h]
        PROVE  w.graphOf[n] = h /\ OneSource(w.edges[h], n)
    <3>1. h \in Graphs /\ n \notin Footers
      BY <1>1, CardIds, Ids
    <3>2. w.graphOf[n] = h
      BY <3>1, CanvasHasParts
    <3> QED BY <3>1, <3>2 DEF CanvasState, SingleParents
  <2> QED BY <2>1, <2>2
<1> HIDE DEF T
<1>5. Contents(w, s) \subseteq T
  BY <1>1, <1>2, <1>3, ContentsAreWithin
<1> QED BY <1>1, <1>4, <1>5 DEF DoomedAreDrawn

(* When nothing that is to go is drawn in it, a node leaves the rest of    *)
(* what is to go as it was.                                                *)
LEMMA RestIsDrawn ==
  ASSUME NEW w, CanvasState(w), NEW v, NEW D, DoomedAreDrawn(w, D), NEW n \in Actions \cup Scopes,
         (Contents(w, n) \cap D) \subseteq {n},
         NEW g \in Graphs, IsRemoved(w, v, n, g)
  PROVE  DoomedAreDrawn(v, D \ {n})
<1>1. /\ v.children = [c \in Graphs |-> IF c = n THEN {}
                                    ELSE IF c = g THEN w.children[g] \ {n} ELSE w.children[c]]
      /\ v.graphOf = [m \in HasMetadata(w) \ {n} |-> w.graphOf[m]]
      /\ \A h \in Graphs \ {g, n} : v.edges[h] = w.edges[h]
      /\ \A k : OneSource(w.edges[g], k) => OneSource(v.edges[g], k)
  BY DEF IsRemoved, RemovesNode
<1> SUFFICES ASSUME NEW m \in (D \ {n}) \cap HasMetadata(v)
             PROVE  m \in v.children[v.graphOf[m]] /\ OneSource(v.edges[v.graphOf[m]], m)
  BY DEF DoomedAreDrawn
<1> DEFINE h == w.graphOf[m]
<1>2. /\ m \in HasMetadata(w) /\ v.graphOf[m] = h /\ m \in D /\ m # n
      /\ m \in w.children[h] /\ OneSource(w.edges[h], m)
  BY <1>1 DEF DoomedAreDrawn, HasMetadata
<1>3. h \in Graphs /\ IsState(w)
  BY <1>2, CanvasHasParts DEF IsState
<1>4. h # n
  <2> SUFFICES ASSUME h = n PROVE FALSE
    OBVIOUS
  <2>1. n \in Operations /\ m \in Operations
    BY <1>2, Ids DEF DoomedAreDrawn
  <2>2. m \in Contents(w, n)
    BY <1>2, <1>3, <2>1, ContentsAreClosed
  <2> QED BY <1>2, <2>2
<1>5. m \in v.children[h]
  BY <1>1, <1>2, <1>3, <1>4
<1>6. OneSource(v.edges[h], m)
  BY <1>1, <1>2, <1>3, <1>4
<1> QED BY <1>2, <1>5, <1>6

(* After a step the zones that appear know the scopes around them. *)
LEMMA ZonesAreKnowing ==
  ASSUME ZonesKnowTheirGraph, IsWellFormed(wf'), Render \/ UNCHANGED zones
  PROVE  ZonesKnowTheirGraph'
<1>1. CASE UNCHANGED zones
  BY <1>1 DEF ZonesKnowTheirGraph
<1>2. CASE Render
  <2> SUFFICES ASSUME NEW site \in DOMAIN zones', site.graph \in Scopes
               PROVE  site.graph \in zones'[site]
    BY DEF ZonesKnowTheirGraph
  <2>1. site \in Sites(wf') /\
        zones'[site] = IF site \in DOMAIN zones THEN zones[site] ELSE GraphPath(wf', site.graph)
    BY <1>2 DEF Render
  <2>2. CASE site \in DOMAIN zones
    BY <2>1, <2>2 DEF ZonesKnowTheirGraph
  <2>3. site.graph \in Contents(wf', site.graph)
    <3> DEFINE w == wf'
               n == site.graph
    <3>1. IsState(w) /\ n \in Operations
      BY Ids DEF IsWellFormed
    <3> HIDE DEF w, n
    <3>2. n \in Contents(w, n)
      BY <3>1, ContentsAreClosed
    <3> QED BY <3>2 DEF w, n
  <2> QED BY <2>1, <2>2, <2>3 DEF GraphPath
<1> QED BY <1>1, <1>2

(* Every step keeps the canvas, and is about one operation. *)
LEMMA StepKeepsCanvas ==
  ASSUME CanvasOnly, CanvasInv, Next, Inv'
  PROVE  /\ CanvasState(wf') /\ \E n \in Operations : IsStep(n)
         /\ DoomedAreDrawn(wf', doomed')
<1> DEFINE Kept(n) == CanvasState(wf') /\ IsStep(n) /\ DoomedAreDrawn(wf', doomed')
<1>1. CanvasState(wf) /\ DoomedAreDrawn(wf, doomed) /\ Inv
  BY DEF CanvasInv
<1>2. ASSUME NEW n, CanvasState(wf'), IsEdit(wf, wf', n), doomed = {}, doomed' = {}
      PROVE  Kept(n)
  BY <1>2 DEF IsStep, DoomedAreDrawn
<1>3. ASSUME NEW n \in Actions \cup Scopes, NEW site \in DOMAIN zones,
             AddOperation(n, site) \/ AddParallelBranch(n, site)
      PROVE  Kept(n)
  <2>1. doomed = {} /\ doomed' = {}
    BY <1>3 DEF AddOperation, AddParallelBranch, Idle
  <2>2. CanvasState(wf') /\ IsEdit(wf, wf', n)
    BY <1>3, AddOperationIsEdit
  <2> HIDE DEF Kept
  <2> QED BY <1>2, <2>1, <2>2
<1>4. ASSUME NEW t \in Triggers, AddTrigger(t) \/ DeleteTrigger(t)
      PROVE  Kept(t)
  <2>1. doomed = {} /\ doomed' = {}
    BY <1>4 DEF AddTrigger, DeleteTrigger, Idle
  <2>2. CanvasState(wf') /\ IsEdit(wf, wf', t)
    BY <1>4, TriggerIsEdit
  <2> HIDE DEF Kept
  <2> QED BY <1>2, <2>1, <2>2
<1>5. ASSUME NEW n \in Actions, DeleteAction(n)
      PROVE  Kept(n)
  <2>1. doomed = {} /\ doomed' = {}
    BY <1>5 DEF DeleteAction, Idle
  <2>2. PICK g \in Graphs :
          /\ n \in wf.children[g] /\ MayDetach(n, g)
          /\ \E x \in Neighbours(wf, n, g) : DeleteOperation(n, g, x)
    BY <1>5 DEF DeleteAction, HasCardIn
  <2>3. OneSource(wf.edges[g], n)
    BY <1>1, <2>2, DetachableHasOneSource
  <2>4. CanvasState(wf') /\ (wf' = wf \/ IsRemoved(wf, wf', n, g))
    BY <1>1, <2>2, <2>3, DeleteIsEdit
  <2>5. IsEdit(wf, wf', n)
    BY <2>4 DEF IsEdit, IsUnchanged
  <2> HIDE DEF Kept
  <2> QED BY <1>2, <2>1, <2>4, <2>5
<1>6. ASSUME NEW s \in Scopes, DeleteGraphNode(s)
      PROVE  Kept(s)
  <2>1. doomed = {} /\ wf' = wf /\ doomed' = Contents(wf, s)
    BY <1>6 DEF DeleteGraphNode, Idle
  <2>2. PICK g \in Graphs : OnCanvas(wf, g) /\ s \in wf.children[g] /\ MayDetach(s, g)
    BY <1>6 DEF DeleteGraphNode, HasCardIn
  <2>3. DoomedAreDrawn(wf, Contents(wf, s))
    BY <1>1, <2>2, DetachableHasOneSource, InsideIsDrawn
  <2>4. DoomedAreDrawn(wf', doomed')
    BY <2>1, <2>3
  <2> QED BY <1>1, <2>1, <2>2, <2>4 DEF IsStep
<1>7. ASSUME NEW n \in Operations, DeleteNextOfGraph(n)
      PROVE  Kept(n)
  <2> DEFINE g == NodeGraphId(wf, n)
  <2>1. /\ n \in doomed /\ doomed' = doomed \ {n}
        /\ (Contents(wf, n) \cap doomed) \subseteq {n}
    BY <1>7 DEF DeleteNextOfGraph
  <2>2. PICK x \in Neighbours(wf, n, g) : DeleteOperation(n, g, x)
    BY <1>7 DEF DeleteNextOfGraph
  <2>3. n \in Actions \cup Scopes
    BY <1>1, <2>1 DEF DoomedAreDrawn
  <2>4. CASE OnCanvas(wf, g)
    <3>1. g \in Graphs /\ n \in HasMetadata(wf) /\ wf.graphOf[n] = g
      BY <1>1, <2>4, MetadataGraphOnCanvas DEF Inv
    <3>2. n \in wf.children[g] /\ OneSource(wf.edges[g], n)
      BY <1>1, <2>1, <3>1 DEF DoomedAreDrawn
    <3> HIDE DEF g
    <3>3. CanvasState(wf') /\ IsRemoved(wf, wf', n, g)
      BY <1>1, <2>2, <2>3, <2>4, <3>1, <3>2, DeleteIsEdit
    <3>4. DoomedAreDrawn(wf', doomed \ {n})
      BY <1>1, <2>1, <2>3, <3>1, <3>3, RestIsDrawn
    <3>5. DoomedAreDrawn(wf', doomed')
      BY <2>1, <3>4
    <3> QED BY <2>1, <2>3, <3>1, <3>3, <3>5 DEF IsStep, IsDeleteNext
  <2>5. CASE ~OnCanvas(wf, g)
    <3>1. wf' = wf
      BY <2>2, <2>5 DEF DeleteOperation
    <3>2. DoomedAreDrawn(wf, doomed \ {n})
      BY <1>1 DEF DoomedAreDrawn
    <3>3. DoomedAreDrawn(wf', doomed')
      BY <2>1, <3>1, <3>2
    <3> QED BY <1>1, <2>1, <2>3, <2>5, <3>1, <3>3 DEF IsStep, IsDeleteNext
  <2> QED BY <2>4, <2>5
<1>8. ASSUME NEW n \in Actions \cup Scopes, NEW site \in DOMAIN zones, MoveOperation(n, site)
      PROVE  Kept(n)
  <2>1. doomed = {} /\ doomed' = {}
    BY <1>8 DEF MoveOperation, Idle
  <2>2. /\ CanvasState(wf')
        /\ \E D, old, child :
             /\ IsMoved(wf, wf', D, n, old, site.graph, site.parent, child)
             /\ n \in Scopes => "nest" \in Edits \/ site.graph \in {Root, old}
    BY <1>8, MoveIsEdit
  <2>3. IsEdit(wf, wf', n)
    BY <2>2 DEF IsEdit
  <2> HIDE DEF Kept
  <2> QED BY <1>2, <2>1, <2>2, <2>3
<1>9. ASSUME NEW n \in Actions, NEW s \in Scopes \ Untils, AddImplicitForeach(n, s)
      PROVE  Kept(n)
  <2>1. doomed = {} /\ doomed' = {}
    BY <1>9 DEF AddImplicitForeach, Idle
  <2>2. CanvasState(wf') /\ IsEdit(wf, wf', n)
    BY <1>9, ForeachIsEdit
  <2> HIDE DEF Kept
  <2> QED BY <1>2, <2>1, <2>2
<1>10. ASSUME NEW n \in Operations, NEW p \in Ends, NEW status \in {Succeeded, Custom},
              UpdateRunAfter(n, p, status)
       PROVE  Kept(n)
  <2>1. doomed = {} /\ doomed' = {}
    BY <1>10 DEF UpdateRunAfter, Idle
  <2>2. CanvasState(wf') /\ IsEdit(wf, wf', n)
    BY <1>10, StatusIsEdit
  <2> HIDE DEF Kept
  <2> QED BY <1>2, <2>1, <2>2
<1>11. \A n, p : ~AddEdgeFromRunAfter(n, p) /\ ~RemoveEdgeFromRunAfter(n, p)
  BY DEF CanvasOnly, AddEdgeFromRunAfter, RemoveEdgeFromRunAfter
<1>12. \E n \in Operations : Kept(n)
  <2>1. Actions \subseteq Operations /\ Scopes \subseteq Operations /\ Triggers \subseteq Operations
    BY Ids
  <2> HIDE DEF Kept
  <2> QED BY <1>3, <1>4, <1>5, <1>6, <1>7, <1>8, <1>9, <1>10, <1>11, <2>1 DEF Next, DeleteNext
<1> QED BY <1>12

(* The invariant of the canvas. *)
LEMMA InitCanvas == CanvasOnly /\ Init => CanvasInv
<1> SUFFICES ASSUME CanvasOnly, Init PROVE CanvasInv
  OBVIOUS
<1>1. Inv /\ doomed = {} /\ zones = [site \in Sites(wf) |-> GraphPath(wf, site.graph)]
  BY InitInv DEF Init
<1>2. PICK d \in Definitions : wf = Deserialize(d)
  BY DEF Init
<1>3. CanvasState(wf)
  BY <1>2, OpenedIsCanvas DEF CanvasOnly
<1>4. IsRendered
  BY <1>1 DEF IsRendered, GraphPath
<1>5. DoomedAreDrawn(wf, doomed)
  BY <1>1 DEF DoomedAreDrawn
<1>6. ZonesKnowTheirGraph
  <2> SUFFICES ASSUME NEW site \in Sites(wf), site.graph \in Scopes
               PROVE  site.graph \in GraphPath(wf, site.graph)
    BY <1>1 DEF ZonesKnowTheirGraph
  <2>1. IsState(wf) /\ site.graph \in Operations
    BY <1>3, Ids DEF CanvasState, IsWellFormed
  <2> QED BY <2>1, ContentsAreClosed DEF GraphPath
<1> QED BY <1>1, <1>3, <1>4, <1>5, <1>6 DEF CanvasInv

LEMMA NextCanvas == CanvasOnly /\ CanvasInv /\ [Next]_vars => CanvasInv'
<1> SUFFICES ASSUME CanvasOnly, CanvasInv, [Next]_vars PROVE CanvasInv'
  OBVIOUS
<1>1. Inv' /\ IsRendered'
  BY NextInv, NextRendered DEF CanvasInv
<1>2. CASE Next
  <2>1. CanvasState(wf') /\ DoomedAreDrawn(wf', doomed')
    BY <1>1, <1>2, StepKeepsCanvas
  <2>2. Render \/ UNCHANGED zones
    BY <1>2 DEF Next, AddOperation, AddParallelBranch, AddTrigger, DeleteTrigger, DeleteAction,
      DeleteGraphNode, DeleteNext, DeleteNextOfGraph, MoveOperation, AddImplicitForeach,
      AddEdgeFromRunAfter, RemoveEdgeFromRunAfter, UpdateRunAfter
  <2>3. ZonesKnowTheirGraph'
    BY <1>1, <2>2, ZonesAreKnowing DEF CanvasInv, Inv
  <2> QED BY <1>1, <2>1, <2>3 DEF CanvasInv
<1>3. CASE UNCHANGED vars
  <2>1. wf' = wf /\ doomed' = doomed /\ zones' = zones
    BY <1>3 DEF vars
  <2>2. ZonesKnowTheirGraph'
    BY <2>1 DEF CanvasInv, ZonesKnowTheirGraph
  <2> QED BY <1>1, <2>1, <2>2 DEF CanvasInv
<1> QED BY <1>2, <1>3

LEMMA CanvasInvariant == CanvasOnly => (Spec => []CanvasInv)
<1> SUFFICES ASSUME CanvasOnly PROVE Spec => []CanvasInv
  OBVIOUS
<1>1. Init => CanvasInv
  BY InitCanvas
<1>2. CanvasInv /\ [Next]_vars => CanvasInv'
  BY NextCanvas
<1> QED BY <1>1, <1>2, PTL DEF Spec

-----------------------------------------------------------------------------
(* The order of the others.                                                *)

(* From E to F the nodes of A come after one another as they did. *)
SameOrder(E, F, A) == \A m, k \in A : k \in Later(F, m) <=> k \in Later(E, m)

(* Whatever two operations other than n the workflows w and v both draw in *)
(* a graph, its edges put them in the same order.                          *)
OrderKept(w, v, n) ==
  \A g \in Graphs :
    SameOrder(w.edges[g], v.edges[g], (w.children[g] \cap v.children[g]) \ {n})

(* It is so when n comes, goes or is put elsewhere. *)
LEMMA OrderWithout ==
  ASSUME NEW E, E \subseteq Ends \X Ends, NEW F, F \subseteq Ends \X Ends,
         NEW n, IsWithout(F, E, n), NEW A, n \notin A
  PROVE  SameOrder(E, F, A) /\ SameOrder(F, E, A)
<1>1. \A m \in A : Later(F, m) = Later(E, m) \ {n}
  BY OthersInOrder
<1> QED BY <1>1 DEF SameOrder

(* Two edits that keep an order keep it together. *)
LEMMA OrderIsTransitive ==
  ASSUME NEW E, NEW F, NEW G, NEW A, SameOrder(E, F, A), SameOrder(F, G, A)
  PROVE  SameOrder(E, G, A)
BY DEF SameOrder

(* And when the first node is given another name. *)
LEMMA OrderRenamed ==
  ASSUME NEW E, E \subseteq Ends \X Ends, NEW F, F \subseteq Ends \X Ends,
         NEW s, NEW r, IsRenamed(F, E, s, r), NEW A, s \notin A, r \notin A
  PROVE  SameOrder(E, F, A)
<1>1. \A m \in A : Later(F, m) = Later(E, m)
  BY RenamedInOrder
<1> QED BY <1>1 DEF SameOrder

(* The order of the others, edit by edit: of a move, *)
LEMMA MovedInOrder ==
  ASSUME NEW w, CanvasState(w), NEW v, CanvasState(v), NEW D, NEW n, NEW old, NEW new,
         NEW parent, NEW child, IsMoved(w, v, D, n, old, new, parent, child),
         NEW g \in Graphs, NEW A, n \notin A
  PROVE  SameOrder(w.edges[g], v.edges[g], A)
<1>1. /\ w.edges[g] \subseteq Ends \X Ends /\ v.edges[g] \subseteq Ends \X Ends
  BY CanvasHasParts
<1>2. /\ old \in Graphs /\ new \in Graphs
      /\ D \subseteq Ends \X Ends
      /\ IsWithout(D, w.edges[old], n)
      /\ new # old => v.edges[old] = D
      /\ \A h \in Graphs \ {old, new} : v.edges[h] = w.edges[h]
      /\ IsWithout(IF new = old THEN D ELSE w.edges[new], v.edges[new], n)
  BY DEF IsMoved, MovesNode
<1>3. CASE g \notin {old, new}
  <2>1. v.edges[g] = w.edges[g]
    BY <1>2, <1>3
  <2> QED BY <2>1 DEF SameOrder
<1>4. CASE g = old /\ new # old
  <2>1. IsWithout(v.edges[g], w.edges[g], n)
    BY <1>2, <1>4
  <2> QED BY <1>1, <2>1, OrderWithout
<1>5. CASE g = new /\ new # old
  <2>1. IsWithout(w.edges[g], v.edges[g], n)
    BY <1>2, <1>5
  <2> QED BY <1>1, <2>1, OrderWithout
<1>6. CASE g = new /\ new = old
  <2>1. IsWithout(D, w.edges[g], n) /\ IsWithout(D, v.edges[g], n)
    BY <1>2, <1>6
  <2>2. SameOrder(w.edges[g], D, A) /\ SameOrder(D, v.edges[g], A)
    BY <1>1, <1>2, <2>1, OrderWithout
  <2> QED BY <2>2, OrderIsTransitive
<1> QED BY <1>3, <1>4, <1>5, <1>6

(* of an addition, *)
LEMMA AddedInOrder ==
  ASSUME NEW w, CanvasState(w), NEW v, CanvasState(v), NEW n, NEW h,
         NEW parent, NEW child, IsAdded(w, v, n, h, parent, child),
         NEW g \in Graphs, NEW A, A \subseteq w.children[g], n \notin A
  PROVE  SameOrder(w.edges[g], v.edges[g], A)
<1>1. /\ w.edges[g] \subseteq Ends \X Ends /\ v.edges[g] \subseteq Ends \X Ends
  BY CanvasHasParts
<1>2. /\ n \in (Actions \cup Scopes) \ Defined(w)
      /\ \A k \in Graphs \ {h, n} : v.edges[k] = w.edges[k]
      /\ IsWithout(w.edges[h], v.edges[h], n)
  BY DEF IsAdded, AddsNode
<1>3. CASE g = h
  <2>1. IsWithout(w.edges[g], v.edges[g], n)
    BY <1>2, <1>3
  <2> QED BY <1>1, <2>1, OrderWithout
<1>4. CASE g = n
  <2>1. g \in Scopes /\ g \notin Defined(w)
    BY <1>2, <1>4, IdsAreDistinct DEF Graphs
  <2>2. A = {}
    BY <2>1 DEF CanvasState
  <2> QED BY <2>2 DEF SameOrder
<1>5. CASE g \notin {h, n}
  <2>1. v.edges[g] = w.edges[g]
    BY <1>2, <1>5
  <2> QED BY <2>1 DEF SameOrder
<1> QED BY <1>3, <1>4, <1>5

(* of a deletion, *)
LEMMA RemovedInOrder ==
  ASSUME NEW w, CanvasState(w), NEW v, CanvasState(v), NEW n, NEW h,
         IsRemoved(w, v, n, h),
         NEW g \in Graphs, NEW A, A \subseteq v.children[g], n \notin A
  PROVE  SameOrder(w.edges[g], v.edges[g], A)
<1>1. /\ w.edges[g] \subseteq Ends \X Ends /\ v.edges[g] \subseteq Ends \X Ends
  BY CanvasHasParts
<1>2. /\ \A k \in Graphs \ {h, n} : v.edges[k] = w.edges[k]
      /\ v.children = [c \in Graphs |-> IF c = n THEN {}
                                    ELSE IF c = h THEN w.children[h] \ {n} ELSE w.children[c]]
      /\ IsWithout(v.edges[h], w.edges[h], n)
  BY DEF IsRemoved, RemovesNode
<1>3. CASE g = h
  <2>1. IsWithout(v.edges[g], w.edges[g], n)
    BY <1>2, <1>3
  <2> QED BY <1>1, <2>1, OrderWithout
<1>4. CASE g = n
  <2>1. A = {}
    BY <1>2, <1>4
  <2> QED BY <2>1 DEF SameOrder
<1>5. CASE g \notin {h, n}
  <2>1. v.edges[g] = w.edges[g]
    BY <1>2, <1>5
  <2> QED BY <2>1 DEF SameOrder
<1> QED BY <1>3, <1>4, <1>5

(* and of a change of the first node. *)
LEMMA FirstInOrder ==
  ASSUME NEW w, CanvasState(w), NEW v, CanvasState(v), NEW s, NEW r, PutsFirst(w, v, s, r),
         NEW g \in Graphs, NEW A, g = Root => s \notin A /\ r \notin A
  PROVE  SameOrder(w.edges[g], v.edges[g], A)
<1>1. /\ w.edges[g] \subseteq Ends \X Ends /\ v.edges[g] \subseteq Ends \X Ends
  BY CanvasHasParts
<1>2. CASE g = Root
  <2>1. IsRenamed(v.edges[g], w.edges[g], s, r)
    BY <1>2 DEF PutsFirst
  <2> QED BY <1>1, <1>2, <2>1, OrderRenamed
<1>3. CASE g # Root
  <2>1. v.edges[g] = w.edges[g]
    BY <1>3 DEF PutsFirst, Graphs
  <2> QED BY <2>1 DEF SameOrder
<1> QED BY <1>2, <1>3

(* No edit of one operation changes the order of the others. *)
LEMMA EditKeepsOrder ==
  ASSUME NEW w, CanvasState(w), NEW v, CanvasState(v), NEW n \in Operations, IsEdit(w, v, n)
  PROVE  OrderKept(w, v, n)
<1> DEFINE A(g) == (w.children[g] \cap v.children[g]) \ {n}
<1> SUFFICES ASSUME NEW g \in Graphs PROVE SameOrder(w.edges[g], v.edges[g], A(g))
  BY DEF OrderKept
<1>1. A(g) \subseteq w.children[g] /\ A(g) \subseteq v.children[g] /\ n \notin A(g)
  OBVIOUS
<1>2. CASE IsUnchanged(w, v)
  BY <1>2 DEF IsUnchanged, SameOrder
<1>3. ASSUME NEW h, NEW parent, NEW child, IsAdded(w, v, n, h, parent, child)
      PROVE  SameOrder(w.edges[g], v.edges[g], A(g))
  <2> HIDE DEF A
  <2> QED BY <1>1, <1>3, AddedInOrder
<1>4. ASSUME PutsFirst(w, v, Placeholder, n) PROVE SameOrder(w.edges[g], v.edges[g], A(g))
  <2>1. DOMAIN w.children = Graphs
    BY CanvasHasParts DEF IsState
  <2>2. Placeholder # n
    BY Ids
  <2>3. g = Root => Placeholder \notin v.children[g]
    BY <1>4, <2>1, <2>2 DEF PutsFirst
  <2> HIDE DEF A
  <2> QED BY <1>1, <1>4, <2>3, FirstInOrder
<1>5. ASSUME PutsFirst(w, v, n, Placeholder), Placeholder \notin w.children[Root]
      PROVE SameOrder(w.edges[g], v.edges[g], A(g))
  <2> HIDE DEF A
  <2> QED BY <1>1, <1>5, FirstInOrder
<1>6. ASSUME NEW h, IsRemoved(w, v, n, h) PROVE SameOrder(w.edges[g], v.edges[g], A(g))
  <2> HIDE DEF A
  <2> QED BY <1>1, <1>6, RemovedInOrder
<1>7. ASSUME NEW D, NEW old, NEW new, NEW parent, NEW child, IsMoved(w, v, D, n, old, new, parent, child)
      PROVE SameOrder(w.edges[g], v.edges[g], A(g))
  <2> HIDE DEF A
  <2> QED BY <1>1, <1>7, MovedInOrder
<1>8. ASSUME NEW s, IsWrapped(w, v, n, s)
      PROVE SameOrder(w.edges[g], v.edges[g], A(g))
  <2>1. PICK u, h, p, D :
          /\ CanvasState(u)
          /\ IsAdded(w, u, s, h, p, n)
          /\ IsMoved(u, v, D, n, h, s, Heading(s), NoNode)
    BY <1>8 DEF IsWrapped
  <2>2. s \notin A(g)
    <3>1. s \in Operations \ Defined(w) /\ s # Placeholder
      BY <1>8, Ids DEF IsWrapped
    <3>2. s \notin w.children[g]
      BY <3>1, CanvasHasParts
    <3> QED BY <3>2
  <2> HIDE DEF A
  <2>3. SameOrder(w.edges[g], u.edges[g], A(g))
    BY <1>1, <2>1, <2>2, AddedInOrder
  <2>4. SameOrder(u.edges[g], v.edges[g], A(g))
    BY <1>1, <2>1, MovedInOrder
  <2> QED BY <2>3, <2>4, OrderIsTransitive
<1> HIDE DEF A
<1> QED BY <1>2, <1>3, <1>4, <1>5, <1>6, <1>7, <1>8 DEF IsEdit

(* So is it with every step. *)
LEMMA StepKeepsOrder ==
  ASSUME CanvasState(wf), CanvasState(wf'), NEW n \in Operations, IsStep(n)
  PROVE  OrderKept(wf, wf', n)
<1>1. CASE wf' = wf
  BY <1>1 DEF OrderKept, SameOrder
<1>2. CASE IsEdit(wf, wf', n)
  BY <1>2, EditKeepsOrder
<1>3. ASSUME NEW h, IsRemoved(wf, wf', n, h) PROVE OrderKept(wf, wf', n)
  <2> SUFFICES ASSUME NEW g \in Graphs
               PROVE  SameOrder(wf.edges[g], wf'.edges[g], (wf.children[g] \cap wf'.children[g]) \ {n})
    BY DEF OrderKept
  <2> QED BY <1>3, RemovedInOrder
<1> QED BY <1>1, <1>2, <1>3 DEF IsStep, IsDeleteNext

-----------------------------------------------------------------------------
(* The tree of the graphs.                                                 *)

(* Everything the slice knows is drawn where its metadata says, in a graph *)
(* the slice knows.                                                        *)
IsHome(w) ==
  \A n \in Defined(w) :
    n \in w.children[w.graphOf[n]] /\ w.graphOf[n] \in {Root} \cup Defined(w)

(* And no graph is inside itself. *)
IsTree(w) ==
  /\ IsHome(w)
  /\ \A U \in SUBSET Defined(w) : U # {} => \E n \in U : w.graphOf[n] \notin U

(* What is to go with a scope holds all that is drawn in its graphs, and   *)
(* is on the canvas itself.                                                *)
DoomIsClosed(w, D) == \A n \in Defined(w) : w.graphOf[n] \in D => n \in D
DoomIsDrawn(w, D) == D \cap Defined(w) \subseteq Contents(w, Root)
DoomIsWhole(w, D) == DoomIsClosed(w, D) /\ DoomIsDrawn(w, D)

(* There are not two scopes. *)
OneScope == \A s, r \in Scopes : s = r

(* Where the nodes of the metadata are. *)
LEMMA GraphsAreNamed ==
  ASSUME NEW w, CanvasState(w)
  PROVE  /\ DOMAIN w.children = Graphs /\ DOMAIN w.graphOf = HasMetadata(w)
         /\ Defined(w) \subseteq HasMetadata(w) /\ Defined(w) \subseteq Operations
         /\ \A m \in HasMetadata(w) : w.graphOf[m] \in Graphs
<1>1. IsState(w) /\ Defined(w) = HasMetadata(w) \ {Placeholder}
  BY CanvasHasParts, Ids
<1>2. w.graphOf \in [HasMetadata(w) -> Graphs] /\ w.children \in [Graphs -> SUBSET (Operations \cup {Placeholder})]
  BY <1>1 DEF IsState
<1>3. Defined(w) \subseteq Operations
  BY <1>1 DEF IsState
<1>4. DOMAIN w.children = Graphs /\ DOMAIN w.graphOf = HasMetadata(w)
  BY <1>2
<1>5. \A m \in HasMetadata(w) : w.graphOf[m] \in Graphs
  BY <1>2
<1> QED BY <1>1, <1>3, <1>4, <1>5

(* When a node comes to a graph that is there. *)
LEMMA AddedHome ==
  ASSUME NEW w, CanvasState(w), IsHome(w), NEW v, NEW n, NEW g, NEW parent, NEW child,
         IsAdded(w, v, n, g, parent, child)
  PROVE  /\ IsHome(v) /\ n \notin Defined(w) /\ g # n /\ Defined(v) = Defined(w) \cup {n}
         /\ v.graphOf[n] = g /\ \A m \in Defined(w) : v.graphOf[m] = w.graphOf[m]
<1>1. /\ n \notin Defined(w) /\ n \in Operations /\ n # Placeholder /\ n # Root
      /\ g \in Graphs /\ g \in {Root} \cup Defined(w)
      /\ v.children = [w.children EXCEPT ![g] = @ \cup {n}]
      /\ Defined(v) = Defined(w) \cup {n}
      /\ v.graphOf = [x \in HasMetadata(w) \cup {n} |-> IF x = n THEN g ELSE w.graphOf[x]]
  BY Ids DEF IsAdded, AddsNode
<1>2. /\ DOMAIN w.children = Graphs
      /\ Defined(w) \subseteq HasMetadata(w) /\ \A m \in HasMetadata(w) : w.graphOf[m] \in Graphs
  BY GraphsAreNamed
<1>3. v.graphOf[n] = g /\ \A m \in Defined(w) : v.graphOf[m] = w.graphOf[m]
  BY <1>1, <1>2
<1>4. \A h \in Graphs : w.children[h] \subseteq v.children[h]
  BY <1>1, <1>2
<1>5. n \in v.children[g]
  BY <1>1, <1>2
<1>6. \A m \in Defined(v) :
        m \in v.children[v.graphOf[m]] /\ v.graphOf[m] \in {Root} \cup Defined(v)
  BY <1>1, <1>2, <1>3, <1>4, <1>5 DEF IsHome
<1> QED BY <1>1, <1>3, <1>6 DEF IsHome

LEMMA AddedTree ==
  ASSUME NEW w, CanvasState(w), IsTree(w), NEW v, NEW n, NEW g, NEW parent, NEW child,
         IsAdded(w, v, n, g, parent, child)
  PROVE  IsTree(v)
<1>1. /\ IsHome(w) /\ IsHome(v)
      /\ n \notin Defined(w) /\ g # n /\ Defined(v) = Defined(w) \cup {n}
      /\ v.graphOf[n] = g /\ \A m \in Defined(w) : v.graphOf[m] = w.graphOf[m]
  BY AddedHome DEF IsTree
<1>2. n # Root
  BY Ids DEF IsAdded, AddsNode
<1> SUFFICES ASSUME NEW U \in SUBSET Defined(v), U # {} PROVE \E m \in U : v.graphOf[m] \notin U
  BY <1>1 DEF IsTree
<1>3. CASE U = {n}
  BY <1>1, <1>3
<1>4. CASE U # {n}
  <2> DEFINE V == U \ {n}
  <2>1. V \in SUBSET Defined(w) /\ V # {}
    BY <1>1, <1>4
  <2> HIDE DEF V
  <2>2. PICK m \in V : w.graphOf[m] \notin V
    BY <2>1 DEF IsTree
  <2>3. w.graphOf[m] # n
    BY <1>1, <1>2, <2>1, <2>2 DEF IsHome
  <2> QED BY <1>1, <2>1, <2>2, <2>3 DEF V
<1> QED BY <1>3, <1>4

(* When one goes that nothing is drawn in. *)
LEMMA RemovedHome ==
  ASSUME NEW w, CanvasState(w), IsHome(w), NEW v, NEW n, NEW g, IsRemoved(w, v, n, g),
         \A m \in Defined(w) : w.graphOf[m] # n
  PROVE  /\ IsHome(v) /\ Defined(v) = Defined(w) \ {n}
         /\ \A m \in Defined(v) : v.graphOf[m] = w.graphOf[m]
<1>1. /\ g \in Graphs /\ n # Root
      /\ v.children = [c \in Graphs |-> IF c = n THEN {}
                                    ELSE IF c = g THEN w.children[g] \ {n} ELSE w.children[c]]
      /\ Defined(v) = Defined(w) \ {n}
      /\ v.graphOf = [m \in HasMetadata(w) \ {n} |-> w.graphOf[m]]
  BY Ids DEF IsRemoved, RemovesNode
<1>2. Defined(w) \subseteq HasMetadata(w) /\ \A m \in HasMetadata(w) : w.graphOf[m] \in Graphs
  BY GraphsAreNamed
<1>3. \A m \in Defined(v) : m \in Defined(w) /\ v.graphOf[m] = w.graphOf[m] /\ m # n
                            /\ w.graphOf[m] \in Graphs /\ w.graphOf[m] # n
  BY <1>1, <1>2
<1>4. \A h \in Graphs \ {n} : w.children[h] \ {n} \subseteq v.children[h]
  BY <1>1
<1>5. \A m \in Defined(v) :
        m \in v.children[v.graphOf[m]] /\ v.graphOf[m] \in {Root} \cup Defined(v)
  BY <1>1, <1>3, <1>4 DEF IsHome
<1> QED BY <1>1, <1>3, <1>5 DEF IsHome

LEMMA RemovedTree ==
  ASSUME NEW w, CanvasState(w), IsTree(w), NEW v, NEW n, NEW g, IsRemoved(w, v, n, g),
         \A m \in Defined(w) : w.graphOf[m] # n
  PROVE  IsTree(v)
<1>1. /\ IsHome(w) /\ IsHome(v) /\ Defined(v) = Defined(w) \ {n}
      /\ \A m \in Defined(v) : v.graphOf[m] = w.graphOf[m]
  BY RemovedHome DEF IsTree
<1> QED BY <1>1 DEF IsTree

(* When one is put into another graph. *)
LEMMA MovedHome ==
  ASSUME NEW w, CanvasState(w), IsHome(w), NEW v, NEW D, NEW n, NEW old, NEW new,
         NEW parent, NEW child, IsMoved(w, v, D, n, old, new, parent, child)
  PROVE  /\ IsHome(v) /\ Defined(v) = Defined(w)
         /\ n \in Defined(w) /\ n # Root /\ w.graphOf[n] = old
         /\ \A m \in Defined(w) : w.graphOf[m] \in Graphs
         /\ v.graphOf[n] = new /\ \A m \in Defined(w) \ {n} : v.graphOf[m] = w.graphOf[m]
<1>1. /\ old \in Graphs /\ n \in w.children[old] /\ n \in Actions \cup Scopes
      /\ new \in Graphs /\ new \in {Root} \cup Defined(w) /\ n # new
      /\ v.children = [[w.children EXCEPT ![old] = @ \ {n}] EXCEPT ![new] = @ \cup {n}]
      /\ Defined(v) = Defined(w)
      /\ v.graphOf = [w.graphOf EXCEPT ![n] = new]
  BY DEF IsMoved, MovesNode
<1>2. n # Placeholder /\ n # Root
  BY <1>1, Ids
<1>3. /\ DOMAIN w.children = Graphs /\ n \in Defined(w) /\ w.graphOf[n] = old
      /\ Defined(w) \subseteq HasMetadata(w) /\ \A m \in HasMetadata(w) : w.graphOf[m] \in Graphs
  BY <1>1, <1>2, CanvasHasParts, GraphsAreNamed
<1>4. v.graphOf[n] = new /\ \A m \in Defined(w) \ {n} : v.graphOf[m] = w.graphOf[m]
  <2>1. DOMAIN w.graphOf = HasMetadata(w)
    BY GraphsAreNamed
  <2> QED BY <1>1, <1>3, <2>1
<1>5. n \in v.children[new] /\ \A h \in Graphs : w.children[h] \ {n} \subseteq v.children[h]
  BY <1>1, <1>3
<1>6. \A m \in Defined(v) :
        m \in v.children[v.graphOf[m]] /\ v.graphOf[m] \in {Root} \cup Defined(v)
  BY <1>1, <1>3, <1>4, <1>5 DEF IsHome
<1> QED BY <1>1, <1>2, <1>3, <1>4, <1>6 DEF IsHome

(* A scope is put into the root graph only. *)
LEMMA MovedTree ==
  ASSUME NEW w, CanvasState(w), IsTree(w), NEW v, NEW D, NEW n, NEW old, NEW new,
         NEW parent, NEW child, IsMoved(w, v, D, n, old, new, parent, child),
         n \in Scopes => new \in {Root, old}
  PROVE  IsTree(v)
<1>1. /\ IsHome(w) /\ IsHome(v) /\ Defined(v) = Defined(w)
      /\ n \in Defined(w) /\ n # Root /\ w.graphOf[n] = old
      /\ \A m \in Defined(w) : w.graphOf[m] \in Graphs
      /\ v.graphOf[n] = new /\ \A m \in Defined(w) \ {n} : v.graphOf[m] = w.graphOf[m]
  BY MovedHome DEF IsTree
<1>2. n # new
  BY DEF IsMoved
<1> SUFFICES ASSUME NEW U \in SUBSET Defined(v), U # {} PROVE \E m \in U : v.graphOf[m] \notin U
  BY <1>1 DEF IsTree
<1>3. PICK m \in U : w.graphOf[m] \notin U
  BY <1>1 DEF IsTree
<1>4. CASE n \notin U \/ new = old
  BY <1>1, <1>3, <1>4
<1>5. CASE n \in U /\ new = Root
  <2>1. Root \notin U
    BY <1>1, CanvasHasParts, Ids
  <2> QED BY <1>1, <1>5, <2>1
<1>6. CASE n \in U /\ n \notin Scopes
  <2>1. n \notin Graphs
    BY <1>1, <1>6 DEF Graphs
  <2>2. CASE U = {n}
    BY <1>1, <1>2, <1>6, <2>2
  <2>3. CASE U # {n}
    <3> DEFINE V == U \ {n}
    <3>1. V \in SUBSET Defined(w) /\ V # {}
      BY <1>1, <1>6, <2>3
    <3> HIDE DEF V
    <3>2. PICK k \in V : w.graphOf[k] \notin V
      BY <3>1 DEF IsTree
    <3>3. w.graphOf[k] # n
      BY <1>1, <2>1, <3>1, <3>2
    <3> QED BY <1>1, <3>2, <3>3 DEF V
  <2> QED BY <2>2, <2>3
<1> QED BY <1>4, <1>5, <1>6

(* And when the first node of the root graph is another, for nothing is    *)
(* drawn in a trigger or in the placeholder.                               *)
LEMMA FirstHome ==
  ASSUME NEW w, CanvasState(w), IsHome(w), NEW v, CanvasState(v), NEW s, NEW r,
         PutsFirst(w, v, s, r), s \in Triggers \cup {Placeholder}, r \in Triggers \cup {Placeholder},
         Defined(v) \subseteq Defined(w) \cup ({r} \ {Placeholder}),
         Defined(w) \subseteq Defined(v) \cup {s}
  PROVE  /\ IsHome(v) /\ Root \notin Defined(v)
         /\ \A m \in Defined(v) : IF m = r THEN v.graphOf[m] = Root
                                   ELSE m \in Defined(w) /\ v.graphOf[m] = w.graphOf[m]
<1>1. /\ s \notin Graphs /\ r \notin Graphs /\ Root \in Graphs /\ Root \notin Defined(w)
  BY CanvasHasParts, IdsAreDistinct, Ids DEF Graphs
<1>2. /\ DOMAIN w.children = Graphs
      /\ Defined(w) \subseteq HasMetadata(w) /\ \A m \in HasMetadata(w) : w.graphOf[m] \in Graphs
      /\ Defined(v) \subseteq HasMetadata(v)
      /\ Root \notin Defined(v)
  BY <1>1, GraphsAreNamed, Ids
<1>3. /\ v.children = [w.children EXCEPT ![Root] = (@ \ {s}) \cup {r}]
      /\ HasMetadata(v) = (HasMetadata(w) \ {s}) \cup {r}
      /\ \A n \in HasMetadata(v) : v.graphOf[n] = IF n = r THEN Root ELSE w.graphOf[n]
  BY DEF PutsFirst
<1>4. r \in v.children[Root]
  BY <1>1, <1>2, <1>3
<1>5. \A m \in Defined(v) : IF m = r THEN v.graphOf[m] = Root
                            ELSE m \in Defined(w) /\ v.graphOf[m] = w.graphOf[m] /\ m # s
  BY <1>2, <1>3
<1>6. \A m \in Defined(v) :
        m \in v.children[v.graphOf[m]] /\ v.graphOf[m] \in {Root} \cup Defined(v)
  <2> SUFFICES ASSUME NEW m \in Defined(v)
               PROVE  m \in v.children[v.graphOf[m]] /\ v.graphOf[m] \in {Root} \cup Defined(v)
    OBVIOUS
  <2>1. CASE m = r
    BY <1>4, <1>5, <2>1
  <2>2. CASE m # r
    <3>1. /\ m \in Defined(w) /\ v.graphOf[m] = w.graphOf[m] /\ m # s
          /\ m \in w.children[w.graphOf[m]] /\ w.graphOf[m] \in {Root} \cup Defined(w)
          /\ w.graphOf[m] \in Graphs
      BY <1>2, <1>5, <2>2 DEF IsHome
    <3>2. w.graphOf[m] # s
      BY <1>1, <3>1
    <3>3. m \in v.children[w.graphOf[m]]
      BY <1>2, <1>3, <3>1
    <3> QED BY <3>1, <3>2, <3>3
  <2> QED BY <2>1, <2>2
<1> QED BY <1>2, <1>5, <1>6 DEF IsHome

LEMMA FirstTree ==
  ASSUME NEW w, CanvasState(w), IsTree(w), NEW v, CanvasState(v), NEW s, NEW r,
         PutsFirst(w, v, s, r), s \in Triggers \cup {Placeholder}, r \in Triggers \cup {Placeholder},
         Defined(v) \subseteq Defined(w) \cup ({r} \ {Placeholder}),
         Defined(w) \subseteq Defined(v) \cup {s}
  PROVE  IsTree(v)
<1>1. /\ IsHome(w) /\ IsHome(v) /\ Root \notin Defined(v)
      /\ \A m \in Defined(v) : IF m = r THEN v.graphOf[m] = Root
                                ELSE m \in Defined(w) /\ v.graphOf[m] = w.graphOf[m]
  BY FirstHome DEF IsTree
<1> SUFFICES ASSUME NEW U \in SUBSET Defined(v), U # {} PROVE \E m \in U : v.graphOf[m] \notin U
  BY <1>1 DEF IsTree
<1>2. CASE r \in U
  BY <1>1, <1>2
<1>3. CASE r \notin U
  <2>1. U \in SUBSET Defined(w)
    BY <1>1, <1>3
  <2>2. PICK m \in U : w.graphOf[m] \notin U
    BY <2>1 DEF IsTree
  <2> QED BY <1>1, <1>3, <2>2
<1> QED BY <1>2, <1>3

(* Every edit of one operation leaves all at home. *)
LEMMA EditKeepsHome ==
  ASSUME NEW w, CanvasState(w), IsHome(w), NEW v, CanvasState(v), NEW n \in Operations,
         IsEdit(w, v, n)
  PROVE  IsHome(v)
<1>1. CASE IsUnchanged(w, v)
  <2>1. v.children = w.children /\ v.graphOf = w.graphOf /\ Defined(v) = Defined(w)
    BY <1>1 DEF IsUnchanged
  <2> QED BY <2>1 DEF IsHome
<1>2. ASSUME NEW g, NEW parent, NEW child, IsAdded(w, v, n, g, parent, child) PROVE IsHome(v)
  BY <1>2, AddedHome
<1>3. ASSUME n \in Triggers, PutsFirst(w, v, Placeholder, n), Defined(v) = Defined(w) \cup {n}
      PROVE IsHome(v)
  <2>1. n # Placeholder
    BY Ids
  <2> QED BY <1>3, <2>1, FirstHome
<1>4. ASSUME n \in Triggers, PutsFirst(w, v, n, Placeholder), Defined(v) = Defined(w) \ {n}
      PROVE IsHome(v)
  BY <1>4, FirstHome
<1>5. ASSUME NEW g, n \in Actions, IsRemoved(w, v, n, g) PROVE IsHome(v)
  <2>1. \A m \in Defined(w) : w.graphOf[m] \in Graphs
    BY GraphsAreNamed
  <2>2. n \notin Graphs
    BY <1>5, IdsAreDistinct, Ids DEF Graphs
  <2> QED BY <1>5, <2>1, <2>2, RemovedHome
<1>6. ASSUME NEW D, NEW old, NEW new, NEW parent, NEW child,
             IsMoved(w, v, D, n, old, new, parent, child)
      PROVE IsHome(v)
  BY <1>6, MovedHome
<1>7. ASSUME NEW s, IsWrapped(w, v, n, s) PROVE IsHome(v)
  <2>1. PICK u, h, p, D :
          /\ CanvasState(u)
          /\ IsAdded(w, u, s, h, p, n)
          /\ IsMoved(u, v, D, n, h, s, Heading(s), NoNode)
    BY <1>7 DEF IsWrapped
  <2>2. IsHome(u)
    BY <2>1, AddedHome
  <2> QED BY <2>1, <2>2, MovedHome
<1> QED BY <1>1, <1>2, <1>3, <1>4, <1>5, <1>6, <1>7 DEF IsEdit

(* No edit of one operation breaks the tree. *)
LEMMA EditKeepsTree ==
  ASSUME NEW w, CanvasState(w), IsTree(w), NEW v, CanvasState(v), NEW n \in Operations,
         IsEdit(w, v, n), "nest" \in Edits => OneScope
  PROVE  IsTree(v)
<1>1. CASE IsUnchanged(w, v)
  <2>1. v.children = w.children /\ v.graphOf = w.graphOf /\ Defined(v) = Defined(w)
    BY <1>1 DEF IsUnchanged
  <2> QED BY <2>1 DEF IsTree, IsHome
<1>2. ASSUME NEW g, NEW parent, NEW child, IsAdded(w, v, n, g, parent, child) PROVE IsTree(v)
  BY <1>2, AddedTree
<1>3. ASSUME n \in Triggers, PutsFirst(w, v, Placeholder, n), Defined(v) = Defined(w) \cup {n}
      PROVE IsTree(v)
  <2>1. n # Placeholder
    BY Ids
  <2> QED BY <1>3, <2>1, FirstTree
<1>4. ASSUME n \in Triggers, PutsFirst(w, v, n, Placeholder), Defined(v) = Defined(w) \ {n}
      PROVE IsTree(v)
  BY <1>4, FirstTree
<1>5. ASSUME NEW g, n \in Actions, IsRemoved(w, v, n, g) PROVE IsTree(v)
  <2>1. \A m \in Defined(w) : w.graphOf[m] \in Graphs
    BY GraphsAreNamed
  <2>2. n \notin Graphs
    BY <1>5, IdsAreDistinct, Ids DEF Graphs
  <2> QED BY <1>5, <2>1, <2>2, RemovedTree
<1>6. ASSUME NEW D, NEW old, NEW new, NEW parent, NEW child,
             IsMoved(w, v, D, n, old, new, parent, child),
             n \in Scopes => "nest" \in Edits \/ new \in {Root, old}
      PROVE IsTree(v)
  <2>1. n \in Scopes /\ OneScope => new = Root
    BY <1>6 DEF IsMoved, OneScope, Graphs
  <2> QED BY <1>6, <2>1, MovedTree
<1>7. ASSUME NEW s, IsWrapped(w, v, n, s) PROVE IsTree(v)
  <2>1. PICK u, h, p, D :
          /\ CanvasState(u)
          /\ IsAdded(w, u, s, h, p, n)
          /\ IsMoved(u, v, D, n, h, s, Heading(s), NoNode)
    BY <1>7 DEF IsWrapped
  <2>2. IsTree(u)
    BY <2>1, AddedTree
  <2>3. n \notin Scopes
    BY <1>7, IdsAreDistinct DEF IsWrapped
  <2> QED BY <2>1, <2>2, <2>3, MovedTree
<1> QED BY <1>1, <1>2, <1>3, <1>4, <1>5, <1>6, <1>7 DEF IsEdit

(* In a tree everything is drawn inside the root graph. *)
LEMMA TreeIsDrawn ==
  ASSUME NEW w, CanvasState(w), IsTree(w)
  PROVE  IsAllDrawn(w)
<1>1. IsState(w) /\ Defined(w) \subseteq HasMetadata(w)
  BY CanvasHasParts, Ids
<1> QED BY <1>1, AllIsDrawn DEF IsTree, IsHome

(* What is on the canvas is in a graph that is. *)
LEMMA CanvasHoldsIts ==
  ASSUME NEW w, CanvasState(w), NEW n \in Contents(w, Root)
  PROVE  OnCanvas(w, w.graphOf[n])
<1> DEFINE A == {m \in Contents(w, Root) : OnCanvas(w, w.graphOf[m])}
           T == A \cup {Root, Placeholder}
<1>1. /\ IsState(w) /\ Root \in Graphs /\ Root \notin Operations /\ Placeholder \notin Graphs
  BY CanvasHasParts, Ids DEF Graphs
<1>2. /\ Contents(w, Root) \subseteq Operations
      /\ \A m \in (Contents(w, Root) \cup {Root}) \cap Graphs :
           w.children[m] \cap Operations \subseteq Contents(w, Root)
  BY <1>1, ContentsAreClosed
<1>3. ASSUME NEW m \in T \cap Graphs, NEW c \in w.children[m] PROVE c \in T
  <2>1. m \in Graphs /\ (m = Root \/ m \in Contents(w, Root)) /\ OnCanvas(w, m)
    BY <1>1, <1>3 DEF OnCanvas
  <2>2. w.graphOf[c] = m /\ c \in Operations \cup {Placeholder}
    BY <2>1, CanvasHasParts
  <2> QED BY <1>2, <2>1, <2>2
<1> HIDE DEF A
<1>4. Contents(w, Root) \subseteq T
  BY <1>1, <1>3, ContentsAreWithin
<1>5. n \in Operations
  BY <1>2
<1>6. n \in A
  BY <1>1, <1>4, <1>5, Ids
<1> QED BY <1>6 DEF A

(* The contents of a scope of the canvas hold whatever is drawn in their   *)
(* graphs, and are on the canvas.                                          *)
LEMMA ContentsAreWhole ==
  ASSUME NEW w, CanvasState(w), IsHome(w), NEW s \in Scopes, NEW g \in Graphs,
         OnCanvas(w, g), s \in w.children[g]
  PROVE  DoomIsWhole(w, Contents(w, s))
<1>1. IsState(w) /\ s \in Operations
  BY CanvasHasParts, Ids
<1>2. DoomIsClosed(w, Contents(w, s))
  <2> SUFFICES ASSUME NEW n \in Defined(w), w.graphOf[n] \in Contents(w, s)
               PROVE  n \in Contents(w, s)
    BY DEF DoomIsClosed
  <2>1. n \in Operations /\ w.graphOf[n] \in Graphs
    BY GraphsAreNamed
  <2>2. n \in w.children[w.graphOf[n]]
    BY DEF IsHome
  <2> QED BY <1>1, <2>1, <2>2, ContentsAreClosed
<1>3. Contents(w, s) \subseteq Contents(w, Root)
  <2> DEFINE T == Contents(w, Root) \cup {Placeholder}
  <2>1. /\ Contents(w, Root) \subseteq Operations /\ Contents(w, s) \subseteq Operations
        /\ \A m \in (Contents(w, Root) \cup {Root}) \cap Graphs :
             w.children[m] \cap Operations \subseteq Contents(w, Root)
    BY <1>1, ContentsAreClosed
  <2>2. s \in T
    BY <1>1, <2>1 DEF OnCanvas
  <2>3. \A m \in T \cap Graphs : w.children[m] \subseteq T
    <3>1. Placeholder \notin Graphs /\ \A m \in Graphs : w.children[m] \subseteq Operations \cup {Placeholder}
      BY CanvasHasParts, Ids DEF Graphs
    <3> QED BY <2>1, <3>1
  <2> HIDE DEF T
  <2>4. Contents(w, s) \subseteq T
    BY <1>1, <2>2, <2>3, ContentsAreWithin
  <2> QED BY <2>1, <2>4, Ids DEF T
<1> QED BY <1>2, <1>3 DEF DoomIsWhole, DoomIsDrawn

(* When a node goes that nothing is drawn in, all others stay.             *)
LEMMA OthersStayOnCanvas ==
  ASSUME NEW w, CanvasState(w), NEW v, CanvasState(v), NEW n, NEW g, IsRemoved(w, v, n, g),
         \A m \in Defined(w) : w.graphOf[m] # n
  PROVE  Contents(w, Root) \subseteq Contents(v, Root) \cup {n}
<1> DEFINE T == Contents(v, Root) \cup {n, Root, Placeholder}
<1>1. /\ g \in Graphs /\ n \in Actions \cup Scopes /\ n # Root
      /\ v.children = [c \in Graphs |-> IF c = n THEN {}
                                    ELSE IF c = g THEN w.children[g] \ {n} ELSE w.children[c]]
  BY Ids DEF IsRemoved, RemovesNode
<1>2. IsState(w) /\ IsState(v) /\ Root \in Graphs /\ Root \notin Operations /\ Placeholder \notin Graphs
  BY CanvasHasParts, Ids DEF Graphs
<1>3. \A m \in (Contents(v, Root) \cup {Root}) \cap Graphs :
        v.children[m] \cap Operations \subseteq Contents(v, Root)
  BY <1>2, ContentsAreClosed
<1>4. ASSUME NEW m \in T \cap Graphs, NEW c \in w.children[m] PROVE c \in T
  <2>1. c \in Operations \cup {Placeholder} /\ w.graphOf[c] = m /\ (c # Placeholder => c \in Defined(w))
    BY CanvasHasParts
  <2>2. CASE c \in {Placeholder, n}
    BY <2>2
  <2>3. CASE c \notin {Placeholder, n}
    <3>1. m # n
      BY <2>1, <2>3
    <3>2. c \in v.children[m] /\ m \in Contents(v, Root) \cup {Root}
      BY <1>1, <1>2, <1>4, <2>3, <3>1
    <3> QED BY <1>3, <2>1, <2>3, <3>2
  <2> QED BY <2>2, <2>3
<1>5. Contents(w, Root) \subseteq T /\ Contents(w, Root) \subseteq Operations
  <2>1. \A m \in T \cap Graphs : w.children[m] \subseteq T
    BY <1>4
  <2>2. Root \in T
    OBVIOUS
  <2> HIDE DEF T
  <2>3. Contents(w, Root) \subseteq T
    BY <1>2, <2>1, <2>2, ContentsAreWithin
  <2> QED BY <1>2, <2>3, ContentsAreClosed
<1> QED BY <1>2, <1>5, Ids

(* What goes next of a scope holds nothing any more. *)
LEMMA EmptyWhenRemoved ==
  ASSUME CanvasState(wf), IsHome(wf), DoomIsWhole(wf, doomed), NEW n \in Operations, IsDeleteNext(n)
  PROVE  \A m \in Defined(wf) : wf.graphOf[m] # n
<1> SUFFICES ASSUME NEW m \in Defined(wf), wf.graphOf[m] = n PROVE FALSE
  OBVIOUS
<1>1. n \in doomed /\ (Contents(wf, n) \cap doomed) \subseteq {n} /\ n \in Actions \cup Scopes
  BY DEF IsDeleteNext
<1>2. m \in doomed
  BY <1>1 DEF DoomIsWhole, DoomIsClosed
<1>3. IsState(wf) /\ m \in Operations /\ n \in Graphs
  BY CanvasHasParts, GraphsAreNamed, Ids
<1>4. m \in wf.children[n]
  BY DEF IsHome
<1>5. m \in Contents(wf, n)
  BY <1>3, <1>4, ContentsAreClosed
<1>6. m = n
  BY <1>1, <1>2, <1>5
<1>7. n \in Scopes
  BY <1>3, Ids DEF Graphs
<1> QED BY <1>4, <1>6, <1>7 DEF CanvasState

(* Every step leaves all at home, and what is to go whole. *)
LEMMA StepKeepsHome ==
  ASSUME CanvasState(wf), IsHome(wf), DoomIsWhole(wf, doomed), CanvasState(wf'),
         NEW n \in Operations, IsStep(n)
  PROVE  IsHome(wf') /\ DoomIsWhole(wf', doomed')
<1>1. CASE IsEdit(wf, wf', n) /\ doomed' = {}
  BY <1>1, EditKeepsHome DEF DoomIsWhole, DoomIsClosed, DoomIsDrawn
<1>2. ASSUME wf' = wf, NEW s \in Scopes, NEW g \in Graphs,
             OnCanvas(wf, g), s \in wf.children[g], doomed' = Contents(wf, s)
      PROVE  IsHome(wf') /\ DoomIsWhole(wf', doomed')
  <2>1. DoomIsWhole(wf, Contents(wf, s))
    BY <1>2, ContentsAreWhole
  <2> QED BY <1>2, <2>1
<1>3. ASSUME wf' = wf, ~OnCanvas(wf, NodeGraphId(wf, n)), IsDeleteNext(n)
      PROVE  IsHome(wf') /\ DoomIsWhole(wf', doomed')
  <2>1. n \in doomed /\ doomed' = doomed \ {n}
    BY <1>3 DEF IsDeleteNext
  <2>2. n \notin Defined(wf)
    <3> SUFFICES ASSUME n \in Defined(wf) PROVE FALSE
      OBVIOUS
    <3>1. NodeGraphId(wf, n) = wf.graphOf[n]
      BY GraphsAreNamed DEF NodeGraphId
    <3>2. n \in Contents(wf, Root)
      BY <2>1 DEF DoomIsWhole, DoomIsDrawn
    <3> QED BY <1>3, <3>1, <3>2, CanvasHoldsIts
  <2>3. DoomIsWhole(wf, doomed \ {n})
    BY <2>2 DEF DoomIsWhole, DoomIsClosed, DoomIsDrawn
  <2> QED BY <1>3, <2>1, <2>3
<1>4. ASSUME NEW g, IsRemoved(wf, wf', n, g), IsDeleteNext(n)
      PROVE  IsHome(wf') /\ DoomIsWhole(wf', doomed')
  <2>1. n \in doomed /\ doomed' = doomed \ {n}
    BY <1>4 DEF IsDeleteNext
  <2>2. \A m \in Defined(wf) : wf.graphOf[m] # n
    BY <1>4, EmptyWhenRemoved
  <2>3. /\ IsHome(wf') /\ Defined(wf') = Defined(wf) \ {n}
        /\ \A m \in Defined(wf') : wf'.graphOf[m] = wf.graphOf[m]
    BY <1>4, <2>2, RemovedHome
  <2>4. DoomIsClosed(wf', doomed \ {n})
    BY <2>3 DEF DoomIsWhole, DoomIsClosed
  <2>5. DoomIsDrawn(wf', doomed \ {n})
    <3>1. Contents(wf, Root) \subseteq Contents(wf', Root) \cup {n}
      BY <1>4, <2>2, OthersStayOnCanvas
    <3> QED BY <2>3, <3>1 DEF DoomIsWhole, DoomIsDrawn
  <2> QED BY <2>1, <2>3, <2>4, <2>5 DEF DoomIsWhole
<1> QED BY <1>1, <1>2, <1>3, <1>4 DEF IsStep, IsDeleteNext

(* And the tree, unless scopes are moved into one another. *)
LEMMA StepKeepsTree ==
  ASSUME CanvasState(wf), IsTree(wf), DoomIsWhole(wf, doomed), CanvasState(wf'),
         NEW n \in Operations, IsStep(n), "nest" \in Edits => OneScope
  PROVE  IsTree(wf')
<1>1. CASE IsEdit(wf, wf', n)
  BY <1>1, EditKeepsTree
<1>2. CASE wf' = wf
  BY <1>2
<1>3. ASSUME NEW g, IsRemoved(wf, wf', n, g), IsDeleteNext(n) PROVE IsTree(wf')
  BY <1>3, EmptyWhenRemoved, RemovedTree DEF IsTree
<1> QED BY <1>1, <1>2, <1>3 DEF IsStep, IsDeleteNext

(* A sound definition is opened as a tree. *)
LEMMA OpenedIsTree ==
  ASSUME NEW d \in Definitions, IsSound(d), NEW w, w = Deserialize(d)
  PROVE  IsTree(w)
<1>1. IsOpened(d, w) /\ IsWellFormed(w) /\ IsAllDrawn(w)
  BY DefinitionIsOpened, DeserializeWellFormed DEF IsSound
<1>2. ASSUME NEW n \in Defined(w)
      PROVE  n \in w.children[w.graphOf[n]] /\ w.graphOf[n] \in {Root} \cup Defined(w)
  <2>1. CASE n \in DOMAIN d.graphOf
    <3>1. /\ w.graphOf[n] = d.graphOf[n] /\ d.graphOf[n] \in {Root} \cup (Scopes \cap DOMAIN d.graphOf)
          /\ n \in MembersOf(d, d.graphOf[n])
      BY <1>1, <2>1, DefinitionHasParts DEF IsOpened, MembersOf
    <3>2. w.children[Root] = MembersOf(d, Root) \cup ({d.trigger} \ {NoNode})
          /\ \A s \in Scopes : w.children[s] = MembersOf(d, s)
          /\ DOMAIN d.graphOf \subseteq Defined(w)
      BY <1>1 DEF IsOpened
    <3> QED BY <3>1, <3>2
  <2>2. CASE n = d.trigger /\ n # NoNode
    BY <1>1, <2>2 DEF IsOpened
  <2> QED BY <1>1, <2>1, <2>2 DEF IsOpened
<1>3. \A U \in SUBSET Defined(w) : U # {} => \E n \in U : w.graphOf[n] \notin U
  BY <1>1, GraphsEndAtRoot
<1> QED BY <1>2, <1>3 DEF IsTree, IsHome

-----------------------------------------------------------------------------
(* The roots of the scopes.                                                *)

(* isRoot marks the nodes of C that hang from H in the edges E. *)
RootsHang(R, E, C, H) == \A n \in C : n \in R <=> <<H, n>> \in E

Roots(w) == \A s \in Scopes : RootsHang(w.isRoot, w.edges[s], w.children[s], Heading(s))

(* When n comes below parent, the heading or not. *)
LEMMA RootsWith ==
  ASSUME NEW F, NEW E, NEW n, IsWithout(F, E, n), NEW H, n # H, NEW C, NEW parent,
         \A k \in C : OneSource(E, k), \A p : <<p, n>> \in E <=> p = parent,
         NEW R, n \notin R, RootsHang(R, F, C \ {n}, H),
         NEW S, S = IF parent = H THEN {x \in R \cup {n} : <<n, x>> \notin E} ELSE R
  PROVE  RootsHang(S, E, C, H)
<1> SUFFICES ASSUME NEW k \in C PROVE k \in S <=> <<H, k>> \in E
  BY DEF RootsHang
<1>1. <<n, n>> \notin E
  BY DEF IsWithout
<1>2. CASE k = n
  BY <1>1, <1>2
<1>3. CASE k # n
  <2>1. k \in R <=> <<H, k>> \in E \/ (<<H, n>> \in E /\ <<n, k>> \in E)
    BY <1>3 DEF RootsHang, IsWithout
  <2>2. ~(<<H, k>> \in E /\ <<n, k>> \in E)
    BY DEF OneSource
  <2>3. CASE parent = H
    <3>1. k \in S <=> k \in R /\ <<n, k>> \notin E
      BY <1>3, <2>3
    <3>2. <<H, n>> \in E
      BY <2>3
    <3> QED BY <2>1, <2>2, <3>1, <3>2
  <2>4. CASE parent # H
    <3>1. k \in S <=> k \in R
      BY <2>4
    <3>2. <<H, n>> \notin E
      BY <2>4
    <3> QED BY <2>1, <3>1, <3>2
  <2> QED BY <2>3, <2>4
<1> QED BY <1>2, <1>3

(* When n goes, and leaves its place below the heading to those after it. *)
LEMMA RootsWithout ==
  ASSUME NEW E, NEW F, NEW n, IsWithout(F, E, n), NEW H, n # H, NEW C, n \in C,
         NEW R, RootsHang(R, E, C, H),
         NEW S, \A k \in C \ {n} : k \in S <=> k \in R \/ (n \in R /\ <<n, k>> \in E)
  PROVE  RootsHang(S, F, C \ {n}, H)
<1> SUFFICES ASSUME NEW k \in C \ {n} PROVE k \in S <=> <<H, k>> \in F
  BY DEF RootsHang
<1>1. <<H, k>> \in F <=> <<H, k>> \in E \/ (<<H, n>> \in E /\ <<n, k>> \in E)
  BY DEF IsWithout
<1>2. (k \in R <=> <<H, k>> \in E) /\ (n \in R <=> <<H, n>> \in E)
  BY DEF RootsHang
<1> QED BY <1>1, <1>2

(* What scopes have: a heading that is no operation, and cards of their    *)
(* own that one edge enters.                                               *)
LEMMA ScopeHasParts ==
  ASSUME NEW w, CanvasState(w), NEW s \in Scopes
  PROVE  /\ s \in Graphs /\ s # Root /\ Heading(s) \notin Operations /\ Heading(s) # NoNode
         /\ w.children[s] \subseteq (Actions \cup Scopes) \ {s}
         /\ w.children[s] \cap Footers = {}
         /\ \A k \in w.children[s] : w.graphOf[k] = s /\ k \in HasMetadata(w)
                                     /\ OneSource(w.edges[s], k)
         /\ \A g \in Graphs : \A p, k : <<p, k>> \in w.edges[g] /\ k \in w.children[s] => g = s
<1>1. s \in Graphs /\ s # Root /\ Heading(s) \notin Operations /\ Heading(s) # NoNode
  BY CardIds, IdsAreDistinct DEF Graphs
<1>2. w.children[s] \subseteq (Actions \cup Scopes) \ {s} /\ SingleParents(w.edges[s])
  BY DEF CanvasState
<1>3. w.children[s] \cap Footers = {}
  BY <1>2, CardIds, Ids
<1>4. \A k \in w.children[s] : w.graphOf[k] = s /\ k \in HasMetadata(w) /\ OneSource(w.edges[s], k)
  BY <1>1, <1>2, <1>3, CanvasHasParts DEF SingleParents
<1>5. ASSUME NEW g \in Graphs, NEW p, NEW k, <<p, k>> \in w.edges[g], k \in w.children[s]
      PROVE  g = s
  <2>1. k \in w.children[g]
    BY <1>3, <1>5, CanvasHasParts
  <2> QED BY <1>4, <1>5, <2>1, CanvasHasParts
<1> QED BY <1>1, <1>2, <1>3, <1>4, <1>5

(* Who enters a node that was put below parent. *)
LEMMA HangsAre ==
  ASSUME NEW w, CanvasState(w), NEW s \in Scopes, NEW n \in w.children[s],
         NEW parent, parent # NoNode, HangsFrom(w.edges[s], n, parent)
  PROVE  \A p : <<p, n>> \in w.edges[s] <=> p = parent
<1>1. /\ s \in Graphs /\ s # Root
      /\ w.children[s] \subseteq Actions \cup Scopes
  BY ScopeHasParts
<1>2. n \in Cards(w, s) \ Start(w, s) /\ Heading(s) \in Start(w, s)
      /\ w.edges[s] \subseteq Ends \X Ends
  BY <1>1, CanvasHasParts DEF Start
<1>3. PICK T \in SUBSET (Footers \cap {Footer(s)}) :
        IsGraph(Links(w, s), Cards(w, s), T, Start(w, s))
  BY <1>1 DEF CanvasState, IsDrawn
<1>4. IsCanvas(w.edges[s], Cards(w, s) \cup T, Start(w, s))
  BY <1>3 DEF IsGraph, Links
<1>5. \E p : <<p, n>> \in w.edges[s]
  <2> DEFINE C == Cards(w, s) \cup T
             S == Start(w, s)
             E == w.edges[s]
  <2>1. n \in C \ S /\ IsCanvas(E, C, S) /\ Heading(s) \in S /\ E \subseteq Ends \X Ends
    BY <1>2, <1>4
  <2> HIDE DEF C, S, E
  <2>2. \E p \in C : <<p, n>> \in E /\ p # n
    BY <2>1, NodesAreEntered
  <2> QED BY <2>2 DEF E
<1> QED BY <1>5 DEF HangsFrom

(* The roots of the scopes, edit by edit: after an addition, *)
LEMMA AddedRoots ==
  ASSUME NEW w, CanvasState(w), Roots(w), NEW v, CanvasState(v), NEW n, NEW g, NEW parent, NEW child,
         IsAdded(w, v, n, g, parent, child), g \in Scopes => parent # NoNode
  PROVE  Roots(v)
<1>1. /\ n \in (Actions \cup Scopes) \ Defined(w) /\ g \in Graphs /\ g \in {Root} \cup Defined(w)
      /\ v.children = [w.children EXCEPT ![g] = @ \cup {n}]
      /\ v.isRoot = IF parent = Heading(g)
                    THEN {x \in w.isRoot \cup {n} : <<n, x>> \notin v.edges[g]} ELSE w.isRoot
      /\ \A h \in Graphs \ {g, n} : v.edges[h] = w.edges[h]
      /\ IsWithout(w.edges[g], v.edges[g], n)
      /\ HangsFrom(v.edges[g], n, parent)
  BY DEF IsAdded, AddsNode
<1>2. /\ DOMAIN w.children = Graphs /\ n # Root /\ n # g /\ n # Placeholder
      /\ n \in Operations
  BY <1>1, GraphsAreNamed, Ids
<1>3. n \notin HasMetadata(w) /\ n \notin w.isRoot
  <2>1. Defined(w) = HasMetadata(w) \ {Placeholder}
    BY <1>1, CanvasHasParts
  <2> QED BY <1>1, <1>2, <2>1 DEF CanvasState
<1> SUFFICES ASSUME NEW s \in Scopes
             PROVE  RootsHang(v.isRoot, v.edges[s], v.children[s], Heading(s))
  BY DEF Roots
<1>4. RootsHang(w.isRoot, w.edges[s], w.children[s], Heading(s)) /\ s \in Graphs
  BY ScopeHasParts DEF Roots
<1>5. CASE s = n
  <2>1. s \notin Defined(w) /\ v.children[s] = w.children[s]
    BY <1>1, <1>2, <1>4, <1>5
  <2>2. w.children[s] = {}
    BY <2>1 DEF CanvasState
  <2> QED BY <2>1, <2>2 DEF RootsHang
<1>6. CASE s = g
  <2>1. /\ v.children[s] = w.children[s] \cup {n} /\ parent # NoNode
        /\ n \notin w.children[s]
    BY <1>1, <1>2, <1>3, <1>6, ScopeHasParts
  <2>2. /\ \A p : <<p, n>> \in v.edges[s] <=> p = parent
        /\ n # Heading(s)
        /\ \A k \in v.children[s] : OneSource(v.edges[s], k)
    <3>1. n \in v.children[s] /\ HangsFrom(v.edges[s], n, parent)
      BY <1>1, <1>6, <2>1
    <3>2. \A p : <<p, n>> \in v.edges[s] <=> p = parent
      BY <2>1, <3>1, HangsAre
    <3>3. \A k \in v.children[s] : OneSource(v.edges[s], k)
      BY ScopeHasParts
    <3>4. n # Heading(s)
      BY <1>2, ScopeHasParts
    <3> QED BY <3>2, <3>3, <3>4
  <2>3. /\ IsWithout(w.edges[s], v.edges[s], n) /\ v.children[s] \ {n} = w.children[s]
        /\ v.isRoot = IF parent = Heading(s)
                      THEN {x \in w.isRoot \cup {n} : <<n, x>> \notin v.edges[s]} ELSE w.isRoot
    BY <1>1, <1>6, <2>1
  <2>4. RootsHang(w.isRoot, w.edges[s], v.children[s] \ {n}, Heading(s))
    BY <1>4, <2>3
  <2> QED BY <1>3, <2>2, <2>3, <2>4, RootsWith
<1>7. CASE s # g /\ s # n
  <2>1. v.children[s] = w.children[s] /\ v.edges[s] = w.edges[s]
    BY <1>1, <1>2, <1>4, <1>7
  <2>2. \A k \in v.children[s] : k # n /\ <<n, k>> \notin v.edges[g]
    <3>1. \A k \in w.children[s] : k # n
      BY <1>3, ScopeHasParts
    <3>2. \A k \in v.children[s] : <<n, k>> \notin v.edges[g]
      BY <1>1, <1>7, ScopeHasParts
    <3> QED BY <2>1, <3>1, <3>2
  <2>3. \A k \in v.children[s] : k \in v.isRoot <=> k \in w.isRoot
    BY <1>1, <2>2
  <2> QED BY <1>4, <2>1, <2>3 DEF RootsHang
<1> QED BY <1>5, <1>6, <1>7

(* after a deletion, *)
LEMMA RemovedRoots ==
  ASSUME NEW w, CanvasState(w), Roots(w), NEW v, NEW n, NEW g, IsRemoved(w, v, n, g)
  PROVE  Roots(v)
<1>1. /\ g \in Graphs /\ n \in w.children[g] /\ n \in Actions \cup Scopes /\ n \in Operations
      /\ v.children = [c \in Graphs |-> IF c = n THEN {}
                                    ELSE IF c = g THEN w.children[g] \ {n} ELSE w.children[c]]
      /\ v.isRoot = (w.isRoot \cup (IF n \in w.isRoot
                                    THEN {c \in HasMetadata(w) : <<n, c>> \in w.edges[g]} ELSE {}))
                    \ {n}
      /\ \A h \in Graphs \ {g, n} : v.edges[h] = w.edges[h]
      /\ IsWithout(v.edges[g], w.edges[g], n)
  BY Ids DEF IsRemoved, RemovesNode
<1>2. \A k \in HasMetadata(w) \ {n} :
        k \in v.isRoot <=> k \in w.isRoot \/ (n \in w.isRoot /\ <<n, k>> \in w.edges[g])
  BY <1>1
<1> SUFFICES ASSUME NEW s \in Scopes
             PROVE  RootsHang(v.isRoot, v.edges[s], v.children[s], Heading(s))
  BY DEF Roots
<1>3. /\ RootsHang(w.isRoot, w.edges[s], w.children[s], Heading(s)) /\ s \in Graphs
      /\ n # Heading(s) /\ w.children[s] \subseteq HasMetadata(w) /\ s \notin w.children[s]
  BY <1>1, ScopeHasParts DEF Roots
<1>4. CASE s = n
  <2>1. v.children[s] = {}
    BY <1>1, <1>3, <1>4
  <2> QED BY <2>1 DEF RootsHang
<1>5. CASE s = g
  <2>1. s # n /\ v.children[s] = w.children[s] \ {n} /\ n \in w.children[s]
    BY <1>1, <1>3, <1>5
  <2>2. /\ IsWithout(v.edges[s], w.edges[s], n)
        /\ \A k \in w.children[s] \ {n} :
             k \in v.isRoot <=> k \in w.isRoot \/ (n \in w.isRoot /\ <<n, k>> \in w.edges[s])
    BY <1>1, <1>2, <1>3, <1>5
  <2>3. RootsHang(v.isRoot, v.edges[s], w.children[s] \ {n}, Heading(s))
    BY <1>3, <2>1, <2>2, RootsWithout
  <2> QED BY <2>1, <2>3
<1>6. CASE s # g /\ s # n
  <2>1. v.children[s] = w.children[s] /\ v.edges[s] = w.edges[s]
    BY <1>1, <1>3, <1>6
  <2>2. \A k \in w.children[s] : k # n /\ <<n, k>> \notin w.edges[g]
    <3>1. w.graphOf[n] = g
      BY <1>1, CanvasHasParts
    <3> QED BY <1>1, <1>6, <3>1, ScopeHasParts
  <2>3. \A k \in v.children[s] : k \in v.isRoot <=> k \in w.isRoot
    BY <1>2, <1>3, <2>1, <2>2
  <2> QED BY <1>3, <2>1, <2>3 DEF RootsHang
<1> QED BY <1>4, <1>5, <1>6

(* after a move, *)
LEMMA MovedRoots ==
  ASSUME NEW w, CanvasState(w), Roots(w), NEW v, CanvasState(v), NEW D, NEW n, NEW old, NEW new,
         NEW parent, NEW child, IsMoved(w, v, D, n, old, new, parent, child)
  PROVE  Roots(v)
<1> DEFINE R == (w.isRoot \cup (Heirs(w, n, old) \cap HasMetadata(w))) \ {n}
           Before(s) == IF s = old THEN D ELSE w.edges[s]
           A(s) == w.children[s] \ {n}
<1>1. /\ old \in Graphs /\ n \in w.children[old] /\ n \in Actions \cup Scopes
      /\ new \in Graphs /\ n # new
      /\ parent \in (Cards(w, new) \ {n}) \cup {NoNode}
      /\ new \in Scopes => parent # NoNode
      /\ v.children = [[w.children EXCEPT ![old] = @ \ {n}] EXCEPT ![new] = @ \cup {n}]
      /\ IsWithout(D, w.edges[old], n)
      /\ new # old => v.edges[old] = D
      /\ \A h \in Graphs \ {old, new} : v.edges[h] = w.edges[h]
      /\ HangsFrom(v.edges[new], n, parent)
  BY DEF IsMoved, MovesNode
<1>2. IsWithout(IF new = old THEN D ELSE w.edges[new], v.edges[new], n)
  BY DEF IsMoved, MovesNode
<1>3. /\ DOMAIN w.children = Graphs /\ w.graphOf[n] = old /\ n \in Operations
      /\ w.edges[old] \subseteq Ends \X Ends /\ v.edges[new] \subseteq Ends \X Ends
  BY <1>1, GraphsAreNamed, CanvasHasParts, Ids
<1>4. Heirs(w, n, old) = IF n \in w.isRoot THEN {c \in Ends : <<n, c>> \in w.edges[old]} ELSE {}
  BY <1>1, HeirsAre
<1>5. \A k \in HasMetadata(w) \ {n} :
        k \in R <=> k \in w.isRoot \/ (n \in w.isRoot /\ <<n, k>> \in w.edges[old])
  <2>1. \A k : <<n, k>> \in w.edges[old] => k \in Ends
    BY <1>3
  <2> QED BY <1>4, <2>1
<1>6. /\ parent \notin Headings => v.isRoot = R
      /\ parent \in Headings => v.isRoot = {y \in R \cup {n} : <<n, y>> \notin v.edges[new]}
  <2>1. v.isRoot = IF parent \in Headings
                   THEN {y \in RootsAfter(w, n, old, parent) : <<n, y>> \notin v.edges[new]}
                   ELSE RootsAfter(w, n, old, parent)
    BY DEF IsMoved, MovesNode
  <2>2. RootsAfter(w, n, old, parent) = R \cup (IF parent \in Headings THEN {n} ELSE {})
    BY DEF RootsAfter
  <2> HIDE DEF R
  <2> QED BY <2>1, <2>2
<1> HIDE DEF R
<1>7. n \notin R
  BY DEF R
<1> SUFFICES ASSUME NEW s \in Scopes
             PROVE  RootsHang(v.isRoot, v.edges[s], v.children[s], Heading(s))
  BY DEF Roots
<1>8. /\ RootsHang(w.isRoot, w.edges[s], w.children[s], Heading(s)) /\ s \in Graphs
      /\ n # Heading(s) /\ w.children[s] \subseteq HasMetadata(w)
  BY <1>3, ScopeHasParts DEF Roots
<1>9. RootsHang(R, Before(s), A(s), Heading(s))
  <2>1. CASE s = old
    <3>1. /\ n \in w.children[s] /\ IsWithout(D, w.edges[s], n)
          /\ \A k \in w.children[s] \ {n} :
               k \in R <=> k \in w.isRoot \/ (n \in w.isRoot /\ <<n, k>> \in w.edges[s])
      BY <1>1, <1>5, <1>8, <2>1
    <3>2. RootsHang(R, D, w.children[s] \ {n}, Heading(s))
      BY <1>8, <3>1, RootsWithout
    <3> QED BY <2>1, <3>2
  <2>2. CASE s # old
    <3>1. \A k \in w.children[s] : k # n /\ <<n, k>> \notin w.edges[old]
      BY <1>1, <1>3, <2>2, ScopeHasParts
    <3>2. \A k \in w.children[s] : k \in R <=> k \in w.isRoot
      BY <1>5, <1>8, <3>1
    <3> QED BY <1>8, <2>2, <3>1, <3>2 DEF RootsHang
  <2> QED BY <2>1, <2>2
<1>10. v.children[s] = IF s = new THEN A(s) \cup {n} ELSE A(s)
  <2>1. s # old => n \notin w.children[s]
    BY <1>3, ScopeHasParts
  <2> DEFINE W == [w.children EXCEPT ![old] = @ \ {n}]
  <2>2. W[s] = A(s)
    BY <1>1, <1>3, <1>8, <2>1
  <2>3. v.children = [W EXCEPT ![new] = @ \cup {n}] /\ DOMAIN W = Graphs
    BY <1>1, <1>3
  <2> HIDE DEF W, A
  <2> QED BY <1>8, <2>2, <2>3
<1> HIDE DEF Before, A
<1>11. CASE s = new
  <2>1. /\ n \in v.children[s] /\ parent # NoNode
        /\ HangsFrom(v.edges[s], n, parent)
        /\ IsWithout(Before(s), v.edges[s], n)
        /\ v.children[s] \ {n} = A(s)
    BY <1>1, <1>2, <1>10, <1>11 DEF Before, A
  <2>2. \A p : <<p, n>> \in v.edges[s] <=> p = parent
    BY <2>1, HangsAre
  <2>3. \A k \in v.children[s] : OneSource(v.edges[s], k)
    BY ScopeHasParts
  <2>4. parent \in Headings <=> parent = Heading(s)
    <3>1. parent \in w.children[s] \cup {Heading(s)}
      BY <1>1, <1>8, <1>11, <2>1, ScopeHasParts DEF Cards
    <3>2. w.children[s] \cap Headings = {} /\ Heading(s) \in Headings
      BY CardIds, Ids, ScopeHasParts
    <3> QED BY <3>1, <3>2
  <2>5. v.isRoot = IF parent = Heading(s)
                   THEN {x \in R \cup {n} : <<n, x>> \notin v.edges[s]} ELSE R
    BY <1>6, <1>11, <2>4
  <2>6. RootsHang(R, Before(s), v.children[s] \ {n}, Heading(s))
    BY <1>9, <2>1
  <2> QED BY <1>7, <1>8, <2>1, <2>2, <2>3, <2>5, <2>6, RootsWith
<1>12. CASE s # new
  <2>1. v.edges[s] = Before(s) /\ v.children[s] = A(s)
    BY <1>1, <1>8, <1>10, <1>12 DEF Before
  <2>2. \A k \in v.children[s] : k # n /\ <<n, k>> \notin v.edges[new]
    BY <1>1, <1>12, <2>1, ScopeHasParts DEF A
  <2>3. \A k \in v.children[s] : k \in v.isRoot <=> k \in R
    BY <1>6, <2>2
  <2> QED BY <1>9, <2>1, <2>3 DEF RootsHang
<1> QED BY <1>11, <1>12

(* after a change of the first node. *)
LEMMA FirstRoots ==
  ASSUME NEW w, CanvasState(w), Roots(w), NEW v, NEW s, NEW r, PutsFirst(w, v, s, r),
         s \in Triggers \cup {Placeholder}, r \in Triggers \cup {Placeholder}
  PROVE  Roots(v)
<1> SUFFICES ASSUME NEW h \in Scopes
             PROVE  RootsHang(v.isRoot, v.edges[h], v.children[h], Heading(h))
  BY DEF Roots
<1>1. /\ v.edges[h] = w.edges[h] /\ v.children[h] = w.children[h]
      /\ v.isRoot = (w.isRoot \ {s}) \cup {r}
  <2>1. h \in Graphs /\ h # Root /\ DOMAIN w.children = Graphs
    BY ScopeHasParts, GraphsAreNamed
  <2>2. v.children = [w.children EXCEPT ![Root] = (@ \ {s}) \cup {r}]
    BY DEF PutsFirst
  <2> QED BY <2>1, <2>2 DEF PutsFirst
<1>2. s \notin w.children[h] /\ r \notin w.children[h]
  BY ScopeHasParts, IdsAreDistinct
<1> QED BY <1>1, <1>2 DEF Roots, RootsHang

(* No edit of one operation breaks the marks, if none puts a foreach       *)
(* around an operation of a scope.                                         *)
LEMMA EditKeepsRoots ==
  ASSUME NEW w, CanvasState(w), Roots(w), NEW v, CanvasState(v), NEW n \in Operations,
         IsEdit(w, v, n), "foreach" \in Edits => OneScope
  PROVE  Roots(v)
<1>1. CASE IsUnchanged(w, v)
  BY <1>1 DEF IsUnchanged, Roots
<1>2. ASSUME NEW g, NEW parent, NEW child, IsAdded(w, v, n, g, parent, child),
             g \in Scopes => parent # NoNode
      PROVE  Roots(v)
  BY <1>2, AddedRoots
<1>3. ASSUME n \in Triggers, PutsFirst(w, v, Placeholder, n) PROVE Roots(v)
  BY <1>3, FirstRoots
<1>4. ASSUME n \in Triggers, PutsFirst(w, v, n, Placeholder) PROVE Roots(v)
  BY <1>4, FirstRoots
<1>5. ASSUME NEW g, IsRemoved(w, v, n, g) PROVE Roots(v)
  BY <1>5, RemovedRoots
<1>6. ASSUME NEW D, NEW old, NEW new, NEW parent, NEW child,
             IsMoved(w, v, D, n, old, new, parent, child)
      PROVE Roots(v)
  BY <1>6, MovedRoots
<1>7. ASSUME NEW s, IsWrapped(w, v, n, s) PROVE Roots(v)
  <2>1. PICK u, h, p, D :
          /\ CanvasState(u)
          /\ IsAdded(w, u, s, h, p, n)
          /\ IsMoved(u, v, D, n, h, s, Heading(s), NoNode)
    BY <1>7 DEF IsWrapped
  <2>2. h \notin Scopes
    BY <1>7, <2>1, IdsAreDistinct DEF IsWrapped, IsAdded, OneScope
  <2>3. Roots(u)
    BY <2>1, <2>2, AddedRoots
  <2> QED BY <2>1, <2>3, MovedRoots
<1> QED BY <1>1, <1>2, <1>3, <1>4, <1>5, <1>6, <1>7 DEF IsEdit

(* Every step keeps the roots below their headings. *)
LEMMA StepKeepsRoots ==
  ASSUME CanvasState(wf), Roots(wf), CanvasState(wf'), NEW n \in Operations, IsStep(n),
         "foreach" \in Edits => OneScope
  PROVE  Roots(wf')
<1>1. CASE wf' = wf
  BY <1>1
<1>2. CASE IsEdit(wf, wf', n)
  BY <1>2, EditKeepsRoots
<1>3. ASSUME NEW g, IsRemoved(wf, wf', n, g) PROVE Roots(wf')
  BY <1>3, RemovedRoots
<1> QED BY <1>1, <1>2, <1>3 DEF IsStep, IsDeleteNext

(* A definition is opened with its roots marked. *)
LEMMA OpenedHasRoots ==
  ASSUME NEW d \in Definitions, IsSound(d), NEW w, w = Deserialize(d)
  PROVE  Roots(w)
<1> SUFFICES ASSUME NEW s \in Scopes, NEW n \in w.children[s]
             PROVE  n \in w.isRoot <=> <<Heading(s), n>> \in w.edges[s]
  BY DEF Roots, RootsHang
<1>1. /\ IsOpened(d, w) /\ CanvasState(w)
  BY DefinitionIsOpened, OpenedIsCanvas
<1>2. n \in DOMAIN d.graphOf /\ d.graphOf[n] = s /\ n \in MembersOf(d, s)
  BY <1>1 DEF IsOpened, MembersOf
<1>3. /\ s \in Scopes \cap DOMAIN d.graphOf /\ s # Root
      /\ n \in Actions \cup Scopes /\ n # d.trigger
      /\ Keys(d.runAfter[n]) \subseteq Actions \cup Scopes
  <2>1. /\ DOMAIN d.graphOf \subseteq Actions \cup Scopes
        /\ d.graphOf[n] \in {Root} \cup (Scopes \cap DOMAIN d.graphOf)
        /\ Keys(d.runAfter[n]) \subseteq MembersOf(d, d.graphOf[n])
        /\ d.trigger \in Triggers \cup {NoNode} /\ Root \notin Scopes
    BY <1>2, DefinitionHasParts
  <2>2. MembersOf(d, d.graphOf[n]) \subseteq DOMAIN d.graphOf
    BY DEF MembersOf
  <2>3. n # d.trigger
    BY <1>2, <2>1, IdsAreDistinct
  <2> QED BY <1>2, <2>1, <2>2, <2>3
<1>4. Heading(s) \notin Actions \cup Scopes /\ n # Footer(s)
  BY <1>3, CardIds, Ids
<1>5. n \in w.isRoot <=> IsRootOf(d, n)
  BY <1>1, <1>2, <1>3 DEF IsOpened
<1>6. \A p, c : <<p, c>> \in w.edges[s] <=>
        \/ c \in MembersOf(d, s) /\ ((p = HeadCard(d, s) /\ IsRootOf(d, c)) \/ p \in Keys(d.runAfter[c]))
        \/ /\ s \in Untils /\ c = Footer(s)
           /\ p \in MembersOf(d, s) \cup {HeadCard(d, s)} /\ IsLast(d, s, p)
  BY <1>1, <1>3 DEF IsOpened
<1>7. HeadCard(d, s) = Heading(s)
  BY <1>3 DEF HeadCard
<1> QED BY <1>2, <1>3, <1>4, <1>5, <1>6, <1>7

-----------------------------------------------------------------------------
(* The theorems.                                                           *)

(* No scope is moved into another. *)
NestsNothing == CanvasOnly /\ ("nest" \in Edits => OneScope)

(* No foreach is put around an operation of a scope. *)
WrapsOutermost == CanvasOnly /\ ("foreach" \in Edits => OneScope)

HomeInv == CanvasInv /\ IsHome(wf) /\ DoomIsWhole(wf, doomed)
TreeInv == HomeInv /\ IsTree(wf)
RootsInv == CanvasInv /\ Roots(wf)

(* Everything stays in the graph its metadata names, and what is to go     *)
(* with a scope on the canvas.                                             *)
LEMMA NextHome ==
  ASSUME CanvasOnly, HomeInv, [Next]_vars
  PROVE  HomeInv'
<1>1. CanvasInv /\ CanvasInv'
  BY NextCanvas DEF HomeInv
<1>2. IsHome(wf') /\ DoomIsWhole(wf', doomed')
  <2>1. CASE Next
    <3>1. /\ CanvasState(wf) /\ IsHome(wf) /\ DoomIsWhole(wf, doomed) /\ CanvasState(wf') /\ Inv'
      BY <1>1 DEF HomeInv, CanvasInv
    <3>2. PICK n \in Operations : IsStep(n)
      BY <1>1, <2>1, <3>1, StepKeepsCanvas
    <3> QED BY <3>1, <3>2, StepKeepsHome
  <2>2. CASE UNCHANGED vars
    BY <2>2 DEF vars, HomeInv
  <2> QED BY <2>1, <2>2
<1> QED BY <1>1, <1>2 DEF HomeInv

LEMMA HomeInvariant == CanvasOnly => (Spec => []HomeInv)
<1> SUFFICES ASSUME CanvasOnly PROVE Spec => []HomeInv
  OBVIOUS
<1>1. Init => HomeInv
  <2> SUFFICES ASSUME Init PROVE HomeInv
    OBVIOUS
  <2>1. CanvasInv /\ doomed = {}
    BY InitCanvas DEF Init
  <2>2. PICK d \in Definitions : wf = Deserialize(d)
    BY DEF Init
  <2>3. IsHome(wf)
    BY <2>2, OpenedIsTree DEF CanvasOnly, IsTree
  <2> QED BY <2>1, <2>3 DEF HomeInv, DoomIsWhole, DoomIsClosed, DoomIsDrawn
<1>2. HomeInv /\ [Next]_vars => HomeInv'
  BY NextHome
<1> QED BY <1>1, <1>2, PTL DEF Spec

(* With no scope moved into another the graphs stay a tree. *)
LEMMA InitTree ==
  ASSUME NestsNothing, Init
  PROVE  TreeInv
<1>1. CanvasInv /\ doomed = {}
  BY InitCanvas DEF NestsNothing, Init
<1>2. PICK d \in Definitions : wf = Deserialize(d)
  BY DEF Init
<1>3. IsTree(wf)
  BY <1>2, OpenedIsTree DEF NestsNothing, CanvasOnly
<1> QED BY <1>1, <1>3 DEF TreeInv, HomeInv, IsTree, DoomIsWhole, DoomIsClosed, DoomIsDrawn

LEMMA NextTree ==
  ASSUME NestsNothing, TreeInv, [Next]_vars
  PROVE  TreeInv'
<1>1. CanvasOnly /\ CanvasInv /\ HomeInv /\ HomeInv' /\ CanvasInv'
  BY NextHome DEF NestsNothing, TreeInv, HomeInv
<1>2. IsTree(wf')
  <2>1. CASE Next
    <3>1. /\ CanvasState(wf) /\ IsTree(wf) /\ DoomIsWhole(wf, doomed) /\ CanvasState(wf')
          /\ ("nest" \in Edits => OneScope) /\ Inv'
      BY <1>1 DEF TreeInv, HomeInv, CanvasInv, NestsNothing
    <3>2. PICK n \in Operations : IsStep(n)
      BY <1>1, <2>1, <3>1, StepKeepsCanvas
    <3> QED BY <3>1, <3>2, StepKeepsTree
  <2>2. CASE UNCHANGED vars
    BY <2>2 DEF vars, TreeInv
  <2> QED BY <2>1, <2>2
<1> QED BY <1>1, <1>2 DEF TreeInv

LEMMA TreeInvariant == NestsNothing => (Spec => []TreeInv)
<1> SUFFICES ASSUME NestsNothing PROVE Spec => []TreeInv
  OBVIOUS
<1>1. Init => TreeInv
  BY InitTree
<1>2. TreeInv /\ [Next]_vars => TreeInv'
  BY NextTree
<1> QED BY <1>1, <1>2, PTL DEF Spec

(* The roots of the scopes stay marked.                                    *)
LEMMA RootsInvariant == WrapsOutermost => (Spec => []RootsInv)
<1> SUFFICES ASSUME WrapsOutermost PROVE Spec => []RootsInv
  OBVIOUS
<1>1. Init => RootsInv
  <2> SUFFICES ASSUME Init PROVE RootsInv
    OBVIOUS
  <2>1. CanvasInv
    BY InitCanvas DEF WrapsOutermost
  <2>2. PICK d \in Definitions : wf = Deserialize(d)
    BY DEF Init
  <2>3. Roots(wf)
    BY <2>2, OpenedHasRoots DEF WrapsOutermost, CanvasOnly
  <2> QED BY <2>1, <2>3 DEF RootsInv
<1>2. RootsInv /\ CanvasInv' /\ [Next]_vars => RootsInv'
  <2> SUFFICES ASSUME RootsInv, CanvasInv', [Next]_vars PROVE Roots(wf')
    BY DEF RootsInv
  <2>1. CASE Next
    <3>1. /\ CanvasState(wf) /\ Roots(wf) /\ CanvasState(wf')
          /\ CanvasOnly /\ ("foreach" \in Edits => OneScope) /\ Inv'
      BY DEF RootsInv, CanvasInv, WrapsOutermost
    <3>2. PICK n \in Operations : IsStep(n)
      BY <2>1, <3>1, StepKeepsCanvas DEF RootsInv
    <3> QED BY <3>1, <3>2, StepKeepsRoots
  <2>2. CASE UNCHANGED vars
    BY <2>2 DEF vars, RootsInv
  <2> QED BY <2>1, <2>2
<1> QED BY <1>1, <1>2, CanvasInvariant, PTL DEF Spec, WrapsOutermost

(* What comes below a card is what its edges lead to. *)
LEMMA BelowOnCanvas ==
  ASSUME NEW w, CanvasState(w), NEW g \in Graphs, NEW n
  PROVE  Below(w, g, n) = Later(w.edges[g], n)
<1> DEFINE last == IF g = Root THEN NoNode ELSE Footer(g)
           E == w.edges[g]
<1>1. last \in Ends
  BY CardIds, Ids DEF Graphs
<1>2. E \subseteq Ends \X (Operations \cup {last})
  <2>1. /\ E \subseteq Ends \X Ends
        /\ \A p, c : <<p, c>> \in E => c \in (w.children[g] \ Start(w, g)) \cup (Footers \cap {Footer(g)})
        /\ w.children[g] \ Start(w, g) \subseteq Actions \cup Scopes
    BY CanvasHasParts
  <2>2. Footers \cap {Footer(g)} \subseteq {last}
    BY CardIds, IdsAreDistinct DEF Graphs
  <2>3. Actions \cup Scopes \subseteq Operations
    BY Ids
  <2>4. \A p, c : <<p, c>> \in E => c \in Operations \cup {last}
    BY <2>1, <2>2, <2>3
  <2> HIDE DEF E, last
  <2> SUFFICES ASSUME NEW e \in E PROVE e \in Ends \X (Operations \cup {last})
    OBVIOUS
  <2>5. e = <<e[1], e[2]>> /\ e[1] \in Ends
    BY <2>1
  <2> QED BY <2>4, <2>5
<1> HIDE DEF E, last
<1>3. w.edges[g] \subseteq Ends \X (Operations \cup {last})
  BY <1>2 DEF E
<1> QED BY <1>1, <1>3, BelowIsLater

(* Each graph of the canvas hangs from its start. *)
LEMMA GraphHangs ==
  ASSUME NEW w, CanvasState(w), NEW g \in Graphs
  PROVE  /\ \A n \in w.children[g] : n \notin Later(w.edges[g], n)
         /\ \A s \in Start(w, g), n \in w.children[g] \ Start(w, g) : n \in Later(w.edges[g], s)
         /\ \A s, r \in Start(w, g) : s = r
         /\ \A n \in w.children[g] \cap Defined(w) : \A p \in Keys(w.runAfter[n]) :
              <<p, n>> \in w.edges[g]
<1>1. PICK T \in SUBSET (Footers \cap {Footer(g)}) :
        IsGraph(Links(w, g), Cards(w, g), T, Start(w, g))
  BY DEF CanvasState, IsDrawn
<1>2. /\ IsCanvas(w.edges[g], Cards(w, g) \cup T, Start(w, g))
      /\ KeysFollow(Links(w, g), Cards(w, g))
  BY <1>1 DEF IsGraph, Links
<1>3. w.children[g] \subseteq Cards(w, g)
  BY DEF Cards
<1>4. \A n \in w.children[g] \cap Defined(w) : \A p \in Keys(w.runAfter[n]) : <<p, n>> \in w.edges[g]
  BY <1>2, <1>3 DEF KeysFollow, Links, Defined
<1>5. \A n \in w.children[g] : n \notin Later(w.edges[g], n)
  BY <1>2, <1>3 DEF IsCanvas
<1>6. \A s \in Start(w, g), n \in w.children[g] \ Start(w, g) : n \in Later(w.edges[g], s)
  BY <1>2, <1>3 DEF IsCanvas
<1>7. \A s, r \in Start(w, g) : s = r
  BY <1>2 DEF IsCanvas
<1> QED BY <1>4, <1>5, <1>6, <1>7

(* Triggers come and go, actions are added, moved and deleted around them: *)
(* getTriggerNode always finds one trigger or the placeholder, and never   *)
(* an action, once anything is drawn.                                      *)
THEOREM AlwaysOneTriggerOrPlaceholder == CanvasOnly => (Spec => []OneTriggerOrPlaceholder)
<1> SUFFICES ASSUME CanvasOnly PROVE Spec => []OneTriggerOrPlaceholder
  OBVIOUS
<1>1. CanvasInv => OneTriggerOrPlaceholder
  <2> SUFFICES ASSUME CanvasInv, wf.children[Root] # {}
               PROVE  \E t \in Triggers \cup {Placeholder} :
                        wf.children[Root] \cap wf.isRoot = {t}
    BY DEF OneTriggerOrPlaceholder
  <2>1. CanvasState(wf) /\ Start(wf, Root) = wf.children[Root] \cap wf.isRoot /\ Root \in Graphs
    BY Ids DEF CanvasInv, Start
  <2>2. PICK t \in Triggers \cup {Placeholder} : t \in Start(wf, Root)
    BY <2>1 DEF CanvasState
  <2>3. \A r \in Start(wf, Root) : r = t
    BY <2>1, <2>2, GraphHangs
  <2> QED BY <2>1, <2>2, <2>3
<1> QED BY <1>1, CanvasInvariant, PTL

(* No edge is left dangling, whatever is deleted, moved or wrapped.        *)
THEOREM EdgesAlwaysJoinCards == CanvasOnly => (Spec => []EdgesJoinCards)
<1> SUFFICES ASSUME CanvasOnly PROVE Spec => []EdgesJoinCards
  OBVIOUS
<1>1. CanvasInv => EdgesJoinCards
  <2> SUFFICES ASSUME CanvasInv, NEW g \in Graphs, NEW e \in wf.edges[g]
               PROVE  e[1] \in Cards(wf, g) /\ e[2] \in wf.children[g] \cup {Footer(g)}
    BY DEF EdgesJoinCards, CanvasGraphs
  <2>1. /\ wf.edges[g] \subseteq Ends \X Ends
        /\ \A p, c : <<p, c>> \in wf.edges[g] =>
             p \in Cards(wf, g) /\ c \in wf.children[g] \cup {Footer(g)}
    BY CanvasHasParts DEF CanvasInv
  <2>2. e = <<e[1], e[2]>>
    BY <2>1
  <2> QED BY <2>1, <2>2
<1> QED BY <1>1, CanvasInvariant, PTL

(* No edit leaves an operation on the canvas that nothing leads to.        *)
THEOREM EveryCardIsAlwaysReached == CanvasOnly => (Spec => []EveryCardIsReached)
<1> SUFFICES ASSUME CanvasOnly PROVE Spec => []EveryCardIsReached
  OBVIOUS
<1>1. CanvasInv => EveryCardIsReached
  <2> SUFFICES ASSUME CanvasInv, NEW g \in Graphs, NEW n \in wf.children[g]
               PROVE  n \in Start(wf, g) \/ \E s \in Start(wf, g) : n \in Below(wf, g, s)
    BY DEF EveryCardIsReached, CanvasGraphs, Start
  <2>1. CanvasState(wf)
    BY DEF CanvasInv
  <2>2. Start(wf, g) # {}
    BY <2>1, CanvasHasParts
  <2>3. PICK s : s \in Start(wf, g)
    BY <2>2
  <2>4. n \notin Start(wf, g) => n \in Later(wf.edges[g], s)
    BY <2>1, <2>3, GraphHangs
  <2>5. Below(wf, g, s) = Later(wf.edges[g], s)
    BY <2>1, BelowOnCanvas
  <2> QED BY <2>3, <2>4, <2>5
<1> QED BY <1>1, CanvasInvariant, PTL

(* Deleting, in however many thunks, leaves nothing behind. *)
THEOREM NothingIsEverLeftBehind == NestsNothing => (Spec => []NothingLeftBehind)
<1> SUFFICES ASSUME NestsNothing PROVE Spec => []NothingLeftBehind
  OBVIOUS
<1>1. TreeInv => NothingLeftBehind
  BY TreeIsDrawn DEF TreeInv, HomeInv, CanvasInv, IsAllDrawn, NothingLeftBehind
<1> QED BY <1>1, TreeInvariant, PTL

(* isRoot always marks exactly the operations below the headings. *)
THEOREM RootsAlwaysHangFromHeading == WrapsOutermost => (Spec => []RootsHangFromHeading)
<1> SUFFICES ASSUME WrapsOutermost PROVE Spec => []RootsHangFromHeading
  OBVIOUS
<1>1. RootsInv => RootsHangFromHeading
  BY DEF RootsInv, Roots, RootsHang, RootsHangFromHeading, CanvasGraphs, Graphs
<1> QED BY <1>1, RootsInvariant, PTL

(* No saved runAfter names an operation that is gone, or one that is drawn *)
(* elsewhere: below a heading, where nothing is to be saved, isRoot says   *)
(* so.                                                                     *)
THEOREM SavedRunAfterIsAlwaysDrawn == WrapsOutermost => (Spec => []SavedRunAfterIsDrawn)
<1> SUFFICES ASSUME WrapsOutermost PROVE Spec => []SavedRunAfterIsDrawn
  OBVIOUS
<1>1. RootsInv => SavedRunAfterIsDrawn
  <2> SUFFICES ASSUME RootsInv, NEW g \in Graphs, NEW n \in wf.children[g],
                      NEW p \in Keys(SavedRunAfter(n))
               PROVE  p \in wf.children[g] /\ <<p, n>> \in wf.edges[g]
    BY DEF SavedRunAfterIsDrawn, CanvasGraphs
  <2>1. Keys(NoKeys) = {} /\ Keys(Absent) = {}
    BY DEF Keys, NoKeys
  <2>2. n \in Defined(wf) /\ p \in Keys(wf.runAfter[n]) /\ n \notin wf.isRoot
    BY <2>1 DEF SavedRunAfter, RunAfterOf, Defined
  <2>3. CanvasState(wf) /\ Roots(wf)
    BY DEF RootsInv, CanvasInv
  <2>4. <<p, n>> \in wf.edges[g]
    BY <2>2, <2>3, GraphHangs
  <2>5. p \in Cards(wf, g)
    BY <2>3, <2>4, CanvasHasParts
  <2>6. g # Root => p # Heading(g)
    BY <2>2, <2>3, <2>4 DEF Roots, RootsHang, Graphs
  <2> QED BY <2>4, <2>5, <2>6 DEF Cards
<1> QED BY <1>1, RootsInvariant, PTL

(* No insert, move, wrap or delete ever closes a circle, neither on the    *)
(* canvas nor among the run-after configurations.                          *)
THEOREM CanvasIsAlwaysAcyclic == CanvasOnly => (Spec => []Acyclic)
<1> SUFFICES ASSUME CanvasOnly PROVE Spec => []Acyclic
  OBVIOUS
<1>1. HomeInv => Acyclic
  <2> SUFFICES ASSUME HomeInv
               PROVE  /\ \A g \in Graphs : \A n \in wf.children[g] : n \notin Below(wf, g, n)
                      /\ \A n \in Defined(wf) : n \notin Successors(wf, n)
    BY DEF Acyclic, CanvasGraphs
  <2>1. CanvasState(wf) /\ IsHome(wf)
    BY DEF HomeInv, CanvasInv
  <2>2. ASSUME NEW g \in Graphs, NEW n \in wf.children[g] PROVE n \notin Below(wf, g, n)
    BY <2>1, BelowOnCanvas, GraphHangs
  <2>3. ASSUME NEW n \in Defined(wf) PROVE n \notin Successors(wf, n)
    <3> DEFINE g == wf.graphOf[n]
               E == wf.edges[g]
               T == Later(E, n) \cap wf.children[g]
    <3>1. n \in wf.children[g] /\ g \in Graphs
      BY <2>1, GraphsAreNamed DEF IsHome
    <3>2. /\ n \notin Later(E, n) /\ E \subseteq Ends \X Ends
          /\ \A m \in wf.children[g] : wf.graphOf[m] = g
          /\ Defined(wf) \subseteq Operations
      BY <2>1, <3>1, GraphHangs, CanvasHasParts
    <3>3. ASSUME NEW m \in wf.children[g], NEW c \in RunsAfter(wf, m)
          PROVE  <<m, c>> \in E /\ c \in wf.children[g]
      <4> DEFINE h == wf.graphOf[c]
      <4>1. c \in Defined(wf) /\ m \in Keys(wf.runAfter[c])
        BY DEF RunsAfter, StatusOf
      <4>2. c \in wf.children[h] /\ h \in Graphs
        BY <2>1, <4>1, GraphsAreNamed DEF IsHome
      <4>3. <<m, c>> \in wf.edges[h]
        BY <2>1, <4>1, <4>2, GraphHangs
      <4>4. m \in Cards(wf, h) /\ m # Heading(h)
        <5>1. m \in Cards(wf, h)
          BY <2>1, <4>2, <4>3, CanvasHasParts
        <5>2. m \in Operations \cup {Placeholder}
          BY <2>1, <3>1, CanvasHasParts
        <5>3. h # Root => Heading(h) \notin Operations \cup {Placeholder}
          BY <4>2, CardIds DEF Graphs
        <5>4. Root \in Graphs /\ Heading(Root) \notin Operations \cup {Placeholder}
          BY CardsAreNoOperations, Ids
        <5> QED BY <5>1, <5>2, <5>3, <5>4
      <4>5. m \in wf.children[h]
        BY <4>4 DEF Cards
      <4>6. h = g
        BY <2>1, <3>2, <4>2, <4>5, CanvasHasParts
      <4> QED BY <4>2, <4>3, <4>6
    <3>4. Leads(E, n, Later(E, n))
      BY <3>2, LaterIsLeast
    <3>5. /\ RunsAfter(wf, n) \subseteq T
          /\ \A m \in T : RunsAfter(wf, m) \subseteq T
      BY <3>1, <3>3, <3>4 DEF Leads
    <3>6. n \notin T
      BY <3>2
    <3> HIDE DEF T
    <3>7. Successors(wf, n) \subseteq T
      BY <3>2, <3>5, SuccessorsAreClosed
    <3> QED BY <3>6, <3>7
  <2> QED BY <2>2, <2>3
<1> QED BY <1>1, HomeInvariant, PTL

(* Whichever operation an edit adds, deletes, moves or wraps, and wherever *)
(* to: any two others of a graph come after one another, or do not, as     *)
(* they did before.                                                        *)
THEOREM OthersAlwaysKeepTheirOrder == CanvasOnly => (Spec => OthersKeepTheirOrder)
<1> SUFFICES ASSUME CanvasOnly PROVE Spec => OthersKeepTheirOrder
  OBVIOUS
<1> DEFINE Edit == \E n \in Operations : \A g \in Graphs :
                     LET others == (wf.children[g] \cap wf'.children[g]) \ {n}
                     IN  Order(wf, g, others) = Order(wf', g, others)
<1>1. CanvasInv /\ CanvasInv' /\ Next => Edit
  <2> SUFFICES ASSUME CanvasInv, CanvasInv', Next PROVE Edit
    OBVIOUS
  <2>1. CanvasState(wf) /\ CanvasState(wf') /\ Inv'
    BY DEF CanvasInv
  <2>2. PICK n \in Operations : IsStep(n)
    BY <2>1, StepKeepsCanvas
  <2>3. OrderKept(wf, wf', n)
    BY <2>1, <2>2, StepKeepsOrder
  <2> SUFFICES ASSUME NEW g \in Graphs
               PROVE  LET others == (wf.children[g] \cap wf'.children[g]) \ {n}
                      IN  Order(wf, g, others) = Order(wf', g, others)
    OBVIOUS
  <2> DEFINE A == (wf.children[g] \cap wf'.children[g]) \ {n}
             E == wf.edges[g]
             F == wf'.edges[g]
  <2>4. /\ \A m : Below(wf, g, m) = Later(E, m)
        /\ \A m : Below(wf', g, m) = Later(F, m)
    BY <2>1, BelowOnCanvas
  <2>5. \A m \in A : {m} \X (A \cap Below(wf, g, m)) = {m} \X (A \cap Below(wf', g, m))
    <3> SUFFICES ASSUME NEW m \in A
                 PROVE  {m} \X (A \cap Below(wf, g, m)) = {m} \X (A \cap Below(wf', g, m))
      OBVIOUS
    <3>1. \A k \in A : k \in Later(F, m) <=> k \in Later(E, m)
      BY <2>3 DEF OrderKept, SameOrder
    <3> HIDE DEF A, E, F
    <3>2. A \cap Below(wf, g, m) = A \cap Below(wf', g, m)
      BY <2>4, <3>1
    <3> QED BY <3>2
  <2> HIDE DEF A
  <2>6. Order(wf, g, A) = Order(wf', g, A)
    BY <2>5 DEF Order
  <2> QED BY <2>6 DEF A
<1> HIDE DEF Edit
<1>2. CanvasInv /\ CanvasInv' /\ [Next]_vars => [Edit]_vars
  BY <1>1
<1>3. Spec => [][Edit]_vars
  BY <1>2, CanvasInvariant, PTL DEF Spec
<1> QED BY <1>3 DEF Edit, OthersKeepTheirOrder

(* An operation dropped below a parent is left with no other one, in the   *)
(* graph it was dropped in and in every other.                             *)
THEOREM MovesAlwaysLeaveOldParents == CanvasOnly => (Spec => MoveLeavesOldParents)
<1> SUFFICES ASSUME CanvasOnly PROVE Spec => MoveLeavesOldParents
  OBVIOUS
<1> DEFINE Left == wf' # wf /\ Defined(wf') = Defined(wf) =>
                     \A n \in Actions \cup Scopes, site \in DOMAIN zones :
                       site.parent # NoNode /\ MoveOperation(n, site)
                         => \A g \in Graphs : Sources(Links(wf', g), n) \subseteq {site.parent}
<1>1. CanvasInv /\ CanvasInv' => Left
  <2> SUFFICES ASSUME CanvasInv, CanvasInv',
                      NEW n \in Actions \cup Scopes, NEW site \in DOMAIN zones,
                      site.parent # NoNode, MoveOperation(n, site), NEW g \in Graphs
               PROVE  Sources(Links(wf', g), n) \subseteq {site.parent}
    OBVIOUS
  <2>1. CanvasState(wf) /\ CanvasState(wf')
    BY DEF CanvasInv
  <2>2. \E D, old, child : IsMoved(wf, wf', D, n, old, site.graph, site.parent, child)
    BY MoveIsEdit
  <2>3. PICK D, old, child : IsMoved(wf, wf', D, n, old, site.graph, site.parent, child)
    BY <2>2
  <2>4. /\ site.graph \in Graphs /\ old \in Graphs
        /\ HangsFrom(wf'.edges[site.graph], n, site.parent)
        /\ wf'.children = [[wf.children EXCEPT ![old] = @ \ {n}] EXCEPT ![site.graph] = @ \cup {n}]
    BY <2>3 DEF IsMoved, MovesNode
  <2>5. n \in wf'.children[site.graph]
    <3>1. DOMAIN wf.children = Graphs
      BY <2>1, GraphsAreNamed
    <3> QED BY <2>4, <3>1
  <2>6. wf'.edges[g] \subseteq Ends \X Ends
    BY <2>1, CanvasHasParts
  <2>7. \A p \in Sources(Links(wf', g), n) : <<p, n>> \in wf'.edges[g]
    BY <2>6 DEF Sources, Links
  <2>8. CASE g = site.graph
    BY <2>4, <2>7, <2>8 DEF HangsFrom
  <2>9. CASE g # site.graph
    <3>1. \A h \in Graphs : \A m \in wf'.children[h] : wf'.graphOf[m] = h
      BY <2>1, CanvasHasParts
    <3>2. n \notin wf'.children[g]
      <4> HIDE <2>3, <2>4
      <4>1. site.graph \in Graphs
        BY <2>4
      <4>2. wf'.graphOf[n] = site.graph
        BY <2>5, <3>1, <4>1
      <4> QED BY <2>9, <3>1, <4>2
    <3>3. n \notin Footers
      BY CardIds, Ids
    <3>4. \A p : <<p, n>> \notin wf'.edges[g]
      BY <2>1, <3>2, <3>3, CanvasHasParts
    <3> QED BY <2>7, <3>4
  <2> QED BY <2>8, <2>9
<1> HIDE DEF Left
<1>2. CanvasInv /\ CanvasInv' /\ [Next]_vars => [Left]_vars
  BY <1>1
<1>3. Spec => [][Left]_vars
  BY <1>2, CanvasInvariant, PTL DEF Spec
<1> QED BY <1>3 DEF Left, MoveLeavesOldParents

=============================================================================
