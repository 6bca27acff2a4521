----------------------------- MODULE SyncProofs -----------------------------
(***************************************************************************)
(* Theorems about the decision engine and about Sync, for every input and  *)
(* all values of the constants.                                            *)
(*                                                                         *)
(* RemotePaths is computed by a recursive function.  The theorems on       *)
(* induction and recursion that it needs are proved first, in a form in    *)
(* which predicates are sets and steps are functions.                      *)
(***************************************************************************)
EXTENDS ExecutorStepProofs, Sync, WellFoundedInduction, FiniteSetTheorems

-----------------------------------------------------------------------------
(* Induction and recursion.                                                *)

LEMMA Least ==
    ASSUME NEW S \in SUBSET Nat, S # {}
    PROVE  \E n \in S : \A m \in S : n <= m
<1>1. PICK n \in S : \A m \in S : ~ (<<m, n>> \in OpToRel(<, Nat))
  BY NatLessThanWellFounded, WFMin
<1>2. \A m \in S : ~ (m < n)
  BY <1>1 DEF OpToRel
<1> QED BY <1>2

LEMMA Induction ==
    ASSUME NEW S, 0 \in S, \A n \in Nat : n \in S => n + 1 \in S
    PROVE  \A n \in Nat : n \in S
<1> SUFFICES ASSUME Nat \ S # {} PROVE FALSE
  OBVIOUS
<1>1. PICK n \in Nat \ S : \A m \in Nat \ S : n <= m
  BY Least
<1>2. n # 0 /\ n - 1 \in Nat /\ (n - 1) + 1 = n
  BY <1>1
<1>3. n - 1 \in S
  BY <1>1, <1>2
<1> QED BY <1>1, <1>2, <1>3

\* f is the first n + 1 values of the sequence that begins with z and goes on
\* with `next'.
Begins(f, n, X, z, next) ==
    /\ f \in [0..n -> X] /\ f[0] = z
    /\ \A k \in 0..(n - 1) : f[k + 1] = next[f[k]]

LEMMA Recursion ==
    ASSUME NEW X, NEW z \in X, NEW next \in [X -> X]
    PROVE  \E f \in [Nat -> X] :
               f[0] = z /\ \A n \in Nat : f[n + 1] = next[f[n]]
<1> DEFINE B(f, n) == Begins(f, n, X, z, next)
<1>1. ASSUME NEW n \in Nat, NEW f, B(f, n), NEW m \in Nat, NEW g, B(g, m),
             n <= m
      PROVE  f[n] = g[n]
  <2> DEFINE S == {k \in Nat : k <= n => f[k] = g[k]}
  <2>1. 0 \in S
    BY <1>1 DEF Begins
  <2>2. ASSUME NEW k \in Nat, k \in S PROVE k + 1 \in S
    <3> SUFFICES ASSUME k + 1 <= n PROVE f[k + 1] = g[k + 1]
      OBVIOUS
    <3>1. f[k] = g[k] /\ k \in 0..(n - 1) /\ k \in 0..(m - 1)
      BY <1>1, <2>2
    <3> QED BY <1>1, <3>1 DEF Begins
  <2>3. \A k \in Nat : k \in S
    <3> HIDE DEF S
    <3> QED BY <2>1, <2>2, Induction
  <2> QED BY <1>1, <2>3
<1> DEFINE N == {n \in Nat : \E f : B(f, n)}
<1>2. 0 \in N
  <2>1. B([k \in 0..0 |-> z], 0)
    BY DEF Begins
  <2> QED BY <2>1
<1>3. ASSUME NEW n \in Nat, n \in N PROVE n + 1 \in N
  <2>1. PICK f : B(f, n)
    BY <1>3
  <2> DEFINE g == [k \in 0..(n + 1) |-> IF k = n + 1 THEN next[f[n]] ELSE f[k]]
  <2>2. f[n] \in X /\ \A k \in 0..n : f[k] \in X
    BY <2>1 DEF Begins
  <2>3. g \in [0..(n + 1) -> X] /\ g[0] = z
    <3>1. next[f[n]] \in X
      BY <2>2
    <3>2. \A k \in 0..(n + 1) : k = n + 1 \/ k \in 0..n
      OBVIOUS
    <3>3. g \in [0..(n + 1) -> X]
      BY <2>2, <3>1, <3>2
    <3> QED BY <2>1, <3>3 DEF Begins
  <2>4. ASSUME NEW k \in 0..n PROVE g[k + 1] = next[g[k]]
    <3>1. g[k] = f[k] /\ (k = n => g[k + 1] = next[f[n]])
          /\ (k # n => g[k + 1] = f[k + 1] /\ k \in 0..(n - 1))
      BY <2>4
    <3> QED BY <2>1, <3>1 DEF Begins
  <2>5. (n + 1) - 1 = n
    OBVIOUS
  <2> HIDE DEF g
  <2>6. B(g, n + 1)
    BY <2>3, <2>4, <2>5 DEF Begins
  <2> QED BY <2>6
<1>4. \A n \in Nat : n \in N
  <2> HIDE DEF N
  <2> QED BY <1>2, <1>3, Induction
<1> DEFINE part == [n \in Nat |-> CHOOSE f : B(f, n)]
           all  == [n \in Nat |-> part[n][n]]
<1>5. \A n \in Nat : B(part[n], n)
  BY <1>4
<1> HIDE DEF part
<1>6. all \in [Nat -> X] /\ all[0] = z
  BY <1>5 DEF Begins
<1>7. ASSUME NEW n \in Nat PROVE all[n + 1] = next[all[n]]
  <2>1. part[n][n] = part[n + 1][n]
    BY <1>1, <1>5
  <2>2. part[n + 1][n + 1] = next[part[n + 1][n]]
    BY <1>5 DEF Begins
  <2> QED BY <2>1, <2>2
<1> QED BY <1>6, <1>7

-----------------------------------------------------------------------------
(* The paths of the remote nodes.                                          *)

\* The step of the recursive function in RemotePaths.
Grown(in, up) ==
    LET nodes == in.nodes
        kids  == {u \in DOMAIN nodes :
                     /\ ~ nodes[u].trashed /\ ~ Excluded(in, u)
                     /\ nodes[u].parent \in DOMAIN up
                     /\ nodes[u].parent = Root \/ nodes[nodes[u].parent].dir}
    IN  [u \in {Root} \cup kids |->
            IF u = Root THEN <<>>
            ELSE Append(up[nodes[u].parent], nodes[u].name)]

Lowest == [u \in {Root} |-> <<>>]

IsLevels(in, f) ==
    f = [n \in Nat |-> IF n = 0 THEN Lowest ELSE Grown(in, f[n - 1])]

\* Paths of some nodes, no two of which are the same.
IsLevel(in, f) ==
    /\ Root \in DOMAIN f /\ f[Root] = <<>>
    /\ DOMAIN f \subseteq {Root} \cup DOMAIN in.nodes
    /\ \A u \in DOMAIN f : u # Root =>
           /\ ~ in.nodes[u].trashed /\ ~ Excluded(in, u)
           /\ f[u] \in Path /\ in.nodes[u].name = NameOf(f[u])
    /\ \A u, v \in DOMAIN f : f[u] = f[v] => u = v

Levels(in) ==
    {f \in UNION {[D -> Seq(Names)] :
                     D \in SUBSET ({Root} \cup DOMAIN in.nodes)} :
        IsLevel(in, f)}

LEMMA AppendApart ==
    ASSUME NEW s \in Seq(Names), NEW a \in Names, NEW t \in Seq(Names),
           NEW b \in Names
    PROVE  /\ Append(s, a) \in Path /\ NameOf(Append(s, a)) = a
           /\ Append(s, a) = Append(t, b) => s = t /\ a = b
<1>1. /\ Len(Append(s, a)) = Len(s) + 1 /\ Append(s, a)[Len(s) + 1] = a
      /\ \A i \in 1..Len(s) : Append(s, a)[i] = s[i]
  OBVIOUS
<1>2. /\ Len(Append(t, b)) = Len(t) + 1 /\ Append(t, b)[Len(t) + 1] = b
      /\ \A i \in 1..Len(t) : Append(t, b)[i] = t[i]
  OBVIOUS
<1>3. Append(s, a) \in Path
  BY DEF Path
<1>4. NameOf(Append(s, a)) = a
  BY <1>1 DEF NameOf, Last
<1>5. ASSUME Append(s, a) = Append(t, b) PROVE s = t /\ a = b
  <2>1. Len(s) \in Nat /\ Len(t) \in Nat
    OBVIOUS
  <2>2. Len(s) = Len(t)
    BY <1>1, <1>2, <1>5, <2>1
  <2>3. \A i \in 1..Len(s) : s[i] = t[i]
    BY <1>1, <1>2, <1>5, <2>2
  <2> QED BY <1>1, <1>2, <1>5, <2>2, <2>3
<1> QED BY <1>3, <1>4, <1>5

LEMMA LowestLevel == \A in : Lowest \in Levels(in)
<1> SUFFICES ASSUME NEW in PROVE Lowest \in Levels(in)
  OBVIOUS
<1>1. IsLevel(in, Lowest)
  BY DEF Lowest, IsLevel
<1>2. Lowest \in [{Root} -> Seq(Names)]
  BY DEF Lowest
<1> QED BY <1>1, <1>2 DEF Levels

LEMMA GrownLevel ==
    ASSUME NEW in, NodesOK(in.nodes), NEW f \in Levels(in)
    PROVE  Grown(in, f) \in Levels(in)
<1> DEFINE nodes == in.nodes
           up(u) == nodes[u].parent
           g == Grown(in, f)
<1>1. /\ IsLevel(in, f) /\ \A u \in DOMAIN f : f[u] \in Seq(Names)
      /\ \A u \in DOMAIN nodes : nodes[u].name \in Names
  BY DEF Levels, NodesOK, Node
<1>2. /\ Root \in DOMAIN g /\ g[Root] = <<>>
      /\ DOMAIN g \subseteq {Root} \cup DOMAIN nodes
      /\ \A u \in DOMAIN g : u # Root =>
             /\ ~ nodes[u].trashed /\ ~ Excluded(in, u) /\ up(u) \in DOMAIN f
             /\ g[u] = Append(f[up(u)], nodes[u].name)
  BY DEF Grown
<1> HIDE DEF g
<1>3. ASSUME NEW u \in DOMAIN g, u # Root
      PROVE  /\ u \in DOMAIN nodes /\ f[up(u)] \in Seq(Names)
             /\ nodes[u].name \in Names
             /\ g[u] \in Path /\ nodes[u].name = NameOf(g[u])
  <2>1. /\ u \in DOMAIN nodes /\ up(u) \in DOMAIN f
        /\ g[u] = Append(f[up(u)], nodes[u].name)
    BY <1>2, <1>3
  <2>2. f[up(u)] \in Seq(Names) /\ nodes[u].name \in Names
    BY <1>1, <2>1
  <2>3. /\ Append(f[up(u)], nodes[u].name) \in Path
        /\ NameOf(Append(f[up(u)], nodes[u].name)) = nodes[u].name
    BY <2>2, AppendApart
  <2> QED BY <2>1, <2>2, <2>3
<1>4. ASSUME NEW u \in DOMAIN g, NEW v \in DOMAIN g, g[u] = g[v]
      PROVE  u = v
  <2>1. CASE u = Root \/ v = Root
    BY <1>2, <1>3, <1>4, <2>1 DEF Path
  <2>2. CASE u # Root /\ v # Root
    <3>1. f[up(u)] = f[up(v)] /\ nodes[u].name = nodes[v].name
      <4>1. Append(f[up(u)], nodes[u].name) = Append(f[up(v)], nodes[v].name)
        BY <1>2, <1>4, <2>2
      <4>2. /\ f[up(u)] \in Seq(Names) /\ nodes[u].name \in Names
            /\ f[up(v)] \in Seq(Names) /\ nodes[v].name \in Names
        BY <1>3, <2>2
      <4>3. \A s, t \in Seq(Names), a, b \in Names :
                Append(s, a) = Append(t, b) => s = t /\ a = b
        BY AppendApart
      <4> HIDE DEF up, nodes
      <4> QED BY <4>1, <4>2, <4>3
    <3>2. up(u) = up(v)
      BY <1>1, <1>2, <2>2, <3>1 DEF IsLevel
    <3>3. /\ v \in DOMAIN nodes /\ ~ nodes[v].trashed /\ ~ Excluded(in, v)
          /\ ~ Excluded(in, u)
      BY <1>2, <2>2
    <3>4. v \notin in.nameless /\ ~ Colliding(in, u)
      BY <3>3 DEF Excluded
    <3> QED BY <3>1, <3>2, <3>3, <3>4 DEF Colliding
  <2> QED BY <2>1, <2>2
<1>5. IsLevel(in, g)
  BY <1>2, <1>3, <1>4 DEF IsLevel
<1>6. g \in [DOMAIN g -> Seq(Names)]
  <2>1. ASSUME NEW u \in DOMAIN g PROVE g[u] \in Seq(Names)
    <3>1. CASE u = Root
      BY <1>2, <3>1
    <3>2. CASE u # Root
      BY <1>3, <3>2 DEF Path
    <3> QED BY <3>1, <3>2
  <2>2. g = [u \in DOMAIN g |-> g[u]]
    BY DEF g, Grown
  <2> QED BY <2>1, <2>2
<1>7. g \in Levels(in)
  BY <1>2, <1>5, <1>6 DEF Levels
<1> QED BY <1>7 DEF g

LEMMA LevelsExist ==
    ASSUME NEW in, NodesOK(in.nodes)
    PROVE  \E f : IsLevels(in, f)
<1> DEFINE next == [f \in Levels(in) |-> Grown(in, f)]
<1>1. next \in [Levels(in) -> Levels(in)]
  BY GrownLevel
<1>2. PICK f \in [Nat -> Levels(in)] :
          f[0] = Lowest /\ \A n \in Nat : f[n + 1] = next[f[n]]
  <2> HIDE DEF next
  <2> QED BY <1>1, LowestLevel, Recursion
<1>3. ASSUME NEW n \in Nat, n # 0 PROVE f[n] = Grown(in, f[n - 1])
  <2>1. n - 1 \in Nat /\ (n - 1) + 1 = n
    BY <1>3
  <2> QED BY <1>2, <2>1
<1>4. IsLevels(in, f)
  BY <1>2, <1>3 DEF IsLevels
<1> QED BY <1>4

LEMMA LevelsAre ==
    ASSUME NEW in, NodesOK(in.nodes), NEW f, IsLevels(in, f)
    PROVE  \A n \in Nat : f[n] \in Levels(in)
<1> DEFINE S == {n \in Nat : f[n] \in Levels(in)}
<1>1. /\ f[0] = Lowest
      /\ \A n \in Nat : n # 0 => f[n] = Grown(in, f[n - 1])
  BY DEF IsLevels
<1>2. 0 \in S
  BY <1>1, LowestLevel
<1>3. ASSUME NEW n \in Nat, n \in S PROVE n + 1 \in S
  <2>1. f[n + 1] = Grown(in, f[n])
    <3>1. n + 1 # 0 /\ (n + 1) - 1 = n
      OBVIOUS
    <3> QED BY <1>1, <3>1
  <2> QED BY <1>3, <2>1, GrownLevel
<1> HIDE DEF S
<1>4. \A n \in Nat : n \in S
  BY <1>2, <1>3, Induction
<1> QED BY <1>4 DEF S

\* The paths are of nodes of the view that are neither trashed nor excluded,
\* and no two nodes have the same one.
PathsOf(in, paths) ==
    /\ DOMAIN paths \subseteq DOMAIN in.nodes
    /\ \A u \in DOMAIN paths :
           /\ ~ in.nodes[u].trashed /\ ~ Excluded(in, u)
           /\ paths[u] \in Path /\ in.nodes[u].name = NameOf(paths[u])
    /\ \A u, v \in DOMAIN paths : paths[u] = paths[v] => u = v

LEMMA RemotePathsAre ==
    ASSUME NEW in, NodesOK(in.nodes), IsFiniteSet(DOMAIN in.nodes)
    PROVE  PathsOf(in, RemotePaths(in))
<1> DEFINE level == CHOOSE f : IsLevels(in, f)
           all   == level[Cardinality(DOMAIN in.nodes)]
<1>1. RemotePaths(in) = [u \in DOMAIN all \ {Root} |-> all[u]]
  BY DEF RemotePaths, IsLevels, Grown, Lowest
<1>2. IsLevels(in, level)
  BY LevelsExist
<1>3. Cardinality(DOMAIN in.nodes) \in Nat
  BY FS_CardinalityType
<1>4. all \in Levels(in)
  <2> HIDE DEF level
  <2> QED BY <1>2, <1>3, LevelsAre
<1> HIDE DEF all
<1>5. IsLevel(in, all)
  BY <1>4 DEF Levels
<1> QED BY <1>1, <1>5 DEF IsLevel, PathsOf

\* The first level is part of the second, and that carries on.
LEMMA LevelsGrow ==
    ASSUME NEW in, NEW f, IsLevels(in, f)
    PROVE  \A n \in Nat : /\ f[n + 1] = Grown(in, f[n])
                          /\ DOMAIN f[n] \subseteq DOMAIN f[n + 1]
                          /\ \A u \in DOMAIN f[n] : f[n + 1][u] = f[n][u]
<1> DEFINE Grows(n) == /\ DOMAIN f[n] \subseteq DOMAIN f[n + 1]
                       /\ \A u \in DOMAIN f[n] : f[n + 1][u] = f[n][u]
           S == {n \in Nat : Grows(n)}
<1>1. f[0] = Lowest /\ \A n \in Nat : f[n + 1] = Grown(in, f[n])
  <2>1. ASSUME NEW n \in Nat PROVE f[n + 1] = Grown(in, f[n])
    <3>1. n + 1 \in Nat /\ n + 1 # 0 /\ (n + 1) - 1 = n
      OBVIOUS
    <3> QED BY <3>1 DEF IsLevels
  <2> QED BY <2>1 DEF IsLevels
<1>2. 0 \in S
  <2>1. f[0 + 1] = Grown(in, Lowest)
    BY <1>1
  <2>2. DOMAIN f[0] = {Root} /\ f[0][Root] = <<>>
    BY <1>1 DEF Lowest
  <2>3. Root \in DOMAIN f[0 + 1] /\ f[0 + 1][Root] = <<>>
    BY <2>1 DEF Grown
  <2> QED BY <2>2, <2>3
<1>3. ASSUME NEW n \in Nat, n \in S PROVE n + 1 \in S
  <2>1. /\ f[n + 1] = Grown(in, f[n])
        /\ f[(n + 1) + 1] = Grown(in, f[n + 1])
    BY <1>1
  <2>2. Grows(n)
    BY <1>3
  <2> DEFINE g == f[n]
             h == f[n + 1]
  <2>3. /\ DOMAIN g \subseteq DOMAIN h /\ \A u \in DOMAIN g : h[u] = g[u]
        /\ h = Grown(in, g)
    BY <2>1, <2>2
  <2> HIDE DEF g, h
  <2>4. /\ DOMAIN h \subseteq DOMAIN Grown(in, h)
        /\ \A u \in DOMAIN h : Grown(in, h)[u] = h[u]
    BY <2>3 DEF Grown
  <2> QED BY <2>1, <2>4 DEF h
<1>4. \A n \in Nat : n \in S
  <2> HIDE DEF S
  <2> QED BY <1>2, <1>3, Induction
<1> QED BY <1>1, <1>4

\* Each level but the last adds a node.
LEMMA LevelsEnd ==
    ASSUME NEW in, NodesOK(in.nodes), IsFiniteSet(DOMAIN in.nodes),
           NEW f, IsLevels(in, f)
    PROVE  LET top == f[Cardinality(DOMAIN in.nodes)] IN Grown(in, top) = top
<1> DEFINE D == DOMAIN in.nodes
           N == Cardinality(D)
           k(n) == DOMAIN f[n] \ {Root}
           S == {n \in Nat : f[n + 1] = f[n] \/ Cardinality(k(n)) >= n}
<1>1. \A n \in Nat : /\ f[n + 1] = Grown(in, f[n])
                     /\ DOMAIN f[n] \subseteq DOMAIN f[n + 1]
                     /\ \A u \in DOMAIN f[n] : f[n + 1][u] = f[n][u]
  BY LevelsGrow
<1>2. N \in Nat
  BY FS_CardinalityType
<1>3. ASSUME NEW n \in Nat
      PROVE  /\ Root \in DOMAIN f[n] /\ k(n) \subseteq D
             /\ f[n] = [u \in DOMAIN f[n] |-> f[n][u]]
  BY LevelsAre DEF Levels, IsLevel
<1>4. \A n \in Nat : /\ IsFiniteSet(k(n)) /\ Cardinality(k(n)) \in Nat
                     /\ Cardinality(k(n)) <= N
  BY <1>3, FS_Subset, FS_CardinalityType
<1>5. ASSUME NEW n \in Nat, k(n + 1) = k(n) PROVE f[n + 1] = f[n]
  <2>1. n + 1 \in Nat
    OBVIOUS
  <2>2. DOMAIN f[n + 1] = DOMAIN f[n]
    BY <1>3, <1>5, <2>1
  <2>3. f[n + 1] = [u \in DOMAIN f[n] |-> f[n][u]]
    BY <1>1, <1>3, <2>1, <2>2
  <2> QED BY <1>3, <2>3
<1>6. 0 \in S
  BY <1>4
<1>7. ASSUME NEW n \in Nat, n \in S PROVE n + 1 \in S
  <2>1. CASE f[n + 1] = f[n]
    <3>1. f[(n + 1) + 1] = f[n + 1]
      BY <1>1, <2>1
    <3> QED BY <3>1
  <2>2. CASE f[n + 1] # f[n]
    <3>1. k(n) \subseteq k(n + 1) /\ k(n) # k(n + 1)
      BY <1>1, <1>5, <2>2
    <3>2. /\ Cardinality(k(n)) <= Cardinality(k(n + 1))
          /\ Cardinality(k(n)) # Cardinality(k(n + 1))
      BY <1>4, <3>1, FS_Subset
    <3>3. n + 1 \in Nat /\ Cardinality(k(n)) >= n
      BY <1>7, <2>2
    <3> HIDE DEF k
    <3>4. Cardinality(k(n)) \in Nat /\ Cardinality(k(n + 1)) \in Nat
      BY <1>4, <3>3
    <3>5. Cardinality(k(n + 1)) >= n + 1
      BY <3>2, <3>3, <3>4
    <3> QED BY <3>3, <3>5
  <2> QED BY <2>1, <2>2
<1>8. N \in S
  <2> HIDE DEF S
  <2> QED BY <1>2, <1>6, <1>7, Induction
<1>9. f[N + 1] = f[N]
  <2>1. CASE Cardinality(k(N)) >= N
    <3>1. Cardinality(k(N)) = N
      BY <1>2, <1>4, <2>1
    <3>2. k(N) = D
      <4> HIDE DEF k
      <4> QED BY <1>2, <1>3, <3>1, FS_Subset
    <3>3. k(N) \subseteq k(N + 1)
      BY <1>1, <1>2
    <3>4. k(N + 1) \subseteq D
      <4>1. N + 1 \in Nat
        BY <1>2
      <4> HIDE DEF k, D, N
      <4> QED BY <1>3, <4>1
    <3> HIDE DEF k, D
    <3> QED BY <1>2, <1>5, <3>2, <3>3, <3>4
  <2> QED BY <1>8, <2>1
<1> QED BY <1>1, <1>2, <1>9

\* resolveRemote does not visit a node, nor what is below it.
LeftOut(in, v) ==
    \/ in.nodes[v].trashed \/ Excluded(in, v)
    \/ /\ in.nodes[v].parent \in DOMAIN in.nodes
       /\ ~ in.nodes[in.nodes[v].parent].dir

\* A node in a folder that has a path has one too, unless it is left out.
LEMMA RemotePathsReach ==
    ASSUME NEW in, NodesOK(in.nodes), IsFiniteSet(DOMAIN in.nodes),
           NEW v \in DOMAIN in.nodes, v # Root, ~ LeftOut(in, v),
           in.nodes[v].parent \in DOMAIN RemotePaths(in)
    PROVE  /\ v \in DOMAIN RemotePaths(in)
           /\ RemotePaths(in)[v] = Append(RemotePaths(in)[in.nodes[v].parent],
                                          in.nodes[v].name)
<1> DEFINE level == CHOOSE f : IsLevels(in, f)
           all   == level[Cardinality(DOMAIN in.nodes)]
           q     == in.nodes[v].parent
<1>1. RemotePaths(in) = [u \in DOMAIN all \ {Root} |-> all[u]]
  BY DEF RemotePaths, IsLevels, Grown, Lowest
<1>2. IsLevels(in, level)
  BY LevelsExist
<1>3. Cardinality(DOMAIN in.nodes) \in Nat
  BY FS_CardinalityType
<1>4. all \in Levels(in) /\ Grown(in, all) = all
  <2> HIDE DEF level
  <2> QED BY <1>2, <1>3, LevelsAre, LevelsEnd
<1> HIDE DEF all
<1>5. q \in DOMAIN all /\ q # Root /\ q \in DOMAIN in.nodes
  BY <1>1, <1>4 DEF Levels, IsLevel
<1>6. /\ v \in DOMAIN Grown(in, all)
      /\ Grown(in, all)[v] = Append(all[q], in.nodes[v].name)
  BY <1>5 DEF Grown, LeftOut
<1> QED BY <1>1, <1>4, <1>5, <1>6

-----------------------------------------------------------------------------
(* A plan that asks for nothing has nothing to ask for.                    *)

\* A part of a plan that neither does nor reports anything.
Silent(x) == x.ops = {} /\ x.conflicts = {} /\ x.blocked = {}

\* No gate takes the last operation away without a trace.
LEMMA PartsSilent ==
    ASSUME NEW in, NEW paths, NEW parts,
           NothingToDo(Assembled(in, paths, parts))
    PROVE  \A x \in parts : Silent(x)
<1> DEFINE ops == UNION {x.ops : x \in parts}
           allowed == {op \in ops : ~ Withheld(in, paths, op)}
           placed == Acyclic(Unoccupied(in, paths, allowed))
<1>1. Gated(in, paths, ops) =
          [ops |-> placed, withheld |-> ops \ allowed,
           dropped |-> allowed \ placed]
  BY DEF Gated
<1> HIDE DEF ops, allowed, placed
<1>2. /\ placed = {} /\ ops \ allowed = {} /\ allowed \ placed = {}
      /\ UNION {x.conflicts : x \in parts} = {}
      /\ UNION {x.blocked : x \in parts} = {}
  BY <1>1 DEF Assembled, NothingToDo, ops
<1>3. UNION {x.ops : x \in parts} = {}
  BY <1>2 DEF ops
<1> QED BY <1>2, <1>3 DEF Silent

LEMMA NotSilent ==
    /\ \A op : ~ Silent(Only(op))
    /\ \A kind, path, uid : ~ Silent(Conflict(kind, path, uid))
    /\ \A reason, path, uid : ~ Silent(Block(reason, path, uid))
    /\ \A path, uid, l, r : ~ Silent(DivergentMove(path, uid, l, r))
    /\ \A op, x : ~ Silent(Both(Only(op), x))
    /\ Silent(NoPlan)
  BY DEF Silent, Only, Conflict, Block, DivergentMove, Both, NoPlan

LEMMA NewLocalPlanned ==
    \A in, paths, excluded, class, p :
        ~ Silent(PlanNewLocal(in, paths, excluded, class, p))
  BY NotSilent DEF PlanNewLocal

LEMMA NewRemotePlanned ==
    \A in, paths, class, u :
        Silent(PlanNewRemote(in, paths, class, u)) =>
            paths[u] \in DOMAIN in.items
  BY NotSilent DEF PlanNewRemote, NewLocal

LEMMA RowPlanned ==
    ASSUME NEW in, NEW excluded, NEW class, NEW kept, NEW p,
           Silent(PlanRow(in, excluded, class, kept, p))
    PROVE  /\ Silent(Apply(in, p, class[p]))
           /\ class[p].lp # None /\ class[p].rp # None
                  => in.nodes[in.base[p].uid].dir = in.base[p].dir
<1>1. /\ ~ Silent(Only(NewOp("remove_baseline", p)))
      /\ \A path, uid : ~ Silent(Conflict("delete_vs_edit", path, uid))
      /\ \A reason, path, uid : ~ Silent(Block(reason, path, uid))
  BY NotSilent
<1>2. Apply(in, p, class[p]) = PlanRow(in, excluded, class, kept, p)
  BY <1>1 DEF PlanRow
<1>3. ~ (/\ class[p].lp # None /\ class[p].rp # None
         /\ in.nodes[in.base[p].uid].dir # in.base[p].dir)
  BY <1>1 DEF PlanRow
<1> QED BY <1>2, <1>3

States == {"unchanged", "modified", "moved", "movedAndModified", "deleted"}
Edited == {"modified", "movedAndModified"}

LEMMA ApplyPlanned ==
    ASSUME NEW in, NEW p, NEW c, c.l \in States, c.r \in States,
           in.base[p].dir => c.l \notin Edited /\ c.r \notin Edited,
           Silent(Apply(in, p, c))
    PROVE  c.l = "unchanged" /\ c.r = "unchanged"
<1> DEFINE action == Table[c.l][c.r]
           loads  == {"download", "upload", "same_download", "same_upload"}
           moves  == {"move_local", "move_remote"}
           both   == {"move_local_then_download", "move_local_then_upload",
                      "move_local_then_compare", "move_remote_then_download",
                      "move_remote_then_upload", "move_remote_then_compare"}
           same   == {"same_none", "same_compare"}
           gone   == {"recycle_local", "trash_remote", "remove_baseline",
                      "delete_vs_edit"}
<1>1. action \in {"none", "compare"} \cup loads \cup moves \cup both
                \cup same \cup gone
  BY DEF Table, Row5, States
<1>2. action = "none" \/ (in.base[p].dir /\ action \in loads)
  <2> HIDE DEF action
  <2>1. action \notin gone
    BY NotSilent DEF Apply, action
  <2>2. action \notin moves
    BY NotSilent DEF Apply, action
  <2>3. action \notin both
    BY NotSilent DEF Apply, action
  <2>4. action \notin same
    BY NotSilent DEF Apply, action
  <2>5. action # "compare"
    BY NotSilent DEF Apply, action
  <2>6. action \in loads => in.base[p].dir
    BY NotSilent DEF Apply, action
  <2> QED BY <1>1, <2>1, <2>2, <2>3, <2>4, <2>5, <2>6
<1>3. action = "none" => c.l = "unchanged" /\ c.r = "unchanged"
  BY DEF Table, Row5, States
<1>4. action \in loads => c.l \in Edited \/ c.r \in Edited
  BY DEF Table, Row5, States, Edited
<1> QED BY <1>2, <1>3, <1>4

\* What became of a row is one of the states, and a folder has no content that
\* changes.
ClassOK(in, c, p) ==
    /\ c.l \in States /\ c.r \in States
    /\ in.base[p].dir => c.l \notin Edited /\ c.r \notin Edited

LEMMA SideStates ==
    ASSUME NEW moved, NEW changed
    PROVE  /\ SideState(moved, changed) \in States
           /\ ~ changed => SideState(moved, changed) \notin Edited
           /\ SideState(moved, changed) = "unchanged" => ~ moved /\ ~ changed
  BY DEF SideState, States, Edited

LEMMA ClassifyStates ==
    ASSUME NEW in, NEW paths, NEW p
    PROVE  ClassOK(in, Classify(in, paths, p), p)
<1>1. \A r, q, item :
          /\ LocalState(p, r, q, item) \in States
          /\ r.dir => LocalState(p, r, q, item) \notin Edited
  BY SideStates DEF LocalState
<1>2. \A r, q, node :
          /\ RemoteState(p, r, q, node) \in States
          /\ r.dir => RemoteState(p, r, q, node) \notin Edited
  BY SideStates DEF RemoteState
<1>3. "deleted" \in States /\ "deleted" \notin Edited
  BY DEF States, Edited
<1> QED BY <1>1, <1>2, <1>3 DEF Classify, ClassOK

LEMMA ImpliedStates ==
    ASSUME NEW base_, NEW p, NEW state, NEW place, state[p] \in States
    PROVE  /\ Implied(base_, p, state, place) \in States
           /\ state[p] \notin Edited
                  => Implied(base_, p, state, place) \notin Edited
           /\ Implied(base_, p, state, place) = "unchanged" =>
                  \/ state[p] = "unchanged"
                  \/ /\ state[p] = "moved"
                     /\ \E d \in DOMAIN base_ :
                            Inside(d, p) /\ state[d] \in MovedStates
  BY DEF Implied, States, Edited, MovedStates

LEMMA InsideLonger ==
    \A p, q \in Path : Inside(p, q) => Len(p) < Len(q)
<1> SUFFICES ASSUME NEW p \in Path, NEW q \in Path, Inside(p, q)
             PROVE  Len(p) < Len(q)
  OBVIOUS
<1>1. p # q /\ Under(p, q)
  BY DEF Inside, IsStrictPrefix, Under
<1>2. p \in Seq(Names) /\ q \in Seq(Names)
  BY DEF Path
<1>3. Len(p) \in Nat /\ Len(q) \in Nat /\ Len(p) <= Len(q)
      /\ \A i \in 1..Len(p) : p[i] = q[i]
  BY <1>1, UnderMeans, LengthOfPath
<1>4. Len(p) # Len(q)
  BY <1>1, <1>2, <1>3
<1> QED BY <1>3, <1>4

\* A move is implied by a move higher up, so one that nothing implies is there
\* when there is any: a side on which no row is changed has nothing moved.
LEMMA NothingImplied ==
    ASSUME NEW base_, NEW state, NEW place, DOMAIN base_ \subseteq Path,
           \A p \in DOMAIN base_ :
               /\ state[p] \in States
               /\ Implied(base_, p, state, place) = "unchanged"
    PROVE  \A p \in DOMAIN base_ : state[p] = "unchanged"
<1> DEFINE S == {Len(p) : p \in {q \in DOMAIN base_ : state[q] = "moved"}}
<1> SUFFICES ASSUME NEW q \in DOMAIN base_, state[q] # "unchanged" PROVE FALSE
  OBVIOUS
<1>1. \A p \in DOMAIN base_ :
          \/ state[p] = "unchanged"
          \/ /\ state[p] = "moved"
             /\ \E d \in DOMAIN base_ : Inside(d, p) /\ state[d] = "moved"
  <2>1. \A p \in DOMAIN base_ :
          \/ state[p] = "unchanged"
          \/ /\ state[p] = "moved"
             /\ \E d \in DOMAIN base_ :
                    Inside(d, p) /\ state[d] \in MovedStates
    BY ImpliedStates
  <2> QED BY <2>1 DEF MovedStates
<1>2. S \in SUBSET Nat /\ S # {}
  BY <1>1, LengthOfPath
<1>3. PICK n \in S : \A m \in S : n <= m
  <2> HIDE DEF S
  <2> QED BY <1>2, Least
<1>4. PICK p \in DOMAIN base_ : state[p] = "moved" /\ n = Len(p)
  BY <1>3
<1>5. PICK d \in DOMAIN base_ : Inside(d, p) /\ state[d] = "moved"
  BY <1>1, <1>4
<1>6. Len(d) < Len(p)
  BY <1>4, <1>5, InsideLonger
<1>7. Len(d) \in S
  BY <1>5
<1> QED BY <1>2, <1>3, <1>4, <1>6, <1>7

LEMMA FoundLocal ==
    ASSUME NEW items, NEW p, NEW r, FindLocal(items, p, r) # None
    PROVE  /\ FindLocal(items, p, r) \in DOMAIN items
           /\ items[FindLocal(items, p, r)].dir = r.dir
<1> DEFINE byInode == {q \in DOMAIN items : items[q].dir = r.dir
                                            /\ items[q].ino = r.ino}
<1>1. Cardinality(byInode) = 1 => byInode # {}
  BY FS_EmptySet
<1>2. byInode # {} => (CHOOSE q \in byInode : TRUE) \in byInode
  OBVIOUS
<1> QED BY <1>1, <1>2 DEF FindLocal

\* What a row that changed on neither side says of the two sides.
RowUnchanged(in, paths, p) ==
    LET r == in.base[p]
        item == in.items[p]
        node == in.nodes[r.uid]
    IN  /\ p \in DOMAIN in.items /\ item.dir = r.dir
        /\ r.uid \in DOMAIN in.nodes /\ r.uid \in DOMAIN paths
        /\ paths[r.uid] = p
        /\ r.dir \/ IF item.data # None THEN item.data = r.lsha
                    ELSE r.lsha # None /\ item.ino = r.ino /\ item.ver = r.ver
        /\ r.dir \/ IF node.sha # None /\ r.rsha # None THEN node.sha = r.rsha
                    ELSE node.rev = r.rev

LEMMA UnchangedMeans ==
    ASSUME NEW in, NEW paths, NEW p \in Path,
           Classify(in, paths, p).l = "unchanged",
           Classify(in, paths, p).r = "unchanged"
    PROVE  /\ Classify(in, paths, p).lp = p /\ Classify(in, paths, p).rp = p
           /\ RowUnchanged(in, paths, p)
<1> DEFINE r == in.base[p]
           c == Classify(in, paths, p)
<1>1. p # None
  BY NoneAssumption DEF Path
<1>2. /\ c.lp # None /\ c.lp = FindLocal(in.items, p, r)
      /\ LocalState(p, r, c.lp, in.items[c.lp]) = "unchanged"
  BY DEF Classify
<1>3. /\ c.rp # None /\ r.uid \in DOMAIN in.nodes /\ r.uid \in DOMAIN paths
      /\ c.rp = paths[r.uid]
      /\ RemoteState(p, r, c.rp, in.nodes[r.uid]) = "unchanged"
  BY DEF Classify
<1> HIDE DEF c
<1>4. /\ c.lp = p
      /\ r.dir \/ IF in.items[p].data # None THEN in.items[p].data = r.lsha
                  ELSE r.lsha # None /\ in.items[p].ino = r.ino
                       /\ in.items[p].ver = r.ver
  BY <1>2, SideStates DEF LocalState
<1>5. p \in DOMAIN in.items /\ in.items[p].dir = r.dir
  <2>1. FindLocal(in.items, p, r) = p /\ FindLocal(in.items, p, r) # None
    BY <1>1, <1>2, <1>4
  <2>2. /\ FindLocal(in.items, p, r) \in DOMAIN in.items
        /\ in.items[FindLocal(in.items, p, r)].dir = r.dir
    BY <2>1, FoundLocal
  <2> QED BY <2>1, <2>2
<1>6. /\ c.rp = p
      /\ r.dir \/ IF in.nodes[r.uid].sha # None /\ r.rsha # None
                  THEN in.nodes[r.uid].sha = r.rsha
                  ELSE in.nodes[r.uid].rev = r.rev
  BY <1>3, SideStates DEF RemoteState
<1> QED BY <1>3, <1>4, <1>5, <1>6 DEF RowUnchanged, c

LEMMA RowsUnchanged ==
    ASSUME NEW in, NEW paths, DOMAIN in.base \subseteq Path,
           \A p \in DOMAIN in.base :
               /\ Classified(in, paths)[p].l = "unchanged"
               /\ Classified(in, paths)[p].r = "unchanged"
    PROVE  \A p \in DOMAIN in.base :
               /\ Classified(in, paths)[p].lp = p
               /\ Classified(in, paths)[p].rp = p
               /\ RowUnchanged(in, paths, p)
<1> DEFINE b == in.base
           l  == [p \in DOMAIN b |-> Classify(in, paths, p).l]
           r  == [p \in DOMAIN b |-> Classify(in, paths, p).r]
           lp == [p \in DOMAIN b |-> Classify(in, paths, p).lp]
           rp == [p \in DOMAIN b |-> Classify(in, paths, p).rp]
<1>1. \A p \in DOMAIN b :
          /\ Classified(in, paths)[p].lp = lp[p]
          /\ Classified(in, paths)[p].rp = rp[p]
          /\ Classified(in, paths)[p].l = Implied(b, p, l, lp)
          /\ Classified(in, paths)[p].r = Implied(b, p, r, rp)
  BY DEF Classified
<1>2. \A p \in DOMAIN b : l[p] \in States /\ r[p] \in States
  BY ClassifyStates DEF ClassOK
<1>3. \A p \in DOMAIN b : l[p] = "unchanged"
  <2> HIDE DEF l, r, lp, rp
  <2>1. \A p \in DOMAIN b :
            l[p] \in States /\ Implied(b, p, l, lp) = "unchanged"
    BY <1>1, <1>2
  <2> QED BY <2>1, NothingImplied
<1>4. \A p \in DOMAIN b : r[p] = "unchanged"
  <2> HIDE DEF l, r, lp, rp
  <2>1. \A p \in DOMAIN b :
            r[p] \in States /\ Implied(b, p, r, rp) = "unchanged"
    BY <1>1, <1>2
  <2> QED BY <2>1, NothingImplied
<1>5. ASSUME NEW p \in DOMAIN b
      PROVE  lp[p] = p /\ rp[p] = p /\ RowUnchanged(in, paths, p)
  <2>1. Classify(in, paths, p).l = "unchanged"
        /\ Classify(in, paths, p).r = "unchanged"
    BY <1>3, <1>4
  <2> QED BY <2>1, UnchangedMeans
<1> QED BY <1>1, <1>5

LEMMA ClassifiedOK ==
    ASSUME NEW in, NEW paths, NEW p \in DOMAIN in.base
    PROVE  ClassOK(in, Classified(in, paths)[p], p)
<1> DEFINE b == in.base
           l  == [q \in DOMAIN b |-> Classify(in, paths, q).l]
           r  == [q \in DOMAIN b |-> Classify(in, paths, q).r]
           lp == [q \in DOMAIN b |-> Classify(in, paths, q).lp]
           rp == [q \in DOMAIN b |-> Classify(in, paths, q).rp]
<1>1. /\ Classified(in, paths)[p].l = Implied(b, p, l, lp)
      /\ Classified(in, paths)[p].r = Implied(b, p, r, rp)
  BY DEF Classified
<1>2. /\ l[p] \in States /\ r[p] \in States
      /\ b[p].dir => l[p] \notin Edited /\ r[p] \notin Edited
  BY ClassifyStates DEF ClassOK
<1> HIDE DEF l, r, lp, rp
<1> QED BY <1>1, <1>2, ImpliedStates DEF ClassOK

\* A plan that asks for nothing comes of two views in which every row is where
\* it was and as it was, and in which nothing is without a row.
LEMMA NothingLeft ==
    ASSUME NEW in, NEW paths, DOMAIN in.base \subseteq Path,
           PathsOf(in, paths),
           NothingToDo(Planned(in, paths, Classified(in, paths)))
    PROVE  /\ \A p \in DOMAIN in.base :
                  /\ RowUnchanged(in, paths, p)
                  /\ in.nodes[in.base[p].uid].dir = in.base[p].dir
           /\ DOMAIN in.items = DOMAIN in.base
           /\ \A u \in DOMAIN paths :
                  paths[u] \in DOMAIN in.base /\ in.base[paths[u]].uid = u
<1> DEFINE class == Classified(in, paths)
           shut  == ExcludedPaths(in, paths)
           tops  == KeptTops(in, paths, class)
           parts == Parts(in, paths, shut, class, tops)
<1>1. DOMAIN class = DOMAIN in.base
  BY DEF Classified
<1>2. \A p \in DOMAIN in.base : ClassOK(in, class[p], p)
  BY ClassifiedOK
<1>3. \A x \in parts : Silent(x)
  BY PartsSilent DEF Planned
<1>4. (\A p \in DOMAIN in.base :
           class[p].l = "unchanged" /\ class[p].r = "unchanged")
      => \A p \in DOMAIN in.base :
             /\ class[p].lp = p /\ class[p].rp = p
             /\ RowUnchanged(in, paths, p)
  BY RowsUnchanged
<1> HIDE DEF class, shut, tops
<1>5. /\ \A p \in DOMAIN in.base : Silent(PlanRow(in, shut, class, tops, p))
      /\ \A p \in NewLocal(in, class) :
             Silent(PlanNewLocal(in, paths, shut, class, p))
      /\ \A u \in NewRemote(in, paths, class) :
             Silent(PlanNewRemote(in, paths, class, u))
  BY <1>1, <1>3 DEF Parts
<1> HIDE DEF parts
<1>6. ASSUME NEW p \in DOMAIN in.base
      PROVE  /\ class[p].l = "unchanged" /\ class[p].r = "unchanged"
             /\ class[p].lp # None /\ class[p].rp # None
                    => in.nodes[in.base[p].uid].dir = in.base[p].dir
  <2>1. /\ Silent(Apply(in, p, class[p]))
        /\ class[p].lp # None /\ class[p].rp # None
               => in.nodes[in.base[p].uid].dir = in.base[p].dir
    BY <1>5, RowPlanned
  <2>2. /\ class[p].l \in States /\ class[p].r \in States
        /\ in.base[p].dir => class[p].l \notin Edited /\ class[p].r \notin Edited
    BY <1>2 DEF ClassOK
  <2> QED BY <2>1, <2>2, ApplyPlanned
<1>7. \A p \in DOMAIN in.base :
          /\ class[p].lp = p /\ class[p].rp = p
          /\ RowUnchanged(in, paths, p)
  BY <1>4, <1>6
<1>8. \A p \in DOMAIN in.base : p # None
  BY NoneAssumption DEF Path
<1>9. DOMAIN in.items = DOMAIN in.base
  <2>1. NewLocal(in, class) = {}
    BY <1>5, NewLocalPlanned
  <2>2. DOMAIN in.items \subseteq {class[p].lp : p \in DOMAIN class}
    BY <2>1 DEF NewLocal, Claimed
  <2>3. \A p \in DOMAIN in.base : class[p].lp = p /\ p \in DOMAIN in.items
    BY <1>7 DEF RowUnchanged
  <2> DEFINE items == DOMAIN in.items
             rows  == DOMAIN in.base
  <2>4. items \subseteq rows /\ rows \subseteq items
    BY <1>1, <2>2, <2>3
  <2> HIDE DEF items, rows
  <2>5. items = rows
    BY <2>4
  <2> QED BY <2>5 DEF items, rows
<1>10. ASSUME NEW u \in DOMAIN paths
       PROVE  paths[u] \in DOMAIN in.base /\ in.base[paths[u]].uid = u
  <2>1. CASE u \in NewRemote(in, paths, class)
    <3>1. paths[u] \in DOMAIN in.base
      BY <1>5, <1>9, <2>1, NewRemotePlanned
    <3>2. /\ in.base[paths[u]].uid \in DOMAIN paths
          /\ paths[in.base[paths[u]].uid] = paths[u]
      BY <1>7, <3>1 DEF RowUnchanged
    <3> QED BY <3>1, <3>2 DEF PathsOf
  <2>2. CASE u \notin NewRemote(in, paths, class)
    <3>1. PICK p \in DOMAIN in.base : u = in.base[p].uid
      BY <1>1, <2>2 DEF NewRemote, ClaimedRemote
    <3> QED BY <1>7, <3>1 DEF RowUnchanged
  <2> QED BY <2>1, <2>2
<1> QED BY <1>6, <1>7, <1>8, <1>9, <1>10

-----------------------------------------------------------------------------
(* Versions and revisions: what is written is of a time that has not been. *)

\* A folder as it is made.
Bare(x) == x.dir /\ x.ver = 0 /\ x.data = None

LEMMA TreeRanges ==
    ASSUME NEW f, DOMAIN f \subseteq Path, NEW p \in Path
    PROVE  /\ Range(RemoveTree(f, p)) \subseteq Range(f)
           /\ \A x : Range(Put(f, p, x)) \subseteq Range(f) \cup {x}
           /\ \A q \in Path : Range(MoveTree(f, p, q)) \subseteq Range(f)
           /\ DOMAIN WithParents(f, p) \subseteq Path
           /\ \A x \in Range(WithParents(f, p)) :
                  \/ x \in Range(f)
                  \/ Bare(x) /\ \E n \in 1..Len(p) : x.ino = clock + n
<1>1. Range(RemoveTree(f, p)) \subseteq Range(f)
  BY DEF Range, RemoveTree
<1>2. \A x : Range(Put(f, p, x)) \subseteq Range(f) \cup {x}
  BY DEF Range, Put
<1>3. ASSUME NEW q \in Path PROVE Range(MoveTree(f, p, q)) \subseteq Range(f)
  <2>1. \A r \in DOMAIN f : f[r] \in Range(f)
    BY DEF Range
  <2>2. \A r \in DOMAIN MoveTree(f, p, q) : MoveTree(f, p, q)[r] \in Range(f)
    BY <2>1, MoveTreeInto
  <2> QED BY <2>2 DEF Range
<1>4. DOMAIN WithParents(f, p) \subseteq Path
  BY PathFacts DEF WithParents
<1>5. ASSUME NEW x \in Range(WithParents(f, p)), x \notin Range(f)
      PROVE  Bare(x) /\ \E n \in 1..Len(p) : x.ino = clock + n
  <2>1. PICK q \in DOMAIN WithParents(f, p) : x = WithParents(f, p)[q]
    BY DEF Range
  <2>2. q \notin DOMAIN f /\ q \in Ancestors(p)
    BY <1>5, <2>1 DEF WithParents, Range
  <2>3. x = [dir |-> TRUE, ino |-> clock + Len(q), ver |-> 0, data |-> None]
    BY <2>1, <2>2 DEF WithParents
  <2>4. Len(q) \in 1..Len(p)
    BY <2>2 DEF Ancestors, Path
  <2> QED BY <2>3, <2>4 DEF Bare
<1> QED BY <1>1, <1>2, <1>3, <1>4, <1>5

\* An item of a step: it was there before, or it is a new folder, or a file of
\* content c with a version that was not in use.
Dated(x, c) ==
    \/ x \in Range(fs)
    \/ Bare(x) /\ x.ino \in (clock + 1)..clock'
    \/ ~ x.dir /\ x.ver \in (clock + 1)..clock' /\ x.ino <= clock' /\ x.data = c

FsDated == \E c : \A x \in Range(fs') : Dated(x, c)

\* A node of a step: it has the revision it had, or is a file with one that was
\* not in use, or is a new folder.
DriveDated ==
    /\ DOMAIN drive' \subseteq DOMAIN drive \cup {clock + 1}
    /\ \A u \in DOMAIN drive' :
           \/ /\ u \in DOMAIN drive /\ drive'[u].dir = drive[u].dir
              /\ drive'[u].rev = drive[u].rev /\ drive'[u].sha = drive[u].sha
           \/ drive'[u].rev \in (clock + 1)..clock' /\ ~ drive'[u].dir
           \/ /\ u \in (clock + 1)..clock'
              /\ drive'[u].rev = 0 /\ drive'[u].sha = None

SidesDated == clock <= clock' /\ FsDated /\ DriveDated

LEMMA DatedVersions ==
    ASSUME DataInv, VersionsOK(Range(fs), clock), clock' \in Nat, SidesDated
    PROVE  VersionsOK(Range(fs'), clock')
<1>1. PICK c : \A x \in Range(fs') : Dated(x, c)
  BY DEF SidesDated, FsDated
<1>2. /\ clock \in Nat /\ clock <= clock'
      /\ \A x \in Range(fs) : x.ver \in Nat /\ x.ino \in Nat
  BY DEF SidesDated, DataInv, DataOK, ItemsOK, Item, Range
<1>3. ASSUME NEW x \in Range(fs')
      PROVE  /\ x.ino <= clock' /\ x.ver <= clock'
             /\ IF x.dir THEN x.ver = 0 /\ x.data = None ELSE x.ver # 0
  BY <1>1, <1>2 DEF Dated, Bare, VersionsOK
<1>4. ASSUME NEW x \in Range(fs'), NEW y \in Range(fs'), x.ver = y.ver
      PROVE  x.data = y.data
  <2>1. Dated(x, c) /\ Dated(y, c)
    BY <1>1
  <2>2. CASE Bare(x) \/ Bare(y)
    BY <1>3, <1>4, <2>2 DEF Bare
  <2>3. CASE ~ Bare(x) /\ ~ Bare(y)
    BY <1>2, <1>4, <2>1, <2>3 DEF Dated, VersionsOK
  <2> QED BY <2>2, <2>3
<1> QED BY <1>3, <1>4 DEF VersionsOK

\* A row that says what is so goes on doing so: what a step writes is of none
\* of the versions and revisions that the row names.
LEMMA DatedRow ==
    ASSUME DataInv, clock' \in Nat, SidesDated,
           NEW r \in Row, RowTold(r, fs, drive, clock)
    PROVE  RowTold(r, fs', drive', clock')
<1> SUFFICES ASSUME ~ r.dir PROVE RowTold(r, fs', drive', clock')
  BY DEF RowTold
<1>1. PICK c : \A x \in Range(fs') : Dated(x, c)
  BY DEF SidesDated, FsDated
<1>2. /\ clock \in Nat /\ clock <= clock'
      /\ r.ino \in Nat /\ r.ver \in Nat /\ r.uid \in Nat /\ r.rev \in Nat
  BY DEF SidesDated, DataInv, DataOK, Row
<1>3. /\ r.ino <= clock /\ r.ver <= clock /\ r.uid <= clock /\ r.rev <= clock
      /\ r.lsha \in {None, r.rsha}
  BY DEF RowTold
<1>4. ASSUME NEW x \in Range(fs'), x.ino = r.ino, x.ver = r.ver
      PROVE  x.data = r.rsha
  <2>1. x \in Range(fs)
    BY <1>1, <1>2, <1>3, <1>4 DEF Dated
  <2> QED BY <1>4, <2>1 DEF RowTold
<1>5. ASSUME r.uid \in DOMAIN drive', drive'[r.uid].rev = r.rev
      PROVE  drive'[r.uid].sha = r.rsha
  <2>1. r.uid \in DOMAIN drive /\ drive'[r.uid].rev = drive[r.uid].rev
        /\ drive'[r.uid].sha = drive[r.uid].sha
    BY <1>2, <1>3, <1>5 DEF SidesDated, DriveDated
  <2> QED BY <1>5, <2>1 DEF RowTold
<1>6. r.ino <= clock' /\ r.ver <= clock' /\ r.uid <= clock' /\ r.rev <= clock'
  BY <1>2, <1>3
<1> QED BY <1>3, <1>4, <1>5, <1>6 DEF RowTold

LEMMA StillDated ==
    /\ Range(fs') \subseteq Range(fs) => FsDated
    /\ fs' = fs => FsDated
    /\ drive' = drive => DriveDated
  BY DEF FsDated, Dated, DriveDated, Range

LEMMA PuttingDated ==
    ASSUME NEW p \in Path, NEW x, fs' = Put(fs, p, x), DataInv, clock' = clock + 1,
           \/ ~ x.dir /\ x.ver = clock + 1 /\ x.ino = clock + 1
           \/ Bare(x) /\ x.ino = clock + 1
    PROVE  FsDated
<1>1. clock \in Nat
  BY DEF DataInv, DataOK
<1>2. Dated(x, x.data)
  BY <1>1 DEF Dated
<1>3. \A y \in Range(fs') : y \in Range(fs) \/ y = x
  BY DEF Put, Range
<1> QED BY <1>2, <1>3 DEF FsDated, Dated

LEMMA DownloadDated ==
    ASSUME DataInv, ControlInv, NEW id \in DOMAIN tasks,
           DownloadPlace(id) \/ DownloadSwap(id)
    PROVE  SidesDated
<1> DEFINE op == tasks[id].op
           sha == tasks[id].hold.sha
<1>1. /\ op.path \in Path /\ Len(op.path) \in Nat /\ clock \in Nat
      /\ DOMAIN fs \subseteq Path
  BY TaskFacts, PathFacts DEF DataInv, DataOK, ItemsOK
<1>2. CASE DownloadPlace(id)
  <2>1. clock' = clock + Len(op.path) /\ drive' = drive
    BY <1>2 DEF DownloadPlace
  <2>2. FsDated
    <3>1. CASE op.lfp # None
      <4>1. fs' = RemoveTree(fs, op.path)
        BY <1>2, <3>1 DEF DownloadPlace, Recycle
      <4> QED BY <1>1, <4>1, TreeRanges, StillDated
    <3>2. CASE op.lfp = None
      <4>1. fs' = WithParents(fs, op.path)
        BY <1>2, <3>2 DEF DownloadPlace
      <4>2. ASSUME NEW x \in Range(fs') PROVE Dated(x, None)
        <5>1. x \in Range(fs) \/ (Bare(x) /\ \E n \in 1..Len(op.path) : x.ino = clock + n)
          BY <1>1, <4>1, <4>2, TreeRanges
        <5> QED BY <1>1, <2>1, <5>1 DEF Dated
      <4> QED BY <4>2 DEF FsDated
    <3> QED BY <3>1, <3>2
  <2> QED BY <1>1, <2>1, <2>2, StillDated DEF SidesDated
<1>3. CASE DownloadSwap(id)
  <2> DEFINE item == [dir |-> FALSE, ino |-> clock + 1, ver |-> clock + 1,
                      data |-> sha]
  <2>1. fs' = Put(fs, op.path, item) /\ clock' = clock + 1 /\ drive' = drive
    BY <1>3 DEF DownloadSwap
  <2>2. ~ item.dir /\ item.ver = clock + 1 /\ item.ino = clock + 1
    OBVIOUS
  <2> HIDE DEF item
  <2>3. FsDated
    BY <1>1, <2>1, <2>2, PuttingDated
  <2> QED BY <1>1, <2>1, <2>3, StillDated DEF SidesDated
<1> QED BY <1>2, <1>3

LEMMA SlideDated ==
    ASSUME DataInv, ControlInv, NEW id \in DOMAIN tasks, MoveLocalAct(id)
    PROVE  SidesDated
<1> DEFINE op == tasks[id].op
           f == WithParents(fs, op.path)
           g == RemoveTree(f, op.path)
<1>1. /\ op \in Operation /\ op.path \in Path /\ Len(op.path) \in Nat
      /\ clock \in Nat /\ DOMAIN fs \subseteq Path /\ op.kind = "move_local"
  BY TaskFacts, PathFacts DEF DataInv, DataOK, ItemsOK, MoveLocalAct, Able, Fits
<1>2. op.from \in Path
  BY <1>1 DEF Operation, MoveKinds
<1>3. /\ fs' = MoveTree(g, op.from, op.path)
      /\ clock' = clock + Len(op.path) /\ drive' = drive
  BY DEF MoveLocalAct
<1>4. DOMAIN f \subseteq Path
  BY <1>1, TreeRanges
<1>5. DOMAIN g \subseteq Path /\ Range(g) \subseteq Range(f)
  <2> HIDE DEF f
  <2> QED BY <1>1, <1>4, TreeRanges DEF RemoveTree
<1>6. Range(fs') \subseteq Range(f)
  <2> HIDE DEF f, g
  <2> QED BY <1>1, <1>2, <1>3, <1>5, TreeRanges
<1>7. ASSUME NEW x \in Range(fs') PROVE Dated(x, None)
  <2>1. x \in Range(f)
    BY <1>6, <1>7
  <2>2. x \in Range(fs) \/ (Bare(x) /\ \E n \in 1..Len(op.path) : x.ino = clock + n)
    BY <1>1, <2>1, TreeRanges
  <2> QED BY <1>1, <1>3, <2>2 DEF Dated
<1>8. FsDated
  BY <1>7 DEF FsDated
<1> QED BY <1>1, <1>3, <1>8, StillDated DEF SidesDated

LEMMA OtherLocalDated ==
    ASSUME DataInv, ControlInv, NEW id \in DOMAIN tasks,
           RecycleLocalAct(id) \/ CreateLocalFolderAct(id)
    PROVE  SidesDated
<1> DEFINE p == tasks[id].op.path
<1>1. p \in Path /\ clock \in Nat /\ DOMAIN fs \subseteq Path
  BY TaskFacts DEF DataInv, DataOK, ItemsOK
<1>2. CASE RecycleLocalAct(id)
  <2>1. fs' = RemoveTree(fs, p) /\ clock' = clock /\ drive' = drive
    BY <1>2 DEF RecycleLocalAct, Recycle
  <2>2. FsDated
    BY <1>1, <2>1, TreeRanges, StillDated
  <2> QED BY <1>1, <2>1, <2>2, StillDated DEF SidesDated
<1>3. CASE CreateLocalFolderAct(id)
  <2> DEFINE item == [dir |-> TRUE, ino |-> clock + 1, ver |-> 0, data |-> None]
  <2>1. fs' = Put(fs, p, item) /\ clock' = clock + 1 /\ drive' = drive
    BY <1>3 DEF CreateLocalFolderAct
  <2>2. Bare(item) /\ item.ino = clock + 1
    BY DEF Bare
  <2> HIDE DEF item
  <2>3. FsDated
    BY <1>1, <2>1, <2>2, PuttingDated
  <2> QED BY <1>1, <2>1, <2>3, StillDated DEF SidesDated
<1> QED BY <1>2, <1>3

LEMMA RemoteDated ==
    ASSUME DataInv, ControlInv, NEW id \in DOMAIN tasks,
           \/ UploadNewFile(id) \/ UploadNewRevision(id) \/ MoveRemoteAct(id)
           \/ TrashRemoteAct(id) \/ CreateRemoteFolderAct(id)
    PROVE  SidesDated
<1> DEFINE t == tasks[id]
           op == t.op
<1>1. clock \in Nat /\ (\A u \in DOMAIN drive : u \in Nat /\ u <= clock)
  BY DEF DataInv, DataOK, NodesOK, Fresh
<1>2. CASE UploadNewFile(id) \/ CreateRemoteFolderAct(id)
  <2>1. \E node : /\ drive' = Put(drive, clock + 1, node)
                  /\ \/ node.rev = 0 /\ node.sha = None
                     \/ node.rev = clock + 1 /\ ~ node.dir
    BY <1>2 DEF UploadNewFile, CreateRemoteFolderAct
  <2>2. clock' = clock + 1 /\ fs' = fs
    BY <1>2 DEF UploadNewFile, CreateRemoteFolderAct
  <2>3. DriveDated
    BY <1>1, <2>1, <2>2 DEF DriveDated, Put
  <2> QED BY <1>1, <2>2, <2>3, StillDated DEF SidesDated
<1>3. CASE UploadNewRevision(id)
  <2>1. /\ drive' = [drive EXCEPT ![op.uid].rev = clock + 1,
                                  ![op.uid].sha = t.hold.sha]
        /\ clock' = clock + 1 /\ fs' = fs
    BY <1>3 DEF UploadNewRevision
  <2>2. \A u \in DOMAIN drive : drive[u] \in Node
    BY DEF DataInv, DataOK, NodesOK
  <2>3. ~ drive[op.uid].dir
    <3>1. /\ op.kind = "upload" /\ t.pc = "send" /\ Errors(t) = {}
          /\ op.uid # None /\ Held(op, t.pc, t.hold)
      BY <1>3, TaskFacts DEF UploadNewRevision, Able, Fits
    <3>2. t.hold.uid = op.uid /\ t.pc \in Acting
      BY <3>1 DEF Held, Acting
    <3> QED BY <3>1, <3>2, UploadClear
  <2>4. DriveDated
    BY <1>1, <2>1, <2>2, <2>3 DEF DriveDated, Node
  <2> QED BY <1>1, <2>1, <2>4, StillDated DEF SidesDated
<1>4. CASE MoveRemoteAct(id) \/ TrashRemoteAct(id)
  <2>1. /\ \/ \E x : drive' = [drive EXCEPT ![op.uid].parent = x]
           \/ \E x : drive' = [drive EXCEPT ![op.uid].name = x]
           \/ drive' = [drive EXCEPT ![op.uid].trashed = TRUE]
        /\ clock' = clock /\ fs' = fs
    BY <1>4 DEF MoveRemoteAct, TrashRemoteAct
  <2>2. \A u \in DOMAIN drive : drive[u] \in Node
    BY DEF DataInv, DataOK, NodesOK
  <2>3. \A u \in DOMAIN drive' :
            /\ u \in DOMAIN drive /\ drive'[u].dir = drive[u].dir
            /\ drive'[u].rev = drive[u].rev /\ drive'[u].sha = drive[u].sha
    <3>1. CASE \E x : drive' = [drive EXCEPT ![op.uid].parent = x]
      BY <2>2, <3>1 DEF Node
    <3>2. CASE \E x : drive' = [drive EXCEPT ![op.uid].name = x]
      BY <2>2, <3>2 DEF Node
    <3>3. CASE drive' = [drive EXCEPT ![op.uid].trashed = TRUE]
      BY <2>2, <3>3 DEF Node
    <3> QED BY <2>1, <3>1, <3>2, <3>3
  <2>4. DriveDated
    BY <2>3 DEF DriveDated
  <2> QED BY <1>1, <2>1, <2>4, StillDated DEF SidesDated
<1> QED BY <1>2, <1>3, <1>4

\* The users: an edited file keeps its inode.
LEMMA LocalUserDated ==
    ASSUME DataInv, VersionsOK(Range(fs), clock), LocalUser
    PROVE  SidesDated
<1>1. /\ clock \in Nat /\ ItemsOK(fs) /\ UserPaths \subseteq Path
  BY ExecutorAssumption DEF DataInv, DataOK
<1>2. DOMAIN fs \subseteq Path
  BY <1>1 DEF ItemsOK
<1>3. drive' = drive
  BY DEF LocalUser, UserEdits, UserDeletes, UserCreates, UserRenames,
         LocalUserMay
<1>4. PICK p \in DOMAIN fs \cup UserPaths :
          \/ UserEdits(p) \/ UserDeletes(p) \/ UserCreates(p)
          \/ \E q \in UserPaths : UserRenames(p, q)
  BY DEF LocalUser
<1>5. p \in Path
  BY <1>1, <1>2
<1>6. CASE UserEdits(p)
  <2>1. PICK c : fs' = [fs EXCEPT ![p].ver = clock + 1, ![p].data = c]
    BY <1>6 DEF UserEdits
  <2>2. p \in DOMAIN fs /\ ~ fs[p].dir /\ clock' = clock + 1
    BY <1>6 DEF UserEdits, IsFile
  <2>3. fs[p] \in Item
    BY <1>1, <2>2 DEF ItemsOK
  <2>4. fs[p].ino <= clock
    BY <2>2 DEF Range, VersionsOK
  <2>5. /\ fs'[p].ver = clock + 1 /\ fs'[p].data = c /\ ~ fs'[p].dir
        /\ fs'[p].ino = fs[p].ino
    BY <2>1, <2>2, <2>3 DEF Item
  <2>6. Dated(fs'[p], c)
    BY <1>1, <2>2, <2>3, <2>4, <2>5 DEF Dated, Item
  <2>7. \A x \in Range(fs') : x = fs'[p] \/ x \in Range(fs)
    BY <2>1 DEF Range
  <2>8. FsDated
    BY <2>6, <2>7 DEF FsDated, Dated
  <2> QED BY <1>1, <1>3, <2>2, <2>8, StillDated DEF SidesDated
<1>7. CASE UserCreates(p)
  <2>1. PICK c : fs' = Put(fs, p, [dir |-> FALSE, ino |-> clock + 1,
                                   ver |-> clock + 1, data |-> c])
    BY <1>7 DEF UserCreates
  <2>2. clock' = clock + 1
    BY <1>7 DEF UserCreates
  <2>3. FsDated
    BY <1>5, <2>1, <2>2, PuttingDated
  <2> QED BY <1>1, <1>3, <2>2, <2>3, StillDated DEF SidesDated
<1>8. CASE UserDeletes(p)
  <2>1. fs' = RemoveTree(fs, p) /\ clock' = clock
    BY <1>8 DEF UserDeletes
  <2>2. FsDated
    BY <1>2, <1>5, <2>1, TreeRanges, StillDated
  <2> QED BY <1>1, <1>3, <2>1, <2>2, StillDated DEF SidesDated
<1>9. CASE \E q \in UserPaths : UserRenames(p, q)
  <2>1. PICK q \in UserPaths : UserRenames(p, q)
    BY <1>9
  <2>2. fs' = MoveTree(fs, p, q) /\ clock' = clock /\ q \in Path
    BY <1>1, <2>1 DEF UserRenames
  <2>3. FsDated
    BY <1>2, <1>5, <2>2, TreeRanges, StillDated
  <2> QED BY <1>1, <1>3, <2>2, <2>3, StillDated DEF SidesDated
<1> QED BY <1>4, <1>6, <1>7, <1>8, <1>9

LEMMA RemoteUserDated ==
    ASSUME DataInv, RemoteUser
    PROVE  SidesDated
<1>1. clock \in Nat /\ (\A u \in DOMAIN drive : drive[u] \in Node)
  BY DEF DataInv, DataOK, NodesOK
<1>2. fs' = fs
  BY DEF RemoteUser, RemoteEdits, RemoteTrashes, RemoteRestores, RemoteDeletes,
         RemoteMoves
<1>3. PICK u \in DOMAIN drive :
          \/ RemoteEdits(u) \/ RemoteTrashes(u)
          \/ RemoteRestores(u) \/ RemoteDeletes(u)
          \/ \E parent \in DOMAIN drive \cup {Root}, name \in Names :
                 RemoteMoves(u, parent, name)
  BY DEF RemoteUser
<1>4. CASE RemoteEdits(u)
  <2>1. PICK c : drive' = [drive EXCEPT ![u].rev = clock + 1, ![u].sha = c]
    BY <1>4 DEF RemoteEdits
  <2>2. clock' = clock + 1 /\ ~ drive[u].dir
    BY <1>4 DEF RemoteEdits
  <2>3. DriveDated
    BY <1>1, <2>1, <2>2 DEF DriveDated, Node
  <2> QED BY <1>1, <1>2, <2>2, <2>3, StillDated DEF SidesDated
<1>5. CASE ~ RemoteEdits(u)
  <2>1. clock' = clock
    BY <1>3, <1>5 DEF RemoteTrashes, RemoteRestores, RemoteDeletes, RemoteMoves
  <2>2. \/ drive' = [drive EXCEPT ![u].trashed = TRUE]
        \/ drive' = [drive EXCEPT ![u].trashed = FALSE]
        \/ \E x, y : drive' = [drive EXCEPT ![u].parent = x, ![u].name = y]
        \/ RemoteDeletes(u)
    BY <1>3, <1>5 DEF RemoteTrashes, RemoteRestores, RemoteMoves
  <2>3. \A v \in DOMAIN drive' :
            /\ v \in DOMAIN drive /\ drive'[v].dir = drive[v].dir
            /\ drive'[v].rev = drive[v].rev /\ drive'[v].sha = drive[v].sha
    <3>1. CASE drive' = [drive EXCEPT ![u].trashed = TRUE]
      BY <1>1, <3>1 DEF Node
    <3>2. CASE drive' = [drive EXCEPT ![u].trashed = FALSE]
      BY <1>1, <3>2 DEF Node
    <3>3. CASE \E x, y : drive' = [drive EXCEPT ![u].parent = x, ![u].name = y]
      BY <1>1, <3>3 DEF Node
    <3>4. CASE RemoteDeletes(u)
      BY <3>4 DEF RemoteDeletes
    <3> QED BY <2>2, <3>1, <3>2, <3>3, <3>4
  <2>4. DriveDated
    BY <2>3 DEF DriveDated
  <2> QED BY <1>1, <1>2, <2>1, <2>4, StillDated DEF SidesDated
<1> QED BY <1>4, <1>5

LEMMA QuietDated ==
    ASSUME DataInv, UNCHANGED <<fs, drive>>, clock <= clock'
    PROVE  SidesDated
  BY StillDated DEF SidesDated

LEMMA NextDated ==
    ASSUME Inv, VersionsOK(Range(fs), clock), [Next]_vars
    PROVE  SidesDated
<1>0. DataInv /\ ControlInv /\ clock \in Nat
  BY DEF Inv, DataInv, DataOK
<1>1. CASE \E id \in DOMAIN tasks : TaskStep(id)
  <2>1. PICK id \in DOMAIN tasks : TaskStep(id)
    BY <1>1
  <2>2. CASE StepFails(id) \/ RemoteFails(id) \/ TransferFails(id)
             \/ PrecheckPasses(id) \/ PrecheckSkips(id) \/ Read(id)
             \/ CommitStep(id) \/ Retry(id)
    <3>1. UNCHANGED <<fs, drive, clock>>
      BY <2>2 DEF StepFails, RemoteFails, TransferFails, PrecheckPasses,
         PrecheckSkips, Read, CommitStep, Retry, RetryFindsLanded, RetryAgain,
         RetryThrows, Quiet, sides
    <3> QED BY <1>0, <3>1, QuietDated
  <2> QED BY <1>0, <2>1, <2>2, DownloadDated, SlideDated, OtherLocalDated,
             RemoteDated DEF TaskStep, Act
<1>2. CASE \E id \in DOMAIN journal : Recover(id)
  <2>1. UNCHANGED <<fs, drive, clock>>
    BY <1>2 DEF Recover, RecoverUnstarted, RecoverCompleted, RecoverFailed,
       RecoverAbandoned, RecoverFrame, sides
  <2> QED BY <1>0, <2>1, QuietDated
<1>3. CASE StartBatch
  <2>1. UNCHANGED <<fs, drive>> /\ clock <= clock'
    BY <1>0, <1>3 DEF StartBatch, sides
  <2> QED BY <1>0, <2>1, QuietDated
<1>4. CASE RecoveryDone \/ KeepBooks \/ StopEarly \/ MakePlan \/ Pause
           \/ CancelAll \/ Crash \/ UNCHANGED vars
  <2>1. UNCHANGED <<fs, drive, clock>>
    BY <1>4 DEF RecoveryDone, KeepBooks, StopEarly, MakePlan, Pause, CancelAll,
       Crash, vars, sides
  <2> QED BY <1>0, <2>1, QuietDated
<1> QED BY <1>0, <1>1, <1>2, <1>3, <1>4, LocalUserDated, RemoteUserDated
        DEF Next, Program

-----------------------------------------------------------------------------
(* What a download has read of its node.                                   *)

Fetching == {"stream", "place", "swap", "record"}

\* The revision and the digest a download holds are of one another, as long as
\* the node has that revision.
HoldsFor(t, d, n) ==
    t.pc \in Fetching =>
        /\ t.hold.rev <= n /\ t.op.uid <= n
        /\ t.op.uid \in DOMAIN d /\ d[t.op.uid].rev = t.hold.rev
               => d[t.op.uid].sha = t.hold.sha

Fetched == \A id \in DOMAIN tasks : HoldsFor(tasks[id], drive, clock)

\* A task goes on with what it holds, or has just read the node.
OwnHold(id) ==
    id \in DOMAIN tasks' /\ tasks'[id].pc \in Fetching =>
        LET op == tasks[id].op
            hold == tasks'[id].hold IN
        /\ tasks'[id].op = op
        /\ \/ tasks[id].pc \in Fetching /\ hold = tasks[id].hold
           \/ /\ op.uid \in DOMAIN drive /\ UNCHANGED <<drive, clock>>
              /\ hold.rev = drive[op.uid].rev /\ hold.sha = drive[op.uid].sha

LEMMA GoesTo ==
    ASSUME ControlInv, NEW id \in DOMAIN tasks, NEW pc, NEW hold,
           Proceed(id, pc, hold)
    PROVE  /\ tasks'[id].pc = pc /\ tasks'[id].hold = hold
           /\ tasks'[id].op = tasks[id].op
           /\ pc \notin Fetching => OwnHold(id)
  BY DEF Proceed, Go, ControlInv, ControlOK, Task, OwnHold

LEMMA RaisesHold ==
    ASSUME ControlInv, NEW id \in DOMAIN tasks, NEW e, Raise(id, e)
    PROVE  OwnHold(id)
<1>1. "retry" \notin Fetching
  BY DEF Fetching
<1> QED BY <1>1, GoesTo DEF Raise, Finish, Forget, OwnHold

LEMMA RepliesHold ==
    ASSUME ControlInv, NEW id \in DOMAIN tasks, NEW pc, NEW hold,
           pc \notin Fetching, Reply(id, pc, hold)
    PROVE  OwnHold(id)
  BY GoesTo, RaisesHold DEF Reply

LEMMA DownloadHolds ==
    ASSUME ControlInv, NEW id \in DOMAIN tasks,
           Read(id) \/ DownloadPlace(id) \/ DownloadSwap(id)
    PROVE  OwnHold(id)
<1> DEFINE t == tasks[id]
           op == t.op
<1>1. CASE Able(id, "fetch") /\ Read(id)
  <2>1. Proceed(id, "stream", [ver |-> None, sha |-> drive[op.uid].sha,
                               uid |-> op.uid, rev |-> drive[op.uid].rev])
    BY <1>1 DEF Read, Able
  <2>2. op.uid \in DOMAIN drive
    BY <1>1, TaskFacts, DownloadClear DEF Able, Fits, Acting
  <2>3. UNCHANGED <<drive, clock>>
    BY <1>1 DEF Read, Quiet, sides
  <2> QED BY <2>1, <2>2, <2>3, GoesTo DEF OwnHold
<1>2. CASE (Able(id, "stream") /\ Read(id)) \/ DownloadPlace(id) \/ DownloadSwap(id)
  <2>1. \E pc : Proceed(id, pc, t.hold)
    BY <1>2 DEF Read, Able, DownloadPlace, DownloadSwap
  <2>2. t.pc \in Fetching
    BY <1>2 DEF Able, DownloadPlace, DownloadSwap, Fetching
  <2> QED BY <2>1, <2>2, GoesTo DEF OwnHold
<1>3. CASE Read(id) /\ ~ Able(id, "fetch") /\ ~ Able(id, "stream")
  <2>1. \E pc, hold : Proceed(id, pc, hold) /\ pc \notin Fetching
    BY <1>3 DEF Read, Fetching
  <2> QED BY <2>1, GoesTo
<1> QED BY <1>1, <1>2, <1>3

LEMMA OtherHolds ==
    ASSUME ControlInv, NEW id \in DOMAIN tasks,
           \/ UploadNewFile(id) \/ UploadNewRevision(id) \/ MoveRemoteAct(id)
           \/ TrashRemoteAct(id) \/ CreateRemoteFolderAct(id)
           \/ MoveLocalAct(id) \/ RecycleLocalAct(id)
           \/ CreateLocalFolderAct(id)
    PROVE  OwnHold(id)
<1>0. {"check", "rename", "confirm", "verify", "commit", "settle"}
          \cap Fetching = {}
  BY DEF Fetching
<1>1. CASE UploadNewFile(id) \/ UploadNewRevision(id) \/ MoveRemoteAct(id)
           \/ TrashRemoteAct(id)
  <2>1. \E pc \in {"check", "rename", "confirm", "verify"} :
            \E hold : Reply(id, pc, hold)
    BY <1>1 DEF UploadNewFile, UploadNewRevision, MoveRemoteAct, TrashRemoteAct
  <2> QED BY <1>0, <2>1, RepliesHold
<1>2. CASE CreateRemoteFolderAct(id)
  <2>1. (\E hold : Proceed(id, "commit", hold)) \/ Raise(id, "lost")
    BY <1>2 DEF CreateRemoteFolderAct
  <2> QED BY <1>0, <2>1, GoesTo, RaisesHold
<1>3. CASE MoveLocalAct(id) \/ RecycleLocalAct(id) \/ CreateLocalFolderAct(id)
  <2>1. \E pc \in {"settle", "commit"} : Proceed(id, pc, NoHold)
    BY <1>3 DEF MoveLocalAct, RecycleLocalAct, CreateLocalFolderAct
  <2> QED BY <1>0, <2>1, GoesTo
<1> QED BY <1>1, <1>2, <1>3

LEMMA TaskStepHolds ==
    ASSUME ControlInv, NEW id \in DOMAIN tasks, TaskStep(id)
    PROVE  OwnHold(id)
<1>1. CASE StepFails(id) \/ RemoteFails(id) \/ TransferFails(id)
  BY <1>1, RaisesHold DEF StepFails, RemoteFails, TransferFails
<1>2. CASE PrecheckPasses(id)
  <2>1. tasks'[id].pc = FirstStep[tasks[id].op.kind]
    BY <1>2 DEF PrecheckPasses, Go, ControlInv, ControlOK, Task
  <2>2. tasks[id].op.kind \in Kinds \ Bookkeeping
    BY TaskFacts
  <2>3. tasks'[id].pc \notin Fetching
    BY <2>1, <2>2 DEF FirstStep, Kinds, TransferKinds, MoveKinds, Bookkeeping,
       Fetching
  <2> QED BY <2>3 DEF OwnHold
<1>3. CASE PrecheckSkips(id) \/ RetryFindsLanded(id) \/ RetryThrows(id)
           \/ CommitStep(id)
  <2>1. tasks' = Forget(tasks, id)
    BY <1>3 DEF PrecheckSkips, RetryFindsLanded, RetryThrows, CommitStep,
       Resolve, Finish, Throw
  <2> QED BY <2>1 DEF Forget, OwnHold
<1>4. CASE RetryAgain(id)
  <2>1. tasks'[id].pc = "precheck"
    BY <1>4 DEF RetryAgain, ControlInv, ControlOK, Task
  <2> QED BY <2>1 DEF OwnHold, Fetching
<1> QED BY <1>1, <1>2, <1>3, <1>4, DownloadHolds, OtherHolds
        DEF TaskStep, Act, Retry

LEMMA HoldsOn ==
    ASSUME Inv, clock' \in Nat, SidesDated, NEW id \in DOMAIN tasks,
           HoldsFor(tasks[id], drive, clock)
    PROVE  HoldsFor(tasks[id], drive', clock')
<1> DEFINE t == tasks[id]
<1> SUFFICES ASSUME t.pc \in Fetching PROVE HoldsFor(t, drive', clock')
  BY DEF HoldsFor
<1>1. /\ clock \in Nat /\ clock <= clock'
      /\ t.hold \in Hold /\ t.op \in Operation /\ t.op.kind = "download"
      /\ Held(t.op, t.pc, t.hold)
  BY TaskFacts DEF Inv, DataInv, DataOK, SidesDated, Fits, Fetching
<1>2. t.hold.rev \in Nat /\ t.op.uid \in Nat
  BY <1>1 DEF Hold, Operation, Held, Fetching
<1>3. t.hold.rev <= clock /\ t.op.uid <= clock
  BY DEF HoldsFor
<1>4. ASSUME t.op.uid \in DOMAIN drive', drive'[t.op.uid].rev = t.hold.rev
      PROVE  drive'[t.op.uid].sha = t.hold.sha
  <2>1. t.op.uid \in DOMAIN drive /\ drive'[t.op.uid].rev = drive[t.op.uid].rev
        /\ drive'[t.op.uid].sha = drive[t.op.uid].sha
    BY <1>1, <1>2, <1>3, <1>4 DEF SidesDated, DriveDated
  <2> QED BY <1>4, <2>1 DEF HoldsFor
<1> QED BY <1>1, <1>2, <1>3, <1>4 DEF HoldsFor

LEMMA NextFetched ==
    ASSUME Inv, Rooted(fs), Fetched, \A u \in DOMAIN drive : drive[u].rev <= clock,
           SidesDated, clock' \in Nat, [Next]_vars
    PROVE  Fetched'
<1>0. DataInv /\ ControlInv
  BY DEF Inv
<1>1. \A id \in DOMAIN tasks : HoldsFor(tasks[id], drive', clock')
  BY HoldsOn DEF Fetched
<1>2. CASE \E id \in DOMAIN tasks : TaskStep(id)
  <2>1. PICK id \in DOMAIN tasks : TaskStep(id)
    BY <1>2
  <2>2. Others(id) /\ OwnHold(id)
    BY <1>0, <2>1, TaskStepFacts, TaskStepHolds DEF StepFacts
  <2>3. ASSUME NEW i \in DOMAIN tasks' PROVE HoldsFor(tasks'[i], drive', clock')
    <3>1. CASE i # id
      BY <1>1, <2>2, <3>1 DEF Others
    <3>2. CASE i = id /\ tasks'[id].pc \in Fetching
      <4>1. CASE tasks[id].pc \in Fetching /\ tasks'[id].hold = tasks[id].hold
        BY <1>1, <2>2, <3>2, <4>1 DEF OwnHold, HoldsFor
      <4>2. CASE /\ tasks[id].op.uid \in DOMAIN drive /\ UNCHANGED <<drive, clock>>
                 /\ tasks'[id].hold.rev = drive[tasks[id].op.uid].rev
                 /\ tasks'[id].hold.sha = drive[tasks[id].op.uid].sha
        <5>1. tasks[id].op.uid <= clock /\ drive[tasks[id].op.uid].rev <= clock
          BY <1>0, <4>2 DEF DataInv, Fresh
        <5> QED BY <2>2, <3>2, <4>2, <5>1 DEF OwnHold, HoldsFor
      <4> QED BY <2>2, <3>2, <4>1, <4>2 DEF OwnHold
    <3>3. CASE i = id /\ tasks'[id].pc \notin Fetching
      BY <3>3 DEF HoldsFor
    <3> QED BY <3>1, <3>2, <3>3
  <2> QED BY <2>3 DEF Fetched
<1>3. CASE StartBatch
  <2>1. \A i \in DOMAIN tasks' :
            \/ tasks'[i].pc = "precheck"
            \/ i \in DOMAIN tasks /\ tasks'[i] = tasks[i]
    BY <1>3 DEF StartBatch
  <2> QED BY <1>1, <2>1 DEF Fetched, HoldsFor, Fetching
<1>4. CASE Crash
  BY <1>4, EmptyFacts DEF Crash, Fetched
<1>5. CASE \/ \E id \in DOMAIN journal : Recover(id)
           \/ RecoveryDone \/ KeepBooks \/ StopEarly \/ MakePlan \/ Pause
           \/ CancelAll \/ LocalUser \/ RemoteUser \/ UNCHANGED vars
  <2>1. tasks' = tasks
    BY <1>5, IdleTasks
  <2> QED BY <1>1, <2>1 DEF Fetched
<1> QED BY <1>2, <1>3, <1>4, <1>5 DEF Next, Program

\* What the proofs about the baseline need of the two sides and the tasks.
DatesInv ==
    /\ IsFiniteSet(DOMAIN drive) /\ Root \notin DOMAIN drive
    /\ VersionsOK(Range(fs), clock)
    /\ \A u \in DOMAIN drive : /\ drive[u].rev <= clock
                               /\ drive[u].dir => drive[u].sha = None
    /\ Fetched

LEMMA InitDates == Init => DatesInv
<1> SUFFICES ASSUME Init PROVE DatesInv
  OBVIOUS
<1>1. Fetched
  BY EmptyFacts DEF Init, Fetched
<1>2. PICK w \in Worlds : fs = w.fs /\ drive = w.drive /\ clock = w.clock
  BY DEF Init
<1> QED BY <1>1, <1>2, BaselinesAssumption, WorldsAssumption DEF DatesInv

LEMMA NextDates ==
    ASSUME Inv, Rooted(fs), DatesInv, [Next]_vars
    PROVE  DatesInv' /\ SidesDated
<1>1. DataInv /\ SidesDated /\ clock \in Nat
  BY NextDated DEF Inv, DatesInv, DataInv, DataOK
<1>2. clock' \in Nat
  BY NextInv DEF Inv, DataInv, DataOK
<1>3. VersionsOK(Range(fs'), clock')
  BY <1>1, <1>2, DatedVersions DEF DatesInv
<1>4. DOMAIN drive' \subseteq DOMAIN drive \cup {clock + 1}
  BY <1>1 DEF SidesDated, DriveDated
<1>5. IsFiniteSet(DOMAIN drive')
  <2> DEFINE D == DOMAIN drive
             E == DOMAIN drive'
             x == clock + 1
  <2>1. IsFiniteSet(D) /\ E \subseteq D \cup {x}
    BY <1>4 DEF DatesInv
  <2> HIDE DEF D, E, x
  <2>2. IsFiniteSet(E)
    BY <2>1, FS_AddElement, FS_Subset
  <2> QED BY <2>2 DEF E
<1>6. ASSUME NEW u \in DOMAIN drive'
      PROVE  /\ drive'[u].rev <= clock'
             /\ drive'[u].dir => drive'[u].sha = None
  <2>1. CASE /\ u \in DOMAIN drive /\ drive'[u].dir = drive[u].dir
             /\ drive'[u].rev = drive[u].rev /\ drive'[u].sha = drive[u].sha
    <3>1. /\ drive[u].rev <= clock /\ drive[u].rev \in Nat
          /\ drive[u].dir => drive[u].sha = None
      BY <1>1, <2>1, NodeFacts DEF DatesInv
    <3> QED BY <1>1, <1>2, <2>1, <3>1 DEF SidesDated
  <2>2. CASE \/ drive'[u].rev \in (clock + 1)..clock' /\ ~ drive'[u].dir
             \/ drive'[u].rev = 0 /\ drive'[u].sha = None
    BY <1>2, <2>2
  <2> QED BY <1>1, <2>1, <2>2 DEF SidesDated, DriveDated
<1>7. Fetched'
  BY <1>1, <1>2, NextFetched DEF DatesInv
<1>8. Root \notin DOMAIN drive'
  BY <1>1, <1>4 DEF DatesInv, Root
<1> QED BY <1>1, <1>3, <1>5, <1>6, <1>7, <1>8 DEF DatesInv

LEMMA SpecDates == Spec => [](Inv /\ Rooted(fs) /\ DatesInv)
<1>1. Inv /\ Rooted(fs) /\ DatesInv /\ [Next]_vars => DatesInv'
  BY NextDates
<1> QED BY <1>1, InitDates, SpecInv, SpecRooted, PTL DEF Spec

-----------------------------------------------------------------------------
(* The baseline says what is so, but for the commits of what has changed.  *)

RowsTold == \A p \in DOMAIN base : RowTold(base[p], fs, drive, clock)

\* An upload whose file or whose node changed after it was read back.
StaleUpload(t) ==
    /\ t.pc = "readback"
    /\ \/ fs[t.op.path].data # t.hold.sha
       \/ drive[t.hold.uid].sha # t.hold.sha

\* A download whose file was changed before its stat was taken.
StaleDownload(t) == t.pc = "record" /\ fs[t.op.path].data # t.hold.sha

\* A landed upload that is recorded with the digest of the plan.
StaleRetry(t) == t.op.kind = "upload" /\ fs[t.op.path].data # t.op.lfp.sha

MovesFile(op) == ~ IF op.kind = "move_local" THEN fs[op.path].dir
                                             ELSE drive[op.uid].dir

\* A moved file that is not the same on both sides, or not the one whose
\* digest its row carries over.
StaleMove(op) ==
    /\ op.kind \in MoveKinds /\ MovesFile(op)
    /\ \/ fs[op.path].data # drive[op.uid].sha
       \/ CarriedSha(op.from) \notin {None, drive[op.uid].sha}

\* A file that is not what the plan says both sides have.
StaleBooks(op) ==
    /\ op.kind = "update_baseline" /\ ~ op.dir /\ op.path \in DOMAIN fs
    /\ \/ fs[op.path].data # op.rfp.sha \/ op.lfp.sha \notin {None, op.rfp.sha}
       \/ op.uid > clock \/ op.rfp.rev > clock
       \/ op.uid \in DOMAIN drive /\ drive[op.uid].rev = op.rfp.rev
                                  /\ drive[op.uid].sha # op.rfp.sha

\* A commit of what is not so any more.
Misrecords ==
    \/ \E id \in DOMAIN tasks :
           \/ /\ CommitStep(id)
              /\ \/ StaleUpload(tasks[id]) \/ StaleDownload(tasks[id])
                 \/ StaleMove(tasks[id].op)
           \/ /\ RetryFindsLanded(id)
              /\ StaleRetry(tasks[id]) \/ StaleMove(tasks[id].op)
    \/ \E id \in DOMAIN journal :
           RecoverCompleted(id) /\ StaleMove(journal[id].op)
    \/ KeepBooks /\ StaleBooks(Head(plan))

\* The rows that say what is so, and the tables of such rows.
Told     == {r \in Row : RowTold(r, fs, drive, clock)}
Books(b) == DOMAIN b \subseteq Path /\ \A p \in DOMAIN b : b[p] \in Told

LEMMA BooksKept ==
    ASSUME NEW b, Books(b), NEW p \in Path
    PROVE  /\ \A row \in Told : Books(Upsert(b, p, row))
           /\ Books(RemoveTree(b, p))
           /\ \A q \in Path : Books(MoveTree(b, p, q))
<1>0. DOMAIN b \subseteq Path /\ \A q \in DOMAIN b : b[q] \in Told
  BY DEF Books
<1>1. ASSUME NEW row \in Told PROVE Books(Upsert(b, p, row))
  <2> DEFINE others == [q \in {r \in DOMAIN b : b[r].uid # row.uid} |-> b[q]]
  <2>1. Books(others)
    BY <1>0 DEF Books
  <2>2. Upsert(b, p, row) = Put(others, p, row)
    BY DEF Upsert
  <2> HIDE DEF others
  <2> QED BY <1>1, <2>1, <2>2 DEF Books, Put
<1>2. Books(RemoveTree(b, p))
  BY <1>0 DEF Books, RemoveTree
<1>3. ASSUME NEW q \in Path PROVE Books(MoveTree(b, p, q))
  BY <1>0, MoveTreeInto DEF Books
<1> QED BY <1>1, <1>2, <1>3

LEMMA RowIsTold ==
    ASSUME DataInv, VersionsOK(Range(fs), clock),
           NEW p \in DOMAIN fs, NEW dir \in BOOLEAN, NEW uid \in Nat,
           NEW node, node.rev \in Nat, node.sha \in Digest, NEW sha \in Digest,
           ~ dir => /\ uid <= clock /\ node.rev <= clock
                    /\ sha \in {None, node.sha} /\ fs[p].data = node.sha
                    /\ uid \in DOMAIN drive /\ drive[uid].rev = node.rev
                           => drive[uid].sha = node.sha
    PROVE  LocalRow(p, dir, node, uid, sha) \in Told
<1> DEFINE row == LocalRow(p, dir, node, uid, sha)
<1>1. row \in Row
  BY RowType
<1>2. /\ row.dir = dir /\ row.ino = fs[p].ino /\ row.ver = fs[p].ver
      /\ row.lsha = sha /\ row.uid = uid /\ row.rev = node.rev
      /\ row.rsha = node.sha
  BY DEF LocalRow
<1>3. fs[p] \in Range(fs)
  BY DEF Range
<1> SUFFICES row \in Told
  OBVIOUS
<1> HIDE DEF row
<1>4. CASE dir
  BY <1>1, <1>2, <1>4 DEF Told, RowTold
<1>5. CASE ~ dir
  <2>1. \A x \in Range(fs) : x.ver = row.ver => x.data = row.rsha
    BY <1>2, <1>3, <1>5 DEF VersionsOK
  <2>2. row.ino <= clock /\ row.ver <= clock /\ row.uid <= clock
        /\ row.rev <= clock
    BY <1>2, <1>3, <1>5 DEF VersionsOK
  <2>3. row.lsha \in {None, row.rsha}
    BY <1>2, <1>5
  <2>4. row.uid \in DOMAIN drive /\ drive[row.uid].rev = row.rev
            => drive[row.uid].sha = row.rsha
    BY <1>2, <1>5
  <2>5. RowTold(row, fs, drive, clock)
    BY <2>1, <2>2, <2>3, <2>4 DEF RowTold
  <2> QED BY <1>1, <2>5 DEF Told
<1> QED BY <1>4, <1>5

LEMMA DeleteTold ==
    ASSUME Books(base), NEW op \in Operation, NEW uid, NEW node, NEW sha,
           op.kind \in {"recycle_local", "trash_remote"}
    PROVE  Books(BaseAfter(op, uid, node, sha))
<1>1. BaseAfter(op, uid, node, sha) = RemoveTree(base, op.path)
  BY DEF BaseAfter, MoveKinds
<1>2. op.path \in Path
  BY DEF Operation
<1> QED BY <1>1, <1>2, BooksKept

LEMMA MoveTold ==
    ASSUME DataInv, DatesInv, Books(base), NEW op \in Operation,
           op.kind \in MoveKinds, op.uid \in DOMAIN drive,
           op.path \in DOMAIN fs, ~ StaleMove(op), NEW sha
    PROVE  Books(BaseAfter(op, op.uid, drive[op.uid], sha))
<1> DEFINE uid == op.uid
           dir == IF op.kind = "move_local" THEN fs[op.path].dir ELSE drive[uid].dir
           row == LocalRow(op.path, dir, drive[uid], uid, CarriedSha(op.from))
<1>1. op.path \in Path /\ op.from \in Path
  BY DEF Operation
<1>2. drive[uid] \in Node /\ fs[op.path] \in Item /\ uid \in Nat
  BY DEF DataInv, DataOK, NodesOK, ItemsOK
<1>3. dir \in BOOLEAN /\ drive[uid].rev \in Nat /\ drive[uid].sha \in Digest
  BY <1>2 DEF Node, Item
<1>4. CarriedSha(op.from) \in Digest
  BY DEF CarriedSha, DataInv, DataOK, RowsOK, Row, Digest
<1>5. ~ dir => /\ uid <= clock /\ drive[uid].rev <= clock
               /\ CarriedSha(op.from) \in {None, drive[uid].sha}
               /\ fs[op.path].data = drive[uid].sha
  BY DEF DataInv, Fresh, DatesInv, StaleMove, MovesFile
<1>6. row \in Told
  <2> HIDE DEF dir
  <2> QED BY <1>2, <1>3, <1>4, <1>5, RowIsTold DEF DatesInv
<1>7. Books(MoveTree(base, op.from, op.path))
  BY <1>1, BooksKept
<1>8. BaseAfter(op, uid, drive[uid], sha) =
          Upsert(MoveTree(base, op.from, op.path), op.path, row)
  BY DEF BaseAfter, MoveKinds
<1> HIDE DEF row
<1> QED BY <1>1, <1>6, <1>7, <1>8, BooksKept

LEMMA OtherTold ==
    ASSUME DataInv, DatesInv, Books(base), NEW op \in Operation,
           op.kind \in TransferKinds \cup {"create_remote_folder",
                                          "create_local_folder"},
           NEW uid \in Nat, NEW node, node.rev \in Nat, node.sha \in Digest,
           NEW sha \in Digest, op.path \in DOMAIN fs,
           op.kind \in TransferKinds =>
               /\ uid <= clock /\ node.rev <= clock
               /\ sha = node.sha /\ fs[op.path].data = node.sha
               /\ uid \in DOMAIN drive /\ drive[uid].rev = node.rev
                      => drive[uid].sha = node.sha
    PROVE  Books(BaseAfter(op, uid, node, sha))
<1> DEFINE dir == op.kind \notin TransferKinds
           row == LocalRow(op.path, dir, node, uid, sha)
<1>1. op.path \in Path /\ dir \in BOOLEAN
  BY DEF Operation
<1>2. row \in Told
  BY <1>1, RowIsTold DEF DatesInv
<1>3. BaseAfter(op, uid, node, sha) = Upsert(base, op.path, row)
  BY DEF BaseAfter, MoveKinds, TransferKinds
<1> HIDE DEF row
<1> QED BY <1>1, <1>2, <1>3, BooksKept

LEMMA CommitTold ==
    ASSUME Inv, DatesInv, Books(base), NEW id \in DOMAIN tasks, CommitStep(id),
           ~ StaleUpload(tasks[id]), ~ StaleDownload(tasks[id]),
           ~ StaleMove(tasks[id].op)
    PROVE  Books(base')
<1> DEFINE t    == tasks[id]
           op   == t.op
           hold == t.hold
           uid  == IF op.uid # None THEN op.uid ELSE hold.uid
           folder == [rev |-> 0, sha |-> None]
<1>0. DataInv /\ ControlInv /\ (\A u \in DOMAIN drive : u <= clock)
  BY DEF Inv, DataInv, Fresh
<1>1. /\ t.pc \in LastSteps /\ t.pc \in Acting /\ Errors(t) = {}
      /\ op \in Operation /\ hold \in Hold
      /\ Fits(op.kind, t.pc) /\ Held(op, t.pc, hold)
  BY <1>0, TaskFacts DEF CommitStep, LastSteps, Acting
<1>2. /\ hold.sha \in Digest /\ hold.uid \in Nat \cup {None}
      /\ hold.rev \in Nat \cup {None} /\ op.uid \in Nat \cup {None}
  BY <1>1 DEF Hold, Operation
<1>3. CASE t.pc = "readback"
  <2>1. op.kind = "upload"
    BY <1>1, <1>3 DEF Fits
  <2>2. hold.uid \in DOMAIN drive /\ LocalMatches(op.path, op.lfp)
    BY <1>1, <1>3, <2>1, UploadClear
  <2>3. uid = hold.uid
    BY <1>1, <1>3 DEF Held
  <2>4. op.path \in DOMAIN fs
    BY <1>1, <2>1, <2>2 DEF LocalMatches, Operation
  <2>5. uid \in Nat /\ drive[uid].rev \in Nat /\ drive[uid].sha \in Digest
    BY <1>0, <2>2, <2>3, NodeFacts
  <2>6. base' = BaseAfter(op, uid, drive[uid], hold.sha)
    BY <2>1 DEF CommitStep
  <2>7. /\ uid <= clock /\ drive[uid].rev <= clock
        /\ hold.sha = drive[uid].sha /\ fs[op.path].data = drive[uid].sha
    BY <1>0, <1>3, <2>2, <2>3 DEF StaleUpload, DatesInv
  <2> HIDE DEF uid
  <2> QED BY <1>0, <1>1, <1>2, <2>1, <2>4, <2>5, <2>6, <2>7, OtherTold
          DEF TransferKinds
<1>4. CASE t.pc = "record"
  <2>1. op.kind = "download"
    BY <1>1, <1>4 DEF Fits
  <2>2. op.path \in DOMAIN fs
    BY <1>1, <1>4, <2>1, DownloadClear
  <2>3. hold.rev \in Nat
    BY <1>1, <1>2, <1>4 DEF Held
  <2>4. uid \in Nat /\ uid = op.uid
    BY <1>1, <1>2, <2>1 DEF Operation
  <2>5. base' = BaseAfter(op, uid, hold, hold.sha)
    BY <2>1 DEF CommitStep
  <2>6. fs[op.path].data = hold.sha
    BY <1>4 DEF StaleDownload
  <2>7. HoldsFor(t, drive, clock)
    BY DEF DatesInv, Fetched
  <2>8. /\ uid <= clock /\ hold.rev <= clock
        /\ uid \in DOMAIN drive /\ drive[uid].rev = hold.rev
               => drive[uid].sha = hold.sha
    BY <1>4, <2>4, <2>7 DEF HoldsFor, Fetching
  <2> HIDE DEF uid
  <2> QED BY <1>0, <1>1, <1>2, <2>1, <2>2, <2>3, <2>4, <2>5, <2>6, <2>8, OtherTold
          DEF TransferKinds
<1>5. CASE t.pc \in {"settle", "confirm"}
  <2>1. op.kind \in MoveKinds
    BY <1>1, <1>5 DEF Fits, MoveKinds
  <2>2. op.uid \in DOMAIN drive /\ op.path \in DOMAIN fs
    BY <1>1, <1>5, <2>1, MoveClear
  <2>3. uid = op.uid
    BY <1>1, <2>1 DEF Operation
  <2>4. base' = BaseAfter(op, uid, drive[uid], hold.sha)
    BY <2>1 DEF CommitStep, MoveKinds
  <2> HIDE DEF uid
  <2> QED BY <1>0, <1>1, <2>1, <2>2, <2>3, <2>4, MoveTold
<1>6. CASE op.kind \in {"recycle_local", "trash_remote"}
  <2>1. \E u, node : base' = BaseAfter(op, u, node, hold.sha)
    BY DEF CommitStep
  <2> QED BY <1>1, <1>6, <2>1, DeleteTold
<1>7. CASE t.pc = "commit" /\ op.kind # "recycle_local"
  <2>1. op.kind \in {"create_remote_folder", "create_local_folder"}
    BY <1>1, <1>7 DEF Fits
  <2>2. op.path \in DOMAIN fs
    BY <1>1, <1>7, <2>1, OtherClear DEF MoveKinds, TransferKinds
  <2>3. uid \in Nat
    BY <1>1, <1>2, <1>7, <2>1 DEF Held, Operation
  <2>4. folder.rev \in Nat /\ folder.sha \in Digest
    BY DEF Digest
  <2>5. base' = BaseAfter(op, uid, folder, hold.sha)
    BY <2>1 DEF CommitStep
  <2>6. op.kind \notin TransferKinds
    BY <2>1 DEF TransferKinds
  <2> HIDE DEF uid, folder
  <2> QED BY <1>0, <1>1, <1>2, <2>1, <2>2, <2>3, <2>4, <2>5, <2>6, OtherTold
<1>8. t.pc = "verify" => op.kind = "trash_remote"
  BY <1>1 DEF Fits
<1> QED BY <1>1, <1>3, <1>4, <1>5, <1>6, <1>7, <1>8 DEF LastSteps

LEMMA RetryTold ==
    ASSUME Inv, DatesInv, Books(base), NEW id \in DOMAIN tasks,
           RetryFindsLanded(id), ~ StaleRetry(tasks[id]),
           ~ StaleMove(tasks[id].op)
    PROVE  Books(base')
<1> DEFINE op == tasks[id].op
           sha == IF op.kind = "upload" THEN op.lfp.sha ELSE None
<1>0. DataInv /\ ControlInv /\ (\A u \in DOMAIN drive : u <= clock)
  BY DEF Inv, DataInv, Fresh
<1>1. op \in Operation
  BY <1>0, TaskFacts
<1>2. PICK u \in LandedNodes(op) : base' = BaseAfter(op, u, drive[u], sha)
  BY DEF RetryFindsLanded
<1>3. CASE op.kind = "upload"
  <2>1. /\ u \in DOMAIN drive /\ op.path \in DOMAIN fs
        /\ drive[u].sha = op.lfp.sha
    BY <1>2, <1>3 DEF LandedNodes, AtPlace, Matching
  <2>2. u \in Nat /\ drive[u].rev \in Nat /\ drive[u].sha \in Digest
    BY <1>0, <2>1, NodeFacts
  <2>3. /\ u <= clock /\ drive[u].rev <= clock
        /\ sha = drive[u].sha /\ fs[op.path].data = drive[u].sha
    BY <1>0, <1>3, <2>1 DEF DatesInv, StaleRetry
  <2> HIDE DEF sha
  <2> QED BY <1>0, <1>1, <1>2, <1>3, <2>1, <2>2, <2>3, OtherTold DEF TransferKinds
<1>4. CASE op.kind = "trash_remote"
  BY <1>1, <1>2, <1>4, DeleteTold
<1>5. CASE op.kind = "move_remote"
  <2>1. u = op.uid /\ u \in DOMAIN drive /\ op.path \in DOMAIN fs
    BY <1>2, <1>5 DEF LandedNodes
  <2> HIDE DEF sha
  <2> QED BY <1>0, <1>1, <1>2, <1>5, <2>1, MoveTold DEF MoveKinds
<1>6. CASE op.kind = "create_remote_folder"
  <2>1. u \in DOMAIN drive /\ op.path \in DOMAIN fs
    BY <1>2, <1>6 DEF LandedNodes, AtPlace, Matching
  <2>2. u \in Nat /\ drive[u].rev \in Nat /\ drive[u].sha \in Digest
    BY <1>0, <2>1, NodeFacts
  <2>3. sha \in Digest /\ op.kind \notin TransferKinds
    BY <1>6 DEF Digest, TransferKinds
  <2> HIDE DEF sha
  <2> QED BY <1>0, <1>1, <1>2, <1>6, <2>1, <2>2, <2>3, OtherTold
<1> QED BY <1>2, <1>3, <1>4, <1>5, <1>6 DEF LandedNodes

LEMMA RecoverTold ==
    ASSUME Inv, DatesInv, Books(base), NEW id \in DOMAIN journal,
           RecoverCompleted(id), ~ StaleMove(journal[id].op)
    PROVE  Books(base')
<1> DEFINE op  == journal[id].op
           uid == IF op.uid # None THEN op.uid
                  ELSE CHOOSE u \in FoundAtPlace(op) :
                           op.kind = "upload" => drive[u].sha = fs[op.path].data
           sha == IF op.kind \in TransferKinds THEN fs[op.path].data ELSE None
<1>0. DataInv /\ ControlInv /\ (\A u \in DOMAIN drive : u <= clock)
  BY DEF Inv, DataInv, Fresh
<1>1. /\ op \in Operation /\ Outcome(op) = "completed"
      /\ base' = BaseAfter(op, uid, drive[uid], sha)
  BY <1>0 DEF RecoverCompleted, ControlInv, ControlOK, Entry
<1>2. op.path \in DOMAIN fs => sha \in Digest
  BY <1>0 DEF DataInv, DataOK, ItemsOK, Item, Digest
<1>3. FoundAtPlace(op) \subseteq DOMAIN drive
  BY DEF FoundAtPlace, AtPlace, Matching
<1>4. CASE op.kind = "upload"
  <2>1. UploadOutcome(op) = "completed"
    BY <1>1, <1>4 DEF Outcome
  <2>2. op.path \in DOMAIN fs
    BY <2>1 DEF UploadOutcome, IsFile
  <2>3. uid \in DOMAIN drive /\ drive[uid].sha = fs[op.path].data
    <3>1. CASE op.uid # None
      BY <2>1, <3>1 DEF UploadOutcome
    <3>2. CASE op.uid = None
      <4>1. \E u \in FoundAtPlace(op) : drive[u].sha = fs[op.path].data
        BY <2>1, <3>2 DEF UploadOutcome
      <4> QED BY <1>3, <1>4, <3>2, <4>1
    <3> QED BY <3>1, <3>2
  <2>4. sha = fs[op.path].data
    BY <1>4 DEF TransferKinds
  <2> HIDE DEF uid, sha
  <2>5. /\ uid \in Nat /\ drive[uid].rev \in Nat /\ drive[uid].sha \in Digest
        /\ uid <= clock /\ drive[uid].rev <= clock
    BY <1>0, <2>3, NodeFacts DEF DatesInv
  <2> QED BY <1>0, <1>1, <1>2, <1>4, <2>2, <2>3, <2>4, <2>5, OtherTold
          DEF TransferKinds
<1>5. CASE op.kind = "download"
  <2>1. DownloadOutcome(op) = "completed"
    BY <1>1, <1>5 DEF Outcome
  <2>2. /\ op.path \in DOMAIN fs /\ op.uid \in DOMAIN drive
        /\ drive[op.uid].sha = fs[op.path].data
    BY <2>1 DEF DownloadOutcome, IsFile
  <2>3. uid = op.uid
    BY <1>1, <1>5 DEF Operation
  <2>4. sha = fs[op.path].data
    BY <1>5 DEF TransferKinds
  <2> HIDE DEF uid, sha
  <2>5. /\ uid \in Nat /\ drive[uid].rev \in Nat /\ drive[uid].sha \in Digest
        /\ uid <= clock /\ drive[uid].rev <= clock
    BY <1>0, <2>2, <2>3, NodeFacts DEF DatesInv
  <2> QED BY <1>0, <1>1, <1>2, <1>5, <2>2, <2>3, <2>4, <2>5, OtherTold
          DEF TransferKinds
<1>6. CASE op.kind \in MoveKinds
  <2>1. op.kind = "move_local" => MoveLocalOutcome(op) = "completed"
    BY <1>1 DEF Outcome
  <2>2. op.kind = "move_remote" => MoveRemoteOutcome(op) = "completed"
    BY <1>1 DEF Outcome
  <2>3. op.path \in DOMAIN fs /\ op.uid \in DOMAIN drive
    BY <1>6, <2>1, <2>2 DEF MoveLocalOutcome, MoveRemoteOutcome, MoveKinds
  <2>4. uid = op.uid
    BY <1>1, <1>6 DEF Operation
  <2> HIDE DEF uid, sha
  <2> QED BY <1>0, <1>1, <1>6, <2>3, <2>4, MoveTold
<1>7. CASE op.kind \in {"recycle_local", "trash_remote"}
  <2> HIDE DEF uid, sha
  <2> QED BY <1>1, <1>7, DeleteTold
<1>8. CASE op.kind \in {"create_remote_folder", "create_local_folder"}
  <2>1. op.path \in DOMAIN fs /\ uid \in DOMAIN drive
    <3>1. CASE op.kind = "create_remote_folder"
      <4>1. op.path \in DOMAIN fs /\ FoundAtPlace(op) # {} /\ op.uid = None
        BY <1>1, <3>1 DEF Outcome, Operation
      <4> QED BY <1>3, <3>1, <4>1
    <3>2. CASE op.kind = "create_local_folder"
      <4>1. op.path \in DOMAIN fs /\ op.uid \in DOMAIN drive
        BY <1>1, <3>2 DEF Outcome
      <4> QED BY <1>1, <3>2, <4>1 DEF Operation
    <3> QED BY <1>8, <3>1, <3>2
  <2>2. op.kind \notin TransferKinds
    BY <1>8 DEF TransferKinds
  <2> HIDE DEF uid, sha
  <2>3. uid \in Nat /\ drive[uid].rev \in Nat /\ drive[uid].sha \in Digest
    BY <1>0, <2>1, NodeFacts
  <2> QED BY <1>0, <1>1, <1>2, <1>8, <2>1, <2>2, <2>3, OtherTold
<1>9. op.kind \in Kinds /\ (op.kind \in Bookkeeping => Outcome(op) = "failed")
  BY <1>1 DEF Operation, Outcome, Bookkeeping
<1> HIDE DEF uid, sha
<1> QED BY <1>1, <1>4, <1>5, <1>6, <1>7, <1>8, <1>9
        DEF Kinds, TransferKinds, MoveKinds

LEMMA BookTold ==
    ASSUME Inv, DatesInv, Books(base), KeepBooks, ~ StaleBooks(Head(plan))
    PROVE  Books(base')
<1> DEFINE op == Head(plan)
<1>0. DataInv
  BY DEF Inv
<1>1. op \in Operation
  BY DEF KeepBooks, Ready, Inv, ControlInv, ControlOK
<1>2. op.path \in Path
  BY <1>1 DEF Operation
<1>3. CASE op.kind = "remove_baseline"
  <2>1. base' = RemoveTree(base, op.path)
    BY <1>3 DEF KeepBooks
  <2> QED BY <1>2, <2>1, BooksKept
<1>4. CASE op.kind # "remove_baseline" /\ op.path \in DOMAIN fs
           /\ fs[op.path].ino = op.lfp.ino
  <2> DEFINE row == LocalRow(op.path, op.dir, op.rfp, op.uid, op.lfp.sha)
  <2>1. op.kind = "update_baseline"
    BY <1>4 DEF KeepBooks, Bookkeeping
  <2>2. /\ op.uid \in Nat /\ op.dir \in BOOLEAN
        /\ op.rfp \in RemoteFingerprint /\ op.lfp \in LocalFingerprint
    BY <1>1, <2>1 DEF Operation
  <2>3. /\ op.rfp.rev \in Nat /\ op.rfp.sha \in Digest /\ op.lfp.sha \in Digest
        /\ clock \in Nat
    BY <1>0, <2>2 DEF RemoteFingerprint, LocalFingerprint, DataInv, DataOK
  <2>4. ~ op.dir =>
            /\ op.uid <= clock /\ op.rfp.rev <= clock
            /\ op.lfp.sha \in {None, op.rfp.sha} /\ fs[op.path].data = op.rfp.sha
            /\ op.uid \in DOMAIN drive /\ drive[op.uid].rev = op.rfp.rev
                   => drive[op.uid].sha = op.rfp.sha
    BY <1>4, <2>1, <2>2, <2>3 DEF StaleBooks
  <2>5. row \in Told
    BY <1>0, <1>4, <2>2, <2>3, <2>4, RowIsTold DEF DatesInv
  <2>6. base' = Upsert(base, op.path, row)
    BY <1>4 DEF KeepBooks
  <2> HIDE DEF row
  <2> QED BY <1>2, <2>5, <2>6, BooksKept
<1>5. base' = base \/ op.kind = "remove_baseline"
        \/ (op.path \in DOMAIN fs /\ fs[op.path].ino = op.lfp.ino)
  BY DEF KeepBooks
<1> QED BY <1>2, <1>3, <1>4, <1>5

\* Only a commit changes the baseline.
LEMMA OnlyCommits ==
    ASSUME [Next]_vars
    PROVE  \/ UNCHANGED base
           \/ \E id \in DOMAIN tasks : CommitStep(id) \/ RetryFindsLanded(id)
           \/ \E id \in DOMAIN journal : RecoverCompleted(id)
           \/ KeepBooks
<1>1. CASE \E id \in DOMAIN tasks : TaskStep(id)
  <2>1. PICK id \in DOMAIN tasks : TaskStep(id)
    BY <1>1
  <2>2. CASE StepFails(id) \/ RemoteFails(id) \/ TransferFails(id)
             \/ PrecheckPasses(id) \/ PrecheckSkips(id) \/ Read(id)
             \/ RetryAgain(id) \/ RetryThrows(id)
    BY <2>2 DEF StepFails, RemoteFails, TransferFails, PrecheckPasses,
       PrecheckSkips, Read, RetryAgain, RetryThrows, Quiet
  <2>3. CASE UploadNewFile(id) \/ UploadNewRevision(id) \/ MoveRemoteAct(id)
             \/ TrashRemoteAct(id) \/ CreateRemoteFolderAct(id)
             \/ DownloadPlace(id) \/ DownloadSwap(id) \/ MoveLocalAct(id)
             \/ RecycleLocalAct(id) \/ CreateLocalFolderAct(id)
    BY <2>3 DEF UploadNewFile, UploadNewRevision, MoveRemoteAct,
       TrashRemoteAct, CreateRemoteFolderAct, DownloadPlace, DownloadSwap,
       MoveLocalAct, RecycleLocalAct, CreateLocalFolderAct
  <2> QED BY <2>1, <2>2, <2>3 DEF TaskStep, Act, Retry
<1>2. CASE \E id \in DOMAIN journal : Recover(id)
  BY <1>2 DEF Recover, RecoverUnstarted, RecoverFailed, RecoverAbandoned
<1>3. CASE RecoveryDone \/ StartBatch \/ StopEarly \/ MakePlan \/ Pause
           \/ CancelAll \/ Crash \/ UNCHANGED vars
  BY <1>3 DEF RecoveryDone, StartBatch, StopEarly, MakePlan, Pause, CancelAll,
     Crash, vars, store
<1>4. CASE LocalUser \/ RemoteUser
  BY <1>4 DEF LocalUser, UserEdits, UserDeletes, UserCreates, UserRenames,
     LocalUserMay, RemoteUser, RemoteEdits, RemoteTrashes, RemoteRestores,
     RemoteDeletes, RemoteMoves, UserMay, store
<1> QED BY <1>1, <1>2, <1>3, <1>4 DEF Next, Program

LEMMA NextTold ==
    ASSUME Inv, Rooted(fs), DatesInv, RowsTold, [Next]_vars, ~ Misrecords
    PROVE  RowsTold'
<1>1. DataInv /\ clock' \in Nat /\ SidesDated
  BY NextInv, NextDates DEF Inv, DataInv, DataOK
<1>2. \A p \in DOMAIN base : p \in Path /\ base[p] \in Row
  BY <1>1 DEF DataInv, DataOK, RowsOK
<1>3. Books(base)
  BY <1>2 DEF Books, Told, RowsTold
<1>4. CASE UNCHANGED base
  BY <1>1, <1>2, <1>4, DatedRow DEF RowsTold
<1>5. ASSUME UNCHANGED <<fs, drive, clock>>, Books(base') PROVE RowsTold'
  BY <1>5 DEF RowsTold, Books, Told
<1>6. CASE \E id \in DOMAIN tasks : CommitStep(id) \/ RetryFindsLanded(id)
  <2>1. PICK id \in DOMAIN tasks : CommitStep(id) \/ RetryFindsLanded(id)
    BY <1>6
  <2>2. UNCHANGED <<fs, drive, clock>>
    BY <2>1 DEF CommitStep, RetryFindsLanded, sides
  <2>3. CASE CommitStep(id)
    <3>1. /\ ~ StaleUpload(tasks[id]) /\ ~ StaleDownload(tasks[id])
          /\ ~ StaleMove(tasks[id].op)
      BY <2>3 DEF Misrecords
    <3> QED BY <1>3, <1>5, <2>2, <2>3, <3>1, CommitTold
  <2>4. CASE RetryFindsLanded(id)
    <3>1. ~ StaleRetry(tasks[id]) /\ ~ StaleMove(tasks[id].op)
      BY <2>4 DEF Misrecords
    <3> QED BY <1>3, <1>5, <2>2, <2>4, <3>1, RetryTold
  <2> QED BY <2>1, <2>3, <2>4
<1>7. CASE \E id \in DOMAIN journal : RecoverCompleted(id)
  <2>1. PICK id \in DOMAIN journal : RecoverCompleted(id)
    BY <1>7
  <2>2. UNCHANGED <<fs, drive, clock>>
    BY <2>1 DEF RecoverCompleted, RecoverFrame, sides
  <2>3. ~ StaleMove(journal[id].op)
    BY <2>1 DEF Misrecords
  <2> QED BY <1>3, <1>5, <2>1, <2>2, <2>3, RecoverTold
<1>8. CASE KeepBooks
  <2>1. UNCHANGED <<fs, drive, clock>>
    BY <1>8 DEF KeepBooks, sides
  <2>2. ~ StaleBooks(Head(plan))
    BY <1>8 DEF Misrecords
  <2> QED BY <1>3, <1>5, <1>8, <2>1, <2>2, BookTold
<1> QED BY <1>4, <1>6, <1>7, <1>8, OnlyCommits

OnlyMisrecordsLie == [][RowsTold => RowsTold' \/ Misrecords]_vars

\* A row of the baseline goes on saying what is so, whatever users, faults and
\* crashes do, until a commit records what has changed since it was checked:
\* an upload after its readback, a download after its rename, a landed upload
\* by the digest of its plan, a move whose content is not compared, a row of
\* the plan's own digests (commit() and localRow() of executor.ts, recovery.ts).
THEOREM OnlyStaleCommitsLie == Spec => OnlyMisrecordsLie
<1>1. Inv /\ Rooted(fs) /\ DatesInv /\ [Next]_vars
          => [RowsTold => RowsTold' \/ Misrecords]_vars
  BY NextTold
<1> QED BY <1>1, SpecDates, PTL DEF Spec, OnlyMisrecordsLie

NoneMisrecords == [][~ Misrecords]_vars

LEMMA InitTold == Init => RowsTold
<1> SUFFICES ASSUME Init PROVE RowsTold
  OBVIOUS
<1>1. PICK w \in Worlds : /\ fs = w.fs /\ drive = w.drive /\ base = w.base
                          /\ clock = w.clock
  BY DEF Init
<1> QED BY <1>1, BaselinesAssumption DEF RowsTold

LEMMA SpecTold == Spec /\ NoneMisrecords => []RowsTold
<1>1. Inv /\ Rooted(fs) /\ DatesInv /\ RowsTold /\ [Next]_vars
          /\ [~ Misrecords]_vars => RowsTold'
  <2> SUFFICES ASSUME Inv, Rooted(fs), DatesInv, RowsTold, [Next]_vars,
                      ~ Misrecords \/ UNCHANGED vars
               PROVE  RowsTold'
    OBVIOUS
  <2>1. CASE UNCHANGED vars
    BY <2>1 DEF RowsTold, vars, sides, store
  <2> QED BY <2>1, NextTold
<1> QED BY <1>1, InitTold, SpecDates, PTL DEF Spec, NoneMisrecords

\* A row of a file whose two sides have not changed since names one content,
\* and both sides have it (BaselineTruthful), with any users, faults, crashes
\* and plans, as long as no commit records what has changed since it was
\* checked (commit() and localRow() of executor.ts).
THEOREM BaselineIsTruthful == Spec /\ NoneMisrecords => []BaselineTruthful
<1>1. RowsTold => BaselineTruthful
  <2> SUFFICES ASSUME RowsTold, NEW p \in DOMAIN base PROVE RowTruthful(p)
    BY DEF BaselineTruthful
  <2> SUFFICES ASSUME p \in DOMAIN fs, ~ base[p].dir,
                      fs[p].ino = base[p].ino, fs[p].ver = base[p].ver,
                      base[p].uid \in DOMAIN drive,
                      drive[base[p].uid].rev = base[p].rev
               PROVE  fs[p].data = drive[base[p].uid].sha
    BY DEF RowTruthful
  <2>1. RowTold(base[p], fs, drive, clock) /\ fs[p] \in Range(fs)
    BY DEF RowsTold, Range
  <2> QED BY <2>1 DEF RowTold
<1> QED BY <1>1, SpecTold, PTL

-----------------------------------------------------------------------------
(* Nothing is missed.                                                      *)

\* A view that takes a row's word for the content of its file is not deceived,
\* and a row that changed on neither side has one content on both.
LEMMA RowInSync ==
    ASSUME Inv, DatesInv, RowsTold, NEW p \in DOMAIN base, NEW paths,
           RowUnchanged(FreshInput(fs, drive, base, quarantine), paths, p),
           drive[base[p].uid].dir = base[p].dir
    PROVE  fs[p].dir = base[p].dir /\ fs[p].data = drive[base[p].uid].sha
<1> DEFINE in   == FreshInput(fs, drive, base, quarantine)
           r    == base[p]
           item == LocalView(fs, base)[p]
           told == r.ino = fs[p].ino /\ r.ver = fs[p].ver /\ r.lsha # None
<1>1. /\ in.base = base /\ in.items = LocalView(fs, base) /\ in.nodes = drive
      /\ DOMAIN LocalView(fs, base) = DOMAIN fs
  BY DEF FreshInput, LocalView
<1>2. /\ p \in DOMAIN fs /\ item.dir = r.dir /\ r.uid \in DOMAIN drive
      /\ r.dir \/ IF item.data # None THEN item.data = r.lsha
                  ELSE r.lsha # None /\ item.ino = r.ino /\ item.ver = r.ver
      /\ r.dir \/ IF drive[r.uid].sha # None /\ r.rsha # None
                  THEN drive[r.uid].sha = r.rsha
                  ELSE drive[r.uid].rev = r.rev
  BY <1>1 DEF RowUnchanged
<1>3. fs[p] \in Item /\ fs[p] \in Range(fs)
  BY <1>2 DEF Inv, DataInv, DataOK, ItemsOK, Range
<1>4. /\ item = IF told THEN [fs[p] EXCEPT !.data = None] ELSE fs[p]
      /\ item.dir = fs[p].dir /\ item.ino = fs[p].ino /\ item.ver = fs[p].ver
  BY <1>2, <1>3 DEF LocalView, Item
<1> HIDE DEF item
<1>5. CASE r.dir
  BY <1>2, <1>3, <1>4, <1>5 DEF DatesInv, VersionsOK
<1>6. CASE ~ r.dir
  <2>1. /\ r.lsha \in {None, r.rsha}
        /\ fs[p].ino = r.ino /\ fs[p].ver = r.ver => fs[p].data = r.rsha
        /\ drive[r.uid].rev = r.rev => drive[r.uid].sha = r.rsha
    BY <1>2, <1>3, <1>6 DEF RowsTold, RowTold
  <2>2. fs[p].data = r.rsha
    <3>1. CASE told
      BY <2>1, <3>1
    <3>2. CASE ~ told
      <4>1. item = fs[p]
        BY <1>4, <3>2
      <4> QED BY <1>2, <1>6, <2>1, <3>2, <4>1
    <3> QED BY <3>1, <3>2
  <2>3. drive[r.uid].sha = r.rsha
    BY <1>2, <1>6, <2>1
  <2> QED BY <1>2, <1>4, <2>2, <2>3
<1> QED BY <1>5, <1>6

LEMMA NothingUndone ==
    ASSUME Inv, DatesInv, RowsTold, NothingToDo(Verdict)
    PROVE  InSync
<1> DEFINE in    == FreshInput(fs, drive, base, quarantine)
           paths == RemotePaths(in)
<1>1. /\ in.base = base /\ in.items = LocalView(fs, base) /\ in.nodes = drive
      /\ DOMAIN LocalView(fs, base) = DOMAIN fs
  BY DEF FreshInput, LocalView
<1>2. DOMAIN base \subseteq Path /\ NodesOK(drive)
  BY DEF Inv, DataInv, DataOK, RowsOK
<1>3. PathsOf(in, paths)
  BY <1>1, <1>2, RemotePathsAre DEF DatesInv
<1>4. NothingToDo(Planned(in, paths, Classified(in, paths)))
  BY DEF Verdict, Reconcile
<1> HIDE DEF paths, in
<1>5. /\ \A p \in DOMAIN base :
             /\ RowUnchanged(in, paths, p)
             /\ drive[base[p].uid].dir = base[p].dir
      /\ DOMAIN in.items = DOMAIN base
      /\ \A u \in DOMAIN paths : paths[u] \in DOMAIN base /\ base[paths[u]].uid = u
  BY <1>1, <1>2, <1>3, <1>4, NothingLeft
<1>6. \A p \in DOMAIN base :
          /\ base[p].uid \in DOMAIN paths /\ paths[base[p].uid] = p
          /\ fs[p].dir = drive[base[p].uid].dir
          /\ fs[p].data = drive[base[p].uid].sha
  <2> SUFFICES ASSUME NEW p \in DOMAIN base
               PROVE  /\ base[p].uid \in DOMAIN paths /\ paths[base[p].uid] = p
                      /\ fs[p].dir = drive[base[p].uid].dir
                      /\ fs[p].data = drive[base[p].uid].sha
    OBVIOUS
  <2>1. base[p].uid \in DOMAIN paths /\ paths[base[p].uid] = p
    BY <1>1, <1>5 DEF RowUnchanged
  <2>2. /\ RowUnchanged(FreshInput(fs, drive, base, quarantine), paths, p)
        /\ drive[base[p].uid].dir = base[p].dir
    BY <1>5 DEF in
  <2> QED BY <2>1, <2>2, RowInSync
<1>7. DOMAIN fs = {paths[u] : u \in DOMAIN paths}
  <2> DEFINE rows  == DOMAIN base
             items == DOMAIN fs
             nodes == {paths[u] : u \in DOMAIN paths}
  <2>1. items = rows /\ rows \subseteq nodes /\ nodes \subseteq rows
    BY <1>1, <1>5, <1>6
  <2> HIDE DEF rows, items, nodes
  <2>2. items = nodes
    BY <2>1
  <2> QED BY <2>2 DEF items, nodes
<1>8. DOMAIN base \subseteq DOMAIN fs
  BY <1>1, <1>5
<1>9. \A u \in DOMAIN paths :
          /\ fs[paths[u]].dir = drive[u].dir /\ fs[paths[u]].data = drive[u].sha
          /\ paths[u] \in DOMAIN base /\ base[paths[u]].uid = u
  BY <1>5, <1>6
<1> QED BY <1>7, <1>8, <1>9 DEF InSync, paths, in

\* When the program is idle and a fresh look at both sides plans, reports and
\* blocks nothing, the two trees are the same, content and all (reconcile(),
\* classify.ts, table.ts): no difference is overlooked, whatever users, faults
\* and crashes did, as long as no commit recorded what had changed since it was
\* checked (commit() and localRow() of executor.ts).
THEOREM NothingIsMissed == Spec /\ NoneMisrecords => []NothingMissed
<1>1. Inv /\ DatesInv /\ RowsTold => NothingMissed
  BY NothingUndone DEF NothingMissed
<1> QED BY <1>1, SpecTold, SpecDates, PTL

-----------------------------------------------------------------------------
(* What is above a node of the drive.                                      *)

\* One level up from the nodes of s.
Raised(d, s) == s \cup {d[v].parent : v \in s \cap DOMAIN d}

IsAscent(d, u, f) ==
    f = [n \in Nat |-> IF n = 0 THEN {u} ELSE Raised(d, f[n - 1])]

LEMMA AscentExists ==
    ASSUME NEW d, NodesOK(d), NEW u \in Nat
    PROVE  \E f : IsAscent(d, u, f)
<1> DEFINE next == [s \in SUBSET Nat |-> Raised(d, s)]
<1>1. \A v \in DOMAIN d : d[v].parent \in Nat
  BY DEF NodesOK, Node
<1>2. next \in [SUBSET Nat -> SUBSET Nat]
  BY <1>1 DEF Raised
<1>3. {u} \in SUBSET Nat
  OBVIOUS
<1>4. PICK f \in [Nat -> SUBSET Nat] :
          f[0] = {u} /\ \A n \in Nat : f[n + 1] = next[f[n]]
  <2> DEFINE X == SUBSET Nat
             z == {u}
  <2>1. next \in [X -> X] /\ z \in X
    BY <1>2, <1>3
  <2> HIDE DEF next, X, z
  <2>2. \E f \in [Nat -> X] :
            f[0] = z /\ \A n \in Nat : f[n + 1] = next[f[n]]
    BY <2>1, Recursion
  <2> QED BY <2>2 DEF X, z
<1>5. ASSUME NEW n \in Nat, n # 0 PROVE f[n] = Raised(d, f[n - 1])
  <2>1. n - 1 \in Nat /\ (n - 1) + 1 = n
    BY <1>5
  <2> QED BY <1>4, <2>1
<1>6. IsAscent(d, u, f)
  BY <1>4, <1>5 DEF IsAscent
<1> QED BY <1>6

\* A set is closed if it has the parents of its nodes.
Closed(d, s) == \A v \in s \cap DOMAIN d : d[v].parent \in s

\* Each level but the last adds a node, and there are only so many.
LEMMA AscentEnds ==
    ASSUME NEW d, IsFiniteSet(DOMAIN d), NEW u, NEW f, IsAscent(d, u, f)
    PROVE  LET top == f[Cardinality(DOMAIN d)]
           IN  u \in top /\ Closed(d, top)
<1> DEFINE N == Cardinality(DOMAIN d)
           k(n) == f[n] \cap DOMAIN d
           S == {n \in Nat : f[n + 1] = f[n] \/ Cardinality(k(n)) >= n + 1}
           U == {n \in Nat : u \in f[n]}
<1>1. f[0] = {u} /\ \A n \in Nat : f[n + 1] = Raised(d, f[n])
  <2>1. ASSUME NEW n \in Nat PROVE f[n + 1] = Raised(d, f[n])
    <3>1. n + 1 \in Nat /\ n + 1 # 0 /\ (n + 1) - 1 = n
      OBVIOUS
    <3> QED BY <3>1 DEF IsAscent
  <2> QED BY <2>1 DEF IsAscent
<1>2. N \in Nat
  BY FS_CardinalityType
<1>3. \A n \in Nat : /\ IsFiniteSet(k(n)) /\ Cardinality(k(n)) \in Nat
                     /\ Cardinality(k(n)) <= N
  BY FS_Subset, FS_CardinalityType
<1>4. u \in f[N]
  <2>1. 0 \in U /\ \A n \in Nat : n \in U => n + 1 \in U
    BY <1>1 DEF Raised
  <2>2. \A n \in Nat : n \in U
    <3> HIDE DEF U
    <3> QED BY <2>1, Induction
  <2> QED BY <1>2, <2>2
<1>5. 0 \in S
  <2>1. CASE u \in DOMAIN d
    <3>1. k(0) = {u} /\ Cardinality({u}) = 1
      BY <1>1, <2>1, FS_Singleton
    <3> QED BY <3>1
  <2>2. CASE u \notin DOMAIN d
    <3>1. f[0 + 1] = f[0]
      BY <1>1, <2>2 DEF Raised
    <3> QED BY <3>1
  <2> QED BY <2>1, <2>2
<1>6. ASSUME NEW n \in Nat, n \in S PROVE n + 1 \in S
  <2>0. f[n + 1] = Raised(d, f[n]) /\ f[(n + 1) + 1] = Raised(d, f[n + 1])
    BY <1>1
  <2>1. CASE f[n + 1] = f[n]
    <3>1. f[(n + 1) + 1] = f[n + 1]
      BY <2>0, <2>1
    <3> QED BY <3>1
  <2>2. CASE Cardinality(k(n)) >= n + 1 /\ k(n + 1) = k(n)
    <3>1. {d[v].parent : v \in f[n + 1] \cap DOMAIN d} \subseteq f[n + 1]
      BY <2>0, <2>2 DEF Raised
    <3>2. f[(n + 1) + 1] = f[n + 1]
      BY <2>0, <3>1 DEF Raised
    <3> QED BY <3>2
  <2>3. CASE Cardinality(k(n)) >= n + 1 /\ k(n + 1) # k(n)
    <3>1. k(n) \subseteq k(n + 1)
      BY <2>0 DEF Raised
    <3>2. /\ Cardinality(k(n)) <= Cardinality(k(n + 1))
          /\ Cardinality(k(n)) # Cardinality(k(n + 1))
      BY <1>3, <2>3, <3>1, FS_Subset
    <3>3. Cardinality(k(n)) \in Nat /\ Cardinality(k(n + 1)) \in Nat
      BY <1>3
    <3> HIDE DEF k
    <3> QED BY <2>3, <3>2, <3>3
  <2> QED BY <1>6, <2>1, <2>2, <2>3
<1>7. N \in S
  <2> HIDE DEF S
  <2> QED BY <1>2, <1>5, <1>6, Induction
<1>8. f[N + 1] = f[N]
  <2>1. Cardinality(k(N)) \in Nat /\ Cardinality(k(N)) <= N
    BY <1>2, <1>3
  <2> HIDE DEF N, k
  <2> QED BY <1>2, <1>7, <2>1
<1>9. Closed(d, f[N])
  BY <1>1, <1>2, <1>8 DEF Closed, Raised
<1> QED BY <1>4, <1>9

LEMMA AboveIs ==
    ASSUME NEW d, NEW u
    PROVE  Above(d, u) = (CHOOSE f : IsAscent(d, u, f))[Cardinality(DOMAIN d)]
BY DEF Above, IsAscent, Raised

\* Above a node is it and its parents' parents, and nothing else.
LEMMA AboveClosed ==
    ASSUME NEW d, NodesOK(d), IsFiniteSet(DOMAIN d), NEW u \in Nat
    PROVE  /\ u \in Above(d, u) /\ Closed(d, Above(d, u))
           /\ \A s : u \in s /\ Closed(d, s) => Above(d, u) \subseteq s
<1> DEFINE f == CHOOSE g : IsAscent(d, u, g)
           N == Cardinality(DOMAIN d)
<1>1. IsAscent(d, u, f)
  BY AscentExists
<1>2. Above(d, u) = f[N]
  BY AboveIs
<1> HIDE DEF f
<1>3. u \in f[N] /\ Closed(d, f[N])
  BY <1>1, AscentEnds
<1>4. ASSUME NEW s, u \in s, Closed(d, s) PROVE f[N] \subseteq s
  <2> DEFINE S == {n \in Nat : f[n] \subseteq s}
  <2>1. 0 \in S
    BY <1>1, <1>4 DEF IsAscent
  <2>2. ASSUME NEW n \in Nat, n \in S PROVE n + 1 \in S
    <3>1. n + 1 \in Nat /\ n + 1 # 0 /\ (n + 1) - 1 = n
      OBVIOUS
    <3>2. f[n + 1] = Raised(d, f[n])
      BY <1>1, <3>1 DEF IsAscent
    <3>3. f[n] \subseteq s
      BY <2>2
    <3>4. Raised(d, f[n]) \subseteq s
      BY <1>4, <3>3 DEF Raised, Closed
    <3> QED BY <3>1, <3>2, <3>4
  <2>3. N \in Nat
    BY FS_CardinalityType
  <2> HIDE DEF S, N
  <2>4. N \in S
    BY <2>1, <2>2, <2>3, Induction
  <2> QED BY <2>4 DEF S
<1> QED BY <1>2, <1>3, <1>4

\* Nothing above what is seen is trashed.
LEMMA SeenAbove ==
    ASSUME NEW d, NodesOK(d), IsFiniteSet(DOMAIN d), NEW u \in Nat,
           u \notin Hidden(d)
    PROVE  \A v \in Above(d, u) \cap DOMAIN d : ~ d[v].trashed
<1>1. CASE u \in DOMAIN d
  BY <1>1 DEF Hidden, EffectivelyTrashed
<1>2. CASE u \notin DOMAIN d
  <2>1. u \in {u} /\ Closed(d, {u})
    BY <1>2 DEF Closed
  <2>2. Above(d, u) \subseteq {u}
    BY <2>1, AboveClosed
  <2> QED BY <1>2, <2>2
<1> QED BY <1>1, <1>2

LEMMA StaysSeen ==
    ASSUME NEW e, NodesOK(e), IsFiniteSet(DOMAIN e), NEW u \in Nat, NEW s,
           u \in s, Closed(e, s), \A v \in s \cap DOMAIN e : ~ e[v].trashed
    PROVE  u \notin Hidden(e)
<1>1. Above(e, u) \subseteq s
  BY AboveClosed
<1> QED BY <1>1 DEF Hidden, EffectivelyTrashed

\* What is hidden when no node has another parent is below a node that is
\* trashed now.
LEMMA HiddenBelow ==
    ASSUME NEW d, NodesOK(d), IsFiniteSet(DOMAIN d),
           NEW e, NodesOK(e), DOMAIN e = DOMAIN d,
           \A v \in DOMAIN d : e[v].parent = d[v].parent,
           NEW u \in Hidden(e) \ Hidden(d)
    PROVE  \E v \in Above(d, u) \cap DOMAIN d :
               e[v].trashed /\ ~ d[v].trashed
<1>1. u \in DOMAIN d /\ u \in Nat
  BY DEF Hidden, NodesOK
<1>2. u \in Above(d, u) /\ Closed(d, Above(d, u))
  BY <1>1, AboveClosed
<1>3. Closed(e, Above(d, u))
  BY <1>2 DEF Closed
<1>4. \E v \in Above(d, u) \cap DOMAIN e : e[v].trashed
  BY <1>1, <1>2, <1>3, StaysSeen
<1>5. \A v \in Above(d, u) \cap DOMAIN d : ~ d[v].trashed
  BY <1>1, SeenAbove
<1> QED BY <1>4, <1>5

\* A node that is made or moved in a folder that is seen hides nothing.
LEMMA PlacedSeen ==
    ASSUME NEW d, NodesOK(d), IsFiniteSet(DOMAIN d),
           NEW e, NodesOK(e), IsFiniteSet(DOMAIN e), NEW n \in DOMAIN e,
           DOMAIN e \subseteq DOMAIN d \cup {n},
           n \in DOMAIN d \/ ~ e[n].trashed,
           \A v \in DOMAIN d \cap DOMAIN e :
               /\ e[v].trashed = d[v].trashed
               /\ v = n \/ e[v].parent = d[v].parent,
           e[n].parent \notin Hidden(d), NEW u \in DOMAIN e, u \notin Hidden(d)
    PROVE  u \notin Hidden(e)
<1> DEFINE p == e[n].parent
<1>1. u \in Nat /\ p \in Nat
  BY DEF NodesOK, Node
<1>2. /\ u \in Above(d, u) /\ Closed(d, Above(d, u))
      /\ p \in Above(d, p) /\ Closed(d, Above(d, p))
  BY <1>1, AboveClosed
<1>3. /\ \A v \in Above(d, u) \cap DOMAIN d : ~ d[v].trashed
      /\ \A v \in Above(d, p) \cap DOMAIN d : ~ d[v].trashed
  BY <1>1, SeenAbove
<1>4. CASE n \notin Above(d, u)
  <2>1. Closed(e, Above(d, u))
    BY <1>2, <1>4 DEF Closed
  <2>2. \A v \in Above(d, u) \cap DOMAIN e : ~ e[v].trashed
    BY <1>3, <1>4
  <2> QED BY <1>1, <1>2, <2>1, <2>2, StaysSeen
<1>5. CASE n \in Above(d, u)
  <2> DEFINE s == Above(d, u) \cup Above(d, p)
  <2>1. Closed(e, s)
    BY <1>2, <1>5 DEF Closed
  <2>2. \A v \in s \cap DOMAIN e : ~ e[v].trashed
    BY <1>3
  <2>3. u \in s
    BY <1>2
  <2> HIDE DEF s
  <2> QED BY <1>1, <2>1, <2>2, <2>3, StaysSeen
<1> QED BY <1>4, <1>5

-----------------------------------------------------------------------------
(* What the program takes out of sight.                                    *)

\* A node is made in a folder, or moved into one, that is out of sight itself.
PlacesHidden(id) ==
    \/ UploadNewFile(id) /\ tasks[id].hold.uid \in Hidden(drive)
    \/ CreateRemoteFolderAct(id)
       /\ RemoteParent(tasks[id].op.path) \in Hidden(drive)
    \/ MoveRemoteAct(id) /\ tasks[id].pc = "move"
       /\ tasks[id].hold.uid \in Hidden(drive)

Trashes(u) ==
    \E id \in DOMAIN journal :
        /\ journal[id].op.kind = "trash_remote"
        /\ journal[id].op.uid \in Above(drive, u)

LEMMA MadeSeen ==
    ASSUME NodesOK(drive), IsFiniteSet(DOMAIN drive), NodesOK(drive'),
           IsFiniteSet(DOMAIN drive'), \A u \in DOMAIN drive : u <= clock,
           clock \in Nat,
           NEW node, ~ node.trashed, drive' = Put(drive, clock + 1, node),
           node.parent \notin Hidden(drive)
    PROVE  Hidden(drive') \subseteq Hidden(drive)
<1> DEFINE n == clock + 1
<1>1. n \notin DOMAIN drive
  OBVIOUS
<1>2. /\ n \in DOMAIN drive' /\ DOMAIN drive' = DOMAIN drive \cup {n}
      /\ drive'[n] = node
      /\ \A v \in DOMAIN drive : drive'[v] = drive[v]
  BY <1>1 DEF Put
<1> HIDE DEF n
<1>3. \A u \in DOMAIN drive' : u \notin Hidden(drive) => u \notin Hidden(drive')
  BY <1>1, <1>2, PlacedSeen
<1> QED BY <1>3 DEF Hidden

\* A step that neither moves nor makes a node.
LEMMA TreeSeen ==
    ASSUME NodesOK(drive), IsFiniteSet(DOMAIN drive), NodesOK(drive'),
           DOMAIN drive' = DOMAIN drive,
           \A v \in DOMAIN drive : /\ drive'[v].parent = drive[v].parent
                                   /\ drive'[v].trashed = drive[v].trashed
    PROVE  Hidden(drive') \subseteq Hidden(drive)
<1> SUFFICES ASSUME NEW u \in Hidden(drive') \ Hidden(drive) PROVE FALSE
  OBVIOUS
<1>1. \E v \in Above(drive, u) \cap DOMAIN drive :
          drive'[v].trashed /\ ~ drive[v].trashed
  BY HiddenBelow
<1> QED BY <1>1

LEMMA MovedSeen ==
    ASSUME NodesOK(drive), IsFiniteSet(DOMAIN drive), NodesOK(drive'),
           NEW n, NEW p, drive' = [drive EXCEPT ![n].parent = p],
           p \notin Hidden(drive)
    PROVE  Hidden(drive') \subseteq Hidden(drive)
<1>1. \A u \in DOMAIN drive : drive[u] \in Node
  BY DEF NodesOK
<1>2. CASE n \notin DOMAIN drive
  <2>1. DOMAIN drive' = DOMAIN drive /\ \A v \in DOMAIN drive : drive'[v] = drive[v]
    BY <1>2
  <2> QED BY <2>1, TreeSeen
<1>3. CASE n \in DOMAIN drive
  <2>1. /\ DOMAIN drive' = DOMAIN drive /\ drive'[n].parent = p
        /\ \A v \in DOMAIN drive :
               /\ drive'[v].trashed = drive[v].trashed
               /\ v = n \/ drive'[v].parent = drive[v].parent
    BY <1>1, <1>3 DEF Node
  <2>2. \A u \in DOMAIN drive' :
            u \notin Hidden(drive) => u \notin Hidden(drive')
    <3>1. n \in DOMAIN drive' /\ IsFiniteSet(DOMAIN drive')
      BY <1>3, <2>1
    <3>2. DOMAIN drive' \subseteq DOMAIN drive \cup {n}
          /\ drive'[n].parent \notin Hidden(drive)
      BY <2>1
    <3>3. \A v \in DOMAIN drive \cap DOMAIN drive' :
              /\ drive'[v].trashed = drive[v].trashed
              /\ v = n \/ drive'[v].parent = drive[v].parent
      BY <2>1
    <3>4. ASSUME NEW u \in DOMAIN drive', u \notin Hidden(drive)
          PROVE  u \notin Hidden(drive')
      BY <1>3, <3>1, <3>2, <3>3, <3>4, PlacedSeen
    <3> QED BY <3>4
  <2> QED BY <2>2 DEF Hidden
<1> QED BY <1>2, <1>3

LEMMA ActHides ==
    ASSUME Inv, Inv', DatesInv, DatesInv', NEW id \in DOMAIN tasks,
           \/ UploadNewFile(id) \/ UploadNewRevision(id) \/ MoveRemoteAct(id)
           \/ TrashRemoteAct(id) \/ CreateRemoteFolderAct(id),
           ~ PlacesHidden(id), NEW u \in Hidden(drive') \ Hidden(drive)
    PROVE  Trashes(u)
<1> DEFINE t == tasks[id]
           op == t.op
<1>1. /\ NodesOK(drive) /\ IsFiniteSet(DOMAIN drive)
      /\ NodesOK(drive') /\ IsFiniteSet(DOMAIN drive')
      /\ clock \in Nat /\ \A v \in DOMAIN drive : v <= clock
  BY DEF Inv, DataInv, DataOK, Fresh, DatesInv
<1>2. \A v \in DOMAIN drive : drive[v] \in Node
  BY <1>1 DEF NodesOK
<1>3. CASE UploadNewFile(id)
  <2> DEFINE node == [parent |-> t.hold.uid, name |-> NameOf(op.path),
                      dir |-> FALSE, trashed |-> FALSE, rev |-> clock + 1,
                      sha |-> t.hold.sha]
  <2>1. drive' = Put(drive, clock + 1, node)
    BY <1>3 DEF UploadNewFile
  <2>2. ~ node.trashed /\ node.parent \notin Hidden(drive)
    BY <1>3 DEF PlacesHidden
  <2> HIDE DEF node
  <2> QED BY <1>1, <2>1, <2>2, MadeSeen
<1>4. CASE CreateRemoteFolderAct(id)
  <2> DEFINE node == [parent |-> RemoteParent(op.path), name |-> NameOf(op.path),
                      dir |-> TRUE, trashed |-> FALSE, rev |-> 0, sha |-> None]
  <2>1. drive' = Put(drive, clock + 1, node)
    BY <1>4 DEF CreateRemoteFolderAct
  <2>2. ~ node.trashed /\ node.parent \notin Hidden(drive)
    BY <1>4 DEF PlacesHidden
  <2> HIDE DEF node
  <2> QED BY <1>1, <2>1, <2>2, MadeSeen
<1>5. CASE UploadNewRevision(id)
  <2>1. drive' = [drive EXCEPT ![op.uid].rev = clock + 1,
                               ![op.uid].sha = t.hold.sha]
    BY <1>5 DEF UploadNewRevision
  <2>2. /\ DOMAIN drive' = DOMAIN drive
        /\ \A v \in DOMAIN drive : /\ drive'[v].parent = drive[v].parent
                                   /\ drive'[v].trashed = drive[v].trashed
    BY <1>2, <2>1 DEF Node
  <2> QED BY <1>1, <2>2, TreeSeen
<1>6. CASE MoveRemoteAct(id)
  <2>1. CASE /\ t.pc = "move"
             /\ drive' = [drive EXCEPT ![op.uid].parent = t.hold.uid]
    <3>1. t.hold.uid \notin Hidden(drive)
      BY <1>6, <2>1 DEF PlacesHidden
    <3> QED BY <1>1, <2>1, <3>1, MovedSeen
  <2>2. CASE drive' = [drive EXCEPT ![op.uid].name = NameOf(op.path)]
    <3>1. /\ DOMAIN drive' = DOMAIN drive
          /\ \A v \in DOMAIN drive : /\ drive'[v].parent = drive[v].parent
                                     /\ drive'[v].trashed = drive[v].trashed
      BY <1>2, <2>2 DEF Node
    <3> QED BY <1>1, <3>1, TreeSeen
  <2> QED BY <1>6, <2>1, <2>2 DEF MoveRemoteAct, Able
<1>7. CASE TrashRemoteAct(id)
  <2>1. /\ t.pc = "trash" /\ drive' = [drive EXCEPT ![op.uid].trashed = TRUE]
    BY <1>7 DEF TrashRemoteAct, Able
  <2>2. /\ DOMAIN drive' = DOMAIN drive
        /\ \A v \in DOMAIN drive :
               /\ drive'[v].parent = drive[v].parent
               /\ v # op.uid => drive'[v].trashed = drive[v].trashed
    BY <1>2, <2>1 DEF Node
  <2>3. PICK v \in Above(drive, u) \cap DOMAIN drive :
            drive'[v].trashed /\ ~ drive[v].trashed
    BY <1>1, <2>2, HiddenBelow
  <2>4. op.uid \in Above(drive, u)
    BY <2>2, <2>3
  <2>5. op.kind = "trash_remote" /\ id \in DOMAIN journal /\ journal[id].op = op
    BY <2>1, TaskFacts DEF Inv, ControlInv, TasksJournaled, Fits
  <2> QED BY <2>4, <2>5 DEF Trashes
<1> QED BY <1>3, <1>4, <1>5, <1>6, <1>7

\* The program changes the drive by five calls only.
LEMMA OnlyActsWrite ==
    ASSUME [Next]_vars, Toolstep, BoundsOK
    PROVE  \/ UNCHANGED drive
           \/ \E id \in DOMAIN tasks :
                  \/ UploadNewFile(id) \/ UploadNewRevision(id)
                  \/ MoveRemoteAct(id) \/ TrashRemoteAct(id)
                  \/ CreateRemoteFolderAct(id)
<1>1. CASE \E id \in DOMAIN tasks : TaskStep(id)
  <2>1. PICK id \in DOMAIN tasks : TaskStep(id)
    BY <1>1
  <2>2. CASE StepFails(id) \/ RemoteFails(id) \/ TransferFails(id)
             \/ PrecheckPasses(id) \/ PrecheckSkips(id) \/ Read(id)
             \/ Retry(id)
    BY <2>2 DEF StepFails, RemoteFails, TransferFails, PrecheckPasses,
       PrecheckSkips, Read, Retry, RetryAgain, RetryThrows, RetryFindsLanded,
       Quiet, sides
  <2>3. CASE DownloadPlace(id) \/ DownloadSwap(id) \/ MoveLocalAct(id)
             \/ RecycleLocalAct(id) \/ CreateLocalFolderAct(id)
             \/ CommitStep(id)
    BY <2>3 DEF DownloadPlace, DownloadSwap, MoveLocalAct, RecycleLocalAct,
       CreateLocalFolderAct, CommitStep, Recycle, sides
  <2> QED BY <2>1, <2>2, <2>3 DEF TaskStep, Act
<1>2. CASE \E id \in DOMAIN journal : Recover(id)
  BY <1>2 DEF Recover, RecoverUnstarted, RecoverCompleted, RecoverFailed,
     RecoverAbandoned, RecoverFrame, sides
<1>3. CASE RecoveryDone \/ StartBatch \/ KeepBooks \/ StopEarly \/ MakePlan
           \/ Pause \/ CancelAll \/ Crash \/ UNCHANGED vars
  BY <1>3 DEF RecoveryDone, StartBatch, KeepBooks, StopEarly, MakePlan, Pause,
     CancelAll, Crash, vars, sides, store
<1>4. CASE LocalUser \/ RemoteUser
  <2>1. edits' = edits + 1
    BY <1>4 DEF LocalUser, UserEdits, UserDeletes, UserCreates, UserRenames,
       LocalUserMay, RemoteUser, RemoteEdits, RemoteTrashes, RemoteRestores,
       RemoteDeletes, RemoteMoves, UserMay
  <2> QED BY <2>1 DEF Toolstep, BoundsOK
<1> QED BY <1>1, <1>2, <1>3, <1>4 DEF Next, Program

PlacesAnyHidden == \E id \in DOMAIN tasks : PlacesHidden(id)

LEMMA NextHides ==
    ASSUME Inv, Rooted(fs), DatesInv, [Next]_vars, Toolstep,
           NEW u \in Hidden(drive') \ Hidden(drive)
    PROVE  Trashes(u) \/ PlacesAnyHidden
<1>1. Inv'
  BY NextInv
<1>2. DatesInv'
  BY NextDates
<1>3. CASE UNCHANGED drive
  BY <1>3 DEF Hidden
<1>4. CASE \E id \in DOMAIN tasks :
               \/ UploadNewFile(id) \/ UploadNewRevision(id)
               \/ MoveRemoteAct(id) \/ TrashRemoteAct(id)
               \/ CreateRemoteFolderAct(id)
  BY <1>1, <1>2, <1>4, ActHides DEF PlacesAnyHidden
<1> QED BY <1>3, <1>4, OnlyActsWrite DEF Inv

OnlyTrashOrPlacingHides ==
    [][Toolstep => \A u \in Hidden(drive') \ Hidden(drive) :
           Trashes(u) \/ PlacesAnyHidden]_vars

\* A remote node gets out of sight, with any plans, users, faults and crashes,
\* only by a trash operation on it or on what it is in, as the journal has it,
\* or because it is made or moved where everything is out of sight: a folder
\* that was trashed since the plan was made (reconcile.ts:129-133 keeps such a
\* folder, act() of executor.ts does not look again).
THEOREM HiddenByTrashOrPlacing == Spec => OnlyTrashOrPlacingHides
<1>1. Inv /\ Rooted(fs) /\ DatesInv /\ [Next]_vars
          => [Toolstep => \A u \in Hidden(drive') \ Hidden(drive) :
                  Trashes(u) \/ PlacesAnyHidden]_vars
  BY NextHides
<1> QED BY <1>1, SpecDates, PTL DEF Spec, OnlyTrashOrPlacingHides

NothingPlacedHidden == [][~ PlacesAnyHidden]_vars

\* A remote node gets out of sight only because the program trashes it or a
\* folder it is in (OnlyTrashTrashes), as long as it places nothing in a folder
\* that is out of sight itself (act() of executor.ts).
THEOREM HiddenByTrash == Spec /\ NothingPlacedHidden => OnlyTrashTrashes
<1>1. [Toolstep => \A u \in Hidden(drive') \ Hidden(drive) :
           Trashes(u) \/ PlacesAnyHidden]_vars
      /\ [~ PlacesAnyHidden]_vars
          => [Toolstep => \A u \in Hidden(drive') \ Hidden(drive) :
                  \E id \in DOMAIN journal :
                      /\ journal[id].op.kind = "trash_remote"
                      /\ journal[id].op.uid \in Above(drive, u)]_vars
  BY DEF Trashes
<1> QED BY <1>1, HiddenByTrashOrPlacing, PTL
        DEF OnlyTrashOrPlacingHides, NothingPlacedHidden, OnlyTrashTrashes

-----------------------------------------------------------------------------
(* What the decision engine deletes.                                       *)

DeleteKinds == {"recycle_local", "trash_remote"}

Found(in, p) == FindLocal(in.items, p, in.base[p])

\* The content of row p's item, and of its node, is the one that was synced.
LocalAsSynced(in, p) ==
    LET r == in.base[p]
        item == in.items[Found(in, p)]
    IN  r.dir \/ IF item.data # None /\ r.lsha # None THEN item.data = r.lsha
                 ELSE r.lsha # None /\ item.ino = r.ino /\ item.ver = r.ver

RemoteAsSynced(in, p) ==
    LET r == in.base[p]
        node == in.nodes[r.uid]
    IN  r.dir \/ IF node.sha # None /\ r.rsha # None THEN node.sha = r.rsha
                 ELSE node.rev = r.rev

LocalSeen(in, p) == in.rootOk /\ Found(in, p) # None

RemoteSeen(in, paths, p) ==
    LET u == in.base[p].uid IN
    /\ u \in DOMAIN in.nodes /\ ~ EffectivelyTrashed(in.nodes, u)
    /\ u \in DOMAIN paths

\* What the class of a row says of the two sides.
Means(in, paths, p, c) ==
    /\ IF LocalSeen(in, p)
       THEN c.l # "deleted" /\ c.lp = Found(in, p) /\ c.lp # None
       ELSE c.l = "deleted" /\ c.lp = None
    /\ c.l = "unchanged" => LocalAsSynced(in, p)
    /\ IF RemoteSeen(in, paths, p)
       THEN c.r # "deleted" /\ c.rp = paths[in.base[p].uid] /\ c.rp # None
       ELSE c.r = "deleted" /\ c.rp = None
    /\ c.r = "unchanged" => RemoteAsSynced(in, p)

LEMMA SideMeans ==
    ASSUME NEW moved, NEW changed
    PROVE  /\ SideState(moved, changed) \in States \ {"deleted"}
           /\ SideState(moved, changed) \in {"unchanged", "moved"} => ~ changed
  BY DEF SideState, States

LEMMA ImpliedMeans ==
    ASSUME NEW base_, NEW p, NEW state, NEW place
    PROVE  /\ Implied(base_, p, state, place) = "deleted"
                  <=> state[p] = "deleted"
           /\ Implied(base_, p, state, place) = "unchanged"
                  => state[p] \in {"unchanged", "moved"}
  BY DEF Implied, MovedStates

LEMMA ClassMeans ==
    ASSUME NEW in, NEW paths, NEW p \in DOMAIN in.base,
           \A u \in DOMAIN paths : paths[u] # None
    PROVE  Means(in, paths, p, Classified(in, paths)[p])
<1> DEFINE b == in.base
           r == b[p]
           l  == [q \in DOMAIN b |-> Classify(in, paths, q).l]
           rr == [q \in DOMAIN b |-> Classify(in, paths, q).r]
           lp == [q \in DOMAIN b |-> Classify(in, paths, q).lp]
           rp == [q \in DOMAIN b |-> Classify(in, paths, q).rp]
           c  == Classified(in, paths)[p]
<1>1. /\ c.lp = lp[p] /\ c.rp = rp[p]
      /\ c.l = Implied(b, p, l, lp) /\ c.r = Implied(b, p, rr, rp)
  BY DEF Classified
<1>2. /\ lp[p] = IF LocalSeen(in, p) THEN Found(in, p) ELSE None
      /\ l[p] = IF lp[p] = None THEN "deleted"
                ELSE LocalState(p, r, lp[p], in.items[lp[p]])
      /\ rp[p] = IF RemoteSeen(in, paths, p) THEN paths[r.uid] ELSE None
      /\ rr[p] = IF rp[p] = None THEN "deleted"
                 ELSE RemoteState(p, r, rp[p], in.nodes[r.uid])
  BY DEF Classify, LocalSeen, RemoteSeen, Found
<1> HIDE DEF l, rr, lp, rp, c
<1>3. ASSUME LocalSeen(in, p)
      PROVE  /\ c.l # "deleted" /\ c.lp = Found(in, p) /\ c.lp # None
             /\ c.l = "unchanged" => LocalAsSynced(in, p)
  <2>1. lp[p] = Found(in, p) /\ lp[p] # None
    BY <1>2, <1>3 DEF LocalSeen
  <2>2. l[p] = LocalState(p, r, Found(in, p), in.items[Found(in, p)])
    BY <1>2, <2>1
  <2>3. l[p] # "deleted"
    BY <2>2, SideMeans DEF LocalState
  <2>4. l[p] \in {"unchanged", "moved"} => LocalAsSynced(in, p)
    BY <2>2, SideMeans DEF LocalState, LocalAsSynced
  <2> QED BY <1>1, <2>1, <2>3, <2>4, ImpliedMeans
<1>4. ASSUME ~ LocalSeen(in, p) PROVE c.l = "deleted" /\ c.lp = None
  BY <1>1, <1>2, <1>4, ImpliedMeans
<1>5. ASSUME RemoteSeen(in, paths, p)
      PROVE  /\ c.r # "deleted" /\ c.rp = paths[r.uid] /\ c.rp # None
             /\ c.r = "unchanged" => RemoteAsSynced(in, p)
  <2>1. rp[p] = paths[r.uid] /\ rp[p] # None
    BY <1>2, <1>5 DEF RemoteSeen
  <2>2. rr[p] = RemoteState(p, r, paths[r.uid], in.nodes[r.uid])
    BY <1>2, <2>1
  <2>3. rr[p] # "deleted"
    BY <2>2, SideMeans DEF RemoteState
  <2>4. rr[p] \in {"unchanged", "moved"} => RemoteAsSynced(in, p)
    BY <2>2, SideMeans DEF RemoteState, RemoteAsSynced
  <2> QED BY <1>1, <2>1, <2>3, <2>4, ImpliedMeans
<1>6. ASSUME ~ RemoteSeen(in, paths, p) PROVE c.r = "deleted" /\ c.rp = None
  BY <1>1, <1>2, <1>6, ImpliedMeans
<1>7. c.l = "deleted" => c.l # "unchanged"
  OBVIOUS
<1> QED BY <1>3, <1>4, <1>5, <1>6 DEF Means, c

\* Only the two cells of the table that say so delete anything.
LEMMA ApplyDeletes ==
    ASSUME NEW in, NEW p, NEW c, c.l \in States, c.r \in States,
           NEW op \in Apply(in, p, c).ops, op.kind \in DeleteKinds
    PROVE  \/ /\ op.kind = "recycle_local" /\ c.l = "unchanged"
              /\ c.r = "deleted" /\ op.path = c.lp
           \/ /\ op.kind = "trash_remote" /\ c.l = "deleted"
              /\ c.r = "unchanged" /\ op.uid = in.base[p].uid
              /\ op.path = IF c.rp # None THEN c.rp ELSE p
<1> DEFINE action == Table[c.l][c.r]
           loads  == {"download", "upload", "same_download", "same_upload"}
           moves  == {"move_local", "move_remote"}
           both   == {"move_local_then_download", "move_local_then_upload",
                      "move_local_then_compare", "move_remote_then_download",
                      "move_remote_then_upload", "move_remote_then_compare"}
           same   == {"same_none", "same_compare", "compare"}
           idle   == {"none", "remove_baseline", "delete_vs_edit"}
<1>1. /\ action \in loads \cup moves \cup both \cup same \cup idle
                    \cup DeleteKinds
      /\ action = "recycle_local" => c.l = "unchanged" /\ c.r = "deleted"
      /\ action = "trash_remote" => c.l = "deleted" /\ c.r = "unchanged"
  BY DEF Table, Row5, States, DeleteKinds
<1> HIDE DEF action
<1>2. action \notin loads
  BY DEF Apply, action, Only, NoPlan, NewOp, DeleteKinds, DivergentMove
<1>3. action \notin moves
  BY DEF Apply, action, Only, NewOp, NoPlan, DeleteKinds
<1>4. action \notin both
  BY DEF Apply, action, Only, Both, NewOp, NoPlan, DeleteKinds, Conflict
<1>5. action \notin same
  BY DEF Apply, action, Only, NewOp, NoPlan, DeleteKinds, Conflict,
         DivergentMove
<1>6. action \notin idle
  <2>1. action # "none"
    BY DEF Apply, action, NoPlan
  <2>2. ASSUME action = "remove_baseline" PROVE FALSE
    <3>1. op \in Only(NewOp("remove_baseline", p)).ops
      BY <2>2 DEF Apply, action
    <3> QED BY <3>1 DEF Only, NewOp, NoPlan, DeleteKinds
  <2>3. action # "delete_vs_edit"
    BY DEF Apply, action, Conflict, NoPlan
  <2> QED BY <2>1, <2>2, <2>3
<1>7. CASE action = "recycle_local"
  <2>1. op.kind = "recycle_local" /\ op.path = c.lp
    BY <1>7 DEF Apply, action, Only, NewOp, NoPlan
  <2> QED BY <1>1, <1>7, <2>1
<1>8. CASE action = "trash_remote"
  <2>1. /\ op.kind = "trash_remote" /\ op.uid = in.base[p].uid
        /\ op.path = IF c.rp # None THEN c.rp ELSE p
    BY <1>8 DEF Apply, action, Only, NewOp, NoPlan
  <2> QED BY <1>1, <1>8, <2>1
<1> QED BY <1>1, <1>2, <1>3, <1>4, <1>5, <1>6, <1>7, <1>8 DEF DeleteKinds

\* Nothing but the rows is deleted, and only through the gate.
LEMMA DeletesOfRows ==
    ASSUME NEW in, NEW paths, NEW class,
           NEW op \in Planned(in, paths, class).ops, op.kind \in DeleteKinds
    PROVE  /\ ~ Withheld(in, paths, op)
           /\ \E p \in DOMAIN class :
                  op \in PlanRow(in, ExcludedPaths(in, paths), class,
                                 KeptTops(in, paths, class), p).ops
<1> DEFINE shut  == ExcludedPaths(in, paths)
           tops  == KeptTops(in, paths, class)
           parts == Parts(in, paths, shut, class, tops)
           ops   == UNION {x.ops : x \in parts}
<1> HIDE DEF shut, tops
<1>1. Planned(in, paths, class).ops = Gated(in, paths, ops).ops
  BY DEF Planned, Assembled, shut, tops
<1>2. op \in ops /\ ~ Withheld(in, paths, op)
  <2> HIDE DEF ops
  <2> QED BY <1>1 DEF Gated, Acyclic, Unoccupied
<1>3. PICK x \in parts : op \in x.ops
  BY <1>2
<1>4. ASSUME NEW q, x = PlanNewLocal(in, paths, shut, class, q) PROVE FALSE
  BY <1>3, <1>4 DEF PlanNewLocal, Block, Conflict, Only, NewOp, NoPlan, DeleteKinds
<1>5. ASSUME NEW u, x = PlanNewRemote(in, paths, class, u) PROVE FALSE
  BY <1>3, <1>5 DEF PlanNewRemote, Block, Only, NewOp, NoPlan, DeleteKinds
<1> QED BY <1>2, <1>3, <1>4, <1>5 DEF Parts, shut, tops

\* What the guards of a row that is deleted let pass.
LEMMA RowDeletes ==
    ASSUME NEW in, NEW shut, NEW class, NEW kept, NEW p, p # None,
           NEW op \in PlanRow(in, shut, class, kept, p).ops,
           op.kind \in DeleteKinds
    PROVE  /\ op \in Apply(in, p, class[p]).ops
           /\ p \notin kept /\ \A d \in kept : ~ Inside(d, p)
           /\ ~ QuarantinedPath(in, p) /\ ~ QuarantinedUid(in, in.base[p].uid)
           /\ class[p].rp = None /\ in.base[p].uid \in DOMAIN in.nodes
                  => EffectivelyTrashed(in.nodes, in.base[p].uid)
           /\ class[p].l = "deleted" =>
                  p \notin in.staleLocal \cup in.hidden /\ in.localOk
           /\ class[p].r = "deleted" => p \notin in.staleRemote /\ in.remoteOk
<1>1. /\ op \notin Only(NewOp("remove_baseline", p)).ops
      /\ \A path, uid : op \notin Conflict("delete_vs_edit", path, uid).ops
      /\ \A reason, path, uid : op \notin Block(reason, path, uid).ops
  BY DEF Only, NewOp, Conflict, Block, NoPlan, DeleteKinds
<1>2. p \notin kept /\ \A d \in kept : ~ Inside(d, p)
  BY <1>1 DEF PlanRow
<1>3. ~ QuarantinedPath(in, p) /\ ~ QuarantinedUid(in, in.base[p].uid)
  BY <1>1 DEF PlanRow
<1>4. class[p].rp = None /\ in.base[p].uid \in DOMAIN in.nodes
          => EffectivelyTrashed(in.nodes, in.base[p].uid)
  BY <1>1 DEF PlanRow
<1>5. class[p].l = "deleted" => p \notin in.staleLocal \cup in.hidden /\ in.localOk
  BY <1>1 DEF PlanRow
<1>6. class[p].r = "deleted" => p \notin in.staleRemote /\ in.remoteOk
  BY <1>1 DEF PlanRow
<1>7. op \in Apply(in, p, class[p]).ops
  BY <1>1 DEF PlanRow
<1> QED BY <1>2, <1>3, <1>4, <1>5, <1>6, <1>7

LEMMA InsideTransitive ==
    ASSUME NEW p \in Path, NEW q \in Path, NEW r \in Path,
           Inside(p, q), Inside(q, r)
    PROVE  Inside(p, r)
<1>1. Under(p, q) /\ Under(q, r)
  BY DEF Inside, IsStrictPrefix, Under
<1>2. Under(p, r)
  BY <1>1, UnderTransitive
<1>3. p # r
  BY InsideLonger, LengthOfPath
<1> QED BY <1>2, <1>3 DEF Inside, IsStrictPrefix, Under

LEMMA AppendInside ==
    ASSUME NEW p \in Path, NEW a \in Names
    PROVE  Inside(p, Append(p, a))
<1> DEFINE q == Append(p, a)
<1>1. /\ Len(q) = Len(p) + 1 /\ Len(p) \in Nat
      /\ \A i \in 1..Len(p) : q[i] = p[i]
  BY DEF Path
<1>2. p # q /\ q \in Path
  BY <1>1 DEF Path
<1> HIDE DEF q
<1>3. Under(p, q)
  BY <1>1, <1>2, UnderMeans
<1> USE DEF q
<1> QED BY <1>2, <1>3 DEF Inside, IsStrictPrefix, Under

\* A folder that is kept is, or is inside, an outermost one.
LEMMA OutermostKept ==
    ASSUME NEW in, NEW paths, NEW class, DOMAIN class \subseteq Path,
           NEW d \in Kept(in, paths, class)
    PROVE  \E e \in KeptTops(in, paths, class) : e = d \/ Inside(e, d)
<1> DEFINE kept  == Kept(in, paths, class)
           above == {e \in kept : e = d \/ Inside(e, d)}
           S     == {Len(e) : e \in above}
<1>1. kept \subseteq Path
  BY DEF Kept
<1> HIDE DEF kept
<1>2. S \in SUBSET Nat /\ S # {}
  BY <1>1, LengthOfPath DEF kept
<1>3. PICK n \in S : \A m \in S : n <= m
  <2> HIDE DEF S
  <2> QED BY <1>2, Least
<1>4. PICK e \in above : n = Len(e)
  BY <1>3
<1>5. ASSUME NEW f \in kept, Inside(f, e) PROVE FALSE
  <2>1. Len(f) < Len(e) /\ Len(f) \in Nat /\ Len(e) \in Nat
    BY <1>1, <1>4, <1>5, InsideLonger, LengthOfPath
  <2>2. Inside(f, d)
    BY <1>1, <1>4, <1>5, InsideTransitive DEF kept
  <2> QED BY <1>3, <1>4, <2>1, <2>2
<1> QED BY <1>4, <1>5 DEF KeptTops, kept

\* An input the engine is called with: finitely many nodes, the root not among
\* them, and rows that are at paths.
InputOK(in) ==
    /\ NodesOK(in.nodes) /\ IsFiniteSet(DOMAIN in.nodes)
    /\ Root \notin DOMAIN in.nodes
    /\ DOMAIN in.base \subseteq Path

\* Node u of the view is in folder d, however deep.
Within(in, d, u) == u # d /\ d \in Above(in.nodes, u)

\* Of a node in a folder that is trashed along with row p's: it has a row, and if
\* that row was in the folder too then the node is as it was synced and the item
\* is not in the folder any more; or it is not synced at all, as it, or a folder
\* it is in there, is left out of what is synced.
GoesAlong(in, p, u) ==
    \/ \E q \in DOMAIN in.base :
           /\ in.base[q].uid = u
           /\ Inside(p, q) => /\ RemoteAsSynced(in, q)
                              /\ ~ Inside(p, Found(in, q)) \/ Found(in, q) = None
    \/ \E w \in Above(in.nodes, u) \cap DOMAIN in.nodes :
           Within(in, in.base[p].uid, w) /\ LeftOut(in, w)

\* What a trash_remote of a plan rests on: of some row, whose node is as it was
\* synced, the item is gone from a listing that is complete, newer than the row
\* and hides nothing; and so it is of every node that goes along with a folder,
\* but for those that are left out or come from elsewhere.
TrashIsSafe(in, paths, op) ==
    /\ in.rootOk /\ in.localOk
    /\ \E p \in DOMAIN in.base \ (in.hidden \cup in.staleLocal) :
           /\ op.uid = in.base[p].uid /\ RemoteSeen(in, paths, p)
           /\ op.path = paths[op.uid] /\ RemoteAsSynced(in, p)
           /\ Found(in, p) = None
           /\ ~ QuarantinedPath(in, p) /\ ~ QuarantinedUid(in, op.uid)
           /\ in.base[p].dir =>
                \A u \in DOMAIN in.nodes :
                    Within(in, op.uid, u) => GoesAlong(in, p, u)

\* What a recycle_local of a plan rests on: the same, with the sides swapped, and
\* a drive that answers and is not empty.
RecycleIsSafe(in, paths, op) ==
    /\ in.remoteUp /\ in.remoteOk /\ in.rootOk /\ ~ RemoteEmptied(in, paths)
    /\ \E p \in DOMAIN in.base \ in.staleRemote :
           /\ op.path = Found(in, p) /\ op.path # None /\ LocalAsSynced(in, p)
           /\ in.base[p].uid \in DOMAIN in.nodes =>
                  EffectivelyTrashed(in.nodes, in.base[p].uid)
           /\ ~ QuarantinedPath(in, p) /\ ~ QuarantinedUid(in, in.base[p].uid)
           /\ in.base[p].dir =>
                \A i \in DOMAIN in.items : Inside(op.path, i) =>
                    \E q \in DOMAIN in.base :
                        /\ i = Found(in, q)
                        /\ Inside(p, q) =>
                               /\ LocalAsSynced(in, q)
                               /\ RemoteSeen(in, paths, q) =>
                                      ~ Inside(p, paths[in.base[q].uid])

\* What a deletion of the plan is of.
LEMMA DeletedRow ==
    ASSUME NEW in, NEW paths, DOMAIN in.base \subseteq Path,
           \A u \in DOMAIN paths : paths[u] # None,
           NEW op \in Planned(in, paths, Classified(in, paths)).ops,
           op.kind \in DeleteKinds
    PROVE  /\ ~ Withheld(in, paths, op)
           /\ \E p \in DOMAIN in.base :
                  LET c == Classified(in, paths)[p] IN
                  /\ Means(in, paths, p, c)
                  /\ ~ QuarantinedPath(in, p)
                  /\ ~ QuarantinedUid(in, in.base[p].uid)
                  /\ p \notin Kept(in, paths, Classified(in, paths))
                  /\ \/ /\ op.kind = "recycle_local" /\ op.path = c.lp
                        /\ c.l = "unchanged" /\ c.r = "deleted"
                        /\ in.base[p].uid \in DOMAIN in.nodes =>
                               EffectivelyTrashed(in.nodes, in.base[p].uid)
                        /\ p \notin in.staleRemote /\ in.remoteOk
                     \/ /\ op.kind = "trash_remote"
                        /\ op.uid = in.base[p].uid /\ op.path = c.rp
                        /\ c.l = "deleted" /\ c.r = "unchanged"
                        /\ p \notin in.hidden \cup in.staleLocal /\ in.localOk
<1> DEFINE class == Classified(in, paths)
           shut  == ExcludedPaths(in, paths)
           tops  == KeptTops(in, paths, class)
<1>1. DOMAIN class = DOMAIN in.base
  BY DEF Classified
<1>2. \A p \in DOMAIN in.base :
          Means(in, paths, p, class[p]) /\ ClassOK(in, class[p], p)
  BY ClassMeans, ClassifiedOK
<1> HIDE DEF class, shut, tops
<1>3. /\ ~ Withheld(in, paths, op)
      /\ \E p \in DOMAIN class : op \in PlanRow(in, shut, class, tops, p).ops
  BY DeletesOfRows DEF class, shut, tops
<1>4. PICK p \in DOMAIN in.base : op \in PlanRow(in, shut, class, tops, p).ops
  BY <1>1, <1>3
<1>5. p # None
  BY NoneAssumption DEF Path
<1>6. /\ op \in Apply(in, p, class[p]).ops
      /\ p \notin tops /\ \A d \in tops : ~ Inside(d, p)
      /\ ~ QuarantinedPath(in, p) /\ ~ QuarantinedUid(in, in.base[p].uid)
      /\ class[p].rp = None /\ in.base[p].uid \in DOMAIN in.nodes
             => EffectivelyTrashed(in.nodes, in.base[p].uid)
      /\ class[p].l = "deleted" =>
             p \notin in.staleLocal \cup in.hidden /\ in.localOk
      /\ class[p].r = "deleted" => p \notin in.staleRemote /\ in.remoteOk
  BY <1>4, <1>5, RowDeletes
<1>7. p \notin Kept(in, paths, class)
  BY <1>1, <1>6, OutermostKept DEF tops
<1>8. \/ /\ op.kind = "recycle_local" /\ class[p].l = "unchanged"
         /\ class[p].r = "deleted" /\ op.path = class[p].lp
      \/ /\ op.kind = "trash_remote" /\ class[p].l = "deleted"
         /\ class[p].r = "unchanged" /\ op.uid = in.base[p].uid
         /\ op.path = IF class[p].rp # None THEN class[p].rp ELSE p
  <2>1. class[p].l \in States /\ class[p].r \in States
    BY <1>2 DEF ClassOK
  <2> QED BY <1>6, <2>1, ApplyDeletes
<1>9. /\ class[p].r = "unchanged" => class[p].rp # None
      /\ class[p].r = "deleted" => class[p].rp = None
  BY <1>2 DEF Means
<1> QED BY <1>2, <1>3, <1>6, <1>7, <1>8, <1>9 DEF class

\* A folder that the plan deletes on one side, and all that goes along.
LEMMA TrashedTree ==
    ASSUME NEW in, NEW paths, NEW class, DOMAIN class = DOMAIN in.base,
           NEW p \in DOMAIN in.base,
           \A q \in DOMAIN in.base : Means(in, paths, q, class[q]),
           in.rootOk, in.base[p].dir, p \notin Kept(in, paths, class),
           class[p].l = "deleted", class[p].r = "unchanged",
           NEW u \in DOMAIN paths, Inside(class[p].rp, paths[u])
    PROVE  \E q \in DOMAIN in.base :
               /\ in.base[q].uid = u
               /\ Inside(p, q) => /\ RemoteAsSynced(in, q)
                                  /\ ~ Inside(p, Found(in, q))
                                     \/ Found(in, q) = None
<1>1. RemoteTreeDeletable(in, paths, class, p)
  BY DEF Kept
<1>2. PICK q \in DOMAIN in.base : in.base[q].uid = u
  BY <1>1 DEF RemoteTreeDeletable, NewRemote, ClaimedRemote
<1>3. ASSUME Inside(p, q)
      PROVE  /\ RemoteAsSynced(in, q)
             /\ ~ Inside(p, Found(in, q)) \/ Found(in, q) = None
  <2>1. /\ class[q].r = "unchanged"
        /\ \/ class[q].l = "deleted"
           \/ class[q].lp # None /\ ~ Inside(p, class[q].lp)
    BY <1>1, <1>3 DEF RemoteTreeDeletable
  <2> QED BY <2>1 DEF Means, LocalSeen
<1> QED BY <1>2, <1>3

\* A node in a folder that is synced has a path in it, or it or a folder it is in
\* there is left out.
LEMMA WithinReached ==
    ASSUME NEW in, InputOK(in), NEW d \in DOMAIN RemotePaths(in),
           NEW u \in DOMAIN in.nodes, Within(in, d, u),
           \A w \in Above(in.nodes, u) \cap DOMAIN in.nodes :
               Within(in, d, w) => ~ LeftOut(in, w)
    PROVE  /\ u \in DOMAIN RemotePaths(in)
           /\ Inside(RemotePaths(in)[d], RemotePaths(in)[u])
<1> DEFINE nodes == in.nodes
           paths == RemotePaths(in)
           Reached(v) == v \in DOMAIN paths /\ Inside(paths[d], paths[v])
           s == {v \in Above(nodes, u) : Within(in, d, v) /\ ~ Reached(v)}
<1> SUFFICES ASSUME ~ Reached(u) PROVE FALSE
  OBVIOUS
<1>1. /\ NodesOK(nodes) /\ IsFiniteSet(DOMAIN nodes) /\ Root \notin DOMAIN nodes
      /\ \A v \in DOMAIN nodes : v \in Nat /\ nodes[v].parent \in Nat
                                 /\ nodes[v].name \in Names
  BY DEF InputOK, NodesOK, Node
<1>2. /\ d \in DOMAIN nodes /\ d \in DOMAIN paths
      /\ \A v \in DOMAIN paths : paths[v] \in Path
  BY <1>1, RemotePathsAre DEF PathsOf
<1>3. /\ u \in Above(nodes, u) /\ Closed(nodes, Above(nodes, u))
      /\ \A t : u \in t /\ Closed(nodes, t) => Above(nodes, u) \subseteq t
  BY <1>1, AboveClosed
<1> HIDE DEF paths
<1>4. ASSUME NEW v \in s \cap DOMAIN nodes PROVE nodes[v].parent \in s
  <2> DEFINE q == nodes[v].parent
  <2>1. v \in Above(nodes, u) /\ v # d /\ d \in Above(nodes, v) /\ ~ Reached(v)
    BY <1>4 DEF Within
  <2>2. q \in Nat /\ v \in Nat /\ v # Root
    BY <1>1
  <2>3. q \in Above(nodes, u)
    BY <1>3, <2>1 DEF Closed
  <2>4. q \in Above(nodes, q) /\ Closed(nodes, Above(nodes, q))
    BY <1>1, <2>2, AboveClosed
  <2>5. Above(nodes, v) \subseteq {v} \cup Above(nodes, q)
    <3> DEFINE t == {v} \cup Above(nodes, q)
    <3>1. v \in t /\ Closed(nodes, t)
      BY <2>4 DEF Closed
    <3> HIDE DEF t
    <3>2. Above(nodes, v) \subseteq t
      BY <1>1, <2>2, <3>1, AboveClosed
    <3> QED BY <3>2 DEF t
  <2>6. d \in Above(nodes, q)
    BY <2>1, <2>5
  <2>7. ~ LeftOut(in, v)
    BY <1>4, <2>1 DEF Within
  <2>8. q # d /\ ~ Reached(q)
    <3> SUFFICES ASSUME q = d \/ Reached(q) PROVE FALSE
      OBVIOUS
    <3>1. q \in DOMAIN paths
      BY <1>2
    <3>2. v \in DOMAIN paths /\ paths[v] = Append(paths[q], nodes[v].name)
      BY <1>1, <1>4, <2>2, <2>7, <3>1, RemotePathsReach DEF paths
    <3>3. Inside(paths[q], paths[v])
      <4>1. paths[q] \in Path /\ nodes[v].name \in Names
        BY <1>1, <1>2, <1>4, <3>1
      <4> HIDE DEF nodes, q
      <4> QED BY <3>2, <4>1, AppendInside
    <3>4. Inside(paths[d], paths[v])
      BY <1>2, <3>1, <3>2, <3>3, InsideTransitive
    <3> QED BY <2>1, <3>2, <3>4
  <2> HIDE DEF Reached
  <2> QED BY <2>3, <2>6, <2>8 DEF Within
<1>5. u \in s /\ Closed(nodes, s)
  BY <1>3, <1>4 DEF Closed
<1> HIDE DEF s
<1>6. Above(nodes, u) \subseteq s
  BY <1>3, <1>5
<1>7. d \in s
  BY <1>6 DEF Within
<1> QED BY <1>7 DEF s, Within

LEMMA RecycledTree ==
    ASSUME NEW in, NEW paths, NEW class, DOMAIN class = DOMAIN in.base,
           NEW p \in DOMAIN in.base,
           \A q \in DOMAIN in.base : Means(in, paths, q, class[q]),
           in.base[p].dir, p \notin Kept(in, paths, class),
           class[p].l = "unchanged", class[p].r = "deleted",
           NEW i \in DOMAIN in.items, Inside(class[p].lp, i)
    PROVE  \E q \in DOMAIN in.base :
               /\ i = Found(in, q)
               /\ Inside(p, q) => /\ LocalAsSynced(in, q)
                                  /\ RemoteSeen(in, paths, q) =>
                                         ~ Inside(p, paths[in.base[q].uid])
<1>1. LocalTreeDeletable(in, class, p)
  BY DEF Kept
<1>2. PICK q \in DOMAIN in.base : i = class[q].lp /\ class[q].lp # None
  BY <1>1 DEF LocalTreeDeletable, NewLocal, Claimed
<1>3. i = Found(in, q)
  BY <1>2 DEF Means
<1>4. ASSUME Inside(p, q)
      PROVE  /\ LocalAsSynced(in, q)
             /\ RemoteSeen(in, paths, q) => ~ Inside(p, paths[in.base[q].uid])
  <2>1. /\ class[q].l = "unchanged"
        /\ \/ class[q].r = "deleted"
           \/ class[q].rp # None /\ ~ Inside(p, class[q].rp)
    BY <1>1, <1>4 DEF LocalTreeDeletable
  <2> QED BY <2>1 DEF Means
<1> QED BY <1>3, <1>4

\* Whatever the views are, a plan trashes a node only for a row whose item is
\* known to be gone and whose node has not changed, and never acts on an
\* incomplete, stale or filtered local listing; of what the view has in a folder
\* that is trashed, a node goes along only if it has a row and, as a row of that
\* folder, is as it was synced (reconcile() with its guards and withheldReason(),
\* decide(), the subtree deletion guard).  Two kinds of nodes are not spoken for,
\* and do go along: those of rows from outside the folder, and those that
\* resolveRemote leaves out with all that is in them, Proton documents, nameless
\* and colliding nodes, created there or not (remotePaths.ts:67-92).
THEOREM NothingUnsyncedIsTrashed ==
    ASSUME NEW in, InputOK(in), NEW op \in Reconcile(in).ops,
           op.kind = "trash_remote"
    PROVE  TrashIsSafe(in, RemotePaths(in), op)
<1> DEFINE paths == RemotePaths(in)
           class == Classified(in, paths)
<1>1. \A u \in DOMAIN paths : paths[u] # None
  BY RemotePathsAre, NoneAssumption DEF InputOK, PathsOf, Path
<1>2. op \in Planned(in, paths, class).ops
  BY DEF Reconcile
<1> HIDE DEF paths
<1>3. DOMAIN class = DOMAIN in.base
  BY DEF Classified
<1>4. \A q \in DOMAIN in.base : Means(in, paths, q, class[q])
  BY <1>1, ClassMeans
<1>5. /\ ~ Withheld(in, paths, op)
      /\ \E p \in DOMAIN in.base :
             /\ ~ QuarantinedPath(in, p) /\ ~ QuarantinedUid(in, in.base[p].uid)
             /\ p \notin Kept(in, paths, class)
             /\ op.uid = in.base[p].uid /\ op.path = class[p].rp
             /\ class[p].l = "deleted" /\ class[p].r = "unchanged"
             /\ p \notin in.hidden \cup in.staleLocal
  BY <1>1, <1>2, DeletedRow DEF InputOK, DeleteKinds
<1> HIDE DEF class
<1>6. in.rootOk /\ in.localOk
  BY <1>5 DEF Withheld
<1>7. PICK p \in DOMAIN in.base :
          /\ ~ QuarantinedPath(in, p) /\ ~ QuarantinedUid(in, in.base[p].uid)
          /\ p \notin Kept(in, paths, class)
          /\ op.uid = in.base[p].uid /\ op.path = class[p].rp
          /\ class[p].l = "deleted" /\ class[p].r = "unchanged"
          /\ p \notin in.hidden \cup in.staleLocal
  BY <1>5
<1>8. /\ RemoteSeen(in, paths, p) /\ op.path = paths[op.uid]
      /\ RemoteAsSynced(in, p) /\ Found(in, p) = None
  BY <1>4, <1>6, <1>7 DEF Means, LocalSeen
<1>9. ASSUME in.base[p].dir, NEW u \in DOMAIN in.nodes, Within(in, op.uid, u)
      PROVE  GoesAlong(in, p, u)
  <2>1. op.uid \in DOMAIN paths
    BY <1>7, <1>8 DEF RemoteSeen
  <2>2. CASE \A w \in Above(in.nodes, u) \cap DOMAIN in.nodes :
                 Within(in, op.uid, w) => ~ LeftOut(in, w)
    <3>1. u \in DOMAIN paths /\ Inside(paths[op.uid], paths[u])
      BY <1>9, <2>1, <2>2, WithinReached DEF paths
    <3>2. Inside(class[p].rp, paths[u])
      BY <1>7, <1>8, <3>1
    <3> QED BY <1>3, <1>4, <1>6, <1>7, <1>9, <3>1, <3>2, TrashedTree DEF GoesAlong
  <2>3. CASE \E w \in Above(in.nodes, u) \cap DOMAIN in.nodes :
                 Within(in, op.uid, w) /\ LeftOut(in, w)
    BY <1>7, <2>3 DEF GoesAlong
  <2> QED BY <2>2, <2>3
<1> QED BY <1>6, <1>7, <1>8, <1>9 DEF TrashIsSafe, paths

\* The same for the local side: a plan recycles an item only for a row whose node
\* is known to be trashed or gone and whose item has not changed, and never acts
\* on an incomplete or stale remote listing, nor on a drive found empty; of what
\* the local view has in a folder that is recycled, an item goes along only if it
\* is of a row and, as a row of that folder, is as it was synced (reconcile(),
\* withheldReason() and the subtree deletion guard).  Not spoken for are the items
\* of rows from outside the folder and what the view has not, ignored names for
\* one.
THEOREM NothingUnsyncedIsRecycled ==
    ASSUME NEW in, InputOK(in), NEW op \in Reconcile(in).ops,
           op.kind = "recycle_local"
    PROVE  RecycleIsSafe(in, RemotePaths(in), op)
<1> DEFINE paths == RemotePaths(in)
           class == Classified(in, paths)
<1>1. \A u \in DOMAIN paths : paths[u] # None
  BY RemotePathsAre, NoneAssumption DEF InputOK, PathsOf, Path
<1>2. op \in Planned(in, paths, class).ops
  BY DEF Reconcile
<1> HIDE DEF paths
<1>3. DOMAIN class = DOMAIN in.base
  BY DEF Classified
<1>4. \A q \in DOMAIN in.base : Means(in, paths, q, class[q])
  BY <1>1, ClassMeans
<1>5. /\ ~ Withheld(in, paths, op)
      /\ \E p \in DOMAIN in.base :
             /\ ~ QuarantinedPath(in, p) /\ ~ QuarantinedUid(in, in.base[p].uid)
             /\ p \notin Kept(in, paths, class) /\ op.path = class[p].lp
             /\ class[p].l = "unchanged" /\ class[p].r = "deleted"
             /\ in.base[p].uid \in DOMAIN in.nodes =>
                    EffectivelyTrashed(in.nodes, in.base[p].uid)
             /\ p \notin in.staleRemote
  BY <1>1, <1>2, DeletedRow DEF InputOK, DeleteKinds
<1> HIDE DEF class
<1>6. in.remoteUp /\ in.remoteOk /\ in.rootOk /\ ~ RemoteEmptied(in, paths)
  BY <1>5 DEF Withheld, Bookkeeping
<1>7. PICK p \in DOMAIN in.base :
          /\ ~ QuarantinedPath(in, p) /\ ~ QuarantinedUid(in, in.base[p].uid)
          /\ p \notin Kept(in, paths, class) /\ op.path = class[p].lp
          /\ class[p].l = "unchanged" /\ class[p].r = "deleted"
          /\ in.base[p].uid \in DOMAIN in.nodes =>
                 EffectivelyTrashed(in.nodes, in.base[p].uid)
          /\ p \notin in.staleRemote
  BY <1>5
<1>8. op.path = Found(in, p) /\ op.path # None /\ LocalAsSynced(in, p)
  BY <1>4, <1>7 DEF Means
<1>9. in.base[p].dir =>
          \A i \in DOMAIN in.items : Inside(op.path, i) =>
              \E q \in DOMAIN in.base :
                  /\ i = Found(in, q)
                  /\ Inside(p, q) =>
                         /\ LocalAsSynced(in, q)
                         /\ RemoteSeen(in, paths, q) =>
                                ~ Inside(p, paths[in.base[q].uid])
  BY <1>3, <1>4, <1>7, RecycledTree
<1> QED BY <1>6, <1>7, <1>8, <1>9 DEF RecycleIsSafe, paths

\* In every reachable state, whatever a fresh look at both sides plans to delete
\* is deleted for these reasons (plan() of engine.ts, reconcile()).
THEOREM NothingUnsyncedIsDeleted ==
    Spec => [](LET in == FreshInput(fs, drive, base, quarantine) IN
               \A op \in Verdict.ops :
                   /\ op.kind = "trash_remote" =>
                          TrashIsSafe(in, RemotePaths(in), op)
                   /\ op.kind = "recycle_local" =>
                          RecycleIsSafe(in, RemotePaths(in), op))
<1> DEFINE in   == FreshInput(fs, drive, base, quarantine)
           safe == \A op \in Verdict.ops :
                       /\ op.kind = "trash_remote" =>
                              TrashIsSafe(in, RemotePaths(in), op)
                       /\ op.kind = "recycle_local" =>
                              RecycleIsSafe(in, RemotePaths(in), op)
<1>1. Inv /\ DatesInv => safe
  <2> SUFFICES ASSUME Inv, DatesInv PROVE safe
    OBVIOUS
  <2>1. InputOK(in)
    BY DEF InputOK, FreshInput, Inv, DataInv, DataOK, RowsOK, DatesInv
  <2> HIDE DEF in
  <2>2. Verdict = Reconcile(in)
    BY DEF Verdict, in
  <2> QED BY <2>1, <2>2, NothingUnsyncedIsTrashed, NothingUnsyncedIsRecycled
<1> QED BY <1>1, SpecDates, PTL
=============================================================================
