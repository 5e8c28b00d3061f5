--------------------------- MODULE PageTreeProofs ---------------------------
(***************************************************************************)
(* What is proved of the tree of slices, for every tree, every rule of     *)
(* visibility and every threshold that TreeAssumption allows.              *)
(*                                                                         *)
(* The methods of a node call themselves on its children, so the proof has *)
(* two parts.  First, that the recursive functions of PageTree are what    *)
(* their equations say: a function on the nodes may be defined from its    *)
(* values on the children, because no division goes on for ever            *)
(* (TreeInduction), and a loop over the children passes a state from call  *)
(* to call (Loop).  Then, by the same induction, that each method keeps    *)
(* the invariant Good of the tree, changes nothing outside the subtree it  *)
(* is called on (Follows), and leaves in that subtree what it is for:      *)
(* recycle leaves it quiet, invalidateRecursive leaves it out of date,     *)
(* updateVisibility leaves it settled and its visible leaves covered.      *)
(* Such a result depends on the subtree only (Local), so the calls for the *)
(* other children leave it alone (ForEachFollows).                         *)
(***************************************************************************)
EXTENDS PageTree, FiniteSetTheorems, QueueLemmas, TLAPS
-----------------------------------------------------------------------------
(* Recursion on the tree. *)

\* From the leaves up: what holds of a node as soon as it holds of its children
\* holds of every node.
LEMMA TreeInduction ==
  ASSUME NEW S, \A n \in Node : Range(Kids[n]) \subseteq S => n \in S
  PROVE  Node \subseteq S
<1> DEFINE T == S \cap Node
<1>1. ASSUME NEW n \in Node, Range(Kids[n]) \subseteq T PROVE n \in T
  BY <1>1
<1>2. T \in SUBSET Node
  OBVIOUS
<1> HIDE DEF T
<1>3. T = Node
  BY <1>1, <1>2, TreeAssumption DEF TreeAssumption
<1> QED BY <1>3 DEF T

\* The children of a node are a sequence of nodes.
LEMMA KidsType ==
  ASSUME NEW n \in Node
  PROVE  /\ DOMAIN Kids[n] = 1 .. Len(Kids[n]) /\ Len(Kids[n]) \in Nat
         /\ Kids[n] \in Seq(Node)
         /\ \A i \in DOMAIN Kids[n] : Kids[n][i] \in Node /\ Kids[n][i] \in Range(Kids[n])
         /\ \A c \in Range(Kids[n]) : c \in Node /\ \E i \in DOMAIN Kids[n] : Kids[n][i] = c
<1>1. Kids[n] \in Seq(Node)
  BY TreeAssumption DEF TreeAssumption
<1> QED BY <1>1 DEF Range

\* A node is among the children of one node only.
LEMMA OneParent ==
  ASSUME NEW p \in Node, NEW q \in Node, NEW c \in Range(Kids[p]), c \in Range(Kids[q])
  PROVE  p = q
<1>1. PICK i \in DOMAIN Kids[p] : Kids[p][i] = c
  BY KidsType
<1>2. PICK j \in DOMAIN Kids[q] : Kids[q][j] = c
  BY KidsType
<1> QED BY <1>1, <1>2, TreeAssumption DEF TreeAssumption

\* Phi gives the value of a node from the values of its children, within X.
Passes(Phi, X) == \A n \in Node : \A g \in [DOMAIN Kids[n] -> X] : Phi[n][g] \in X

\* f has at each node the value that Phi gives.
Recurs(f, Phi, X) == f \in [Node -> X] /\ \A n \in Node : f[n] = Phi[n][OfKids(f, n)]

\* A function on the nodes may be defined from its values on their children.
LEMMA TreeRecursion ==
  ASSUME NEW X, NEW Phi, Passes(Phi, X)
  PROVE  \E f : Recurs(f, Phi, X)
<1>0. \A n \in Node : \A g \in [DOMAIN Kids[n] -> X] : Phi[n][g] \in X
  BY DEF Passes
<1> DEFINE Closed(R) ==
             \A n \in Node : \A g \in [DOMAIN Kids[n] -> X] :
               (\A i \in DOMAIN Kids[n] : <<Kids[n][i], g[i]>> \in R)
               => <<n, Phi[n][g]>> \in R
           G == {p \in Node \X X : \A R \in SUBSET (Node \X X) : Closed(R) => p \in R}
           One(n) == \E x \in X : /\ <<n, x>> \in G
                                  /\ \A y \in X : <<n, y>> \in G => y = x
<1>1. Closed(G)
  <2> SUFFICES ASSUME NEW n \in Node, NEW g \in [DOMAIN Kids[n] -> X],
                      \A i \in DOMAIN Kids[n] : <<Kids[n][i], g[i]>> \in G,
                      NEW R \in SUBSET (Node \X X), Closed(R)
               PROVE  <<n, Phi[n][g]>> \in R
    <3>1. \A n \in Node : \A g \in [DOMAIN Kids[n] -> X] : <<n, Phi[n][g]>> \in Node \X X
      BY <1>0
    <3> HIDE DEF Closed
    <3>2. \A n \in Node : \A g \in [DOMAIN Kids[n] -> X] :
            (\A R \in SUBSET (Node \X X) : Closed(R) => <<n, Phi[n][g]>> \in R)
            => <<n, Phi[n][g]>> \in G
      BY <3>1
    <3> HIDE DEF G
    <3> QED BY <3>2 DEF Closed
  <2>1. \A i \in DOMAIN Kids[n] : <<Kids[n][i], g[i]>> \in R
    <3> HIDE DEF Closed
    <3> QED OBVIOUS
  <2> QED BY <2>1
<1>2. G \in SUBSET (Node \X X)
  <2> HIDE DEF Closed
  <2> QED OBVIOUS
<1>3. ASSUME NEW R \in SUBSET (Node \X X), Closed(R) PROVE G \subseteq R
  <2> HIDE DEF Closed
  <2> QED BY <1>3
<1> HIDE DEF G
<1>4. ASSUME NEW n \in Node, \A c \in Range(Kids[n]) : One(c) PROVE One(n)
  <2>1. \A i \in DOMAIN Kids[n] : One(Kids[n][i])
    BY <1>4, KidsType
  <2> DEFINE g == [i \in DOMAIN Kids[n] |-> CHOOSE x \in X : <<Kids[n][i], x>> \in G]
  <2>2. \A i \in DOMAIN Kids[n] :
          g[i] \in X /\ <<Kids[n][i], g[i]>> \in G
    BY <2>1
  <2>3. \A i \in DOMAIN Kids[n] : \A y \in X : <<Kids[n][i], y>> \in G => y = g[i]
    BY <2>1, <2>2
  <2>4. g \in [DOMAIN Kids[n] -> X]
    BY <2>2
  <2> HIDE DEF g
  <2> DEFINE x == Phi[n][g]
  <2>5. x \in X /\ <<n, x>> \in G
    BY <1>0, <1>1, <2>2, <2>4
  <2>6. ASSUME NEW y \in X, <<n, y>> \in G, y # x PROVE FALSE
    <3> DEFINE R == G \ {<<n, y>>}
    <3>1. ASSUME NEW m \in Node, NEW h \in [DOMAIN Kids[m] -> X],
                 \A i \in DOMAIN Kids[m] : <<Kids[m][i], h[i]>> \in R
          PROVE  <<m, Phi[m][h]>> \in R
      <4>1. <<m, Phi[m][h]>> \in G
        BY <1>1, <3>1
      <4>2. CASE m # n
        BY <4>1, <4>2
      <4>3. CASE m = n
        <5>0. h \in [DOMAIN Kids[n] -> X] /\ \A i \in DOMAIN Kids[n] : h[i] \in X
          BY <4>3
        <5>1. \A i \in DOMAIN Kids[n] : h[i] = g[i]
          <6> SUFFICES ASSUME NEW i \in DOMAIN Kids[n] PROVE h[i] = g[i]
            OBVIOUS
          <6>1. <<Kids[n][i], h[i]>> \in G
            BY <3>1, <4>3
          <6> QED BY <5>0, <6>1, <2>3
        <5>2. h = g
          BY <5>0, <5>1, <2>4
        <5> QED BY <4>1, <4>3, <5>2, <2>6
      <4> QED BY <4>2, <4>3
    <3>2. R \in SUBSET (Node \X X)
      BY <1>2
    <3>3. Closed(R)
      <4> HIDE DEF R
      <4> QED BY <3>1
    <3>4. G \subseteq R
      <4> HIDE DEF Closed, R
      <4> QED BY <1>3, <3>2, <3>3
    <3> QED BY <2>6, <3>4
  <2> QED BY <2>5, <2>6
<1> HIDE DEF One
<1>5. \A n \in Node : One(n)
  <2> DEFINE S == {n \in Node : One(n)}
  <2>1. \A n \in Node : Range(Kids[n]) \subseteq S => n \in S
    BY <1>4
  <2> HIDE DEF S
  <2>2. Node \subseteq S
    BY <2>1, TreeInduction
  <2> QED BY <2>2 DEF S
<1> DEFINE f == [n \in Node |-> CHOOSE x \in X : <<n, x>> \in G]
<1>6. \A n \in Node : f[n] \in X /\ <<n, f[n]>> \in G
  BY <1>5 DEF One
<1>7. f \in [Node -> X]
  BY <1>6
<1> HIDE DEF f
<1>8. ASSUME NEW n \in Node PROVE f[n] = Phi[n][OfKids(f, n)]
  <2> DEFINE g == OfKids(f, n)
  <2>1. g \in [DOMAIN Kids[n] -> X] /\ \A i \in DOMAIN Kids[n] : <<Kids[n][i], g[i]>> \in G
    BY <1>6, <1>7, KidsType DEF OfKids
  <2> HIDE DEF g
  <2>2. <<n, Phi[n][g]>> \in G /\ Phi[n][g] \in X
    BY <1>0, <1>1, <2>1
  <2>3. \A y, z \in X : <<n, y>> \in G /\ <<n, z>> \in G => y = z
    BY <1>5 DEF One
  <2>4. f[n] \in X /\ <<n, f[n]>> \in G
    BY <1>6
  <2>5. f[n] = Phi[n][g]
    <3> HIDE DEF Closed, One
    <3> QED BY <2>2, <2>3, <2>4
  <2> QED BY <2>5 DEF g
<1> QED BY <1>7, <1>8 DEF Recurs

\* The run of a loop: its states, from the first on.
Calls(calls, N, X) == calls \in [1 .. N -> [X -> X]]

Runs(run, calls, st, N, X) ==
  /\ run \in [0 .. N -> X]
  /\ run[0] = st
  /\ \A i \in 1 .. N : run[i] = calls[i][run[i - 1]]

\* A loop over the children passes its state from one call to the next.
LEMMA Loop ==
  ASSUME NEW X, NEW N, N \in Nat, NEW calls, Calls(calls, N, X), NEW st, st \in X
  PROVE  \E run : Runs(run, calls, st, N, X) /\ ForEach(calls, st) = run[N]
<1>0. calls \in [1 .. N -> [X -> X]]
  BY DEF Calls
<1>1. Len(calls) = N
  BY <1>0
<1> DEFINE step == [p \in X \X (1 .. N) |-> calls[p[2]][p[1]]]
           Body(r) == [i \in 0 .. N |-> IF i = 0 THEN st ELSE calls[i][r[i - 1]]]
<1>2. \A x \in X, i \in 1 .. N : step[<<x, i>>] = calls[i][x] /\ step[<<x, i>>] \in X
  BY <1>0
<1> HIDE DEF step
<1>3. PICK g : Iterates(g, X, st, N, step)
  BY <1>2, Recursion
<1>4. g \in [0 .. N -> X] /\ g[0] = st /\ \A i \in 1 .. N : g[i] = calls[i][g[i - 1]]
  <2>1. g \in [0 .. N -> X] /\ g[0] = st /\ \A i \in 1 .. N : g[i] = step[<<g[i - 1], i>>]
    BY <1>3 DEF Iterates
  <2>2. \A i \in 1 .. N : g[i - 1] \in X
    BY <2>1
  <2>3. ASSUME NEW i \in 1 .. N PROVE g[i] = calls[i][g[i - 1]]
    <3> DEFINE x == g[i - 1]
    <3>1. x \in X /\ g[i] = step[<<x, i>>]
      BY <2>1, <2>2
    <3> QED BY <1>2, <3>1, Zenon
  <2> QED BY <2>1, <2>3
<1>5. g = Body(g)
  BY <1>4
<1> DEFINE run == CHOOSE r : r = Body(r)
<1>6. run = Body(run)
  <2> HIDE DEF Body
  <2> QED BY <1>5
<1>7. ForEach(calls, st) = run[N]
  BY <1>1 DEF ForEach
<1> HIDE DEF run
<1>8. run[0] = st /\ \A i \in 1 .. N : run[i] = calls[i][run[i - 1]]
  BY <1>6
<1>9. \A i \in 0 .. N : run[i] \in X
  <2> DEFINE S == {i \in 0 .. N : run[i] \in X}
  <2>1. 0 \in S
    BY <1>8
  <2>2. ASSUME NEW i \in 0 .. (N - 1), i \in S PROVE i + 1 \in S
    <3>1. i + 1 \in 1 .. N /\ (i + 1) - 1 = i /\ run[i] \in X
      BY <2>2
    <3>2. run[i + 1] = calls[i + 1][run[i]]
      BY <1>8, <3>1
    <3> QED BY <1>0, <3>1, <3>2
  <2> HIDE DEF S
  <2>3. 0 .. N \subseteq S
    BY <2>1, <2>2, UpTo
  <2> QED BY <2>3 DEF S
<1>10. run \in [0 .. N -> X]
  BY <1>6, <1>9
<1> QED BY <1>7, <1>8, <1>10 DEF Runs
-----------------------------------------------------------------------------
(* The shape of the tree. *)

Sub(n) == {n} \cup Below[n]

\* What is below a node: its children, and what is below them.
LEMMA BelowIs ==
  ASSUME NEW n \in Node
  PROVE  /\ Below[n] \subseteq Node
         /\ \A m : m \in Below[n] <=> \E c \in Range(Kids[n]) : m \in Sub(c)
<1> DEFINE X == SUBSET Node
           Phi == [m \in Node |-> [g \in [DOMAIN Kids[m] -> X] |->
                     UNION {{Kids[m][i]} \cup g[i] : i \in DOMAIN Kids[m]}]]
           Body(f) == [m \in Node |-> UNION {{c} \cup f[c] : c \in Range(Kids[m])}]
<1>1. Passes(Phi, X)
  <2> SUFFICES ASSUME NEW m \in Node, NEW g \in [DOMAIN Kids[m] -> X] PROVE Phi[m][g] \in X
    BY DEF Passes
  <2>1. \A i \in DOMAIN Kids[m] : Kids[m][i] \in Node
    BY KidsType
  <2> QED BY <2>1
<1>2. ASSUME NEW m \in Node, NEW g \in [DOMAIN Kids[m] -> X]
      PROVE  /\ \A z \in Phi[m][g] : \E i \in DOMAIN Kids[m] : z = Kids[m][i] \/ z \in g[i]
             /\ \A i \in DOMAIN Kids[m] : Kids[m][i] \in Phi[m][g] /\ g[i] \subseteq Phi[m][g]
  <2>1. Phi[m][g] = UNION {{Kids[m][i]} \cup g[i] : i \in DOMAIN Kids[m]}
    OBVIOUS
  <2> HIDE DEF Phi, X
  <2> QED BY <2>1
<1> HIDE DEF Phi
<1>0. PICK f : Recurs(f, Phi, X)
  BY <1>1, TreeRecursion
<1>3. f \in [Node -> X] /\ \A m \in Node : f[m] = Phi[m][OfKids(f, m)]
  BY <1>0 DEF Recurs
<1>4. ASSUME NEW m \in Node PROVE f[m] = UNION {{c} \cup f[c] : c \in Range(Kids[m])}
  <2> DEFINE g == OfKids(f, m)
  <2>1. /\ g \in [DOMAIN Kids[m] -> X]
        /\ \A i \in DOMAIN Kids[m] : g[i] = f[Kids[m][i]]
    BY <1>3, KidsType DEF OfKids
  <2> HIDE DEF g
  <2>2. f[m] = Phi[m][g]
    BY <1>3 DEF g
  <2>3. /\ \A z \in f[m] : \E i \in DOMAIN Kids[m] : z = Kids[m][i] \/ z \in g[i]
        /\ \A i \in DOMAIN Kids[m] : Kids[m][i] \in f[m] /\ g[i] \subseteq f[m]
    <3>1. g \in [DOMAIN Kids[m] -> X]
      BY <2>1
    <3> HIDE DEF X
    <3>2. /\ \A z \in Phi[m][g] : \E i \in DOMAIN Kids[m] : z = Kids[m][i] \/ z \in g[i]
          /\ \A i \in DOMAIN Kids[m] : Kids[m][i] \in Phi[m][g] /\ g[i] \subseteq Phi[m][g]
      BY <1>2, <3>1
    <3> QED BY <3>2, <2>2, Zenon
  <2>4. \A z \in f[m] : \E c \in Range(Kids[m]) : z = c \/ z \in f[c]
    <3> SUFFICES ASSUME NEW z \in f[m] PROVE \E c \in Range(Kids[m]) : z = c \/ z \in f[c]
      OBVIOUS
    <3>1. PICK i \in DOMAIN Kids[m] : z = Kids[m][i] \/ z \in g[i]
      BY <2>3
    <3>2. Kids[m][i] \in Range(Kids[m]) /\ g[i] = f[Kids[m][i]]
      BY <2>1, KidsType
    <3> QED BY <3>1, <3>2, Zenon
  <2>5. \A c \in Range(Kids[m]) : c \in f[m] /\ f[c] \subseteq f[m]
    <3> SUFFICES ASSUME NEW c \in Range(Kids[m]) PROVE c \in f[m] /\ f[c] \subseteq f[m]
      OBVIOUS
    <3>1. PICK i \in DOMAIN Kids[m] : Kids[m][i] = c
      BY KidsType
    <3> QED BY <2>1, <2>3, <3>1
  <2> QED BY <2>4, <2>5
<1>5. f = Body(f)
  BY <1>3, <1>4
<1>6. Below = Body(Below)
  <2>1. Below = CHOOSE g : g = Body(g)
    BY DEF Below
  <2> HIDE DEF Body
  <2> QED BY <1>5, <2>1
<1>7. \A m \in Node : Below[m] = UNION {{c} \cup Below[c] : c \in Range(Kids[m])}
  <2> DEFINE Up(m) == UNION {{c} \cup Below[c] : c \in Range(Kids[m])}
  <2>1. Below = [m \in Node |-> Up(m)]
    BY <1>6
  <2> HIDE DEF Up
  <2>2. \A m \in Node : Below[m] = Up(m)
    BY <2>1
  <2> QED BY <2>2 DEF Up
<1>8. \A m \in Node : Below[m] \subseteq Node
  <2> DEFINE S == {m \in Node : Below[m] \subseteq Node}
  <2>1. \A m \in Node : Range(Kids[m]) \subseteq S => m \in S
    BY <1>7, KidsType
  <2> HIDE DEF S
  <2>2. Node \subseteq S
    BY <2>1, TreeInduction
  <2> QED BY <2>2 DEF S
<1> QED BY <1>7, <1>8 DEF Sub

\* A subtree holds nodes, its own root among them.
LEMMA SubType ==
  ASSUME NEW n \in Node PROVE Sub(n) \subseteq Node /\ n \in Sub(n)
BY BelowIs DEF Sub

\* What is below a node below n is below n.
LEMMA BelowIsTransitive ==
  ASSUME NEW n \in Node, NEW m \in Sub(n) PROVE Sub(m) \subseteq Sub(n)
<1> DEFINE S == {p \in Node : \A q \in Sub(p) : Sub(q) \subseteq Sub(p)}
<1>1. ASSUME NEW p \in Node, Range(Kids[p]) \subseteq S PROVE p \in S
  <2> SUFFICES ASSUME NEW q \in Sub(p), q # p PROVE Sub(q) \subseteq Sub(p)
    OBVIOUS
  <2>1. PICK c \in Range(Kids[p]) : q \in Sub(c)
    BY BelowIs DEF Sub
  <2>2. Sub(q) \subseteq Sub(c)
    BY <1>1, <2>1
  <2>3. Sub(c) \subseteq Below[p]
    BY BelowIs
  <2> QED BY <2>2, <2>3 DEF Sub
<1> HIDE DEF S
<1>2. Node \subseteq S
  BY <1>1, TreeInduction
<1> QED BY <1>2 DEF S

\* A node has one parent, which is in a subtree with it unless it is the top.
LEMMA ParentIsAbove ==
  ASSUME NEW n \in Node, NEW p \in Node, NEW c \in Range(Kids[p]), c \in Below[n]
  PROVE  p \in Sub(n)
<1> DEFINE S == {m \in Node : \A q \in Node : \A d \in Range(Kids[q]) :
                               d \in Below[m] => q \in Sub(m)}
<1>1. ASSUME NEW m \in Node, Range(Kids[m]) \subseteq S PROVE m \in S
  <2> SUFFICES ASSUME NEW q \in Node, NEW d \in Range(Kids[q]), d \in Below[m]
               PROVE  q \in Sub(m)
    OBVIOUS
  <2>1. PICK e \in Range(Kids[m]) : d \in Sub(e)
    BY BelowIs
  <2>2. CASE d = e
    <3>1. q = m
      BY <2>1, <2>2, OneParent
    <3> QED BY <3>1 DEF Sub
  <2>3. CASE d # e
    <3>1. q \in Sub(e)
      BY <1>1, <2>1, <2>3 DEF Sub
    <3>2. e \in Sub(m)
      BY BelowIs DEF Sub
    <3> QED BY <3>1, <3>2, BelowIsTransitive
  <2> QED BY <2>2, <2>3
<1> HIDE DEF S
<1>2. Node \subseteq S
  BY <1>1, TreeInduction
<1> QED BY <1>2 DEF S

\* No node is below itself.
LEMMA NotBelowItself ==
  ASSUME NEW n \in Node PROVE n \notin Below[n]
<1> DEFINE S == {m \in Node : m \notin Below[m]}
<1>1. ASSUME NEW m \in Node, Range(Kids[m]) \subseteq S PROVE m \in S
  <2> SUFFICES ASSUME m \in Below[m] PROVE FALSE
    OBVIOUS
  <2>1. PICK c \in Range(Kids[m]) : m \in Sub(c)
    BY BelowIs
  <2>2. c \in Node /\ c \in Sub(c)
    BY KidsType, SubType
  <2>3. c \in Below[m]
    BY <2>2, BelowIs
  <2>4. m # c => c \in Below[c]
    <3> SUFFICES ASSUME m # c PROVE c \in Below[c]
      OBVIOUS
    <3>1. \A x : x \in Below[m] => x \in Below[c]
      <4> SUFFICES ASSUME NEW x \in Below[m] PROVE x \in Below[c]
        OBVIOUS
      <4>1. PICK d \in Range(Kids[c]) : m \in Sub(d)
        BY <2>1, <2>2, BelowIs DEF Sub
      <4>2. d \in Node /\ Sub(m) \subseteq Sub(d)
        BY <2>2, <4>1, KidsType, BelowIsTransitive
      <4> QED BY <2>2, <4>1, <4>2, BelowIs DEF Sub
    <3> QED BY <2>3, <3>1
  <2>5. c \in S
    BY <1>1
  <2> QED BY <2>3, <2>4, <2>5
<1> HIDE DEF S
<1>2. Node \subseteq S
  BY <1>1, TreeInduction
<1> QED BY <1>2 DEF S

\* Two subtrees that meet lie one in the other.
LEMMA SubtreesNest ==
  ASSUME NEW p \in Node, NEW q \in Node, NEW m \in Sub(p), m \in Sub(q)
  PROVE  p \in Sub(q) \/ q \in Sub(p)
<1> DEFINE S == {n \in Node : \A r \in Node : \A x \in Sub(n) :
                               x \in Sub(r) => n \in Sub(r) \/ r \in Sub(n)}
<1>1. ASSUME NEW n \in Node, Range(Kids[n]) \subseteq S PROVE n \in S
  <2> SUFFICES ASSUME NEW r \in Node, NEW x \in Sub(n), x \in Sub(r), x # n
               PROVE  n \in Sub(r) \/ r \in Sub(n)
    OBVIOUS
  <2>0. x \in Below[n]
    BY DEF Sub
  <2>1. PICK c \in Range(Kids[n]) : x \in Sub(c)
    BY <2>0, BelowIs
  <2>2. c \in Node /\ Sub(c) \subseteq Sub(n)
    BY KidsType, BelowIs DEF Sub
  <2>3. c \in Sub(r) \/ r \in Sub(c)
    BY <1>1, <2>1
  <2>4. CASE r \in Sub(c)
    BY <2>2, <2>4
  <2>5. CASE c \in Below[r]
    BY <2>5, ParentIsAbove
  <2> QED BY <2>2, <2>3, <2>4, <2>5, SubType DEF Sub
<1> HIDE DEF S
<1>2. Node \subseteq S
  BY <1>1, TreeInduction
<1> QED BY <1>2 DEF S

\* The subtrees of two children of a node have nothing in common.
LEMMA KidsApart ==
  ASSUME NEW n \in Node, NEW i \in DOMAIN Kids[n], NEW j \in DOMAIN Kids[n], i # j
  PROVE  Sub(Kids[n][i]) \cap Sub(Kids[n][j]) = {}
<1> SUFFICES ASSUME NEW m \in Sub(Kids[n][i]), m \in Sub(Kids[n][j]) PROVE FALSE
  OBVIOUS
<1> DEFINE c == Kids[n][i]
           d == Kids[n][j]
<1>1. /\ c \in Node /\ c \in Range(Kids[n])
      /\ d \in Node /\ d \in Range(Kids[n])
  BY KidsType
<1>2. c # d
  BY TreeAssumption DEF TreeAssumption
<1> HIDE DEF c, d
<1>3. c \in Sub(d) \/ d \in Sub(c)
  <2>1. m \in Sub(c) /\ m \in Sub(d)
    BY DEF c, d
  <2> QED BY <1>1, <2>1, SubtreesNest
<1>4. \A x, y \in Range(Kids[n]) : x \in Below[y] => FALSE
  <2> SUFFICES ASSUME NEW x \in Range(Kids[n]), NEW y \in Range(Kids[n]), x \in Below[y]
               PROVE  FALSE
    OBVIOUS
  <2>1. y \in Node /\ n \in Sub(y)
    BY KidsType, ParentIsAbove
  <2>2. n \in Below[n]
    BY <2>1, BelowIs
  <2> QED BY <2>2, NotBelowItself
<1> QED BY <1>1, <1>2, <1>3, <1>4 DEF Sub

\* Every node is in the tree of the root.
LEMMA RootAboveAll == Sub(Root) = Node
<1>1. Root \in Node
  BY TreeAssumption DEF TreeAssumption
<1> DEFINE S == Sub(Root)
<1>2. S \in SUBSET Node /\ Root \in S
  BY <1>1, SubType
<1>3. ASSUME NEW n \in S PROVE Range(Kids[n]) \subseteq S
  <2>1. n \in Node
    BY <1>2
  <2>2. Range(Kids[n]) \subseteq Sub(n)
    <3> SUFFICES ASSUME NEW c \in Range(Kids[n]) PROVE c \in Sub(n)
      OBVIOUS
    <3>1. c \in Sub(c)
      BY <2>1, KidsType, SubType
    <3> QED BY <2>1, <3>1, BelowIs DEF Sub
  <2> QED BY <1>1, <2>2, BelowIsTransitive
<1> HIDE DEF S
<1>4. S = Node
  BY <1>2, <1>3, TreeAssumption DEF TreeAssumption
<1> QED BY <1>4 DEF S
-----------------------------------------------------------------------------
(* What every method keeps.  A is the set of the requests that are out of     *)
(* the queues: answered, dropped or failed.                                   *)

\* Node n got an answer after it had withdrawn the request.
LateAt(st, n) == \E i \in st.late : st.made[i].node = n

\* The requests that the present nodes made, did not withdraw, and may still
\* see answered.
Live(st, A) == DOMAIN st.made \ (A \cup st.withdrawn \cup st.orphan)

\* A node exists only below expanded nodes, and so does one that is to be answered.
Rooted(st) ==
  \A p \in Node : \A c \in Range(Kids[p]) :
    ~st.tree[p].expanded =>
      st.tree[c] = NewNode /\ \A i \in DOMAIN st.made \ st.orphan : st.made[i].node # c

Divided(st) == \A n \in Node : st.tree[n].expanded => Kids[n] # <<>>

\* A node's bitmap is the one its reference refers to, was made for the node, and
\* is not recycled.
Drawable(st, A) ==
  /\ \A n \in Node :
       /\ st.tree[n].bitmap \in {None, st.tree[n].weak}
       /\ st.tree[n].weak # None =>
            /\ st.tree[n].weak \in A \ st.recycled
            /\ st.made[st.tree[n].weak].node = n
  /\ st.recycled \subseteq A

Decoding(st) == {n \in Node : st.tree[n].decoding}

\* A live request is the only one of its node, which is being decoded, unless a
\* late answer has told it otherwise.
Expected(st, A) ==
  /\ \A i \in Live(st, A) : st.tree[st.made[i].node].decoding \/ LateAt(st, st.made[i].node)
  /\ \A i, j \in Live(st, A) : st.made[i].node = st.made[j].node => i = j

Numbered(st, A) ==
  /\ A \cup st.withdrawn \cup st.orphan \cup st.late \cup st.recycled \subseteq DOMAIN st.made
  /\ None \notin A

Good(st, A) ==
  /\ st \in State /\ st.view \in Views
  /\ Numbered(st, A)
  /\ Rooted(st) /\ Divided(st) /\ Drawable(st, A) /\ Expected(st, A)
  /\ st.progress = Cardinality(Decoding(st))

\* A bitmap was decoded at the present zoom, is marked as out of date, or belongs to
\* a node with a late answer; so will be the bitmap of a live request.
Sharp(st) ==
  \A n \in Node : st.tree[n].weak # None =>
    st.made[st.tree[n].weak].zoom = st.zoom \/ st.tree[n].invalid \/ LateAt(st, n)

Current(st, A) ==
  \A i \in Live(st, A) : st.made[i].zoom = st.zoom \/ LateAt(st, st.made[i].node)

\* From st to r only the nodes in S change, and requests are only added.
Fixed(st, r) ==
  /\ r.view = st.view /\ r.zoom = st.zoom /\ r.inZoom = st.inZoom /\ r.late = st.late
  /\ Len(st.made) <= Len(r.made)
  /\ \A i \in DOMAIN st.made : i \in DOMAIN r.made /\ r.made[i] = st.made[i]

Only(st, r, S) == \A n \in Node \ S : r.tree[n] = st.tree[n]

Follows(r, st, S, A) ==
  /\ Good(r, A) /\ Fixed(st, r) /\ Only(st, r, S)
  /\ Sharp(st) => Sharp(r)
  /\ Current(st, A) => Current(r, A)

\* A method may change nothing ...
LEMMA FollowsItself ==
  ASSUME NEW A, NEW st, Good(st, A), NEW S PROVE Follows(st, st, S, A)
BY DEF Follows, Fixed, Only, Good, State

\* ... or make several changes ...
LEMMA FollowsTransitively ==
  ASSUME NEW A, NEW st, NEW r, NEW q, NEW S, NEW T, Good(st, A),
         Follows(r, st, S, A), Follows(q, r, S, A), S \subseteq T
  PROVE  Follows(q, st, T, A)
<1>1. Fixed(st, q)
  BY DEF Follows, Fixed, Good, State
<1>2. Only(st, q, T)
  BY DEF Follows, Only
<1> QED BY <1>1, <1>2 DEF Follows

\* ... within any larger set of nodes.
LEMMA FollowsWithin ==
  ASSUME NEW A, NEW st, NEW r, NEW S, NEW T, Follows(r, st, S, A), S \subseteq T
  PROVE  Follows(r, st, T, A)
BY DEF Follows, Only

\* The parent of n, if it has one, is expanded.
HasParent(st, n) == \A p \in Node : n \in Range(Kids[p]) => st.tree[p].expanded
-----------------------------------------------------------------------------
(* The steps the methods are made of. *)

\* What the fields of the state hold.
LEMMA StateFields ==
  ASSUME NEW st \in State
  PROVE  /\ \A n \in Node : st.tree[n] \in Slice
         /\ st.tree \in [Node -> Slice] /\ st.zoom \in Zoom /\ st.made \in Seq(Request)
         /\ DOMAIN st.made = 1 .. Len(st.made) /\ Len(st.made) \in Nat
         /\ st.withdrawn \in SUBSET Nat /\ st.orphan \in SUBSET Nat
         /\ st.late \in SUBSET Nat /\ st.recycled \in SUBSET Nat
         /\ st.progress \in Int /\ st.inZoom \in BOOLEAN /\ st.view \in SUBSET Node
BY DEF State

\* A slice with a field changed is a slice.
LEMMA SliceExcept ==
  ASSUME NEW x \in Slice, NEW b \in Nat, NEW w \in Nat, NEW v \in BOOLEAN,
         NEW d \in BOOLEAN, NEW e \in BOOLEAN
  PROVE  /\ [x EXCEPT !.bitmap = b] \in Slice
         /\ [x EXCEPT !.weak = w] \in Slice
         /\ [x EXCEPT !.invalid = v] \in Slice
         /\ [x EXCEPT !.decoding = d] \in Slice
         /\ [x EXCEPT !.expanded = e] \in Slice
BY DEF Slice

\* A node that was just made is a slice.
LEMMA NewNodeType == NewNode \in Slice
BY DEF Slice, NewNode, None

\* A tree with a slice changed is a tree.
LEMMA TreeExcept ==
  ASSUME NEW t \in [Node -> Slice], NEW n \in Node, NEW x \in Slice
  PROVE  [t EXCEPT ![n] = x] \in [Node -> Slice]
OBVIOUS

\* The state st with what the methods may change.
Altered(st, t, p, w, m, o, c) ==
  [st EXCEPT !.tree = t, !.progress = p, !.withdrawn = w, !.made = m, !.orphan = o,
             !.recycled = c]

Parts(t, p, w, m, o, c) ==
  /\ t \in [Node -> Slice] /\ p \in Int /\ w \in SUBSET Nat /\ m \in Seq(Request)
  /\ o \in SUBSET Nat /\ c \in SUBSET Nat

\* r is the state st with these parts.
IsAltered(r, st, t, p, w, m, o, c) ==
  /\ r \in State
  /\ r.tree = t /\ r.progress = p /\ r.withdrawn = w /\ r.made = m
  /\ r.orphan = o /\ r.recycled = c
  /\ r.view = st.view /\ r.zoom = st.zoom /\ r.inZoom = st.inZoom
  /\ r.late = st.late

\* The fields of an altered state.
LEMMA AlteredFields ==
  ASSUME NEW st, st \in State, NEW t, NEW p, NEW w, NEW m, NEW o, NEW c,
         Parts(t, p, w, m, o, c)
  PROVE  IsAltered(Altered(st, t, p, w, m, o, c), st, t, p, w, m, o, c)
BY DEF State, Altered, Parts, IsAltered

\* The requests of a node are among those made.
LEMMA OwnType ==
  ASSUME NEW st \in State, NEW n \in Node
  PROVE  Own(st, n) \in SUBSET Nat /\ Own(st, n) \subseteq DOMAIN st.made
BY StateFields DEF Own

\* stopDecodingThisNode
LEMMA StopDecodingFields ==
  ASSUME NEW st \in State, NEW n \in Node, st.tree[n].decoding
  PROVE  IsAltered(StopDecoding(st, n), st,
                   [st.tree EXCEPT ![n] = [@ EXCEPT !.decoding = FALSE]],
                   st.progress - 1, st.withdrawn \cup Own(st, n), st.made, st.orphan,
                   st.recycled)
<1> DEFINE t == [st.tree EXCEPT ![n] = [@ EXCEPT !.decoding = FALSE]]
           w == st.withdrawn \cup Own(st, n)
           p == st.progress - 1
<1>1. w \in SUBSET Nat
  BY OwnType, StateFields
<1>2. t \in [Node -> Slice]
  BY StateFields, SliceExcept, TreeExcept
<1>3. StopDecoding(st, n) = Altered(st, t, p, w, st.made, st.orphan, st.recycled)
  <2>1. ASSUME NEW o, Own(st, n) = o
        PROVE  StopDecoding(st, n) =
                 Altered(st, t, p, st.withdrawn \cup o, st.made, st.orphan, st.recycled)
    BY <2>1 DEF StopDecoding, State, Altered
  <2> QED BY <2>1
<1>4. Parts(t, p, w, st.made, st.orphan, st.recycled)
  BY <1>1, <1>2, StateFields DEF Parts
<1> HIDE DEF t, w, p
<1>5. IsAltered(StopDecoding(st, n), st, t, p, w, st.made, st.orphan, st.recycled)
  BY <1>3, <1>4, AlteredFields
<1> QED BY <1>5 DEF t, w, p
\* decodePageTreeNode
LEMMA DecodeFields ==
  ASSUME NEW st \in State, NEW n \in Node, ~st.tree[n].decoding
  PROVE  IsAltered(Decode(st, n), st,
                   [st.tree EXCEPT ![n] = [@ EXCEPT !.decoding = TRUE]],
                   st.progress + 1, st.withdrawn \cup Own(st, n),
                   Append(st.made, [node |-> n, zoom |-> st.zoom]), st.orphan,
                   st.recycled)
<1> DEFINE t == [st.tree EXCEPT ![n] = [@ EXCEPT !.decoding = TRUE]]
           w == st.withdrawn \cup Own(st, n)
           p == st.progress + 1
           m == Append(st.made, [node |-> n, zoom |-> st.zoom])
<1>1. w \in SUBSET Nat
  BY OwnType, StateFields
<1>2. t \in [Node -> Slice]
  BY StateFields, SliceExcept, TreeExcept
<1>3. m \in Seq(Request)
  <2>1. [node |-> n, zoom |-> st.zoom] \in Request
    BY StateFields DEF Request
  <2> QED BY <2>1, StateFields
<1>4. Decode(st, n) = Altered(st, t, p, w, m, st.orphan, st.recycled)
  <2>1. ASSUME NEW o, Own(st, n) = o
        PROVE  Decode(st, n) =
                 Altered(st, t, p, st.withdrawn \cup o, m, st.orphan, st.recycled)
    BY <2>1 DEF Decode, State, Altered
  <2> QED BY <2>1
<1>5. Parts(t, p, w, m, st.orphan, st.recycled)
  BY <1>1, <1>2, <1>3, StateFields DEF Parts
<1> HIDE DEF t, w, p, m
<1>6. IsAltered(Decode(st, n), st, t, p, w, m, st.orphan, st.recycled)
  BY <1>4, <1>5, AlteredFields
<1> QED BY <1>6 DEF t, w, p, m

Trees == [Node -> Slice]

\* What changes only the tree.
LEMMA OnlyTreeAltered ==
  ASSUME NEW st, st \in State, NEW t, t \in Trees, NEW r, r = [st EXCEPT !.tree = t]
  PROVE  IsAltered(r, st, t, st.progress, st.withdrawn, st.made, st.orphan, st.recycled)
<1>1. r =
        Altered(st, t, st.progress, st.withdrawn, st.made, st.orphan, st.recycled)
  BY DEF State, Altered
<1>2. Parts(t, st.progress, st.withdrawn, st.made, st.orphan, st.recycled)
  BY StateFields DEF Parts, Trees
<1>3. IsAltered(Altered(st, t, st.progress, st.withdrawn, st.made, st.orphan,
                         st.recycled),
                 st, t, st.progress, st.withdrawn, st.made, st.orphan, st.recycled)
  BY <1>2, AlteredFields
<1> QED BY <1>1, <1>3, Zenon

\* setBitmap(null)
LEMMA ForgetFields ==
  ASSUME NEW st \in State, NEW n \in Node
  PROVE  IsAltered(SetBitmap(st, n, None), st,
                   [st.tree EXCEPT ![n] = [@ EXCEPT !.bitmap = None]],
                   st.progress, st.withdrawn, st.made, st.orphan, st.recycled)
<1> DEFINE t == [st.tree EXCEPT ![n] = [@ EXCEPT !.bitmap = None]]
<1>1. t \in Trees
  <2>1. None \in Nat
    BY DEF None
  <2> QED BY <2>1, StateFields, SliceExcept, TreeExcept DEF Trees
<1>2. CASE st.tree[n].bitmap = None
  <2>1. [st.tree[n] EXCEPT !.bitmap = None] = st.tree[n]
    BY <1>2, StateFields DEF Slice
  <2>2. t = st.tree
    BY <2>1, StateFields
  <2>3. SetBitmap(st, n, None) = st
    BY <1>2 DEF SetBitmap
  <2>4. [st EXCEPT !.tree = t] = st
    BY <2>2 DEF State
  <2> HIDE DEF t
  <2>5. IsAltered(SetBitmap(st, n, None), st, t, st.progress, st.withdrawn, st.made,
                  st.orphan, st.recycled)
    BY <1>1, <2>3, <2>4, OnlyTreeAltered
  <2> QED BY <2>5 DEF t
<1>3. CASE st.tree[n].bitmap # None
  <2>1. SetBitmap(st, n, None) = [st EXCEPT !.tree = t]
    BY <1>3 DEF SetBitmap, State
  <2> HIDE DEF t
  <2>2. IsAltered(SetBitmap(st, n, None), st, t, st.progress, st.withdrawn, st.made,
                  st.orphan, st.recycled)
    BY <1>1, <2>1, OnlyTreeAltered
  <2> QED BY <2>2 DEF t
<1> QED BY <1>2, <1>3

\* A state with another tree and more recycled bitmaps is an altered one ...
LEMMA RecycledAltered ==
  ASSUME NEW st, st \in State, NEW t, NEW x
  PROVE  [st EXCEPT !.tree = t, !.recycled = @ \cup x] =
           Altered(st, t, st.progress, st.withdrawn, st.made, st.orphan,
                   st.recycled \cup x)
BY DEF State, Altered

\* ... and so is one with more requests whose nodes are gone.
LEMMA OrphanAltered ==
  ASSUME NEW st, st \in State, NEW t, NEW x
  PROVE  [st EXCEPT !.tree = t, !.orphan = @ \cup x] =
           Altered(st, t, st.progress, st.withdrawn, st.made, st.orphan \cup x,
                   st.recycled)
BY DEF State, Altered

\* setBitmap of a bitmap that the node does not hold
LEMMA TakeFields ==
  ASSUME NEW st \in State, NEW n \in Node, NEW b \in Nat \ {None, st.tree[n].bitmap}
  PROVE  IsAltered(SetBitmap(st, n, b), st,
                   [st.tree EXCEPT ![n] = [@ EXCEPT !.bitmap = b, !.weak = b]],
                   st.progress, st.withdrawn, st.made, st.orphan,
                   st.recycled \cup ({st.tree[n].bitmap} \ {None}))
<1> DEFINE t == [st.tree EXCEPT ![n] = [@ EXCEPT !.bitmap = b, !.weak = b]]
           c == st.recycled \cup ({st.tree[n].bitmap} \ {None})
<1>1. t \in [Node -> Slice]
  BY StateFields, SliceExcept, TreeExcept
<1>2. c \in SUBSET Nat
  BY StateFields DEF Slice
<1>3. SetBitmap(st, n, b) =
        Altered(st, t, st.progress, st.withdrawn, st.made, st.orphan, c)
  <2>1. ASSUME NEW x, x = {st.tree[n].bitmap} \ {None}
        PROVE  SetBitmap(st, n, b) =
                 Altered(st, t, st.progress, st.withdrawn, st.made, st.orphan,
                         st.recycled \cup x)
    <3>1. SetBitmap(st, n, b) =
            [st EXCEPT !.tree[n] = [@ EXCEPT !.bitmap = b, !.weak = b],
                       !.recycled = @ \cup x]
      BY <2>1 DEF SetBitmap
    <3>2. SetBitmap(st, n, b) = [st EXCEPT !.tree = t, !.recycled = @ \cup x]
      BY <3>1 DEF State
    <3> HIDE DEF t
    <3>3. [st EXCEPT !.tree = t, !.recycled = @ \cup x] =
            Altered(st, t, st.progress, st.withdrawn, st.made, st.orphan,
                    st.recycled \cup x)
      BY RecycledAltered
    <3> QED BY <3>2, <3>3, Zenon
  <2> QED BY <2>1
<1>4. Parts(t, st.progress, st.withdrawn, st.made, st.orphan, c)
  BY <1>1, <1>2, StateFields DEF Parts
<1> HIDE DEF t, c
<1>5. IsAltered(SetBitmap(st, n, b), st, t, st.progress, st.withdrawn, st.made,
                st.orphan, c)
  BY <1>3, <1>4, AlteredFields
<1> QED BY <1>5 DEF t, c

\* invalidateFlag = true
LEMMA MarkFields ==
  ASSUME NEW st \in State, NEW n \in Node
  PROVE  IsAltered([st EXCEPT !.tree[n].invalid = TRUE], st,
                   [st.tree EXCEPT ![n] = [@ EXCEPT !.invalid = TRUE]],
                   st.progress, st.withdrawn, st.made, st.orphan, st.recycled)
<1> DEFINE t == [st.tree EXCEPT ![n] = [@ EXCEPT !.invalid = TRUE]]
<1>1. t \in Trees
  BY StateFields, SliceExcept, TreeExcept DEF Trees
<1>2. [st EXCEPT !.tree[n].invalid = TRUE] = [st EXCEPT !.tree = t]
  BY DEF State
<1> HIDE DEF t
<1> QED BY <1>1, <1>2, OnlyTreeAltered DEF t

\* children = new PageTreeNode[]
LEMMA DivideFields ==
  ASSUME NEW st \in State, NEW n \in Node
  PROVE  IsAltered([st EXCEPT !.tree[n].expanded = TRUE], st,
                   [st.tree EXCEPT ![n] = [@ EXCEPT !.expanded = TRUE]],
                   st.progress, st.withdrawn, st.made, st.orphan, st.recycled)
<1> DEFINE t == [st.tree EXCEPT ![n] = [@ EXCEPT !.expanded = TRUE]]
<1>1. t \in Trees
  BY StateFields, SliceExcept, TreeExcept DEF Trees
<1>2. [st EXCEPT !.tree[n].expanded = TRUE] = [st EXCEPT !.tree = t]
  BY DEF State
<1> HIDE DEF t
<1> QED BY <1>1, <1>2, OnlyTreeAltered DEF t

\* children = null
LEMMA DetachFields ==
  ASSUME NEW st \in State, NEW n \in Node
  PROVE  IsAltered(Detach(st, n), st,
                   [c \in Node |-> IF c \in Below[n] THEN NewNode
                                   ELSE IF c = n THEN [st.tree[n] EXCEPT !.expanded = FALSE]
                                   ELSE st.tree[c]],
                   st.progress, st.withdrawn, st.made,
                   st.orphan \cup UNION {Own(st, c) : c \in Below[n]}, st.recycled)
<1> DEFINE x == [st.tree[n] EXCEPT !.expanded = FALSE]
           t == [c \in Node |-> IF c \in Below[n] THEN NewNode
                                ELSE IF c = n THEN x ELSE st.tree[c]]
           u == [c \in Node |-> IF c \in Below[n] THEN NewNode ELSE st.tree[c]]
           o == UNION {Own(st, c) : c \in Below[n]}
<1>1. x \in Slice /\ NewNode \in Slice
  <2>1. st.tree[n] \in Slice
    BY StateFields
  <2> QED BY <2>1, NewNodeType DEF Slice
<1>2. [u EXCEPT ![n].expanded = FALSE] = t
  <2>1. u[n] = st.tree[n]
    <3>1. n \notin Below[n]
      BY NotBelowItself
    <3> QED BY <3>1
  <2>2. [u EXCEPT ![n].expanded = FALSE] = [u EXCEPT ![n] = x]
    <3> HIDE DEF u
    <3> QED BY <2>1
  <2> HIDE DEF x
  <2>3. [u EXCEPT ![n] = x] = t
    <3>1. n \notin Below[n]
      BY NotBelowItself
    <3> QED BY <3>1
  <2> QED BY <2>2, <2>3
<1>3. t \in [Node -> Slice]
  <2> HIDE DEF x
  <2> QED BY <1>1, StateFields
<1>4. st.orphan \cup o \in SUBSET Nat
  BY OwnType, BelowIs, StateFields
<1>5. Detach(st, n) =
        Altered(st, t, st.progress, st.withdrawn, st.made, st.orphan \cup o, st.recycled)
  <2>1. Detach(st, n) = [st EXCEPT !.tree = u, !.tree[n].expanded = FALSE,
                                   !.orphan = @ \cup o]
    BY DEF Detach
  <2> HIDE DEF u, t, o
  <2>2. Detach(st, n) = [st EXCEPT !.tree = [u EXCEPT ![n].expanded = FALSE],
                                   !.orphan = @ \cup o]
    BY <2>1 DEF State
  <2>3. Detach(st, n) = [st EXCEPT !.tree = t, !.orphan = @ \cup o]
    BY <1>2, <2>2
  <2>4. [st EXCEPT !.tree = t, !.orphan = @ \cup o] =
          Altered(st, t, st.progress, st.withdrawn, st.made, st.orphan \cup o,
                  st.recycled)
    BY OrphanAltered
  <2> QED BY <2>3, <2>4, Zenon
<1>6. Parts(t, st.progress, st.withdrawn, st.made, st.orphan \cup o, st.recycled)
  BY <1>3, <1>4, StateFields DEF Parts
<1> HIDE DEF t, o
<1>7. IsAltered(Detach(st, n), st, t, st.progress, st.withdrawn, st.made,
                st.orphan \cup o, st.recycled)
  BY <1>5, <1>6, AlteredFields
<1> QED BY <1>7 DEF t, o
-----------------------------------------------------------------------------
(* Each step keeps what every method keeps. *)

\* How the number of nodes being decoded follows a change at one node.
LEMMA Count ==
  ASSUME NEW st \in State, NEW r \in State, NEW n \in Node,
         \A m \in Node \ {n} : r.tree[m].decoding = st.tree[m].decoding
  PROVE  /\ Cardinality(Decoding(st)) \in Nat
         /\ r.tree[n].decoding = st.tree[n].decoding =>
              Cardinality(Decoding(r)) = Cardinality(Decoding(st))
         /\ r.tree[n].decoding /\ ~st.tree[n].decoding =>
              Cardinality(Decoding(r)) = Cardinality(Decoding(st)) + 1
         /\ ~r.tree[n].decoding /\ st.tree[n].decoding =>
              Cardinality(Decoding(r)) = Cardinality(Decoding(st)) - 1
<1>1. IsFiniteSet(Node)
  BY TreeAssumption DEF TreeAssumption
<1>2. Decoding(st) \subseteq Node
  BY DEF Decoding
<1>3. IsFiniteSet(Decoding(st)) /\ Cardinality(Decoding(st)) \in Nat
  BY <1>1, <1>2, FS_Subset, FS_CardinalityType
<1>4. ASSUME r.tree[n].decoding = st.tree[n].decoding
      PROVE  Cardinality(Decoding(r)) = Cardinality(Decoding(st))
  <2>1. Decoding(r) = Decoding(st)
    BY <1>4 DEF Decoding
  <2> QED BY <2>1
<1>5. ASSUME r.tree[n].decoding, ~st.tree[n].decoding
      PROVE  Cardinality(Decoding(r)) = Cardinality(Decoding(st)) + 1
  <2>1. Decoding(r) = Decoding(st) \cup {n} /\ n \notin Decoding(st)
    BY <1>5 DEF Decoding
  <2> QED BY <2>1, <1>3, FS_AddElement
<1>6. ASSUME ~r.tree[n].decoding, st.tree[n].decoding
      PROVE  Cardinality(Decoding(r)) = Cardinality(Decoding(st)) - 1
  <2>1. Decoding(r) = Decoding(st) \ {n} /\ n \in Decoding(st)
    BY <1>6 DEF Decoding
  <2> QED BY <2>1, <1>3, FS_RemoveElement
<1> QED BY <1>3, <1>4, <1>5, <1>6

\* A request is for a node, at a zoom.
LEMMA RequestFields ==
  ASSUME NEW st \in State, NEW i \in DOMAIN st.made
  PROVE  st.made[i] \in Request /\ st.made[i].node \in Node /\ st.made[i].zoom \in Zoom
<1>1. st.made[i] \in Request
  BY StateFields
<1> QED BY <1>1 DEF Request

\* What is not as it was made has an expanded parent.
LEMMA Exists ==
  ASSUME NEW st, Rooted(st), NEW n \in Node, st.tree[n] # NewNode
  PROVE  HasParent(st, n)
BY DEF Rooted, HasParent

\* What a step may make of the slice x of node n.
MayBecome(st, n, x) ==
  /\ x.weak = st.tree[n].weak
  /\ x.bitmap \in {None, x.weak}
  /\ st.tree[n].invalid => x.invalid
  /\ st.tree[n].expanded => x.expanded
  /\ x.expanded => Kids[n] # <<>>

\* The progress counts node n if it is being decoded.
Counts(st, n, x, p) ==
  /\ x.decoding = st.tree[n].decoding => p = st.progress
  /\ x.decoding /\ ~st.tree[n].decoding => p = st.progress + 1
  /\ ~x.decoding /\ st.tree[n].decoding => p = st.progress - 1

\* The requests w are withdrawn: with the decoding of n, those of n.
Withdraws(st, n, x, w) ==
  /\ st.withdrawn \subseteq w /\ w \subseteq DOMAIN st.made
  /\ st.tree[n].decoding /\ ~x.decoding => Own(st, n) \subseteq w

\* r is the state st with slice x at node n.
Becomes(r, st, n, x, p, w) ==
  IsAltered(r, st, [st.tree EXCEPT ![n] = x], p, w, st.made, st.orphan, st.recycled)

\* A step that changes one node, and the counter and the withdrawals with it.
LEMMA NodeFollows ==
  ASSUME NEW A, NEW st, st \in State, Good(st, A), NEW n \in Node, HasParent(st, n),
         NEW x, x \in Slice, NEW p, NEW w, NEW r, Becomes(r, st, n, x, p, w),
         MayBecome(st, n, x), Counts(st, n, x, p), Withdraws(st, n, x, w)
  PROVE  Follows(r, st, {n}, A) /\ r.tree[n] = x /\ r.made = st.made
<1>1. r.tree[n] = x /\ \A m \in Node : m # n => r.tree[m] = st.tree[m]
  BY StateFields DEF IsAltered, Becomes
<1>2. /\ r \in State /\ r.made = st.made /\ r.orphan = st.orphan /\ r.late = st.late
      /\ r.view = st.view /\ r.zoom = st.zoom /\ r.inZoom = st.inZoom
      /\ r.recycled = st.recycled /\ r.progress = p /\ r.withdrawn = w
  BY DEF IsAltered, Becomes
<1>3. Numbered(r, A)
  BY <1>2 DEF Good, Numbered, Withdraws
<1>4. Rooted(r)
  <2> SUFFICES ASSUME NEW q \in Node, NEW c \in Range(Kids[q]), ~r.tree[q].expanded
               PROVE  /\ r.tree[c] = NewNode
                      /\ \A i \in DOMAIN st.made \ st.orphan : st.made[i].node # c
    BY <1>2 DEF Rooted
  <2>1. ~st.tree[q].expanded
    BY <1>1 DEF MayBecome
  <2>2. c # n
    BY <2>1 DEF HasParent
  <2>3. c \in Node
    BY KidsType
  <2> QED BY <1>1, <2>1, <2>2, <2>3 DEF Good, Rooted
<1>5. Divided(r)
  BY <1>1 DEF Good, Divided, MayBecome
<1>6. Drawable(r, A)
  <2> SUFFICES ASSUME NEW m \in Node
               PROVE  /\ r.tree[m].bitmap \in {None, r.tree[m].weak}
                      /\ r.tree[m].weak # None =>
                           /\ r.tree[m].weak \in A \ st.recycled
                           /\ st.made[r.tree[m].weak].node = m
    BY <1>2 DEF Drawable, Good
  <2>1. r.tree[m].weak = st.tree[m].weak
    BY <1>1 DEF MayBecome
  <2>2. r.tree[m].bitmap \in {None, r.tree[m].weak}
    BY <1>1 DEF MayBecome, Good, Drawable
  <2> QED BY <2>1, <2>2 DEF Good, Drawable
<1>7. Live(r, A) \subseteq Live(st, A)
  BY <1>2 DEF Live, Withdraws
<1>8. \A m : LateAt(r, m) <=> LateAt(st, m)
  BY <1>2 DEF LateAt
<1>9. Expected(r, A)
  <2>1. ASSUME NEW i \in Live(r, A)
        PROVE  r.tree[st.made[i].node].decoding \/ LateAt(st, st.made[i].node)
    <3>1. st.tree[st.made[i].node].decoding \/ LateAt(st, st.made[i].node)
      BY <1>7 DEF Good, Expected
    <3>2. i \in DOMAIN st.made /\ i \notin w /\ i \notin st.orphan
      BY <1>2 DEF Live
    <3>3. st.made[i].node \in Node
      BY <3>2, RequestFields
    <3>4. CASE st.made[i].node = n
      <4>1. i \in Own(st, n)
        BY <3>2, <3>4 DEF Own
      <4> QED BY <1>1, <3>1, <3>2, <3>4, <4>1 DEF Withdraws
    <3> QED BY <1>1, <3>1, <3>3, <3>4
  <2> QED BY <1>2, <1>7, <1>8, <2>1 DEF Good, Expected
<1>10. r.progress = Cardinality(Decoding(r))
  <2>1. \A m \in Node \ {n} : r.tree[m].decoding = st.tree[m].decoding
    BY <1>1
  <2>2. st.progress = Cardinality(Decoding(st))
    BY DEF Good
  <2>3. x.decoding \in BOOLEAN /\ st.tree[n].decoding \in BOOLEAN
    BY StateFields DEF Slice
  <2> HIDE DEF Decoding
  <2> QED BY <1>1, <1>2, <2>1, <2>2, <2>3, Count DEF Counts
<1>11. Good(r, A)
  BY <1>2, <1>3, <1>4, <1>5, <1>6, <1>9, <1>10 DEF Good
<1>12. Fixed(st, r) /\ Only(st, r, {n})
  BY <1>1, <1>2, StateFields DEF Fixed, Only
<1>13. Sharp(st) => Sharp(r)
  BY <1>1, <1>2, <1>8 DEF Sharp, MayBecome
<1>14. Current(st, A) => Current(r, A)
  BY <1>2, <1>7, <1>8 DEF Current
<1> QED BY <1>1, <1>2, <1>11, <1>12, <1>13, <1>14 DEF Follows

\* stopDecodingThisNode keeps the invariant of the tree.
LEMMA StopDecodingFollows ==
  ASSUME NEW A, NEW st, st \in State, Good(st, A), NEW n \in Node
  PROVE  LET r == StopDecoding(st, n) IN
         /\ Follows(r, st, {n}, A) /\ r.made = st.made
         /\ r.tree[n] = [st.tree[n] EXCEPT !.decoding = FALSE]
<1> DEFINE r == StopDecoding(st, n)
           x == [st.tree[n] EXCEPT !.decoding = FALSE]
           w == st.withdrawn \cup Own(st, n)
           p == st.progress - 1
<1>0. st.tree[n] \in Slice
  BY StateFields
<1>1. CASE ~st.tree[n].decoding
  <2>1. r = st
    BY <1>1 DEF StopDecoding
  <2>2. x = st.tree[n]
    BY <1>0, <1>1 DEF Slice
  <2> QED BY <2>1, <2>2, FollowsItself
<1>2. CASE st.tree[n].decoding
  <2>1. Becomes(r, st, n, x, p, w)
    BY <1>2, StopDecodingFields DEF Becomes
  <2>2. HasParent(st, n)
    BY <1>2, Exists DEF Good, NewNode
  <2>3. x \in Slice /\ x.decoding = FALSE
    BY <1>0, SliceExcept DEF Slice
  <2>4. MayBecome(st, n, x)
    BY <1>0 DEF MayBecome, Slice, Good, Drawable, Divided
  <2>5. Counts(st, n, x, p)
    BY <1>2, <2>3 DEF Counts
  <2>6. Withdraws(st, n, x, w)
    BY OwnType DEF Withdraws, Good, Numbered
  <2> HIDE DEF r, x, w, p
  <2>9. Follows(r, st, {n}, A) /\ r.tree[n] = x /\ r.made = st.made
    BY <2>1, <2>2, <2>3, <2>4, <2>5, <2>6, NodeFollows
  <2> QED BY <2>9 DEF r, x
<1> QED BY <1>1, <1>2

\* A step that leaves decodingNow alone need not count or withdraw.
LEMMA OthersStay ==
  ASSUME NEW A, NEW st, Good(st, A), NEW n, NEW x,
         x.decoding = st.tree[n].decoding
  PROVE  Counts(st, n, x, st.progress) /\ Withdraws(st, n, x, st.withdrawn)
BY DEF Counts, Withdraws, Good, Numbered

\* setBitmap(null) keeps it.
LEMMA ForgetFollows ==
  ASSUME NEW A, NEW st, st \in State, Good(st, A), NEW n \in Node
  PROVE  LET r == SetBitmap(st, n, None) IN
         /\ Follows(r, st, {n}, A) /\ r.made = st.made
         /\ r.tree[n] = [st.tree[n] EXCEPT !.bitmap = None]
<1> DEFINE r == SetBitmap(st, n, None)
           x == [st.tree[n] EXCEPT !.bitmap = None]
<1>0. st.tree[n] \in Slice
  BY StateFields
<1>1. CASE st.tree[n].bitmap = None
  <2>1. r = st
    BY <1>1 DEF SetBitmap
  <2>2. x = st.tree[n]
    BY <1>0, <1>1 DEF Slice
  <2> QED BY <2>1, <2>2, FollowsItself
<1>2. CASE st.tree[n].bitmap # None
  <2>1. Becomes(r, st, n, x, st.progress, st.withdrawn)
    BY ForgetFields DEF Becomes
  <2>2. HasParent(st, n)
    BY <1>2, Exists DEF Good, NewNode
  <2>3. x \in Slice /\ x.decoding = st.tree[n].decoding
    BY <1>0 DEF Slice, None
  <2>4. MayBecome(st, n, x)
    BY <1>0 DEF MayBecome, Slice, Good, Drawable, Divided
  <2> HIDE DEF r, x
  <2>6. Counts(st, n, x, st.progress) /\ Withdraws(st, n, x, st.withdrawn)
    BY <2>3, OthersStay
  <2>9. Follows(r, st, {n}, A) /\ r.tree[n] = x /\ r.made = st.made
    BY <2>1, <2>2, <2>3, <2>4, <2>6, NodeFollows
  <2> QED BY <2>9 DEF r, x
<1> QED BY <1>1, <1>2

\* setBitmap of what the reference still refers to keeps it.
LEMMA RestoreFollows ==
  ASSUME NEW A, NEW st, st \in State, Good(st, A), NEW n \in Node,
         st.tree[n].weak # None
  PROVE  LET r == SetBitmap(st, n, st.tree[n].weak) IN
         /\ Follows(r, st, {n}, A) /\ r.made = st.made
         /\ r.tree[n] = [st.tree[n] EXCEPT !.bitmap = st.tree[n].weak]
<1> DEFINE b == st.tree[n].weak
           r == SetBitmap(st, n, b)
           x == [st.tree[n] EXCEPT !.bitmap = b]
<1>0. st.tree[n] \in Slice /\ b \in Nat
  BY StateFields DEF Slice
<1>1. CASE st.tree[n].bitmap = b
  <2>1. r = st
    BY <1>1 DEF SetBitmap
  <2>2. x = st.tree[n]
    BY <1>0, <1>1 DEF Slice
  <2> QED BY <2>1, <2>2, FollowsItself
<1>2. CASE st.tree[n].bitmap # b
  <2>0. st.tree[n].bitmap = None
    BY <1>2 DEF Good, Drawable
  <2>1. Becomes(r, st, n, x, st.progress, st.withdrawn)
    <3>1. IsAltered(r, st, [st.tree EXCEPT ![n] = [@ EXCEPT !.bitmap = b, !.weak = b]],
                    st.progress, st.withdrawn, st.made, st.orphan,
                    st.recycled \cup ({st.tree[n].bitmap} \ {None}))
      BY <1>0, <1>2, TakeFields
    <3>2. st.recycled \cup ({st.tree[n].bitmap} \ {None}) = st.recycled
      BY <2>0
    <3>3. [st.tree[n] EXCEPT !.bitmap = b, !.weak = b] = x
      BY <1>0 DEF Slice
    <3>4. [st.tree EXCEPT ![n] = [@ EXCEPT !.bitmap = b, !.weak = b]] =
            [st.tree EXCEPT ![n] = x]
      BY <3>3
    <3> QED BY <3>1, <3>2, <3>4, Zenon DEF Becomes
  <2>2. HasParent(st, n)
    BY Exists DEF Good, NewNode
  <2>3. x \in Slice /\ x.decoding = st.tree[n].decoding
    BY <1>0 DEF Slice
  <2>4. MayBecome(st, n, x)
    BY <1>0 DEF MayBecome, Slice, Good, Drawable, Divided
  <2> HIDE DEF r, x, b
  <2>6. Counts(st, n, x, st.progress) /\ Withdraws(st, n, x, st.withdrawn)
    BY <2>3, OthersStay
  <2>7. Follows(r, st, {n}, A) /\ r.tree[n] = x /\ r.made = st.made
    BY <2>1, <2>2, <2>3, <2>4, <2>6, NodeFollows
  <2> QED BY <2>7 DEF r, x, b
<1> QED BY <1>1, <1>2

\* invalidateFlag = true keeps it.
LEMMA MarkFollows ==
  ASSUME NEW A, NEW st, st \in State, Good(st, A), NEW n \in Node, HasParent(st, n)
  PROVE  LET r == [st EXCEPT !.tree[n].invalid = TRUE] IN
         /\ Follows(r, st, {n}, A) /\ r.made = st.made
         /\ r.tree[n] = [st.tree[n] EXCEPT !.invalid = TRUE]
<1> DEFINE r == [st EXCEPT !.tree[n].invalid = TRUE]
           x == [st.tree[n] EXCEPT !.invalid = TRUE]
<1>0. st.tree[n] \in Slice
  BY StateFields
<1>1. Becomes(r, st, n, x, st.progress, st.withdrawn)
  BY MarkFields DEF Becomes
<1>3. x \in Slice /\ x.decoding = st.tree[n].decoding
  BY <1>0 DEF Slice
<1>4. MayBecome(st, n, x)
  BY <1>0 DEF MayBecome, Slice, Good, Drawable, Divided
<1> HIDE DEF r, x
<1>6. Counts(st, n, x, st.progress) /\ Withdraws(st, n, x, st.withdrawn)
  BY <1>3, OthersStay
<1>9. Follows(r, st, {n}, A) /\ r.tree[n] = x /\ r.made = st.made
  BY <1>1, <1>3, <1>4, <1>6, NodeFollows
<1> QED BY <1>9 DEF r, x

\* The division into children keeps it.
LEMMA DivideFollows ==
  ASSUME NEW A, NEW st, st \in State, Good(st, A), NEW n \in Node, HasParent(st, n),
         Kids[n] # <<>>
  PROVE  LET r == [st EXCEPT !.tree[n].expanded = TRUE] IN
         /\ Follows(r, st, {n}, A) /\ r.made = st.made
         /\ r.tree[n] = [st.tree[n] EXCEPT !.expanded = TRUE]
<1> DEFINE r == [st EXCEPT !.tree[n].expanded = TRUE]
           x == [st.tree[n] EXCEPT !.expanded = TRUE]
<1>0. st.tree[n] \in Slice
  BY StateFields
<1>1. Becomes(r, st, n, x, st.progress, st.withdrawn)
  BY DivideFields DEF Becomes
<1>3. x \in Slice /\ x.decoding = st.tree[n].decoding
  BY <1>0 DEF Slice
<1>4. MayBecome(st, n, x)
  BY <1>0 DEF MayBecome, Slice, Good, Drawable, Divided
<1> HIDE DEF r, x
<1>6. Counts(st, n, x, st.progress) /\ Withdraws(st, n, x, st.withdrawn)
  BY <1>3, OthersStay
<1>9. Follows(r, st, {n}, A) /\ r.tree[n] = x /\ r.made = st.made
  BY <1>1, <1>3, <1>4, <1>6, NodeFollows
<1> QED BY <1>9 DEF r, x

\* decodePageTreeNode: the request that is added is the node's only live one.
LEMMA DecodeFollows ==
  ASSUME NEW A, NEW st, st \in State, Good(st, A), NEW n \in Node, HasParent(st, n)
  PROVE  LET r == Decode(st, n) IN
         /\ Follows(r, st, {n}, A)
         /\ r.tree[n] = [st.tree[n] EXCEPT !.decoding = TRUE]
<1> DEFINE r == Decode(st, n)
           x == [st.tree[n] EXCEPT !.decoding = TRUE]
           w == st.withdrawn \cup Own(st, n)
           p == st.progress + 1
           k == Len(st.made) + 1
           m == Append(st.made, [node |-> n, zoom |-> st.zoom])
<1>0. st.tree[n] \in Slice
  BY StateFields
<1>1. CASE st.tree[n].decoding
  <2>1. r = st
    BY <1>1 DEF Decode
  <2>2. x = st.tree[n]
    BY <1>0, <1>1 DEF Slice
  <2> QED BY <2>1, <2>2, FollowsItself
<1>2. CASE ~st.tree[n].decoding
  <2>0. IsAltered(r, st, [st.tree EXCEPT ![n] = x], p, w, m, st.orphan, st.recycled)
    BY <1>2, DecodeFields
  <2>1. /\ m \in Seq(Request) /\ k \in Nat /\ DOMAIN m = DOMAIN st.made \cup {k}
        /\ k \notin DOMAIN st.made
        /\ m[k].node = n /\ m[k].zoom = st.zoom
        /\ \A i \in DOMAIN st.made : m[i] = st.made[i]
    <3>1. [node |-> n, zoom |-> st.zoom] \in Request
      BY StateFields DEF Request
    <3>2. st.made \in Seq(Request) /\ DOMAIN st.made = 1 .. Len(st.made)
          /\ Len(st.made) \in Nat
      BY StateFields
    <3>3. /\ m \in Seq(Request) /\ DOMAIN m = 1 .. (Len(st.made) + 1)
          /\ m[k] = [node |-> n, zoom |-> st.zoom]
          /\ \A i \in DOMAIN st.made : m[i] = st.made[i]
      BY <3>1, <3>2, PutLast
    <3> HIDE DEF m
    <3> QED BY <3>2, <3>3
  <2>2. x \in Slice /\ x.decoding = TRUE /\ x.bitmap = st.tree[n].bitmap
        /\ x.weak = st.tree[n].weak /\ x.invalid = st.tree[n].invalid
        /\ x.expanded = st.tree[n].expanded
    BY <1>0 DEF Slice
  <2>3. Own(st, n) \subseteq w /\ st.withdrawn \subseteq w /\ w \subseteq DOMAIN st.made
    BY OwnType DEF Good, Numbered
  <2>4. p = st.progress + 1
    OBVIOUS
  <2> HIDE DEF r, x, w, p, k, m
  <2>5. r.tree[n] = x /\ \A q \in Node : q # n => r.tree[q] = st.tree[q]
    BY <2>0, StateFields DEF IsAltered
  <2>6. /\ r \in State /\ r.made = m /\ r.orphan = st.orphan /\ r.late = st.late
        /\ r.view = st.view /\ r.zoom = st.zoom /\ r.inZoom = st.inZoom
        /\ r.recycled = st.recycled /\ r.progress = p /\ r.withdrawn = w
    BY <2>0 DEF IsAltered
  <2>7. Numbered(r, A)
    BY <2>1, <2>3, <2>6 DEF Good, Numbered
  <2>8. Rooted(r)
    <3> SUFFICES ASSUME NEW q \in Node, NEW c \in Range(Kids[q]), ~r.tree[q].expanded
                 PROVE  /\ r.tree[c] = NewNode
                        /\ \A i \in DOMAIN m \ st.orphan : m[i].node # c
      BY <2>6 DEF Rooted
    <3>1. ~st.tree[q].expanded
      BY <2>2, <2>5
    <3>2. c # n
      BY <3>1 DEF HasParent
    <3>3. c \in Node
      BY KidsType
    <3> QED BY <2>1, <2>5, <3>1, <3>2, <3>3 DEF Good, Rooted
  <2>9. Divided(r)
    BY <2>2, <2>5 DEF Good, Divided
  <2>10. Drawable(r, A)
    <3> SUFFICES ASSUME NEW q \in Node
                 PROVE  /\ r.tree[q].bitmap \in {None, r.tree[q].weak}
                        /\ r.tree[q].weak # None =>
                             /\ r.tree[q].weak \in A \ st.recycled
                             /\ m[r.tree[q].weak].node = q
      BY <2>6 DEF Drawable, Good
    <3>1. r.tree[q].weak = st.tree[q].weak /\ r.tree[q].bitmap = st.tree[q].bitmap
      BY <2>2, <2>5
    <3>2. r.tree[q].weak # None =>
            /\ r.tree[q].weak \in A \ st.recycled
            /\ st.made[r.tree[q].weak].node = q
      BY <3>1 DEF Good, Drawable
    <3> QED BY <2>1, <3>1, <3>2 DEF Good, Drawable, Numbered
  <2>11. \A q : LateAt(r, q) <=> LateAt(st, q)
    BY <2>1, <2>6 DEF LateAt, Good, Numbered
  <2>12. \A i \in Live(r, A) : i = k \/ (i \in Live(st, A) /\ m[i].node # n)
    <3> SUFFICES ASSUME NEW i \in Live(r, A), i # k PROVE i \in Live(st, A) /\ m[i].node # n
      OBVIOUS
    <3>1. i \in DOMAIN st.made /\ i \notin w /\ i \notin A /\ i \notin st.orphan
      BY <2>1, <2>6 DEF Live
    <3> QED BY <2>1, <2>3, <3>1 DEF Live, Own
  <2>13. Expected(r, A)
    <3>1. ASSUME NEW i \in Live(r, A), i # k
          PROVE  /\ i \in DOMAIN st.made /\ m[i].node \in Node \ {n} /\ m[i] = st.made[i]
                 /\ r.tree[m[i].node].decoding \/ LateAt(r, m[i].node)
      <4>1. i \in Live(st, A) /\ m[i].node # n /\ i \in DOMAIN st.made
        BY <2>12, <3>1 DEF Live
      <4>2. st.made[i].node \in Node
        BY <4>1, RequestFields
      <4> QED BY <2>1, <2>5, <2>11, <4>1, <4>2 DEF Good, Expected
    <3>2. r.tree[m[k].node].decoding
      BY <2>1, <2>2, <2>5
    <3>3. ASSUME NEW i \in Live(r, A), NEW j \in Live(r, A), m[i].node = m[j].node
          PROVE  i = j
      BY <2>1, <2>12, <3>1, <3>3 DEF Good, Expected
    <3> QED BY <2>6, <3>1, <3>2, <3>3 DEF Expected
  <2>14. r.progress = Cardinality(Decoding(r))
    <3>1. \A q \in Node \ {n} : r.tree[q].decoding = st.tree[q].decoding
      BY <2>5
    <3>2. st.progress = Cardinality(Decoding(st))
      BY DEF Good
    <3> QED BY <1>2, <2>2, <2>4, <2>5, <2>6, <3>1, <3>2, Count
  <2>15. Good(r, A)
    BY <2>6, <2>7, <2>8, <2>9, <2>10, <2>13, <2>14 DEF Good
  <2>16. Fixed(st, r) /\ Only(st, r, {n})
    BY <2>1, <2>5, <2>6, StateFields DEF Fixed, Only, k
  <2>17. Sharp(st) => Sharp(r)
    BY <2>1, <2>2, <2>5, <2>6, <2>11 DEF Sharp, Good, Drawable, Numbered
  <2>18. Current(st, A) => Current(r, A)
    BY <2>1, <2>6, <2>11, <2>12 DEF Current, Live
  <2> QED BY <2>5, <2>15, <2>16, <2>17, <2>18 DEF Follows, r, x
<1> QED BY <1>1, <1>2

\* children = null: below n nothing is decoded or kept.
LEMMA DetachFollows ==
  ASSUME NEW A, NEW st, st \in State, Good(st, A), NEW n \in Node,
         \A c \in Below[n] : ~st.tree[c].decoding /\ st.tree[c].weak = None
  PROVE  LET r == Detach(st, n) IN
         /\ Follows(r, st, Sub(n), A) /\ r.made = st.made
         /\ r.tree[n] = [st.tree[n] EXCEPT !.expanded = FALSE]
         /\ \A c \in Below[n] : r.tree[c] = NewNode
<1> DEFINE r == Detach(st, n)
           x == [st.tree[n] EXCEPT !.expanded = FALSE]
           t == [c \in Node |-> IF c \in Below[n] THEN NewNode
                                ELSE IF c = n THEN x ELSE st.tree[c]]
           o == st.orphan \cup UNION {Own(st, c) : c \in Below[n]}
<1>1. IsAltered(r, st, t, st.progress, st.withdrawn, st.made, o, st.recycled)
  BY DetachFields
<1>2. st.tree[n] \in Slice
  BY StateFields
<1>3. /\ x.decoding = st.tree[n].decoding /\ x.bitmap = st.tree[n].bitmap
      /\ x.weak = st.tree[n].weak /\ x.invalid = st.tree[n].invalid
      /\ x.expanded = FALSE /\ (st.tree[n] = NewNode => x = NewNode)
  <2>1. /\ x.decoding = st.tree[n].decoding /\ x.bitmap = st.tree[n].bitmap
        /\ x.weak = st.tree[n].weak /\ x.invalid = st.tree[n].invalid
        /\ x.expanded = FALSE
    BY <1>2 DEF Slice
  <2>2. [NewNode EXCEPT !.expanded = FALSE] = NewNode
    <3>1. NewNode \in Slice /\ NewNode.expanded = FALSE
      BY NewNodeType DEF NewNode
    <3> QED BY <3>1 DEF Slice
  <2>3. ASSUME st.tree[n] = NewNode PROVE x = NewNode
    BY <2>2, <2>3, Zenon
  <2> QED BY <2>1, <2>3
<1>4. /\ \A c \in Below[n] : t[c] = NewNode
      /\ t[n] = x
      /\ \A c \in Node \ Sub(n) : t[c] = st.tree[c]
      /\ n \notin Below[n] /\ Below[n] \subseteq Node
  <2>1. n \notin Below[n] /\ Below[n] \subseteq Node
    BY NotBelowItself, BelowIs
  <2> HIDE DEF x
  <2> QED BY <2>1 DEF Sub
<1>5. st.orphan \subseteq o /\ o \subseteq DOMAIN st.made
  BY OwnType, BelowIs DEF Good, Numbered
<1>6. \A i \in DOMAIN st.made \ o : st.made[i].node \notin Below[n]
  <2> SUFFICES ASSUME NEW i \in DOMAIN st.made, st.made[i].node \in Below[n] PROVE i \in o
    OBVIOUS
  <2>1. i \in st.orphan \/ i \in Own(st, st.made[i].node)
    BY DEF Own
  <2> QED BY <2>1
<1> HIDE DEF r, t, o, x
<1>7. /\ r \in State /\ r.made = st.made /\ r.orphan = o /\ r.late = st.late
      /\ r.view = st.view /\ r.zoom = st.zoom /\ r.inZoom = st.inZoom /\ r.tree = t
      /\ r.recycled = st.recycled /\ r.progress = st.progress
      /\ r.withdrawn = st.withdrawn
  BY <1>1 DEF IsAltered
<1>8. \A c \in Node : \/ c \in Below[n] /\ t[c] = NewNode
                      \/ c = n /\ t[c] = x
                      \/ t[c] = st.tree[c]
  BY <1>4 DEF Sub
<1>9. \A c \in Node : /\ t[c].decoding = st.tree[c].decoding
                      /\ t[c].weak = st.tree[c].weak
                      /\ t[c].bitmap \in {None, t[c].weak}
                      /\ (t[c].invalid = st.tree[c].invalid \/ t[c].weak = None)
                      /\ st.tree[c] = NewNode => t[c] = NewNode
                      /\ t[c].expanded => st.tree[c].expanded
  <2> SUFFICES ASSUME NEW c \in Node
               PROVE  /\ t[c].decoding = st.tree[c].decoding
                      /\ t[c].weak = st.tree[c].weak
                      /\ t[c].bitmap \in {None, t[c].weak}
                      /\ (t[c].invalid = st.tree[c].invalid \/ t[c].weak = None)
                      /\ st.tree[c] = NewNode => t[c] = NewNode
                      /\ t[c].expanded => st.tree[c].expanded
    OBVIOUS
  <2>1. st.tree[c] \in Slice
    BY StateFields
  <2>2. CASE c \in Below[n] /\ t[c] = NewNode
    <3>1. st.tree[c].decoding = FALSE /\ st.tree[c].weak = None
      BY <2>1, <2>2 DEF Slice
    <3>2. /\ NewNode.decoding = FALSE /\ NewNode.weak = None /\ NewNode.bitmap = None
          /\ NewNode.expanded = FALSE
      BY DEF NewNode
    <3> QED BY <2>2, <3>1, <3>2
  <2>3. CASE c = n /\ t[c] = x
    BY <1>3, <2>3 DEF Good, Drawable
  <2>4. CASE t[c] = st.tree[c]
    BY <2>4 DEF Good, Drawable
  <2> QED BY <1>8, <2>2, <2>3, <2>4
<1>10. Numbered(r, A)
  BY <1>5, <1>7 DEF Good, Numbered
<1>11. Rooted(r)
  <2> SUFFICES ASSUME NEW q \in Node, NEW c \in Range(Kids[q]), ~t[q].expanded
               PROVE  /\ t[c] = NewNode
                      /\ \A i \in DOMAIN st.made \ o : st.made[i].node # c
    BY <1>7 DEF Rooted
  <2>1. c \in Node
    BY KidsType
  <2>2. CASE c \in Below[n]
    BY <1>4, <1>6, <2>2
  <2>3. CASE c \notin Below[n]
    <3>1. q \notin Sub(n)
      <4>1. CASE q = n
        BY <2>1, <2>3, <4>1, BelowIs DEF Sub
      <4>2. CASE q \in Below[n]
        <5>1. Sub(q) \subseteq Sub(n) /\ c \in Sub(q)
          BY <2>1, <4>2, BelowIsTransitive, BelowIs DEF Sub
        <5>2. c = n
          BY <2>3, <5>1 DEF Sub
        <5>3. n \in Below[q]
          BY <2>1, <5>2, BelowIs DEF Sub
        <5>4. Sub(n) \subseteq Sub(q)
          BY <5>3, BelowIsTransitive DEF Sub
        <5>5. q \in Below[q]
          <6>1. PICK d \in Range(Kids[n]) : q \in Sub(d)
            BY <4>2, BelowIs
          <6>2. d \in Node /\ d \in Below[n]
            BY <6>1, KidsType, BelowIs DEF Sub
          <6>3. n \in Sub(d) /\ Sub(n) \subseteq Sub(d)
            <7>1. Sub(q) \subseteq Sub(d)
              BY <6>1, <6>2, BelowIsTransitive
            <7>2. n \in Sub(d)
              BY <5>3, <7>1 DEF Sub
            <7> QED BY <6>2, <7>2, BelowIsTransitive
          <6>4. n \in Below[n]
            BY <6>1, <6>3, BelowIs
          <6> QED BY <6>4, NotBelowItself
        <5> QED BY <5>5, NotBelowItself
      <4> QED BY <4>1, <4>2 DEF Sub
    <3>2. t[q] = st.tree[q]
      BY <1>4, <3>1
    <3>3. /\ st.tree[c] = NewNode
          /\ \A i \in DOMAIN st.made \ st.orphan : st.made[i].node # c
      BY <3>2 DEF Good, Rooted
    <3> QED BY <1>5, <1>9, <2>1, <3>3
  <2> QED BY <2>2, <2>3
<1>12. Divided(r)
  BY <1>7, <1>9 DEF Good, Divided
<1>13. Drawable(r, A)
  BY <1>7, <1>9 DEF Good, Drawable
<1>14. \A q : LateAt(r, q) <=> LateAt(st, q)
  BY <1>7 DEF LateAt
<1>15. Live(r, A) \subseteq Live(st, A)
  BY <1>5, <1>7 DEF Live
<1>16. Expected(r, A)
  <2>1. \A i \in Live(r, A) : st.made[i].node \in Node
    BY <1>7, RequestFields DEF Live
  <2> QED BY <1>7, <1>9, <1>14, <1>15, <2>1 DEF Good, Expected
<1>17. r.progress = Cardinality(Decoding(r))
  <2>1. Decoding(r) = Decoding(st)
    BY <1>7, <1>9 DEF Decoding
  <2> QED BY <1>7, <2>1 DEF Good
<1>18. Good(r, A)
  BY <1>7, <1>10, <1>11, <1>12, <1>13, <1>16, <1>17 DEF Good
<1>19. Fixed(st, r) /\ Only(st, r, Sub(n))
  BY <1>4, <1>7, StateFields DEF Fixed, Only
<1>20. Sharp(st) => Sharp(r)
  BY <1>7, <1>9, <1>14 DEF Sharp
<1>21. Current(st, A) => Current(r, A)
  BY <1>7, <1>14, <1>15 DEF Current
<1>22. Follows(r, st, Sub(n), A)
  BY <1>18, <1>19, <1>20, <1>21 DEF Follows
<1> QED BY <1>4, <1>7, <1>22 DEF r, x
-----------------------------------------------------------------------------
(* The methods that call themselves on the children. *)

Methods == [Node -> [State -> State]]

\* Each step leads from a state to a state.
LEMMA StepTypes ==
  ASSUME NEW st \in State, NEW n \in Node, NEW b \in Nat
  PROVE  /\ StopDecoding(st, n) \in State /\ Decode(st, n) \in State
         /\ SetBitmap(st, n, b) \in State /\ Detach(st, n) \in State
         /\ [st EXCEPT !.tree[n].invalid = TRUE] \in State
         /\ [st EXCEPT !.tree[n].expanded = TRUE] \in State
<1>1. StopDecoding(st, n) \in State
  <2>1. CASE st.tree[n].decoding
    BY <2>1, StopDecodingFields DEF IsAltered
  <2> QED BY <2>1 DEF StopDecoding
<1>2. Decode(st, n) \in State
  <2>1. CASE ~st.tree[n].decoding
    BY <2>1, DecodeFields DEF IsAltered
  <2> QED BY <2>1 DEF Decode
<1>3. SetBitmap(st, n, b) \in State
  <2>1. CASE b = None
    BY <2>1, ForgetFields DEF IsAltered
  <2>2. CASE b = st.tree[n].bitmap
    BY <2>2 DEF SetBitmap
  <2>3. CASE b # None /\ b # st.tree[n].bitmap
    BY <2>3, TakeFields DEF IsAltered
  <2> QED BY <2>1, <2>2, <2>3
<1>4. Detach(st, n) \in State
  BY DetachFields DEF IsAltered
<1>5. [st EXCEPT !.tree[n].invalid = TRUE] \in State
  BY MarkFields DEF IsAltered
<1>6. [st EXCEPT !.tree[n].expanded = TRUE] \in State
  BY DivideFields DEF IsAltered
<1> QED BY <1>1, <1>2, <1>3, <1>4, <1>5, <1>6

\* A method of the children is a sequence of functions on the states ...
LEMMA OfKidsType ==
  ASSUME NEW X, NEW f, NEW n \in Node, \A c \in Range(Kids[n]) : f[c] \in X
  PROVE  /\ OfKids(f, n) \in [DOMAIN Kids[n] -> X]
         /\ \A i \in DOMAIN Kids[n] : OfKids(f, n)[i] = f[Kids[n][i]]
BY KidsType DEF OfKids

\* ... and the loop over them leads from a state to a state.
LEMMA ForEachType ==
  ASSUME NEW n \in Node, NEW g \in [DOMAIN Kids[n] -> [State -> State]], NEW st \in State
  PROVE  ForEach(g, st) \in State
<1> DEFINE N == Len(Kids[n])
<1>1. N \in Nat /\ Calls(g, N, State)
  BY KidsType DEF Calls
<1> HIDE DEF N
<1>2. PICK run : Runs(run, g, st, N, State) /\ ForEach(g, st) = run[N]
  BY <1>1, Loop
<1> QED BY <1>1, <1>2 DEF Runs

\* What such a method does: something to the node, itself to the children of an
\* expanded node, and something more to the node.
Visit(before, g, after, n, st) ==
  after[n][IF before[n][st].tree[n].expanded THEN ForEach(g, before[n][st])
           ELSE before[n][st]]

\* A visit to a node and its children leads from a state to a state.
LEMMA VisitType ==
  ASSUME NEW before \in Methods, NEW after \in Methods, NEW n \in Node,
         NEW g \in [DOMAIN Kids[n] -> [State -> State]], NEW st \in State
  PROVE  Visit(before, g, after, n, st) \in State
<1> DEFINE st1 == before[n][st]
           st2 == IF st1.tree[n].expanded THEN ForEach(g, st1) ELSE st1
<1>1. st1 \in State
  BY DEF Methods
<1>2. st2 \in State
  <2> HIDE DEF st1
  <2> QED BY <1>1, ForEachType
<1>3. Visit(before, g, after, n, st) = after[n][st2]
  BY DEF Visit
<1> HIDE DEF st2
<1> QED BY <1>2, <1>3 DEF Methods

\* Such a method exists.
LEMMA VisitorExists ==
  ASSUME NEW before \in Methods, NEW after \in Methods
  PROVE  \E f \in Methods : \A n \in Node : \A st \in State :
           f[n][st] = Visit(before, OfKids(f, n), after, n, st)
<1> DEFINE X == [State -> State]
           Phi == [n \in Node |-> [g \in [DOMAIN Kids[n] -> X] |->
                     [st \in State |-> Visit(before, g, after, n, st)]]]
<1>1. \A n \in Node : \A g \in [DOMAIN Kids[n] -> X] :
        Phi[n][g] = [st \in State |-> Visit(before, g, after, n, st)]
  OBVIOUS
<1> HIDE DEF Phi
<1>2. Passes(Phi, X)
  <2> SUFFICES ASSUME NEW n \in Node, NEW g \in [DOMAIN Kids[n] -> X] PROVE Phi[n][g] \in X
    BY DEF Passes
  <2> DEFINE F(q) == Visit(before, g, after, n, q)
  <2>1. \A st \in State : F(st) \in State
    BY VisitType
  <2>2. Phi[n][g] = [st \in State |-> F(st)]
    BY <1>1
  <2> HIDE DEF F
  <2> QED BY <2>1, <2>2
<1>3. PICK f : Recurs(f, Phi, X)
  BY <1>2, TreeRecursion
<1>4. f \in Methods
  BY <1>3 DEF Recurs, Methods
<1>5. ASSUME NEW n \in Node, NEW st \in State
      PROVE  f[n][st] = Visit(before, OfKids(f, n), after, n, st)
  <2>1. f[n] = Phi[n][OfKids(f, n)]
    BY <1>3 DEF Recurs
  <2>2. \A c \in Range(Kids[n]) : f[c] \in X
    BY <1>4, KidsType DEF Methods
  <2>3. OfKids(f, n) \in [DOMAIN Kids[n] -> X]
    BY <2>2, OfKidsType
  <2>4. ASSUME NEW g, g \in [DOMAIN Kids[n] -> X]
        PROVE  Phi[n][g] = [q \in State |-> Visit(before, g, after, n, q)]
    BY <1>1, <2>4
  <2>5. Phi[n][OfKids(f, n)] =
          [q \in State |-> Visit(before, OfKids(f, n), after, n, q)]
    BY <2>3, <2>4, Zenon
  <2> DEFINE F(q) == Visit(before, OfKids(f, n), after, n, q)
  <2>6. f[n] = [q \in State |-> F(q)]
    BY <2>1, <2>5
  <2> HIDE DEF F
  <2>7. f[n][st] = F(st)
    BY <2>6
  <2> QED BY <2>7 DEF F
<1> QED BY <1>4, <1>5

\* h is defined from its values on the children in this way.
Visits(h, before, after) ==
  /\ h = [n \in Node |-> [st \in State |-> h[n][st]]]
  /\ \A n \in Node : (\A c \in Range(Kids[n]) : h[c] \in [State -> State])
       => \A st \in State : h[n][st] = Visit(before, OfKids(h, n), after, n, st)

\* So does the method that visits a whole subtree.
LEMMA VisitorType ==
  ASSUME NEW before \in Methods, NEW after \in Methods, NEW h, Visits(h, before, after)
  PROVE  /\ h \in Methods
         /\ \A n \in Node : \A st \in State :
              h[n][st] = Visit(before, OfKids(h, n), after, n, st)
<1> DEFINE X == [State -> State]
           S == {n \in Node : h[n] \in X}
<1>1. ASSUME NEW n \in Node, Range(Kids[n]) \subseteq S PROVE n \in S
  <2>1. \A c \in Range(Kids[n]) : h[c] \in X
    BY <1>1
  <2>2. OfKids(h, n) \in [DOMAIN Kids[n] -> X]
    BY <2>1, OfKidsType
  <2>3. \A st \in State : Visit(before, OfKids(h, n), after, n, st) \in State
    BY <2>2, VisitType
  <2>4. \A st \in State : h[n][st] \in State
    BY <2>1, <2>3 DEF Visits
  <2>5. h[n] = [st \in State |-> h[n][st]]
    <3> DEFINE F(m) == [st \in State |-> h[m][st]]
    <3>1. h = [m \in Node |-> F(m)]
      BY DEF Visits
    <3> HIDE DEF F
    <3>2. h[n] = F(n)
      BY <3>1
    <3> QED BY <3>2 DEF F
  <2> QED BY <2>4, <2>5
<1> HIDE DEF S
<1>2. \A n \in Node : h[n] \in X
  <2>1. Node \subseteq S
    BY <1>1, TreeInduction
  <2> QED BY <2>1 DEF S
<1>3. h \in Methods
  <2> DEFINE F(m) == [st \in State |-> h[m][st]]
  <2>1. h = [m \in Node |-> F(m)]
    BY DEF Visits
  <2> HIDE DEF F, X
  <2>2. \A m \in Node : h[m] = F(m)
    BY <2>1
  <2>3. \A m \in Node : F(m) \in X
    BY <1>2, <2>2
  <2>4. h \in [Node -> X]
    BY <2>1, <2>3
  <2> QED BY <2>4 DEF Methods, X
<1> QED BY <1>2, <1>3, KidsType DEF Visits
-----------------------------------------------------------------------------
(* The three methods. *)

RecycleBefore == [n \in Node |-> [st \in State |-> RecycleNode(st, n)]]
RecycleAfter  == [n \in Node |-> [st \in State |-> st]]

\* recycle, at the node itself.
LEMMA RecycleSteps ==
  /\ RecycleBefore \in Methods /\ RecycleAfter \in Methods
  /\ \A n \in Node : \A st \in State :
       /\ RecycleBefore[n][st] = RecycleNode(st, n) /\ RecycleNode(st, n) \in State
       /\ RecycleAfter[n][st] = st
<1>1. \A n \in Node : \A st \in State : RecycleNode(st, n) \in State
  <2> SUFFICES ASSUME NEW n \in Node, NEW st \in State PROVE RecycleNode(st, n) \in State
    OBVIOUS
  <2>1. None \in Nat
    BY DEF None
  <2>2. StopDecoding(st, n) \in State
    BY <2>1, StepTypes
  <2> QED BY <2>1, <2>2, StepTypes DEF RecycleNode
<1> QED BY <1>1 DEF RecycleBefore, RecycleAfter, Methods

\* recycle
RecycleVisit(f, n, st) ==
  LET st1 == RecycleNode(st, n) IN
  IF st1.tree[n].expanded THEN ForEach(OfKids(f, n), st1) ELSE st1

\* recycle is such a visit ...
LEMMA RecycleVisitIs ==
  ASSUME NEW f, NEW n \in Node, NEW st \in State,
         \A c \in Range(Kids[n]) : f[c] \in [State -> State]
  PROVE  RecycleVisit(f, n, st) = Visit(RecycleBefore, OfKids(f, n), RecycleAfter, n, st)
<1> DEFINE st1 == RecycleNode(st, n)
           g == OfKids(f, n)
           st2 == IF st1.tree[n].expanded THEN ForEach(g, st1) ELSE st1
<1>1. st1 \in State /\ RecycleBefore[n][st] = st1
  BY RecycleSteps
<1>2. st2 \in State
  <2>1. g \in [DOMAIN Kids[n] -> [State -> State]]
    BY OfKidsType
  <2> HIDE DEF st1, g
  <2>2. ForEach(g, st1) \in State
    BY <1>1, <2>1, ForEachType
  <2> QED BY <1>1, <2>2
<1>3. RecycleVisit(f, n, st) = st2
  BY DEF RecycleVisit
<1>4. Visit(RecycleBefore, g, RecycleAfter, n, st) = RecycleAfter[n][st2]
  <2> HIDE DEF st1, g
  <2> QED BY <1>1 DEF Visit
<1>5. RecycleAfter[n][st2] = st2
  <2> HIDE DEF st2
  <2> QED BY <1>2, RecycleSteps
<1> HIDE DEF st2
<1> QED BY <1>3, <1>4, <1>5

\* ... so the recursion of Recycle is sound, and gives what the method says.
LEMMA RecycleIs ==
  /\ Recycle \in Methods
  /\ \A n \in Node : \A st \in State : Recycle[n][st] = RecycleVisit(Recycle, n, st)
<1> DEFINE Body(f) == [n \in Node |-> [st \in State |-> RecycleVisit(f, n, st)]]
<1>1. PICK f \in Methods : \A n \in Node : \A st \in State :
        f[n][st] = Visit(RecycleBefore, OfKids(f, n), RecycleAfter, n, st)
  BY VisitorExists, RecycleSteps
<1>2. \A n \in Node : \A st \in State : f[n][st] = RecycleVisit(f, n, st)
  <2> SUFFICES ASSUME NEW n \in Node, NEW st \in State PROVE f[n][st] = RecycleVisit(f, n, st)
    OBVIOUS
  <2>1. \A c \in Range(Kids[n]) : f[c] \in [State -> State]
    BY KidsType DEF Methods
  <2> QED BY <1>1, <2>1, RecycleVisitIs
<1>3. f = Body(f)
  <2> DEFINE F(n, st) == RecycleVisit(f, n, st)
  <2>1. f \in [Node -> [State -> State]]
    BY DEF Methods
  <2>2. \A n \in Node : \A st \in State : f[n][st] = F(n, st)
    BY <1>2
  <2>3. Body(f) = [n \in Node |-> [st \in State |-> F(n, st)]]
    OBVIOUS
  <2> HIDE DEF F, Body
  <2> QED BY <2>1, <2>2, <2>3
<1>4. Recycle = Body(Recycle)
  <2>1. Recycle = CHOOSE g : g = Body(g)
    BY DEF Recycle, RecycleVisit
  <2> HIDE DEF Body
  <2> QED BY <1>3, <2>1
<1>5. Visits(Recycle, RecycleBefore, RecycleAfter) /\
      \A n \in Node : \A st \in State : Recycle[n][st] = RecycleVisit(Recycle, n, st)
  <2> DEFINE F(n, st) == RecycleVisit(Recycle, n, st)
             h == Recycle
  <2>1. h = [n \in Node |-> [st \in State |-> F(n, st)]]
    BY <1>4
  <2> HIDE DEF F, h
  <2>2. \A n \in Node : h[n] = [st \in State |-> F(n, st)]
    BY <2>1
  <2>3. \A n \in Node : \A st \in State : h[n][st] = F(n, st)
    BY <2>2
  <2>4. h = [n \in Node |-> [st \in State |-> h[n][st]]]
    BY <2>1, <2>2, <2>3
  <2>5. \A n \in Node : \A st \in State : Recycle[n][st] = RecycleVisit(Recycle, n, st)
    BY <2>3 DEF F, h
  <2>6. \A n \in Node : (\A c \in Range(Kids[n]) : Recycle[c] \in [State -> State])
          => \A st \in State :
               Recycle[n][st] = Visit(RecycleBefore, OfKids(Recycle, n), RecycleAfter, n, st)
    BY <2>5, RecycleVisitIs
  <2> QED BY <2>4, <2>5, <2>6 DEF h, Visits
<1> QED BY <1>5, VisitorType, RecycleSteps

\* recycleChildren leads from a state to a state.
LEMMA RecycleChildrenType ==
  ASSUME NEW st \in State, NEW n \in Node
  PROVE  RecycleChildren(st, n) \in State
<1> DEFINE g == OfKids(Recycle, n)
           st1 == ForEach(g, st)
<1>1. g \in [DOMAIN Kids[n] -> [State -> State]]
  <2>1. \A c \in Range(Kids[n]) : Recycle[c] \in [State -> State]
    BY RecycleIs, KidsType DEF Methods
  <2> QED BY <2>1, OfKidsType
<1> HIDE DEF g
<1>2. st1 \in State
  BY <1>1, ForEachType
<1> HIDE DEF st1
<1>3. Detach(st1, n) \in State
  <2>1. 0 \in Nat
    OBVIOUS
  <2> QED BY <1>2, <2>1, StepTypes
<1> QED BY <1>2, <1>3 DEF RecycleChildren, st1, g

\* invalidateChildren leads from a state to a state.
LEMMA InvalidateChildrenType ==
  ASSUME NEW st \in State, NEW n \in Node
  PROVE  InvalidateChildren(st, n) \in State
<1> DEFINE st1 == IF ThresholdHit(st, n) /\ Visible(st, n)
                  THEN [st EXCEPT !.tree[n].expanded = TRUE] ELSE st
<1>1. st1 \in State
  <2>1. 0 \in Nat
    OBVIOUS
  <2> QED BY <2>1, StepTypes
<1> HIDE DEF st1
<1>2. RecycleChildren(st1, n) \in State
  BY <1>1, RecycleChildrenType
<1> QED BY <1>1, <1>2 DEF InvalidateChildren, st1

UpdateBefore == [n \in Node |-> [st \in State |-> InvalidateChildren(st, n)]]
UpdateAfter  == [n \in Node |-> [st \in State |-> Settle(Show(st, n), n)]]

\* updateVisibility, before and after its loop.
LEMMA UpdateSteps ==
  /\ UpdateBefore \in Methods /\ UpdateAfter \in Methods
  /\ \A n \in Node : \A st \in State :
       /\ UpdateBefore[n][st] = InvalidateChildren(st, n)
       /\ InvalidateChildren(st, n) \in State
       /\ UpdateAfter[n][st] = Settle(Show(st, n), n)
       /\ Show(st, n) \in State /\ Settle(Show(st, n), n) \in State
<1>1. \A n \in Node : \A st \in State : InvalidateChildren(st, n) \in State
  BY InvalidateChildrenType
<1>2. \A n \in Node : \A st \in State : Show(st, n) \in State
  <2> SUFFICES ASSUME NEW n \in Node, NEW st \in State PROVE Show(st, n) \in State
    OBVIOUS
  <2>1. GetBitmap(st, n) \in Nat
    BY StateFields DEF GetBitmap, Slice
  <2> QED BY <2>1, StepTypes DEF Show
<1>3. \A n \in Node : \A st \in State : Settle(st, n) \in State
  <2> SUFFICES ASSUME NEW n \in Node, NEW st \in State PROVE Settle(st, n) \in State
    OBVIOUS
  <2>1. None \in Nat
    BY DEF None
  <2>2. StopDecoding(st, n) \in State
    BY <2>1, StepTypes
  <2> QED BY <2>1, <2>2, StepTypes DEF Settle
<1>4. \A n \in Node : \A st \in State : Settle(Show(st, n), n) \in State
  BY <1>2, <1>3
<1> QED BY <1>1, <1>2, <1>4 DEF UpdateBefore, UpdateAfter, Methods

\* updateVisibility
UpdateVisit(f, n, st) ==
  LET st1 == InvalidateChildren(st, n)
      st2 == IF st1.tree[n].expanded THEN ForEach(OfKids(f, n), st1) ELSE st1
  IN Settle(Show(st2, n), n)

\* updateVisibility is such a visit ...
LEMMA UpdateVisitIs ==
  ASSUME NEW f, NEW n \in Node, NEW st \in State,
         \A c \in Range(Kids[n]) : f[c] \in [State -> State]
  PROVE  UpdateVisit(f, n, st) = Visit(UpdateBefore, OfKids(f, n), UpdateAfter, n, st)
<1> DEFINE st1 == InvalidateChildren(st, n)
           g == OfKids(f, n)
           st2 == IF st1.tree[n].expanded THEN ForEach(g, st1) ELSE st1
<1>1. st1 \in State /\ UpdateBefore[n][st] = st1
  BY UpdateSteps
<1>2. st2 \in State
  <2>1. g \in [DOMAIN Kids[n] -> [State -> State]]
    BY OfKidsType
  <2> HIDE DEF st1, g
  <2>2. ForEach(g, st1) \in State
    BY <1>1, <2>1, ForEachType
  <2> QED BY <1>1, <2>2
<1>3. UpdateVisit(f, n, st) = Settle(Show(st2, n), n)
  BY DEF UpdateVisit
<1>4. Visit(UpdateBefore, g, UpdateAfter, n, st) = UpdateAfter[n][st2]
  <2> HIDE DEF st1, g
  <2> QED BY <1>1 DEF Visit
<1>5. UpdateAfter[n][st2] = Settle(Show(st2, n), n)
  <2> HIDE DEF st2
  <2> QED BY <1>2, UpdateSteps
<1> HIDE DEF st2
<1> QED BY <1>3, <1>4, <1>5

\* ... so the recursion of UpdateVisibility is sound.
LEMMA UpdateVisibilityIs ==
  /\ UpdateVisibility \in Methods
  /\ \A n \in Node : \A st \in State :
       UpdateVisibility[n][st] = UpdateVisit(UpdateVisibility, n, st)
<1> DEFINE Body(f) == [n \in Node |-> [st \in State |-> UpdateVisit(f, n, st)]]
<1>1. PICK f \in Methods : \A n \in Node : \A st \in State :
        f[n][st] = Visit(UpdateBefore, OfKids(f, n), UpdateAfter, n, st)
  BY VisitorExists, UpdateSteps
<1>2. \A n \in Node : \A st \in State : f[n][st] = UpdateVisit(f, n, st)
  <2> SUFFICES ASSUME NEW n \in Node, NEW st \in State PROVE f[n][st] = UpdateVisit(f, n, st)
    OBVIOUS
  <2>1. \A c \in Range(Kids[n]) : f[c] \in [State -> State]
    BY KidsType DEF Methods
  <2> QED BY <1>1, <2>1, UpdateVisitIs
<1>3. f = Body(f)
  <2> DEFINE F(n, st) == UpdateVisit(f, n, st)
  <2>1. f \in [Node -> [State -> State]]
    BY DEF Methods
  <2>2. \A n \in Node : \A st \in State : f[n][st] = F(n, st)
    BY <1>2
  <2>3. Body(f) = [n \in Node |-> [st \in State |-> F(n, st)]]
    OBVIOUS
  <2> HIDE DEF F, Body
  <2> QED BY <2>1, <2>2, <2>3
<1>4. UpdateVisibility = Body(UpdateVisibility)
  <2>1. UpdateVisibility = CHOOSE g : g = Body(g)
    BY DEF UpdateVisibility, UpdateVisit
  <2> HIDE DEF Body
  <2> QED BY <1>3, <2>1
<1>5. Visits(UpdateVisibility, UpdateBefore, UpdateAfter) /\
      \A n \in Node : \A st \in State :
        UpdateVisibility[n][st] = UpdateVisit(UpdateVisibility, n, st)
  <2> DEFINE F(n, st) == UpdateVisit(UpdateVisibility, n, st)
             h == UpdateVisibility
  <2>1. h = [n \in Node |-> [st \in State |-> F(n, st)]]
    BY <1>4
  <2> HIDE DEF F, h
  <2>2. \A n \in Node : h[n] = [st \in State |-> F(n, st)]
    BY <2>1
  <2>3. \A n \in Node : \A st \in State : h[n][st] = F(n, st)
    BY <2>2
  <2>4. h = [n \in Node |-> [st \in State |-> h[n][st]]]
    BY <2>1, <2>2, <2>3
  <2>5. \A n \in Node : \A st \in State :
          UpdateVisibility[n][st] = UpdateVisit(UpdateVisibility, n, st)
    BY <2>3 DEF F, h
  <2>6. \A n \in Node : (\A c \in Range(Kids[n]) : UpdateVisibility[c] \in [State -> State])
          => \A st \in State :
               UpdateVisibility[n][st] =
                 Visit(UpdateBefore, OfKids(UpdateVisibility, n), UpdateAfter, n, st)
    BY <2>5, UpdateVisitIs
  <2> QED BY <2>4, <2>5, <2>6 DEF h, Visits
<1> QED BY <1>5, VisitorType, UpdateSteps

MarkBefore == [n \in Node |-> [st \in State |-> [st EXCEPT !.tree[n].invalid = TRUE]]]
MarkAfter  == [n \in Node |-> [st \in State |-> StopDecoding(st, n)]]

\* invalidateRecursive, before and after its loop.
LEMMA MarkSteps ==
  /\ MarkBefore \in Methods /\ MarkAfter \in Methods
  /\ \A n \in Node : \A st \in State :
       /\ MarkBefore[n][st] = [st EXCEPT !.tree[n].invalid = TRUE]
       /\ [st EXCEPT !.tree[n].invalid = TRUE] \in State
       /\ MarkAfter[n][st] = StopDecoding(st, n) /\ StopDecoding(st, n) \in State
<1> DEFINE M(st, n) == [st EXCEPT !.tree[n].invalid = TRUE]
<1>1. \A n \in Node : \A st \in State : M(st, n) \in State /\ StopDecoding(st, n) \in State
  <2>1. 0 \in Nat
    OBVIOUS
  <2> QED BY <2>1, StepTypes
<1>2. MarkBefore = [n \in Node |-> [st \in State |-> M(st, n)]]
  BY DEF MarkBefore
<1> HIDE DEF M
<1>3. MarkBefore \in Methods /\ \A n \in Node : \A st \in State : MarkBefore[n][st] = M(st, n)
  BY <1>1, <1>2 DEF Methods
<1>4. /\ MarkAfter \in Methods
      /\ \A n \in Node : \A st \in State : MarkAfter[n][st] = StopDecoding(st, n)
  BY <1>1 DEF MarkAfter, Methods
<1> QED BY <1>1, <1>3, <1>4 DEF M

\* invalidateRecursive
MarkVisit(f, n, st) ==
  LET st1 == [st EXCEPT !.tree[n].invalid = TRUE]
      st2 == IF st1.tree[n].expanded THEN ForEach(OfKids(f, n), st1) ELSE st1
  IN StopDecoding(st2, n)

\* invalidateRecursive is such a visit ...
LEMMA MarkVisitIs ==
  ASSUME NEW f, NEW n \in Node, NEW st \in State,
         \A c \in Range(Kids[n]) : f[c] \in [State -> State]
  PROVE  MarkVisit(f, n, st) = Visit(MarkBefore, OfKids(f, n), MarkAfter, n, st)
<1> DEFINE st1 == [st EXCEPT !.tree[n].invalid = TRUE]
           g == OfKids(f, n)
           st2 == IF st1.tree[n].expanded THEN ForEach(g, st1) ELSE st1
<1>1. st1 \in State /\ MarkBefore[n][st] = st1
  BY MarkSteps
<1>2. st2 \in State
  <2>1. g \in [DOMAIN Kids[n] -> [State -> State]]
    BY OfKidsType
  <2> HIDE DEF st1, g
  <2>2. ForEach(g, st1) \in State
    BY <1>1, <2>1, ForEachType
  <2> QED BY <1>1, <2>2
<1>3. MarkVisit(f, n, st) = StopDecoding(st2, n)
  BY DEF MarkVisit
<1>4. Visit(MarkBefore, g, MarkAfter, n, st) = MarkAfter[n][st2]
  <2> HIDE DEF st1, g
  <2> QED BY <1>1 DEF Visit
<1>5. MarkAfter[n][st2] = StopDecoding(st2, n)
  <2> HIDE DEF st2
  <2> QED BY <1>2, MarkSteps
<1> HIDE DEF st2
<1> QED BY <1>3, <1>4, <1>5

\* ... so the recursion of InvalidateRecursive is sound.
LEMMA InvalidateRecursiveIs ==
  /\ InvalidateRecursive \in Methods
  /\ \A n \in Node : \A st \in State :
       InvalidateRecursive[n][st] = MarkVisit(InvalidateRecursive, n, st)
<1> DEFINE Body(f) == [n \in Node |-> [st \in State |-> MarkVisit(f, n, st)]]
<1>1. PICK f \in Methods : \A n \in Node : \A st \in State :
        f[n][st] = Visit(MarkBefore, OfKids(f, n), MarkAfter, n, st)
  BY VisitorExists, MarkSteps
<1>2. \A n \in Node : \A st \in State : f[n][st] = MarkVisit(f, n, st)
  <2> SUFFICES ASSUME NEW n \in Node, NEW st \in State PROVE f[n][st] = MarkVisit(f, n, st)
    OBVIOUS
  <2>1. \A c \in Range(Kids[n]) : f[c] \in [State -> State]
    BY KidsType DEF Methods
  <2> QED BY <1>1, <2>1, MarkVisitIs
<1>3. f = Body(f)
  <2> DEFINE F(n, st) == MarkVisit(f, n, st)
  <2>1. f \in [Node -> [State -> State]]
    BY DEF Methods
  <2>2. \A n \in Node : \A st \in State : f[n][st] = F(n, st)
    BY <1>2
  <2>3. Body(f) = [n \in Node |-> [st \in State |-> F(n, st)]]
    OBVIOUS
  <2> HIDE DEF F, Body
  <2> QED BY <2>1, <2>2, <2>3
<1>4. InvalidateRecursive = Body(InvalidateRecursive)
  <2>1. InvalidateRecursive = CHOOSE g : g = Body(g)
    BY DEF InvalidateRecursive, MarkVisit
  <2> HIDE DEF Body
  <2> QED BY <1>3, <2>1
<1>5. Visits(InvalidateRecursive, MarkBefore, MarkAfter) /\
      \A n \in Node : \A st \in State :
        InvalidateRecursive[n][st] = MarkVisit(InvalidateRecursive, n, st)
  <2> DEFINE F(n, st) == MarkVisit(InvalidateRecursive, n, st)
             h == InvalidateRecursive
  <2>1. h = [n \in Node |-> [st \in State |-> F(n, st)]]
    BY <1>4
  <2> HIDE DEF F, h
  <2>2. \A n \in Node : h[n] = [st \in State |-> F(n, st)]
    BY <2>1
  <2>3. \A n \in Node : \A st \in State : h[n][st] = F(n, st)
    BY <2>2
  <2>4. h = [n \in Node |-> [st \in State |-> h[n][st]]]
    BY <2>1, <2>2, <2>3
  <2>5. \A n \in Node : \A st \in State :
          InvalidateRecursive[n][st] = MarkVisit(InvalidateRecursive, n, st)
    BY <2>3 DEF F, h
  <2>6. \A n \in Node : (\A c \in Range(Kids[n]) : InvalidateRecursive[c] \in [State -> State])
          => \A st \in State :
               InvalidateRecursive[n][st] =
                 Visit(MarkBefore, OfKids(InvalidateRecursive, n), MarkAfter, n, st)
    BY <2>5, MarkVisitIs
  <2> QED BY <2>4, <2>5, <2>6 DEF h, Visits
<1> QED BY <1>5, VisitorType, MarkSteps
-----------------------------------------------------------------------------
(* What the methods keep and establish. *)

\* Below a node that has no children there are no nodes.
LEMMA NothingBelow ==
  ASSUME NEW st, Rooted(st), NEW n \in Node, ~st.tree[n].expanded
  PROVE  \A m \in Below[n] : st.tree[m] = NewNode
<1> DEFINE S == {p \in Node : ~st.tree[p].expanded => \A m \in Below[p] : st.tree[m] = NewNode}
<1>1. ASSUME NEW p \in Node, Range(Kids[p]) \subseteq S PROVE p \in S
  <2> SUFFICES ASSUME ~st.tree[p].expanded, NEW m \in Below[p] PROVE st.tree[m] = NewNode
    OBVIOUS
  <2>1. PICK c \in Range(Kids[p]) : m \in Sub(c)
    BY BelowIs
  <2>2. st.tree[c] = NewNode
    BY DEF Rooted
  <2>3. ~st.tree[c].expanded
    BY <2>2 DEF NewNode
  <2> QED BY <1>1, <2>1, <2>2, <2>3 DEF Sub
<1> HIDE DEF S
<1>2. Node \subseteq S
  BY <1>1, TreeInduction
<1> QED BY <1>2 DEF S

\* Q is about the subtree of a node, the view and the zoom.
Local(Q) ==
  \A c \in Node : \A r, q \in State :
    /\ <<c, r>> \in Q
    /\ q.view = r.view /\ q.zoom = r.zoom
    /\ \A m \in Sub(c) : q.tree[m] = r.tree[m]
    => <<c, q>> \in Q

\* f changes the subtree of each child of n, and establishes Q.
Does(f, n, Q, A) ==
  \A c \in Range(Kids[n]) :
    /\ f[c] \in [State -> State]
    /\ \A r \in State : Good(r, A) /\ r.tree[n].expanded
         => Follows(f[c][r], r, Sub(c), A) /\ <<c, f[c][r]>> \in Q

\* A loop over the children keeps the invariant of the tree when the method does,
\* and what it brings about in one subtree the later calls leave alone.
LEMMA ForEachFollows ==
  ASSUME NEW A, NEW Q, Local(Q), NEW f, NEW n \in Node, Does(f, n, Q, A),
         NEW st, st \in State, Good(st, A), st.tree[n].expanded
  PROVE  LET r == ForEach(OfKids(f, n), st) IN
         /\ Follows(r, st, Below[n], A)
         /\ \A c \in Range(Kids[n]) : <<c, r>> \in Q
<1> DEFINE N == Len(Kids[n])
           g == OfKids(f, n)
<1>1. /\ N \in Nat /\ Calls(g, N, State)
      /\ DOMAIN Kids[n] = 1 .. N
      /\ \A i \in 1 .. N : g[i] = f[Kids[n][i]] /\ Kids[n][i] \in Range(Kids[n])
                           /\ Kids[n][i] \in Node
  <2>1. \A c \in Range(Kids[n]) : f[c] \in [State -> State]
    BY DEF Does
  <2>2. /\ g \in [DOMAIN Kids[n] -> [State -> State]]
        /\ \A i \in DOMAIN Kids[n] : g[i] = f[Kids[n][i]]
    <3>1. g \in [DOMAIN Kids[n] -> [State -> State]]
      BY <2>1, OfKidsType
    <3>2. \A i \in DOMAIN Kids[n] : g[i] = f[Kids[n][i]]
      BY DEF OfKids
    <3> QED BY <3>1, <3>2
  <2> HIDE DEF g
  <2>3. /\ N \in Nat /\ DOMAIN Kids[n] = 1 .. N
        /\ \A i \in DOMAIN Kids[n] : Kids[n][i] \in Range(Kids[n]) /\ Kids[n][i] \in Node
    BY KidsType
  <2> HIDE DEF N
  <2> QED BY <2>2, <2>3 DEF Calls
<1> HIDE DEF g, N
<1>2. PICK run : Runs(run, g, st, N, State) /\ ForEach(g, st) = run[N]
  BY <1>1, Loop
<1>3. /\ \A i \in 0 .. N : run[i] \in State
      /\ run[0] = st
      /\ \A i \in 1 .. N : run[i] = g[i][run[i - 1]]
  BY <1>2 DEF Runs
<1> DEFINE S == {i \in 0 .. N : /\ Follows(run[i], st, Below[n], A)
                                /\ \A j \in 1 .. i : <<Kids[n][j], run[i]>> \in Q}
<1>4. 0 \in S
  BY <1>1, <1>3, FollowsItself
<1>5. ASSUME NEW i \in 0 .. (N - 1), i \in S PROVE i + 1 \in S
  <2> DEFINE c == Kids[n][i + 1]
             r == run[i]
             q == run[i + 1]
  <2>1. i + 1 \in 1 .. N /\ (i + 1) - 1 = i
    BY <1>1
  <2>2. q = f[c][r] /\ c \in Range(Kids[n]) /\ c \in Node /\ r \in State /\ q \in State
    <3>1. g[i + 1] = f[c] /\ c \in Range(Kids[n]) /\ c \in Node
      BY <1>1, <2>1
    <3>2. i \in 0 .. N /\ i + 1 \in 0 .. N
      BY <1>1
    <3>3. r \in State /\ q \in State
      BY <1>3, <3>2
    <3>4. q = g[i + 1][r]
      BY <1>3, <2>1
    <3> QED BY <3>1, <3>3, <3>4
  <2>3. Follows(r, st, Below[n], A) /\ \A j \in 1 .. i : <<Kids[n][j], r>> \in Q
    BY <1>5
  <2> HIDE DEF r, q, c, S
  <2>4. Good(r, A) /\ r.tree[n].expanded
    <3>1. Good(r, A) /\ Only(st, r, Below[n])
      BY <2>3 DEF Follows
    <3>2. n \notin Below[n]
      BY NotBelowItself
    <3>3. r.tree[n] = st.tree[n]
      BY <3>1, <3>2 DEF Only
    <3> QED BY <3>1, <3>3
  <2>5. Follows(q, r, Sub(c), A) /\ <<c, q>> \in Q
    BY <2>2, <2>4 DEF Does
  <2>6. Follows(q, r, Below[n], A)
    <3>1. Sub(c) \subseteq Below[n]
      BY <2>2, BelowIs
    <3> QED BY <2>5, <3>1, FollowsWithin
  <2>7. Follows(q, st, Below[n], A)
    BY <2>3, <2>6, FollowsTransitively
  <2>8. ASSUME NEW j \in 1 .. (i + 1) PROVE <<Kids[n][j], q>> \in Q
    <3>1. CASE j = i + 1
      BY <2>5, <3>1 DEF c
    <3>2. CASE j # i + 1
      <4>1. j \in 1 .. i /\ j \in DOMAIN Kids[n] /\ i + 1 \in DOMAIN Kids[n]
        BY <1>1, <2>1, <3>2
      <4>2. Kids[n][j] \in Node
        BY <4>1, KidsType
      <4>3. Sub(Kids[n][j]) \cap Sub(c) = {}
        BY <3>2, <4>1, KidsApart DEF c
      <4>4. \A m \in Sub(Kids[n][j]) : q.tree[m] = r.tree[m]
        BY <2>5, <4>2, <4>3, SubType DEF Follows, Only
      <4>5. q.view = r.view /\ q.zoom = r.zoom
        BY <2>5 DEF Follows, Fixed
      <4> QED BY <2>2, <2>3, <4>1, <4>2, <4>4, <4>5 DEF Local
    <3> QED BY <3>1, <3>2
  <2> QED BY <1>1, <2>7, <2>8 DEF S, q
<1> HIDE DEF S
<1>6. 0 .. N \subseteq S
  BY <1>1, <1>4, <1>5, UpTo
<1>7. N \in S
  BY <1>1, <1>6
<1>8. Follows(run[N], st, Below[n], A) /\ \A j \in 1 .. N : <<Kids[n][j], run[N]>> \in Q
  BY <1>7 DEF S
<1>9. \A c \in Range(Kids[n]) : <<c, run[N]>> \in Q
  <2> SUFFICES ASSUME NEW c \in Range(Kids[n]) PROVE <<c, run[N]>> \in Q
    OBVIOUS
  <2>1. PICK j \in DOMAIN Kids[n] : Kids[n][j] = c
    BY KidsType
  <2> QED BY <1>1, <1>8, <2>1
<1> QED BY <1>2, <1>8, <1>9 DEF g
-----------------------------------------------------------------------------
\* Nothing is decoded or kept in the subtree of a node.
Quiet(m, st) == ~st.tree[m].decoding /\ st.tree[m].bitmap = None

Recycled == {p \in Node \X State : \A m \in Sub(p[1]) : Quiet(m, p[2])}

\* Whether a subtree is recycled depends on that subtree only.
LEMMA RecycledIsLocal ==
  /\ Local(Recycled)
  /\ \A n \in Node : \A st \in State :
       <<n, st>> \in Recycled <=> \A m \in Sub(n) : Quiet(m, st)
BY DEF Local, Recycled, Quiet

\* The fields of a node that was just made.
LEMMA NewNodeFields ==
  /\ NewNode.decoding = FALSE /\ NewNode.bitmap = None /\ NewNode.weak = None
  /\ NewNode.invalid = FALSE /\ NewNode.expanded = FALSE
BY DEF NewNode

\* recycle, at the node itself, keeps the invariant of the tree ...
LEMMA RecycleNodeFollows ==
  ASSUME NEW A, NEW st, st \in State, Good(st, A), NEW n \in Node
  PROVE  LET r == RecycleNode(st, n) IN
         /\ r \in State /\ Follows(r, st, {n}, A) /\ Quiet(n, r)
         /\ r.tree[n].expanded = st.tree[n].expanded
         /\ r.tree[n].weak = st.tree[n].weak
<1> DEFINE r1 == StopDecoding(st, n)
           r  == SetBitmap(r1, n, None)
<1>0. st.tree[n] \in Slice
  BY StateFields
<1>1. /\ Follows(r1, st, {n}, A)
      /\ r1.tree[n] = [st.tree[n] EXCEPT !.decoding = FALSE]
  BY StopDecodingFollows
<1>2. r1 \in State /\ Good(r1, A)
  BY <1>1 DEF Follows, Good
<1> HIDE DEF r1
<1>3. /\ Follows(r, r1, {n}, A)
      /\ r.tree[n] = [r1.tree[n] EXCEPT !.bitmap = None]
  BY <1>2, ForgetFollows
<1> HIDE DEF r
<1>4. Follows(r, st, {n}, A)
  BY <1>1, <1>3, FollowsTransitively
<1>5. r \in State
  BY <1>3 DEF Follows, Good
<1>6. Quiet(n, r) /\ r.tree[n].expanded = st.tree[n].expanded
      /\ r.tree[n].weak = st.tree[n].weak
  BY <1>0, <1>1, <1>3 DEF Quiet, Slice
<1> QED BY <1>4, <1>5, <1>6 DEF RecycleNode, r, r1

\* ... and so does recycle of the whole subtree, which it leaves quiet.
LEMMA RecycleFollows ==
  ASSUME NEW A, NEW n \in Node, NEW st, st \in State, Good(st, A)
  PROVE  Follows(Recycle[n][st], st, Sub(n), A) /\ <<n, Recycle[n][st]>> \in Recycled
<1> DEFINE S == {p \in Node : \A q \in State : Good(q, A) =>
                   Follows(Recycle[p][q], q, Sub(p), A) /\ <<p, Recycle[p][q]>> \in Recycled}
<1>1. ASSUME NEW p \in Node, Range(Kids[p]) \subseteq S PROVE p \in S
  <2> SUFFICES ASSUME NEW q \in State, Good(q, A)
               PROVE  Follows(Recycle[p][q], q, Sub(p), A) /\ <<p, Recycle[p][q]>> \in Recycled
    OBVIOUS
  <2> DEFINE q1 == RecycleNode(q, p)
             r  == ForEach(OfKids(Recycle, p), q1)
  <2>1. /\ q1 \in State /\ Follows(q1, q, {p}, A) /\ Quiet(p, q1)
    BY RecycleNodeFollows
  <2>2. Recycle[p][q] = IF q1.tree[p].expanded THEN r ELSE q1
    BY RecycleIs DEF RecycleVisit
  <2>3. Does(Recycle, p, Recycled, A)
    BY <1>1, RecycleIs, KidsType DEF Does, Methods
  <2> HIDE DEF q1, S
  <2>4. Good(q1, A)
    BY <2>1 DEF Follows
  <2>5. CASE q1.tree[p].expanded
    <3>1. Follows(r, q1, Below[p], A) /\ \A c \in Range(Kids[p]) : <<c, r>> \in Recycled
      BY <2>1, <2>3, <2>4, <2>5, RecycledIsLocal, ForEachFollows
    <3> HIDE DEF r
    <3>2. r \in State /\ r.tree[p] = q1.tree[p]
      BY <3>1, NotBelowItself DEF Follows, Good, Only
    <3>3. Follows(r, q1, Sub(p), A) /\ Follows(q1, q, Sub(p), A)
      BY <2>1, <3>1, FollowsWithin DEF Sub
    <3>4. Follows(r, q, Sub(p), A)
      BY <3>3, FollowsTransitively
    <3>5. \A m \in Sub(p) : Quiet(m, r)
      <4> SUFFICES ASSUME NEW m \in Sub(p), m # p PROVE Quiet(m, r)
        BY <2>1, <3>2 DEF Quiet
      <4>1. PICK c \in Range(Kids[p]) : m \in Sub(c)
        BY BelowIs DEF Sub
      <4>2. c \in Node
        BY KidsType
      <4> QED BY <3>1, <3>2, <4>1, <4>2, RecycledIsLocal
    <3> QED BY <2>2, <2>5, <3>2, <3>4, <3>5, RecycledIsLocal
  <2>6. CASE ~q1.tree[p].expanded
    <3>1. Follows(q1, q, Sub(p), A)
      BY <2>1, FollowsWithin DEF Sub
    <3>2. \A m \in Below[p] : Quiet(m, q1)
      BY <2>4, <2>6, NothingBelow, NewNodeFields DEF Good, Quiet
    <3>3. \A m \in Sub(p) : Quiet(m, q1)
      BY <2>1, <3>2 DEF Sub
    <3> QED BY <2>1, <2>2, <2>6, <3>1, <3>3, RecycledIsLocal
  <2> QED BY <2>5, <2>6
<1> HIDE DEF S
<1>2. Node \subseteq S
  BY <1>1, TreeInduction
<1> QED BY <1>2 DEF S

\* recycleChildren keeps the invariant of the tree.
LEMMA RecycleChildrenFollows ==
  ASSUME NEW A, NEW n \in Node, NEW st, st \in State, Good(st, A)
  PROVE  LET r == RecycleChildren(st, n) IN
         /\ r \in State /\ Follows(r, st, Sub(n), A)
         /\ \A m \in Below[n] : Quiet(m, r)
         /\ r.tree[n].decoding = st.tree[n].decoding
         /\ r.tree[n].bitmap = st.tree[n].bitmap
         /\ r.tree[n].weak = st.tree[n].weak /\ r.tree[n].invalid = st.tree[n].invalid
<1> DEFINE r == RecycleChildren(st, n)
           st1 == ForEach(OfKids(Recycle, n), st)
           st2 == Detach(st1, n)
<1>1. CASE ~st.tree[n].expanded
  <2>1. r = st
    BY <1>1 DEF RecycleChildren
  <2>2. \A m \in Below[n] : Quiet(m, st)
    BY <1>1, NothingBelow, NewNodeFields DEF Good, Quiet
  <2> HIDE DEF r
  <2>3. Follows(r, st, Sub(n), A)
    BY <2>1, FollowsItself
  <2> QED BY <2>1, <2>2, <2>3 DEF r
<1>2. CASE st.tree[n].expanded
  <2>1. r = IF ChildrenContainBitmaps(st1, n) THEN st1 ELSE st2
    BY <1>2 DEF RecycleChildren
  <2>2. Does(Recycle, n, Recycled, A)
    BY RecycleFollows, RecycleIs, KidsType DEF Does, Methods
  <2>3. Follows(st1, st, Below[n], A) /\ \A c \in Range(Kids[n]) : <<c, st1>> \in Recycled
    BY <1>2, <2>2, RecycledIsLocal, ForEachFollows
  <2> HIDE DEF st1, st2, r
  <2>4. st1 \in State /\ st1.tree[n] = st.tree[n] /\ Good(st1, A)
    BY <2>3, NotBelowItself DEF Follows, Good, Only
  <2>5. Follows(st1, st, Sub(n), A)
    BY <2>3, FollowsWithin DEF Sub
  <2>6. ASSUME NEW m \in Below[n] PROVE Quiet(m, st1)
    <3>1. PICK c \in Range(Kids[n]) : m \in Sub(c)
      BY BelowIs
    <3>2. c \in Node
      BY KidsType
    <3> QED BY <2>3, <2>4, <3>1, <3>2, RecycledIsLocal
  <2>7. CASE ChildrenContainBitmaps(st1, n)
    BY <2>1, <2>4, <2>5, <2>6, <2>7 DEF r
  <2>8. CASE ~ChildrenContainBitmaps(st1, n)
    <3>1. \A m \in Below[n] : ~st1.tree[m].decoding /\ st1.tree[m].weak = None
      BY <2>6, <2>8 DEF ChildrenContainBitmaps, GetBitmap, Quiet
    <3>2. /\ Follows(st2, st1, Sub(n), A)
          /\ st2.tree[n] = [st1.tree[n] EXCEPT !.expanded = FALSE]
          /\ \A m \in Below[n] : st2.tree[m] = NewNode
      BY <2>4, <3>1, DetachFollows DEF st2
    <3>3. Follows(st2, st, Sub(n), A)
      BY <2>5, <3>2, FollowsTransitively
    <3>4. st.tree[n] \in Slice
      BY StateFields
    <3>5. /\ st2.tree[n].decoding = st.tree[n].decoding
          /\ st2.tree[n].bitmap = st.tree[n].bitmap
          /\ st2.tree[n].weak = st.tree[n].weak /\ st2.tree[n].invalid = st.tree[n].invalid
      BY <2>4, <3>2, <3>4 DEF Slice
    <3>6. \A m \in Below[n] : Quiet(m, st2)
      BY <3>2, NewNodeFields DEF Quiet
    <3>7. st2 \in State
      BY <3>2 DEF Follows, Good
    <3>8. r = st2
      BY <2>1, <2>8
    <3> QED BY <3>3, <3>5, <3>6, <3>7, <3>8 DEF r
  <2> QED BY <2>7, <2>8
<1> QED BY <1>1, <1>2
-----------------------------------------------------------------------------
\* The children of an expanded node have a parent.
LEMMA ChildHasParent ==
  ASSUME NEW st, NEW n \in Node, st.tree[n].expanded, NEW c \in Range(Kids[n])
  PROVE  HasParent(st, c)
BY OneParent DEF HasParent

\* A parent is outside the subtree of its child ...
LEMMA ParentOutside ==
  ASSUME NEW p \in Node, NEW c \in Range(Kids[p]) PROVE p \notin Sub(c)
BY BelowIs, NotBelowItself

\* ... and so what a method does there leaves the parent alone.
LEMMA ParentStays ==
  ASSUME NEW st, NEW r, NEW n \in Node, HasParent(st, n), Only(st, r, Sub(n))
  PROVE  HasParent(r, n)
BY ParentOutside DEF HasParent, Only

\* What shows a node shows the nodes above it.
LEMMA VisibleUp ==
  ASSUME NEW v \in Views, NEW n \in Node, NEW m \in Sub(n), m \in v
  PROVE  n \in v
<1> DEFINE S == {p \in Node : \A q \in Sub(p) : q \in v => p \in v}
<1>1. ASSUME NEW p \in Node, Range(Kids[p]) \subseteq S PROVE p \in S
  <2> SUFFICES ASSUME NEW q \in Sub(p), q \in v, q # p PROVE p \in v
    OBVIOUS
  <2>1. PICK c \in Range(Kids[p]) : q \in Sub(c)
    BY BelowIs DEF Sub
  <2>2. c \in v
    BY <1>1, <2>1
  <2> QED BY <2>2, TreeAssumption DEF TreeAssumption
<1> HIDE DEF S
<1>2. Node \subseteq S
  BY <1>1, TreeInduction
<1> QED BY <1>2 DEF S

\* A leaf is below the threshold.
LEMMA LeavesShow ==
  ASSUME NEW st \in State, NEW n \in Node, ThresholdHit(st, n) PROVE Kids[n] # <<>>
<1>1. st.zoom \in Zoom
  BY StateFields
<1>2. st.zoom \in Nat /\ Level[n] \in Nat
  BY <1>1, TreeAssumption DEF TreeAssumption
<1>3. Kids[n] = <<>> => st.zoom <= Level[n]
  BY <1>1, TreeAssumption DEF TreeAssumption
<1> QED BY <1>2, <1>3 DEF ThresholdHit

\* invalidateChildren keeps the invariant of the tree.
LEMMA InvalidateChildrenFollows ==
  ASSUME NEW A, NEW n \in Node, NEW st, st \in State, Good(st, A), HasParent(st, n)
  PROVE  LET r == InvalidateChildren(st, n) IN
         /\ r \in State /\ Follows(r, st, Sub(n), A)
         /\ \A m \in Below[n] : r.tree[m] = st.tree[m] \/ Quiet(m, r)
         /\ ThresholdHit(st, n) /\ Visible(st, n) => r.tree[n].expanded
         /\ r.tree[n].decoding = st.tree[n].decoding
         /\ r.tree[n].bitmap = st.tree[n].bitmap
         /\ r.tree[n].weak = st.tree[n].weak /\ r.tree[n].invalid = st.tree[n].invalid
<1> DEFINE r == InvalidateChildren(st, n)
           d == [st EXCEPT !.tree[n].expanded = TRUE]
           q == RecycleChildren(st, n)
<1>1. CASE ThresholdHit(st, n) /\ Visible(st, n)
  <2>1. r = d
    BY <1>1 DEF InvalidateChildren
  <2>2. Follows(d, st, {n}, A) /\ d.tree[n] = [st.tree[n] EXCEPT !.expanded = TRUE]
    BY <1>1, LeavesShow, DivideFollows
  <2> HIDE DEF r, d
  <2>3. Follows(r, st, Sub(n), A) /\ r \in State
    BY <2>1, <2>2, FollowsWithin DEF Sub, Follows, Good
  <2>4. \A m \in Below[n] : r.tree[m] = st.tree[m]
    BY <2>1, <2>2, NotBelowItself, BelowIs DEF Follows, Only
  <2>5. st.tree[n] \in Slice
    BY StateFields
  <2>6. /\ r.tree[n].expanded
        /\ r.tree[n].decoding = st.tree[n].decoding
        /\ r.tree[n].bitmap = st.tree[n].bitmap
        /\ r.tree[n].weak = st.tree[n].weak /\ r.tree[n].invalid = st.tree[n].invalid
    BY <2>1, <2>2, <2>5 DEF Slice
  <2> QED BY <2>3, <2>4, <2>6 DEF r
<1>2. CASE ~(ThresholdHit(st, n) /\ Visible(st, n))
  <2>1. r = st \/ r = q
    BY <1>2 DEF InvalidateChildren
  <2>2. /\ q \in State /\ Follows(q, st, Sub(n), A)
        /\ \A m \in Below[n] : Quiet(m, q)
        /\ q.tree[n].decoding = st.tree[n].decoding
        /\ q.tree[n].bitmap = st.tree[n].bitmap
        /\ q.tree[n].weak = st.tree[n].weak /\ q.tree[n].invalid = st.tree[n].invalid
    BY RecycleChildrenFollows
  <2> HIDE DEF r, q
  <2>3. Follows(st, st, Sub(n), A)
    BY FollowsItself
  <2> QED BY <1>2, <2>1, <2>2, <2>3 DEF r
<1> QED BY <1>1, <1>2
-----------------------------------------------------------------------------
\* Nothing is decoded in the subtree of a node, and what it keeps is out of date.
Stale(m, st) ==
  ~st.tree[m].decoding /\ (st.tree[m].weak # None => st.tree[m].invalid)

Outdated == {p \in Node \X State : \A m \in Sub(p[1]) : Stale(m, p[2])}

\* Whether a subtree is out of date depends on that subtree only.
LEMMA OutdatedIsLocal ==
  /\ Local(Outdated)
  /\ \A n \in Node : \A st \in State :
       <<n, st>> \in Outdated <=> \A m \in Sub(n) : Stale(m, st)
BY DEF Local, Outdated, Stale

\* invalidateRecursive keeps the invariant, and leaves the subtree out of date.
LEMMA InvalidateRecursiveFollows ==
  ASSUME NEW A, NEW n \in Node, NEW st, st \in State, Good(st, A), HasParent(st, n)
  PROVE  /\ Follows(InvalidateRecursive[n][st], st, Sub(n), A)
         /\ <<n, InvalidateRecursive[n][st]>> \in Outdated
<1> DEFINE S == {p \in Node : \A q \in State : Good(q, A) /\ HasParent(q, p) =>
                   /\ Follows(InvalidateRecursive[p][q], q, Sub(p), A)
                   /\ <<p, InvalidateRecursive[p][q]>> \in Outdated}
<1>1. ASSUME NEW p \in Node, Range(Kids[p]) \subseteq S PROVE p \in S
  <2> SUFFICES ASSUME NEW q \in State, Good(q, A), HasParent(q, p)
               PROVE  /\ Follows(InvalidateRecursive[p][q], q, Sub(p), A)
                      /\ <<p, InvalidateRecursive[p][q]>> \in Outdated
    OBVIOUS
  <2> DEFINE q1 == [q EXCEPT !.tree[p].invalid = TRUE]
             l  == ForEach(OfKids(InvalidateRecursive, p), q1)
             q2 == IF q1.tree[p].expanded THEN l ELSE q1
             r  == StopDecoding(q2, p)
  <2>1. Follows(q1, q, {p}, A) /\ q1.tree[p] = [q.tree[p] EXCEPT !.invalid = TRUE]
    BY MarkFollows
  <2>2. InvalidateRecursive[p][q] = r
    BY InvalidateRecursiveIs DEF MarkVisit
  <2>3. Does(InvalidateRecursive, p, Outdated, A)
    <3> SUFFICES ASSUME NEW c \in Range(Kids[p])
                 PROVE  /\ InvalidateRecursive[c] \in [State -> State]
                        /\ \A x \in State : Good(x, A) /\ x.tree[p].expanded =>
                             /\ Follows(InvalidateRecursive[c][x], x, Sub(c), A)
                             /\ <<c, InvalidateRecursive[c][x]>> \in Outdated
      BY DEF Does
    <3>1. c \in Node /\ InvalidateRecursive[c] \in [State -> State]
      BY InvalidateRecursiveIs, KidsType DEF Methods
    <3>2. \A x \in State : x.tree[p].expanded => HasParent(x, c)
      BY ChildHasParent
    <3> QED BY <1>1, <3>1, <3>2
  <2> HIDE DEF q1, S
  <2>4. Good(q1, A) /\ q1 \in State
    BY <2>1 DEF Follows, Good
  <2>5. q.tree[p] \in Slice
    BY StateFields
  <2>6. q1.tree[p].invalid
    BY <2>1, <2>5 DEF Slice
  <2>7. /\ q2 \in State /\ Follows(q2, q1, Below[p], A)
        /\ \A m \in Below[p] : Stale(m, q2)
    <3>1. CASE q1.tree[p].expanded
      <4>1. /\ Follows(l, q1, Below[p], A)
            /\ \A c \in Range(Kids[p]) : <<c, l>> \in Outdated
        BY <2>3, <2>4, <3>1, OutdatedIsLocal, ForEachFollows
      <4>2. q2 = l
        BY <3>1
      <4> HIDE DEF l, q2
      <4>3. l \in State
        BY <4>1 DEF Follows, Good
      <4>4. ASSUME NEW m \in Below[p] PROVE Stale(m, l)
        <5>1. PICK c \in Range(Kids[p]) : m \in Sub(c)
          BY BelowIs
        <5>2. c \in Node
          BY KidsType
        <5> QED BY <4>1, <4>3, <5>1, <5>2, OutdatedIsLocal
      <4> QED BY <4>1, <4>2, <4>3, <4>4
    <3>2. CASE ~q1.tree[p].expanded
      <4>1. q2 = q1
        BY <3>2
      <4> HIDE DEF q2
      <4>2. \A m \in Below[p] : Stale(m, q1)
        BY <2>4, <3>2, NothingBelow, NewNodeFields DEF Good, Stale
      <4> QED BY <2>4, <4>1, <4>2, FollowsItself
    <3> QED BY <3>1, <3>2
  <2> HIDE DEF q2
  <2>8. q2.tree[p] = q1.tree[p] /\ Good(q2, A)
    BY <2>7, NotBelowItself DEF Follows, Only
  <2>9. /\ Follows(r, q2, {p}, A)
        /\ r.tree[p] = [q2.tree[p] EXCEPT !.decoding = FALSE]
    BY <2>7, <2>8, StopDecodingFollows
  <2> HIDE DEF r
  <2>10. Follows(r, q, Sub(p), A)
    <3>1. /\ Follows(q1, q, Sub(p), A) /\ Follows(q2, q1, Sub(p), A)
          /\ Follows(r, q2, Sub(p), A)
      BY <2>1, <2>7, <2>9, FollowsWithin DEF Sub
    <3>2. Follows(q2, q, Sub(p), A)
      BY <3>1, FollowsTransitively
    <3> QED BY <3>1, <3>2, FollowsTransitively
  <2>11. \A m \in Sub(p) : Stale(m, r)
    <3>1. q2.tree[p] \in Slice
      BY <2>7, StateFields
    <3>2. Stale(p, r)
      BY <2>6, <2>8, <2>9, <3>1 DEF Slice, Stale
    <3>3. \A m \in Below[p] : r.tree[m] = q2.tree[m]
      BY <2>9, NotBelowItself, BelowIs DEF Follows, Only
    <3> QED BY <2>7, <3>2, <3>3 DEF Stale, Sub
  <2>12. r \in State
    BY <2>9 DEF Follows, Good
  <2> QED BY <2>2, <2>10, <2>11, <2>12, OutdatedIsLocal
<1> HIDE DEF S
<1>2. Node \subseteq S
  BY <1>1, TreeInduction
<1> QED BY <1>2 DEF S
-----------------------------------------------------------------------------
\* Only a visible node is decoded, and what such a node shows is up to date or
\* being decoded.
Settled(m, st) ==
  /\ st.tree[m].decoding => Visible(st, m)
  /\ /\ Visible(st, m) /\ ~ThresholdHit(st, m)
     /\ st.tree[m].bitmap # None /\ st.tree[m].invalid
     => st.tree[m].decoding

\* The visible leaves in the subtree of n are shown, or going to be.
Covered(n, st) ==
  \A m \in Sub(n) : Kids[m] = <<>> /\ Visible(st, m) =>
    \E p \in Sub(n) : m \in Sub(p) /\ (st.tree[p].bitmap # None \/ st.tree[p].decoding)

Updated == {p \in Node \X State : /\ \A m \in Sub(p[1]) : Settled(m, p[2])
                                  /\ Covered(p[1], p[2])}

\* Whether a subtree is up to date depends on that subtree only.
LEMMA UpdatedIsLocal ==
  /\ Local(Updated)
  /\ \A n \in Node : \A st \in State :
       <<n, st>> \in Updated <=> (\A m \in Sub(n) : Settled(m, st)) /\ Covered(n, st)
<1>1. ASSUME NEW c \in Node, NEW r \in State, NEW q \in State,
             q.view = r.view, q.zoom = r.zoom, \A m \in Sub(c) : q.tree[m] = r.tree[m]
      PROVE  /\ \A m \in Sub(c) : Settled(m, r) => Settled(m, q)
             /\ Covered(c, r) => Covered(c, q)
  <2>1. \A m \in Sub(c) : Settled(m, r) => Settled(m, q)
    BY <1>1 DEF Settled, Visible, ThresholdHit
  <2>2. ASSUME Covered(c, r), NEW m \in Sub(c), Kids[m] = <<>>, Visible(q, m)
        PROVE  \E p \in Sub(c) :
                 m \in Sub(p) /\ (q.tree[p].bitmap # None \/ q.tree[p].decoding)
    <3>1. Visible(r, m)
      BY <1>1, <2>2 DEF Visible
    <3>2. PICK p \in Sub(c) :
            m \in Sub(p) /\ (r.tree[p].bitmap # None \/ r.tree[p].decoding)
      BY <2>2, <3>1 DEF Covered
    <3> QED BY <1>1, <3>2
  <2> QED BY <2>1, <2>2 DEF Covered
<1>2. \A n \in Node : \A st \in State :
        <<n, st>> \in Updated <=> (\A m \in Sub(n) : Settled(m, st)) /\ Covered(n, st)
  BY DEF Updated
<1>3. Local(Updated)
  BY <1>1, <1>2 DEF Local
<1> QED BY <1>2, <1>3

\* A visible slice below the threshold is shown or decoded.
LEMMA ShowFollows ==
  ASSUME NEW A, NEW n \in Node, NEW st, st \in State, Good(st, A), HasParent(st, n)
  PROVE  LET r == Show(st, n) IN
         /\ r \in State /\ Follows(r, st, {n}, A)
         /\ r.tree[n].expanded = st.tree[n].expanded
         /\ Visible(st, n) /\ ~ThresholdHit(st, n) =>
              r.tree[n].decoding \/ (r.tree[n].bitmap # None /\ ~r.tree[n].invalid)
         /\ ~Visible(st, n) \/ ThresholdHit(st, n) => r = st
<1> DEFINE r == Show(st, n)
           b == st.tree[n].weak
           r1 == SetBitmap(st, n, b)
           r2 == Decode(st, n)
<1>0. st.tree[n] \in Slice
  BY StateFields
<1>1. CASE ~Visible(st, n) \/ ThresholdHit(st, n)
  <2>1. r = st
    BY <1>1 DEF Show
  <2> HIDE DEF r
  <2> QED BY <1>1, <2>1, FollowsItself DEF r
<1>2. CASE /\ Visible(st, n) /\ ~ThresholdHit(st, n)
           /\ b # None /\ ~st.tree[n].invalid
  <2>1. r = r1
    BY <1>2 DEF Show, GetBitmap
  <2>2. Follows(r1, st, {n}, A) /\ r1.tree[n] = [st.tree[n] EXCEPT !.bitmap = b]
    BY <1>2, RestoreFollows
  <2> HIDE DEF r, r1
  <2>3. r.tree[n].bitmap = b /\ r.tree[n].invalid = st.tree[n].invalid
        /\ r.tree[n].expanded = st.tree[n].expanded
    BY <1>0, <2>1, <2>2 DEF Slice
  <2>4. r \in State /\ Follows(r, st, {n}, A)
    BY <2>1, <2>2 DEF Follows, Good
  <2> QED BY <1>2, <2>3, <2>4 DEF r
<1>3. CASE /\ Visible(st, n) /\ ~ThresholdHit(st, n)
           /\ ~(b # None /\ ~st.tree[n].invalid)
  <2>1. r = r2
    BY <1>3 DEF Show, GetBitmap
  <2>2. Follows(r2, st, {n}, A) /\ r2.tree[n] = [st.tree[n] EXCEPT !.decoding = TRUE]
    BY DecodeFollows
  <2> HIDE DEF r, r2
  <2>3. r.tree[n].decoding /\ r.tree[n].expanded = st.tree[n].expanded
    BY <1>0, <2>1, <2>2 DEF Slice
  <2>4. r \in State /\ Follows(r, st, {n}, A)
    BY <2>1, <2>2 DEF Follows, Good
  <2> QED BY <1>3, <2>3, <2>4 DEF r
<1> QED BY <1>1, <1>2, <1>3

\* What is out of sight or hidden is given up.
LEMMA SettleFollows ==
  ASSUME NEW A, NEW n \in Node, NEW st, st \in State, Good(st, A)
  PROVE  LET r == Settle(st, n) IN
         /\ r \in State /\ Follows(r, st, {n}, A)
         /\ r.tree[n].expanded = st.tree[n].expanded
         /\ Visible(st, n) /\ ~HiddenByChildren(st, n) => r = st
         /\ ~Visible(st, n) \/ HiddenByChildren(st, n) => Quiet(n, r)
<1> DEFINE r == Settle(st, n)
<1>1. CASE Visible(st, n) /\ ~HiddenByChildren(st, n)
  <2>1. r = st
    BY <1>1 DEF Settle
  <2> HIDE DEF r
  <2> QED BY <1>1, <2>1, FollowsItself DEF r
<1>2. CASE ~(Visible(st, n) /\ ~HiddenByChildren(st, n))
  <2>1. r = RecycleNode(st, n)
    BY <1>2 DEF Settle, RecycleNode
  <2> HIDE DEF r
  <2> QED BY <1>2, <2>1, RecycleNodeFollows DEF r
<1> QED BY <1>1, <1>2

\* updateVisibility keeps the invariant, and leaves the subtree up to date.
LEMMA UpdateVisibilityFollows ==
  ASSUME NEW A, NEW n \in Node, NEW st, st \in State, Good(st, A), HasParent(st, n)
  PROVE  /\ Follows(UpdateVisibility[n][st], st, Sub(n), A)
         /\ <<n, UpdateVisibility[n][st]>> \in Updated
<1> DEFINE S == {p \in Node : \A q \in State : Good(q, A) /\ HasParent(q, p) =>
                   /\ Follows(UpdateVisibility[p][q], q, Sub(p), A)
                   /\ <<p, UpdateVisibility[p][q]>> \in Updated}
<1>1. ASSUME NEW p \in Node, Range(Kids[p]) \subseteq S PROVE p \in S
  <2> SUFFICES ASSUME NEW q \in State, Good(q, A), HasParent(q, p)
               PROVE  /\ Follows(UpdateVisibility[p][q], q, Sub(p), A)
                      /\ <<p, UpdateVisibility[p][q]>> \in Updated
    OBVIOUS
  <2> DEFINE q1 == InvalidateChildren(q, p)
             l  == ForEach(OfKids(UpdateVisibility, p), q1)
             q2 == IF q1.tree[p].expanded THEN l ELSE q1
             q3 == Show(q2, p)
             r  == Settle(q3, p)
  <2>1. /\ q1 \in State /\ Follows(q1, q, Sub(p), A)
        /\ ThresholdHit(q, p) /\ Visible(q, p) => q1.tree[p].expanded
    BY InvalidateChildrenFollows
  <2>2. UpdateVisibility[p][q] = r
    BY UpdateVisibilityIs DEF UpdateVisit
  <2>3. Does(UpdateVisibility, p, Updated, A)
    <3> SUFFICES ASSUME NEW c \in Range(Kids[p])
                 PROVE  /\ UpdateVisibility[c] \in [State -> State]
                        /\ \A x \in State : Good(x, A) /\ x.tree[p].expanded =>
                             /\ Follows(UpdateVisibility[c][x], x, Sub(c), A)
                             /\ <<c, UpdateVisibility[c][x]>> \in Updated
      BY DEF Does
    <3>1. c \in Node /\ UpdateVisibility[c] \in [State -> State]
      BY UpdateVisibilityIs, KidsType DEF Methods
    <3>2. \A x \in State : x.tree[p].expanded => HasParent(x, c)
      BY ChildHasParent
    <3> QED BY <1>1, <3>1, <3>2
  <2> HIDE DEF q1, S
  <2>4. Good(q1, A) /\ q1.view = q.view /\ q1.zoom = q.zoom /\ HasParent(q1, p)
    <3>1. Good(q1, A) /\ q1.view = q.view /\ q1.zoom = q.zoom /\ Only(q, q1, Sub(p))
      BY <2>1 DEF Follows, Fixed
    <3> QED BY <3>1, ParentStays
  <2>5. /\ q2 \in State /\ Follows(q2, q1, Below[p], A)
        /\ \A m \in Below[p] : Settled(m, q2)
        /\ q1.tree[p].expanded => \A c \in Range(Kids[p]) : Covered(c, q2)
    <3>1. CASE q1.tree[p].expanded
      <4>1. /\ Follows(l, q1, Below[p], A)
            /\ \A c \in Range(Kids[p]) : <<c, l>> \in Updated
        BY <2>1, <2>3, <2>4, <3>1, UpdatedIsLocal, ForEachFollows
      <4>2. q2 = l
        BY <3>1
      <4> HIDE DEF l, q2
      <4>3. l \in State
        BY <4>1 DEF Follows, Good
      <4>4. ASSUME NEW m \in Below[p] PROVE Settled(m, l)
        <5>1. PICK c \in Range(Kids[p]) : m \in Sub(c)
          BY BelowIs
        <5>2. c \in Node
          BY KidsType
        <5> QED BY <4>1, <4>3, <5>1, <5>2, UpdatedIsLocal
      <4>5. \A c \in Range(Kids[p]) : Covered(c, l)
        BY <4>1, <4>3, KidsType, UpdatedIsLocal
      <4> QED BY <4>1, <4>2, <4>3, <4>4, <4>5
    <3>2. CASE ~q1.tree[p].expanded
      <4>1. q2 = q1
        BY <3>2
      <4> HIDE DEF q2
      <4>2. \A m \in Below[p] : Settled(m, q1)
        BY <2>4, <3>2, NothingBelow, NewNodeFields DEF Good, Settled
      <4> QED BY <2>1, <2>4, <3>2, <4>1, <4>2, FollowsItself
    <3> QED BY <3>1, <3>2
  <2> HIDE DEF q2
  <2>6. /\ q2.tree[p] = q1.tree[p] /\ Good(q2, A) /\ Follows(q2, q1, Sub(p), A)
        /\ q2.view = q.view /\ q2.zoom = q.zoom /\ HasParent(q2, p)
    <3>1. /\ q2.tree[p] = q1.tree[p] /\ Good(q2, A)
          /\ q2.view = q.view /\ q2.zoom = q.zoom
      BY <2>4, <2>5, NotBelowItself DEF Follows, Fixed, Only
    <3>2. Follows(q2, q1, Sub(p), A)
      BY <2>5, FollowsWithin DEF Sub
    <3>3. HasParent(q2, p)
      BY <2>4, <3>2, ParentStays DEF Follows
    <3> QED BY <3>1, <3>2, <3>3
  <2>7. /\ q3 \in State /\ Follows(q3, q2, {p}, A)
        /\ q3.tree[p].expanded = q2.tree[p].expanded
        /\ Visible(q2, p) /\ ~ThresholdHit(q2, p) =>
             q3.tree[p].decoding \/ (q3.tree[p].bitmap # None /\ ~q3.tree[p].invalid)
        /\ ~Visible(q2, p) \/ ThresholdHit(q2, p) => q3 = q2
    BY <2>5, <2>6, ShowFollows
  <2> HIDE DEF q3
  <2>8. Good(q3, A) /\ q3.view = q.view /\ q3.zoom = q.zoom
    BY <2>6, <2>7 DEF Follows, Fixed
  <2>9. /\ r \in State /\ Follows(r, q3, {p}, A)
        /\ Visible(q3, p) /\ ~HiddenByChildren(q3, p) => r = q3
        /\ ~Visible(q3, p) \/ HiddenByChildren(q3, p) => Quiet(p, r)
    BY <2>7, <2>8, SettleFollows
  <2> HIDE DEF r
  <2>10. /\ Follows(r, q, Sub(p), A) /\ Good(r, A) /\ r.view = q.view /\ r.zoom = q.zoom
    <3>1. Follows(q3, q2, Sub(p), A) /\ Follows(r, q3, Sub(p), A)
      BY <2>7, <2>9, FollowsWithin DEF Sub
    <3>2. Follows(q2, q, Sub(p), A)
      BY <2>1, <2>6, FollowsTransitively
    <3>3. Follows(q3, q, Sub(p), A)
      BY <3>1, <3>2, FollowsTransitively
    <3>4. Follows(r, q, Sub(p), A)
      BY <3>1, <3>3, FollowsTransitively
    <3> QED BY <3>4 DEF Follows, Fixed
  <2>11. \A m \in Below[p] : r.tree[m] = q2.tree[m]
    BY <2>7, <2>9, NotBelowItself, BelowIs DEF Follows, Only
  <2>12. \A m : /\ Visible(q, m) <=> Visible(q2, m)
                /\ Visible(q, m) <=> Visible(q3, m)
                /\ Visible(q, m) <=> Visible(r, m)
                /\ ThresholdHit(q, m) <=> ThresholdHit(q2, m)
                /\ ThresholdHit(q, m) <=> ThresholdHit(r, m)
    BY <2>6, <2>8, <2>10 DEF Visible, ThresholdHit
  <2>13. \A m \in Sub(p) : Settled(m, r)
    <3>1. \A m \in Below[p] : Settled(m, r)
      BY <2>5, <2>11, <2>12 DEF Settled
    <3>2. Settled(p, r)
      <4>1. CASE ~Visible(q3, p) \/ HiddenByChildren(q3, p)
        BY <2>9, <4>1 DEF Settled, Quiet
      <4>2. CASE Visible(q3, p) /\ ~HiddenByChildren(q3, p)
        BY <2>7, <2>9, <2>12, <4>2 DEF Settled
      <4> QED BY <4>1, <4>2
    <3> QED BY <3>1, <3>2 DEF Sub
  <2>14. Covered(p, r)
    <3> SUFFICES ASSUME NEW m \in Sub(p), Kids[m] = <<>>, Visible(r, m)
                 PROVE  \E o \in Sub(p) :
                          m \in Sub(o) /\ (r.tree[o].bitmap # None \/ r.tree[o].decoding)
      BY DEF Covered
    <3>1. Visible(q, p)
      <4>1. q.view \in Views /\ m \in q.view
        BY <2>12 DEF Good, Visible
      <4> QED BY <4>1, VisibleUp DEF Visible
    <3>2. CASE q1.tree[p].expanded
      <4>1. Kids[p] # <<>>
        BY <2>4, <3>2 DEF Good, Divided
      <4>2. PICK c \in Range(Kids[p]) : m \in Sub(c)
        BY <4>1, BelowIs DEF Sub
      <4>3. c \in Node /\ Sub(c) \subseteq Below[p]
        BY KidsType, BelowIs
      <4>4. PICK o \in Sub(c) :
              m \in Sub(o) /\ (q2.tree[o].bitmap # None \/ q2.tree[o].decoding)
        BY <2>5, <2>12, <3>2, <4>2 DEF Covered
      <4> QED BY <2>11, <4>3, <4>4 DEF Sub
    <3>3. CASE ~q1.tree[p].expanded
      <4>1. ~ThresholdHit(q, p)
        BY <2>1, <3>1, <3>3
      <4>2. q3.tree[p].decoding \/ q3.tree[p].bitmap # None
        BY <2>7, <2>12, <3>1, <4>1
      <4>3. ~HiddenByChildren(q3, p)
        BY <2>6, <2>7, <3>3 DEF HiddenByChildren
      <4>4. r = q3
        BY <2>9, <2>12, <3>1, <4>3
      <4> QED BY <4>2, <4>4, SubType
    <3> QED BY <3>2, <3>3
  <2> QED BY <2>2, <2>9, <2>10, <2>13, <2>14, UpdatedIsLocal
<1> HIDE DEF S
<1>2. Node \subseteq S
  BY <1>1, TreeInduction
<1> QED BY <1>2 DEF S
-----------------------------------------------------------------------------
(* invalidateChildren makes no requests. *)

\* The steps of invalidateChildren make no requests ...
LEMMA StepsMade ==
  ASSUME NEW st \in State, NEW n \in Node
  PROVE  /\ RecycleNode(st, n).made = st.made /\ Detach(st, n).made = st.made
         /\ [st EXCEPT !.tree[n].expanded = TRUE].made = st.made
<1>1. Detach(st, n).made = st.made
  BY DetachFields DEF IsAltered
<1>2. [st EXCEPT !.tree[n].expanded = TRUE].made = st.made
  BY DivideFields DEF IsAltered
<1>3. RecycleNode(st, n).made = st.made
  <2> DEFINE q == StopDecoding(st, n)
  <2>1. q \in State
    <3>1. 0 \in Nat
      OBVIOUS
    <3> QED BY <3>1, StepTypes
  <2>2. q.made = st.made
    <3>1. CASE st.tree[n].decoding
      BY <3>1, StopDecodingFields DEF IsAltered
    <3> QED BY <3>1 DEF StopDecoding
  <2> HIDE DEF q
  <2>3. SetBitmap(q, n, None).made = q.made
    BY <2>1, ForgetFields DEF IsAltered
  <2> QED BY <2>2, <2>3 DEF RecycleNode, q
<1> QED BY <1>1, <1>2, <1>3

\* Each of the methods of g leaves the requests alone.
Silent(g) == \A i \in DOMAIN g : \A st \in State : g[i][st].made = st.made

\* ... nor does a loop over methods that make none ...
LEMMA ForEachMade ==
  ASSUME NEW n \in Node, NEW g \in [DOMAIN Kids[n] -> [State -> State]], Silent(g),
         NEW st \in State
  PROVE  ForEach(g, st).made = st.made
<1> DEFINE N == Len(Kids[n])
<1>1. N \in Nat /\ Calls(g, N, State) /\ DOMAIN g = 1 .. N
  BY KidsType DEF Calls
<1> HIDE DEF N
<1>2. PICK run : Runs(run, g, st, N, State) /\ ForEach(g, st) = run[N]
  BY <1>1, Loop
<1>3. /\ \A i \in 0 .. N : run[i] \in State
      /\ run[0] = st
      /\ \A i \in 1 .. N : run[i] = g[i][run[i - 1]]
  BY <1>2 DEF Runs
<1> DEFINE S == {i \in 0 .. N : run[i].made = st.made}
<1>4. 0 \in S
  BY <1>1, <1>3
<1>5. ASSUME NEW i \in 0 .. (N - 1), i \in S PROVE i + 1 \in S
  <2>1. i + 1 \in 1 .. N /\ (i + 1) - 1 = i /\ i \in 0 .. N /\ i + 1 \in 0 .. N
    BY <1>1
  <2>2. run[i + 1] = g[i + 1][run[i]] /\ run[i] \in State
    BY <1>3, <2>1
  <2>3. run[i + 1].made = run[i].made
    BY <1>1, <2>1, <2>2 DEF Silent
  <2> QED BY <1>5, <2>1, <2>3
<1> HIDE DEF S
<1>6. N \in S
  <2>1. 0 .. N \subseteq S
    BY <1>1, <1>4, <1>5, UpTo
  <2> QED BY <1>1, <2>1
<1> QED BY <1>2, <1>6 DEF S

\* ... nor recycle ...
LEMMA RecycleMade ==
  ASSUME NEW n \in Node, NEW st \in State
  PROVE  Recycle[n][st].made = st.made
<1> DEFINE S == {p \in Node : \A q \in State : Recycle[p][q].made = q.made}
<1>1. ASSUME NEW p \in Node, Range(Kids[p]) \subseteq S PROVE p \in S
  <2> SUFFICES ASSUME NEW q \in State PROVE Recycle[p][q].made = q.made
    OBVIOUS
  <2> DEFINE q1 == RecycleNode(q, p)
             g  == OfKids(Recycle, p)
  <2>1. q1 \in State /\ q1.made = q.made
    BY RecycleSteps, StepsMade
  <2>2. Recycle[p][q] = IF q1.tree[p].expanded THEN ForEach(g, q1) ELSE q1
    BY RecycleIs DEF RecycleVisit
  <2>3. g \in [DOMAIN Kids[p] -> [State -> State]]
    <3>1. \A c \in Range(Kids[p]) : Recycle[c] \in [State -> State]
      BY RecycleIs, KidsType DEF Methods
    <3> QED BY <3>1, OfKidsType
  <2>4. Silent(g)
    <3>1. \A i \in DOMAIN Kids[p] : Kids[p][i] \in S
      BY <1>1, KidsType
    <3> QED BY <3>1 DEF Silent, OfKids
  <2> HIDE DEF g, q1, S
  <2>5. ForEach(g, q1).made = q1.made
    BY <2>1, <2>3, <2>4, ForEachMade
  <2> QED BY <2>1, <2>2, <2>5
<1> HIDE DEF S
<1>2. Node \subseteq S
  BY <1>1, TreeInduction
<1> QED BY <1>2 DEF S

\* ... nor recycleChildren ...
LEMMA RecycleChildrenMade ==
  ASSUME NEW st \in State, NEW n \in Node
  PROVE  RecycleChildren(st, n).made = st.made
<1> DEFINE g   == OfKids(Recycle, n)
           st1 == ForEach(g, st)
<1>1. g \in [DOMAIN Kids[n] -> [State -> State]]
  <2>1. \A c \in Range(Kids[n]) : Recycle[c] \in [State -> State]
    BY RecycleIs, KidsType DEF Methods
  <2> QED BY <2>1, OfKidsType
<1>2. Silent(g)
  BY RecycleMade, KidsType DEF Silent, OfKids
<1> HIDE DEF g
<1>3. st1 \in State /\ st1.made = st.made
  BY <1>1, <1>2, ForEachType, ForEachMade
<1> HIDE DEF st1
<1>4. Detach(st1, n).made = st.made
  BY <1>3, StepsMade
<1> QED BY <1>3, <1>4 DEF RecycleChildren, st1, g

\* ... nor invalidateChildren itself.
LEMMA InvalidateChildrenMade ==
  ASSUME NEW st \in State, NEW n \in Node
  PROVE  InvalidateChildren(st, n).made = st.made
<1> DEFINE d == [st EXCEPT !.tree[n].expanded = TRUE]
           st1 == IF ThresholdHit(st, n) /\ Visible(st, n) THEN d ELSE st
<1>1. st1 \in State /\ st1.made = st.made
  <2>1. 0 \in Nat
    OBVIOUS
  <2>2. d \in State /\ d.made = st.made
    BY <2>1, StepTypes, StepsMade
  <2> HIDE DEF d
  <2> QED BY <2>2
<1> HIDE DEF st1
<1>2. RecycleChildren(st1, n).made = st1.made
  BY <1>1, RecycleChildrenMade
<1> QED BY <1>1, <1>2 DEF InvalidateChildren, st1
-----------------------------------------------------------------------------
(* The answer to a request. *)

\* What an answer may make of a state q that has the new bitmap.
Clears(r, q, n, p, v, l) ==
  /\ r \in State
  /\ r.tree = [q.tree EXCEPT ![n] = [@ EXCEPT !.invalid = FALSE, !.decoding = FALSE]]
  /\ r.progress = p /\ r.view = v /\ r.late = l
  /\ r.zoom = q.zoom /\ r.inZoom = q.inZoom /\ r.made = q.made
  /\ r.withdrawn = q.withdrawn /\ r.orphan = q.orphan /\ r.recycled = q.recycled

\* The fields after both flags were cleared and the counter and the view updated.
LEMMA AnswerFields ==
  ASSUME NEW q, q \in State, NEW n, n \in Node, NEW p, p \in Int, NEW v,
         v \in SUBSET Node, NEW l, l \in SUBSET Nat, NEW r,
         r = [[q EXCEPT !.tree[n].invalid = FALSE, !.tree[n].decoding = FALSE,
                        !.progress = p, !.view = v] EXCEPT !.late = l]
  PROVE  Clears(r, q, n, p, v, l)
<1> DEFINE x == [q.tree[n] EXCEPT !.invalid = FALSE, !.decoding = FALSE]
           t == [q.tree EXCEPT ![n] = x]
<1>1. x \in Slice
  <2>1. q.tree[n] \in Slice
    BY StateFields
  <2> QED BY <2>1 DEF Slice
<1>2. t \in Trees
  <2> HIDE DEF x
  <2> QED BY <1>1, StateFields, TreeExcept DEF Trees
<1>3. r = [q EXCEPT !.tree = t, !.progress = p, !.view = v, !.late = l]
  BY DEF State
<1> HIDE DEF t
<1>4. /\ [q EXCEPT !.tree = t, !.progress = p, !.view = v, !.late = l] \in State
      /\ r.tree = t
      /\ r.progress = p /\ r.view = v /\ r.late = l
      /\ r.zoom = q.zoom /\ r.inZoom = q.inZoom /\ r.made = q.made
      /\ r.withdrawn = q.withdrawn /\ r.orphan = q.orphan
      /\ r.recycled = q.recycled
  BY <1>2, <1>3 DEF State, Trees
<1> QED BY <1>3, <1>4 DEF Clears, t

\* The state when an answer has been taken, before invalidateChildren.
Delivered(st, i, v) ==
  LET n   == st.made[i].node
      st1 == SetBitmap(st, n, i)
      st2 == [st1 EXCEPT !.tree[n].invalid = FALSE,
                         !.tree[n].decoding = FALSE,
                         !.progress = IF st.tree[n].decoding THEN @ - 1 ELSE @,
                         !.view = v]
  IN [st2 EXCEPT !.late = @ \cup ({i} \cap st.withdrawn)]

\* An answer reaches the tree unless its node was cut off.
LEMMA ReceiveIs ==
  ASSUME NEW st, NEW i, NEW v
  PROVE  Receive(st, i, v) = IF i \in st.orphan THEN [st EXCEPT !.view = v]
                             ELSE InvalidateChildren(Delivered(st, i, v), st.made[i].node)
BY DEF Receive, Delivered

\* a is st after the answer to request i of node n, with the view v.
IsDelivered(a, st, i, n, v) ==
  /\ a \in State
  /\ a.tree[n].bitmap = i /\ a.tree[n].weak = i
  /\ a.tree[n].invalid = FALSE /\ a.tree[n].decoding = FALSE
  /\ a.tree[n].expanded = st.tree[n].expanded
  /\ \A m \in Node : m # n => a.tree[m] = st.tree[m]
  /\ a.progress = IF st.tree[n].decoding THEN st.progress - 1 ELSE st.progress
  /\ a.view = v /\ a.zoom = st.zoom /\ a.inZoom = st.inZoom /\ a.made = st.made
  /\ a.late = st.late \cup ({i} \cap st.withdrawn)
  /\ a.withdrawn = st.withdrawn /\ a.orphan = st.orphan
  /\ a.recycled = st.recycled \cup ({st.tree[n].bitmap} \ {None})

\* The fields after an answer was delivered, before invalidateChildren.
LEMMA DeliveredFields ==
  ASSUME NEW st \in State, NEW i \in DOMAIN st.made, NEW n \in Node, n = st.made[i].node,
         i # st.tree[n].bitmap, NEW v \in SUBSET Node
  PROVE  IsDelivered(Delivered(st, i, v), st, i, n, v)
<1> DEFINE q == SetBitmap(st, n, i)
           c == st.recycled \cup ({st.tree[n].bitmap} \ {None})
           y == [st.tree[n] EXCEPT !.bitmap = i, !.weak = i]
           p == IF st.tree[n].decoding THEN st.progress - 1 ELSE st.progress
           l == st.late \cup ({i} \cap st.withdrawn)
           a == Delivered(st, i, v)
<1>1. i \in Nat \ {None, st.tree[n].bitmap}
  BY StateFields DEF None
<1>2. IsAltered(q, st, [st.tree EXCEPT ![n] = y], st.progress, st.withdrawn, st.made,
                st.orphan, c)
  BY <1>1, TakeFields
<1>3. p \in Int /\ l \in SUBSET Nat
  BY StateFields, <1>1
<1>4. st.tree[n] \in Slice /\ st.tree \in [Node -> Slice]
  BY StateFields
<1>5. y \in Slice /\ y.bitmap = i /\ y.weak = i /\ y.expanded = st.tree[n].expanded
  BY <1>1, <1>4 DEF Slice
<1> HIDE DEF q, y, c
<1>6. /\ q \in State /\ q.tree = [st.tree EXCEPT ![n] = y] /\ q.progress = st.progress
      /\ q.withdrawn = st.withdrawn /\ q.made = st.made /\ q.orphan = st.orphan
      /\ q.recycled = c /\ q.view = st.view /\ q.zoom = st.zoom
      /\ q.inZoom = st.inZoom /\ q.late = st.late
  BY <1>2 DEF IsAltered
<1>7. a = [[q EXCEPT !.tree[n].invalid = FALSE, !.tree[n].decoding = FALSE,
                     !.progress = p, !.view = v] EXCEPT !.late = l]
  <2>1. a = [[q EXCEPT !.tree[n].invalid = FALSE, !.tree[n].decoding = FALSE,
                       !.progress = IF st.tree[n].decoding THEN q.progress - 1
                                    ELSE q.progress, !.view = v]
             EXCEPT !.late = @ \cup ({i} \cap st.withdrawn)]
    BY DEF Delivered, q
  <2>2. (IF st.tree[n].decoding THEN q.progress - 1 ELSE q.progress) = p
    BY <1>6
  <2>3. a = [[q EXCEPT !.tree[n].invalid = FALSE, !.tree[n].decoding = FALSE,
                       !.progress = p, !.view = v]
             EXCEPT !.late = @ \cup ({i} \cap st.withdrawn)]
    BY <2>1, <2>2, Zenon
  <2> HIDE DEF a, p
  <2> DEFINE z == [q EXCEPT !.tree[n].invalid = FALSE, !.tree[n].decoding = FALSE,
                            !.progress = p, !.view = v]
  <2>4. z.late = st.late /\ z = [z EXCEPT !.late = z.late]
    BY <1>6 DEF State
  <2>5. a = [z EXCEPT !.late = z.late \cup ({i} \cap st.withdrawn)]
    BY <2>3
  <2> HIDE DEF z
  <2>6. a = [z EXCEPT !.late = l]
    BY <2>4, <2>5
  <2> QED BY <2>6 DEF z
<1> HIDE DEF a, p, l
<1>8. /\ a \in State
      /\ a.tree = [q.tree EXCEPT ![n] = [@ EXCEPT !.invalid = FALSE, !.decoding = FALSE]]
      /\ a.progress = p /\ a.view = v /\ a.late = l
      /\ a.zoom = q.zoom /\ a.inZoom = q.inZoom /\ a.made = q.made
      /\ a.withdrawn = q.withdrawn /\ a.orphan = q.orphan
      /\ a.recycled = q.recycled
  <2>1. Clears(a, q, n, p, v, l)
    <3>1. q \in State /\ n \in Node /\ p \in Int /\ v \in SUBSET Node /\ l \in SUBSET Nat
      BY <1>3, <1>6
    <3> QED BY <3>1, <1>7, AnswerFields, Zenon
  <2> QED BY <2>1 DEF Clears
<1>9. q.tree[n] = y /\ \A m \in Node : m # n => q.tree[m] = st.tree[m]
  BY <1>4, <1>6
<1>10. q.tree \in [Node -> Slice]
  BY <1>6, StateFields
<1>11. /\ a.tree[n] = [y EXCEPT !.invalid = FALSE, !.decoding = FALSE]
       /\ \A m \in Node : m # n => a.tree[m] = st.tree[m]
  BY <1>8, <1>9, <1>10
<1>12. /\ a.tree[n].bitmap = i /\ a.tree[n].weak = i
       /\ a.tree[n].invalid = FALSE /\ a.tree[n].decoding = FALSE
       /\ a.tree[n].expanded = st.tree[n].expanded
  BY <1>5, <1>11 DEF Slice
<1> QED BY <1>6, <1>8, <1>11, <1>12 DEF IsDelivered, a, p, l, c

\* An answer that is delivered keeps the invariant of the tree.
LEMMA DeliveredGood ==
  ASSUME NEW A, NEW st, st \in State, Good(st, A), NEW i \in DOMAIN st.made, i \notin A,
         i \notin st.orphan, NEW n \in Node, n = st.made[i].node, NEW v \in Views, NEW a,
         IsDelivered(a, st, i, n, v)
  PROVE  /\ Good(a, A \cup {i}) /\ HasParent(a, n)
         /\ Sharp(st) /\ Current(st, A) => Sharp(a)
         /\ Current(st, A) => Current(a, A \cup {i})
<1> DEFINE B == A \cup {i}
           old == st.tree[n].bitmap
<1>1. /\ a \in State /\ a.view = v /\ a.zoom = st.zoom /\ a.inZoom = st.inZoom
      /\ a.made = st.made /\ a.withdrawn = st.withdrawn /\ a.orphan = st.orphan
      /\ a.late = st.late \cup ({i} \cap st.withdrawn)
      /\ a.recycled = st.recycled \cup ({old} \ {None})
      /\ \A m \in Node : m # n => a.tree[m] = st.tree[m]
      /\ a.tree[n].bitmap = i /\ a.tree[n].weak = i
      /\ a.tree[n].invalid = FALSE /\ a.tree[n].decoding = FALSE
      /\ a.tree[n].expanded = st.tree[n].expanded
      /\ a.progress = IF st.tree[n].decoding THEN st.progress - 1 ELSE st.progress
  BY DEF IsDelivered
<1>2. HasParent(st, n)
  BY DEF Good, Rooted, HasParent
<1>3. HasParent(a, n)
  BY <1>1, <1>2 DEF HasParent
<1>4. old # None => old \in A /\ st.made[old].node = n /\ old \notin st.recycled
  BY DEF Good, Drawable
<1>5. i # None
  BY StateFields DEF None
<1> HIDE DEF old
<1>6. Numbered(a, B)
  BY <1>1, <1>4, <1>5 DEF Good, Numbered
<1>7. Rooted(a)
  <2> SUFFICES ASSUME NEW q \in Node, NEW c \in Range(Kids[q]), ~a.tree[q].expanded
               PROVE  /\ a.tree[c] = NewNode
                      /\ \A j \in DOMAIN st.made \ st.orphan : st.made[j].node # c
    BY <1>1 DEF Rooted
  <2>1. ~st.tree[q].expanded
    BY <1>1
  <2>2. c # n
    BY <2>1, <1>2 DEF HasParent
  <2>3. c \in Node
    BY KidsType
  <2> QED BY <1>1, <2>1, <2>2, <2>3 DEF Good, Rooted
<1>8. Divided(a)
  BY <1>1 DEF Good, Divided
<1>9. Drawable(a, B)
  <2>1. a.recycled \subseteq B
    BY <1>1, <1>4 DEF Good, Drawable
  <2>2. ASSUME NEW m \in Node
        PROVE  /\ a.tree[m].bitmap \in {None, a.tree[m].weak}
               /\ a.tree[m].weak # None =>
                    /\ a.tree[m].weak \in B \ a.recycled
                    /\ a.made[a.tree[m].weak].node = m
    <3>1. CASE m = n
      <4>1. i \notin st.recycled
        BY DEF Good, Drawable
      <4>2. i # old \/ old = None
        BY <1>4
      <4> QED BY <1>1, <1>5, <3>1, <4>1, <4>2
    <3>2. CASE m # n
      <4>1. a.tree[m] = st.tree[m]
        BY <1>1, <3>2
      <4>2. /\ st.tree[m].bitmap \in {None, st.tree[m].weak}
            /\ st.tree[m].weak # None =>
                 /\ st.tree[m].weak \in A \ st.recycled
                 /\ st.made[st.tree[m].weak].node = m
        BY DEF Good, Drawable
      <4>3. st.tree[m].weak # None => st.tree[m].weak # old \/ old = None
        BY <1>4, <3>2, <4>2
      <4> QED BY <1>1, <4>1, <4>2, <4>3
    <3> QED BY <3>1, <3>2
  <2> QED BY <2>1, <2>2 DEF Drawable
<1>10. \A m : LateAt(st, m) => LateAt(a, m)
  BY <1>1 DEF LateAt
<1>11. i \in st.withdrawn => LateAt(a, n)
  BY <1>1 DEF LateAt
<1>12. Live(a, B) = Live(st, A) \ {i} /\ (i \notin st.withdrawn => i \in Live(st, A))
  BY <1>1 DEF Live
<1>13. Expected(a, B)
  <2>1. ASSUME NEW j \in Live(a, B)
        PROVE  a.tree[st.made[j].node].decoding \/ LateAt(a, st.made[j].node)
    <3>1. j \in Live(st, A) /\ j # i
      BY <1>12
    <3>2. st.tree[st.made[j].node].decoding \/ LateAt(st, st.made[j].node)
      BY <3>1 DEF Good, Expected
    <3>3. st.made[j].node \in Node
      BY <3>1, RequestFields DEF Live
    <3>4. CASE st.made[j].node # n
      BY <1>1, <1>10, <3>2, <3>3, <3>4
    <3>5. CASE st.made[j].node = n
      <4>1. i \notin Live(st, A)
        BY <3>1, <3>5 DEF Good, Expected
      <4> QED BY <1>11, <1>12, <3>5, <4>1
    <3> QED BY <3>4, <3>5
  <2>2. \A j, k \in Live(a, B) : st.made[j].node = st.made[k].node => j = k
    BY <1>12 DEF Good, Expected
  <2> QED BY <1>1, <2>1, <2>2 DEF Expected
<1>14. a.progress = Cardinality(Decoding(a))
  <2>1. \A m \in Node \ {n} : a.tree[m].decoding = st.tree[m].decoding
    BY <1>1
  <2>2. st.progress = Cardinality(Decoding(st))
    BY DEF Good
  <2>3. st.tree[n].decoding \in BOOLEAN
    BY StateFields DEF Slice
  <2>4. CASE st.tree[n].decoding
    BY <1>1, <2>1, <2>2, <2>4, Count
  <2>5. CASE ~st.tree[n].decoding
    <3>1. a.tree[n].decoding = st.tree[n].decoding
      BY <1>1, <2>3, <2>5
    <3> QED BY <1>1, <2>1, <2>2, <2>5, <3>1, Count
  <2> QED BY <2>4, <2>5
<1>15. Good(a, B)
  BY <1>1, <1>6, <1>7, <1>8, <1>9, <1>13, <1>14 DEF Good
<1>16. Current(st, A) => Current(a, B)
  BY <1>1, <1>10, <1>12 DEF Current
<1>17. ASSUME Sharp(st), Current(st, A) PROVE Sharp(a)
  <2> SUFFICES ASSUME NEW m \in Node, a.tree[m].weak # None
               PROVE  \/ st.made[a.tree[m].weak].zoom = st.zoom
                      \/ a.tree[m].invalid \/ LateAt(a, m)
    BY <1>1 DEF Sharp
  <2>1. CASE m = n
    <3>1. CASE i \in st.withdrawn
      BY <1>11, <2>1, <3>1
    <3>2. CASE i \notin st.withdrawn
      <4>1. st.made[i].zoom = st.zoom \/ LateAt(st, n)
        BY <1>12, <1>17, <3>2 DEF Current
      <4> QED BY <1>1, <1>10, <2>1, <4>1
    <3> QED BY <3>1, <3>2
  <2>2. CASE m # n
    BY <1>1, <1>10, <1>17, <2>2 DEF Sharp
  <2> QED BY <2>1, <2>2
<1> QED BY <1>3, <1>15, <1>16, <1>17

\* r differs from st at most in what the page's surroundings set.
SamePage(r, st) ==
  /\ r \in State /\ r.view \in Views
  /\ r.tree = st.tree /\ r.made = st.made /\ r.withdrawn = st.withdrawn
  /\ r.orphan = st.orphan /\ r.late = st.late /\ r.recycled = st.recycled
  /\ r.progress = st.progress

\* The surroundings of a page leave the invariant of its tree alone.
LEMMA SamePageGood ==
  ASSUME NEW A, NEW st, Good(st, A), NEW r, SamePage(r, st)
  PROVE  /\ Good(r, A)
         /\ r.zoom = st.zoom => (Sharp(st) => Sharp(r)) /\ (Current(st, A) => Current(r, A))
<1>1. Good(r, A)
  BY DEF SamePage, Good, Numbered, Rooted, Divided, Drawable, Expected, Live, LateAt,
         Decoding
<1>2. ASSUME r.zoom = st.zoom, Sharp(st) PROVE Sharp(r)
  BY <1>2 DEF SamePage, Sharp, LateAt
<1>3. ASSUME r.zoom = st.zoom, Current(st, A) PROVE Current(r, A)
  BY <1>3 DEF SamePage, Current, Live, LateAt
<1> QED BY <1>1, <1>2, <1>3

\* A request may leave the queues at any time.
LEMMA MoreAnswered ==
  ASSUME NEW A, NEW B, NEW st, Good(st, A), A \subseteq B, B \subseteq DOMAIN st.made
  PROVE  Good(st, B) /\ (Current(st, A) => Current(st, B))
<1>1. None \notin DOMAIN st.made
  BY StateFields DEF Good, None
<1>2. Live(st, B) \subseteq Live(st, A)
  BY DEF Live
<1>3. Numbered(st, B)
  BY <1>1 DEF Good, Numbered
<1>4. Drawable(st, B)
  BY DEF Good, Drawable
<1>5. Expected(st, B)
  BY <1>2 DEF Good, Expected
<1>6. Good(st, B)
  BY <1>3, <1>4, <1>5 DEF Good
<1>7. Current(st, A) => Current(st, B)
  BY <1>2 DEF Current
<1> QED BY <1>6, <1>7

Rested(st) == (\A n \in Node : Settled(n, st)) /\ Covered(Root, st)

\* The whole runnable of decodeComplete keeps the invariant of the tree.
LEMMA ReceiveFollows ==
  ASSUME NEW A, NEW st, st \in State, Good(st, A), NEW i \in DOMAIN st.made, i \notin A,
         NEW v \in Views
  PROVE  LET r == Receive(st, i, v) IN
         /\ r \in State /\ Good(r, A \cup {i})
         /\ r.made = st.made /\ r.inZoom = st.inZoom
         /\ Sharp(st) /\ Current(st, A) => Sharp(r) /\ Current(r, A \cup {i})
         /\ v = st.view /\ Rested(st) => Rested(r)
<1> DEFINE r == Receive(st, i, v)
           B == A \cup {i}
           n == st.made[i].node
           a == Delivered(st, i, v)
           q == [st EXCEPT !.view = v]
<1>0. v \in SUBSET Node
  BY TreeAssumption DEF TreeAssumption
<1>1. CASE i \in st.orphan
  <2>1. r = q
    BY <1>1, ReceiveIs
  <2>2. q \in State /\ q.inZoom = st.inZoom /\ q.made = st.made /\ q.zoom = st.zoom
        /\ q.view = v /\ q.tree = st.tree /\ q.withdrawn = st.withdrawn
        /\ q.orphan = st.orphan /\ q.late = st.late /\ q.recycled = st.recycled
        /\ q.progress = st.progress
    BY <1>0 DEF State
  <2> HIDE DEF q, r
  <2>3. SamePage(q, st)
    BY <2>2 DEF SamePage
  <2>4. Good(q, A) /\ (Sharp(st) => Sharp(q)) /\ (Current(st, A) => Current(q, A))
    BY <2>2, <2>3, SamePageGood
  <2>5. A \subseteq B /\ B \subseteq DOMAIN q.made
    BY <2>2 DEF Good, Numbered
  <2>6. Good(q, B) /\ (Current(q, A) => Current(q, B))
    BY <2>4, <2>5, MoreAnswered
  <2>7. ASSUME v = st.view, Rested(st) PROVE Rested(q)
    BY <2>2, <2>7 DEF Rested, Settled, Covered, Visible, ThresholdHit
  <2> QED BY <2>1, <2>2, <2>4, <2>6, <2>7 DEF r
<1>2. CASE i \notin st.orphan
  <2>1. n \in Node
    BY RequestFields
  <2> HIDE DEF n, a
  <2>2. i # st.tree[n].bitmap
    <3>1. i # None
      BY StateFields DEF None
    <3>2. st.tree[n].bitmap = None \/ st.tree[n].bitmap \in A
      BY <2>1 DEF Good, Drawable
    <3> QED BY <3>1, <3>2
  <2>3. IsDelivered(a, st, i, n, v)
    BY <1>0, <2>1, <2>2, DeliveredFields DEF a, n
  <2>4. /\ Good(a, B) /\ HasParent(a, n)
        /\ Sharp(st) /\ Current(st, A) => Sharp(a)
        /\ Current(st, A) => Current(a, B)
    BY <1>2, <2>1, <2>3, DeliveredGood DEF n
  <2>5. r = InvalidateChildren(a, n)
    BY <1>2, ReceiveIs DEF a, n
  <2>6. a \in State /\ a.made = st.made /\ a.view = v /\ a.inZoom = st.inZoom
        /\ a.zoom = st.zoom
    BY <2>3 DEF IsDelivered
  <2> HIDE DEF r, B
  <2>7. /\ r \in State /\ Follows(r, a, Sub(n), B)
        /\ \A m \in Below[n] : r.tree[m] = a.tree[m] \/ Quiet(m, r)
        /\ r.tree[n].decoding = a.tree[n].decoding
        /\ r.tree[n].bitmap = a.tree[n].bitmap /\ r.tree[n].invalid = a.tree[n].invalid
    BY <2>1, <2>4, <2>5, <2>6, InvalidateChildrenFollows
  <2>8. r.made = st.made
    BY <2>1, <2>5, <2>6, InvalidateChildrenMade
  <2>9. r.inZoom = st.inZoom /\ r.view = v /\ r.zoom = st.zoom /\ Good(r, B)
    BY <2>6, <2>7 DEF Follows, Fixed
  <2>10. Sharp(st) /\ Current(st, A) => Sharp(r) /\ Current(r, B)
    BY <2>4, <2>7 DEF Follows
  <2>11. ASSUME v = st.view, Rested(st) PROVE Rested(r)
    <3>1. r.tree[n].bitmap = i /\ i # None
          /\ r.tree[n].decoding = FALSE /\ r.tree[n].invalid = FALSE
      BY <2>3, <2>7, StateFields DEF IsDelivered, None
    <3>2. \A m : /\ Visible(r, m) <=> Visible(st, m)
                 /\ ThresholdHit(r, m) <=> ThresholdHit(st, m)
      BY <2>9, <2>11 DEF Visible, ThresholdHit
    <3>3. \A m \in Node : \/ m = n
                          \/ r.tree[m] = st.tree[m]
                          \/ m \in Sub(n) /\ Quiet(m, r)
      <4> SUFFICES ASSUME NEW m \in Node, m # n
                   PROVE  r.tree[m] = st.tree[m] \/ (m \in Sub(n) /\ Quiet(m, r))
        OBVIOUS
      <4>1. a.tree[m] = st.tree[m]
        BY <2>3 DEF IsDelivered
      <4>2. CASE m \in Sub(n)
        BY <2>7, <4>1, <4>2 DEF Sub
      <4>3. CASE m \notin Sub(n)
        BY <2>7, <4>1, <4>3 DEF Follows, Only
      <4> QED BY <4>2, <4>3
    <3>4. \A m \in Node : Settled(m, r)
      BY <2>11, <3>1, <3>2, <3>3 DEF Rested, Settled, Quiet
    <3>5. ASSUME NEW m \in Sub(Root), Kids[m] = <<>>, Visible(r, m)
          PROVE  \E p \in Sub(Root) :
                   m \in Sub(p) /\ (r.tree[p].bitmap # None \/ r.tree[p].decoding)
      <4>1. PICK p \in Sub(Root) :
              m \in Sub(p) /\ (st.tree[p].bitmap # None \/ st.tree[p].decoding)
        BY <2>11, <3>2, <3>5 DEF Rested, Covered
      <4>2. p \in Node /\ n \in Sub(Root)
        BY <2>1, RootAboveAll
      <4>3. CASE r.tree[p] = st.tree[p]
        BY <4>1, <4>3
      <4>4. CASE p \in Sub(n)
        <5>1. m \in Sub(n)
          BY <2>1, <4>1, <4>4, BelowIsTransitive
        <5> QED BY <3>1, <4>2, <5>1
      <4> QED BY <2>1, <3>3, <4>2, <4>3, <4>4, SubType
    <3> QED BY <3>4, <3>5 DEF Rested, Covered
  <2> QED BY <2>7, <2>8, <2>9, <2>10, <2>11 DEF r, B
<1> QED BY <1>1, <1>2
-----------------------------------------------------------------------------
(* The two queues. *)

\* No request is in q twice.
Once(q) == \A a, b \in DOMAIN q : q[a] = q[b] /\ q[a] # Visibility => a = b

\* Taking the first one leaves the rest, each once ...
LEMMA TakenOnce ==
  ASSUME NEW S, NEW q, q \in Seq(S), q # <<>>, Once(q)
  PROVE  /\ Tail(q) \in Seq(S) /\ Once(Tail(q)) /\ Head(q) \in S
         /\ Range(q) = Range(Tail(q)) \cup {Head(q)}
         /\ Head(q) # Visibility => Head(q) \notin Range(Tail(q))
<1> DEFINE t == Tail(q)
<1>1. /\ t \in Seq(S) /\ Head(q) \in S /\ Head(q) = q[1]
      /\ DOMAIN q = 1 .. Len(q) /\ Len(q) \in Nat \ {0}
      /\ DOMAIN t = 1 .. (Len(q) - 1)
      /\ \A i \in DOMAIN t : t[i] = q[i + 1]
  BY TakeFirst
<1> HIDE DEF t
<1>2. Once(t)
  <2> SUFFICES ASSUME NEW a \in DOMAIN t, NEW b \in DOMAIN t, t[a] = t[b], t[a] # Visibility
               PROVE  a = b
    BY DEF Once
  <2>1. a + 1 \in DOMAIN q /\ b + 1 \in DOMAIN q /\ q[a + 1] = q[b + 1]
        /\ q[a + 1] # Visibility
    BY <1>1
  <2>2. a + 1 = b + 1
    BY <2>1 DEF Once
  <2> QED BY <1>1, <2>2
<1>3. Range(q) = Range(t) \cup {Head(q)}
  <2>1. ASSUME NEW x \in Range(q) PROVE x \in Range(t) \cup {Head(q)}
    <3>1. PICK a \in DOMAIN q : q[a] = x
      BY DEF Range
    <3>2. CASE a = 1
      BY <1>1, <3>1, <3>2
    <3>3. CASE a # 1
      <4>1. a - 1 \in DOMAIN t /\ (a - 1) + 1 = a
        BY <1>1, <3>3
      <4>2. t[a - 1] = x
        BY <1>1, <3>1, <4>1
      <4> QED BY <4>1, <4>2 DEF Range
    <3> QED BY <3>2, <3>3
  <2>2. ASSUME NEW x \in Range(t) PROVE x \in Range(q)
    <3>1. PICK a \in DOMAIN t : t[a] = x
      BY DEF Range
    <3>2. a + 1 \in DOMAIN q /\ q[a + 1] = x
      BY <1>1, <3>1
    <3> QED BY <3>2 DEF Range
  <2>3. Head(q) \in Range(q)
    BY <1>1 DEF Range
  <2> QED BY <2>1, <2>2, <2>3
<1>4. ASSUME Head(q) # Visibility, Head(q) \in Range(t) PROVE FALSE
  <2>1. PICK a \in DOMAIN t : t[a] = Head(q)
    BY <1>4 DEF Range
  <2>2. a + 1 \in DOMAIN q /\ 1 \in DOMAIN q /\ q[a + 1] = q[1] /\ a + 1 # 1
    BY <1>1, <2>1
  <2> QED BY <1>1, <1>4, <2>2 DEF Once
<1> QED BY <1>1, <1>2, <1>3, <1>4 DEF t

\* ... a new one may go to the end ...
LEMMA PutOnce ==
  ASSUME NEW S, NEW q, q \in Seq(S), Once(q), NEW x, x \in S,
         x = Visibility \/ x \notin Range(q)
  PROVE  /\ Append(q, x) \in Seq(S) /\ Once(Append(q, x))
         /\ Range(Append(q, x)) = Range(q) \cup {x}
<1> DEFINE r == Append(q, x)
<1>1. /\ r \in Seq(S) /\ Len(q) \in Nat
      /\ DOMAIN q = 1 .. Len(q) /\ DOMAIN r = 1 .. (Len(q) + 1)
      /\ r[Len(q) + 1] = x
      /\ \A i \in DOMAIN q : i \in DOMAIN r /\ r[i] = q[i]
      /\ \A i \in DOMAIN r : i # Len(q) + 1 => i \in DOMAIN q
  BY PutLast
<1> HIDE DEF r
<1>2. Range(r) = Range(q) \cup {x}
  <2>1. Len(q) + 1 \in DOMAIN r
    BY <1>1
  <2>2. ASSUME NEW y \in Range(r) PROVE y \in Range(q) \cup {x}
    <3>1. PICK a \in DOMAIN r : r[a] = y
      BY DEF Range
    <3> QED BY <1>1, <3>1 DEF Range
  <2>3. ASSUME NEW y \in Range(q) PROVE y \in Range(r)
    <3>1. PICK a \in DOMAIN q : q[a] = y
      BY DEF Range
    <3> QED BY <1>1, <3>1 DEF Range
  <2>4. x \in Range(r)
    BY <1>1, <2>1 DEF Range
  <2> QED BY <2>2, <2>3, <2>4
<1>3. Once(r)
  <2> SUFFICES ASSUME NEW a \in DOMAIN r, NEW b \in DOMAIN r, r[a] = r[b], r[a] # Visibility
               PROVE  a = b
    BY DEF Once
  <2>1. CASE a = Len(q) + 1
    <3>1. b = Len(q) + 1
      BY <1>1, <2>1 DEF Range
    <3> QED BY <2>1, <3>1
  <2>2. CASE a # Len(q) + 1
    <3>1. a \in DOMAIN q /\ r[a] = q[a]
      BY <1>1, <2>2
    <3>2. b # Len(q) + 1
      BY <1>1, <3>1 DEF Range
    <3>3. b \in DOMAIN q /\ r[b] = q[b]
      BY <1>1, <3>2
    <3> QED BY <3>1, <3>3 DEF Once
  <2> QED BY <2>1, <2>2
<1> QED BY <1>1, <1>2, <1>3 DEF r

\* Two sequences one after the other.
LEMMA Joined ==
  ASSUME NEW S, NEW a, a \in Seq(S), NEW b, b \in Seq(S), NEW r, r = a \o b
  PROVE  /\ r \in Seq(S)
         /\ DOMAIN r = 1 .. (Len(a) + Len(b))
         /\ \A j \in DOMAIN r :
           (j <= Len(a) => r[j] = a[j]) /\ (~(j <= Len(a)) => r[j] = b[j - Len(a)])
<1>1. r \in Seq(S)
  OBVIOUS
<1>2. Len(r) = Len(a) + Len(b)
  OBVIOUS
<1>3. DOMAIN r = 1 .. (Len(a) + Len(b))
  BY <1>1, <1>2
<1>4. \A j \in 1 .. (Len(a) + Len(b)) :
        /\ j <= Len(a) => r[j] = a[j]
        /\ ~(j <= Len(a)) => r[j] = b[j - Len(a)]
  OBVIOUS
<1> QED BY <1>1, <1>3, <1>4

\* A part of a sequence.
LEMMA Part ==
  ASSUME NEW S, NEW q, q \in Seq(S), NEW lo \in Nat \ {0}, NEW hi \in Nat,
         hi <= Len(q), lo <= hi + 1
  PROVE  /\ SubSeq(q, lo, hi) \in Seq(S)
         /\ Len(SubSeq(q, lo, hi)) = (hi - lo) + 1
         /\ \A j \in 1 .. ((hi - lo) + 1) : SubSeq(q, lo, hi)[j] = q[(lo + j) - 1]
<1>1. Len(q) \in Nat /\ DOMAIN q = 1 .. Len(q) /\ \A j \in 1 .. Len(q) : q[j] \in S
  OBVIOUS
<1>2. \A j \in lo .. hi : q[j] \in S
  BY <1>1
<1>3. SubSeq(q, lo, hi) \in Seq(S)
  BY <1>1, <1>2
<1>4. Len(SubSeq(q, lo, hi)) = (hi - lo) + 1
  BY <1>1
<1>5. \A j \in 1 .. ((hi - lo) + 1) : SubSeq(q, lo, hi)[j] = q[(lo + j) - 1]
  BY <1>1
<1> QED BY <1>3, <1>4, <1>5

\* ... and any may be removed.
LEMMA RemovedOnce ==
  ASSUME NEW S, NEW q, q \in Seq(S), Once(q), NEW i, i \in DOMAIN q
  PROVE  RemoveAt(q, i) \in Seq(S) /\ Once(RemoveAt(q, i))
         /\ Range(RemoveAt(q, i)) \subseteq Range(q)
<1> DEFINE r == RemoveAt(q, i)
           x == SubSeq(q, 1, i - 1)
           y == SubSeq(q, i + 1, Len(q))
<1>1. i \in 1 .. Len(q) /\ Len(q) \in Nat /\ DOMAIN q = 1 .. Len(q)
  OBVIOUS
<1>2. /\ x \in Seq(S) /\ Len(x) = i - 1
      /\ \A j \in 1 .. (i - 1) : x[j] = q[j]
  <2>1. i - 1 \in Nat /\ i - 1 <= Len(q) /\ 1 <= (i - 1) + 1
    BY <1>1
  <2>2. /\ x \in Seq(S) /\ Len(x) = ((i - 1) - 1) + 1
        /\ \A j \in 1 .. (((i - 1) - 1) + 1) : x[j] = q[(1 + j) - 1]
    BY <2>1, Part
  <2> HIDE DEF x
  <2> QED BY <1>1, <2>2
<1>3. /\ y \in Seq(S) /\ Len(y) = Len(q) - i
      /\ \A j \in 1 .. (Len(q) - i) : y[j] = q[i + j]
  <2>1. i + 1 \in Nat \ {0} /\ Len(q) <= Len(q) /\ i + 1 <= Len(q) + 1
    BY <1>1
  <2>2. /\ y \in Seq(S) /\ Len(y) = (Len(q) - (i + 1)) + 1
        /\ \A j \in 1 .. ((Len(q) - (i + 1)) + 1) : y[j] = q[((i + 1) + j) - 1]
    BY <1>1, <2>1, Part
  <2> HIDE DEF y
  <2>3. (Len(q) - (i + 1)) + 1 = Len(q) - i
    BY <1>1
  <2>4. ASSUME NEW j \in 1 .. (Len(q) - i) PROVE y[j] = q[i + j]
    <3>1. ((i + 1) + j) - 1 = i + j
      BY <1>1
    <3> QED BY <2>2, <2>3, <3>1
  <2> QED BY <2>2, <2>3, <2>4
<1>r. r = x \o y
  BY DEF RemoveAt
<1> HIDE DEF r, x, y
<1>j. /\ r \in Seq(S) /\ DOMAIN r = 1 .. (Len(x) + Len(y))
      /\ \A j \in DOMAIN r :
           (j <= Len(x) => r[j] = x[j]) /\ (~(j <= Len(x)) => r[j] = y[j - Len(x)])
  <2>1. x \in Seq(S) /\ y \in Seq(S)
    BY <1>2, <1>3
  <2> QED BY <1>r, <2>1, Joined
<1>4. r \in Seq(S) /\ DOMAIN r = 1 .. (Len(q) - 1)
  BY <1>1, <1>2, <1>3, <1>j
<1>5. ASSUME NEW j \in DOMAIN r PROVE r[j] = IF j < i THEN q[j] ELSE q[j + 1]
  <2>1. CASE j < i
    BY <1>1, <1>2, <1>j, <1>4, <2>1
  <2>2. CASE ~(j < i)
    <3>1. ~(j <= Len(x)) /\ j - Len(x) \in 1 .. (Len(q) - i) /\ i + (j - Len(x)) = j + 1
      BY <1>1, <1>2, <1>4, <2>2
    <3>2. r[j] = y[j - Len(x)]
      BY <1>j, <3>1
    <3> QED BY <1>3, <2>2, <3>1, <3>2
  <2> QED BY <2>1, <2>2
<1>6. Once(r)
  <2> SUFFICES ASSUME NEW a \in DOMAIN r, NEW b \in DOMAIN r, r[a] = r[b], r[a] # Visibility
               PROVE  a = b
    BY DEF Once
  <2> DEFINE c == IF a < i THEN a ELSE a + 1
             d == IF b < i THEN b ELSE b + 1
  <2>1. c \in DOMAIN q /\ d \in DOMAIN q /\ q[c] = r[a] /\ q[d] = r[b]
    BY <1>1, <1>4, <1>5
  <2>2. c = d => a = b
    BY <1>1, <1>4
  <2> HIDE DEF c, d
  <2> QED BY <2>1, <2>2 DEF Once
<1>7. Range(r) \subseteq Range(q)
  <2> SUFFICES ASSUME NEW a \in DOMAIN r PROVE r[a] \in Range(q)
    BY DEF Range
  <2>1. /\ a < i => a \in DOMAIN q
        /\ ~(a < i) => a + 1 \in DOMAIN q
    BY <1>1, <1>4
  <2> QED BY <1>5, <2>1 DEF Range
<1> QED BY <1>4, <1>6, <1>7 DEF r

\* New requests are queued in order.
Numbers(e, m, k) == e = [i \in 1 .. k |-> m + i]

\* New requests join the line in order.
LEMMA JoinedOnce ==
  ASSUME NEW m, m \in Nat, NEW k, k \in Nat, NEW q, q \in Seq(1 .. m), Once(q),
         NEW e, Numbers(e, m, k), NEW r, r = q \o e
  PROVE  /\ r \in Seq(1 .. (m + k)) /\ Once(r)
         /\ Range(r) = Range(q) \cup ((m + 1) .. (m + k))
<1>1. e \in Seq(1 .. (m + k)) /\ Len(e) = k /\ \A i \in 1 .. k : e[i] = m + i
  <2>1. \A i \in 1 .. k : m + i \in 1 .. (m + k)
    OBVIOUS
  <2> QED BY <2>1 DEF Numbers
<1>2. /\ q \in Seq(1 .. (m + k)) /\ Len(q) \in Nat /\ DOMAIN q = 1 .. Len(q)
      /\ \A a \in DOMAIN q : q[a] \in 1 .. m
  OBVIOUS
<1>j. /\ r \in Seq(1 .. (m + k)) /\ DOMAIN r = 1 .. (Len(q) + Len(e))
      /\ \A a \in DOMAIN r :
           (a <= Len(q) => r[a] = q[a]) /\ (~(a <= Len(q)) => r[a] = e[a - Len(q)])
  <2>1. q \in Seq(1 .. (m + k)) /\ e \in Seq(1 .. (m + k))
    BY <1>1, <1>2
  <2> QED BY <2>1, Joined
<1>3. /\ r \in Seq(1 .. (m + k)) /\ DOMAIN r = 1 .. (Len(q) + k)
      /\ \A a \in DOMAIN r : r[a] = IF a <= Len(q) THEN q[a] ELSE e[a - Len(q)]
  BY <1>1, <1>j
<1>4. \A a \in DOMAIN r : r[a] = IF a <= Len(q) THEN q[a] ELSE m + (a - Len(q))
  <2> SUFFICES ASSUME NEW a \in DOMAIN r
               PROVE  r[a] = IF a <= Len(q) THEN q[a] ELSE m + (a - Len(q))
    OBVIOUS
  <2>1. CASE a <= Len(q)
    BY <1>3, <2>1
  <2>2. CASE ~(a <= Len(q))
    <3>1. a - Len(q) \in 1 .. k
      BY <1>2, <1>3, <2>2
    <3>2. e[a - Len(q)] = m + (a - Len(q))
      BY <1>1, <3>1
    <3> QED BY <1>3, <2>2, <3>2
  <2> QED BY <2>1, <2>2
<1>5. Once(r)
  <2> SUFFICES ASSUME NEW a \in DOMAIN r, NEW b \in DOMAIN r, r[a] = r[b], r[a] # Visibility
               PROVE  a = b
    BY DEF Once
  <2>0. a \in Nat /\ b \in Nat
    BY <1>2, <1>3
  <2>1. CASE a <= Len(q) /\ b <= Len(q)
    <3>1. a \in DOMAIN q /\ b \in DOMAIN q /\ q[a] = q[b] /\ q[a] # Visibility
      BY <1>2, <1>3, <1>4, <2>1
    <3> QED BY <3>1 DEF Once
  <2>2. CASE ~(a <= Len(q)) /\ ~(b <= Len(q))
    <3>1. m + (a - Len(q)) = m + (b - Len(q))
      BY <1>4, <2>2
    <3> QED BY <1>2, <2>0, <3>1
  <2>3. CASE a <= Len(q) /\ ~(b <= Len(q))
    <3>1. a \in DOMAIN q
      BY <1>2, <1>3, <2>3
    <3>2. q[a] \in 1 .. m /\ q[a] = m + (b - Len(q))
      BY <1>2, <1>4, <2>3, <3>1
    <3> QED BY <1>2, <2>0, <2>3, <3>2
  <2>4. CASE ~(a <= Len(q)) /\ b <= Len(q)
    <3>1. b \in DOMAIN q
      BY <1>2, <1>3, <2>4
    <3>2. q[b] \in 1 .. m /\ q[b] = m + (a - Len(q))
      BY <1>2, <1>4, <2>4, <3>1
    <3> QED BY <1>2, <2>0, <2>4, <3>2
  <2> QED BY <2>1, <2>2, <2>3, <2>4
<1>6. Range(r) = Range(q) \cup ((m + 1) .. (m + k))
  <2>1. ASSUME NEW x \in Range(r) PROVE x \in Range(q) \cup ((m + 1) .. (m + k))
    <3>1. PICK a \in DOMAIN r : r[a] = x
      BY DEF Range
    <3>2. CASE a <= Len(q)
      <4>1. a \in DOMAIN q /\ q[a] = x
        BY <1>2, <1>3, <1>4, <3>1, <3>2
      <4> QED BY <4>1 DEF Range
    <3>3. CASE ~(a <= Len(q))
      <4>1. x = m + (a - Len(q))
        BY <1>4, <3>1, <3>3
      <4> QED BY <1>2, <1>3, <3>3, <4>1
    <3> QED BY <3>2, <3>3
  <2>2. ASSUME NEW x \in Range(q) PROVE x \in Range(r)
    <3>1. PICK a \in DOMAIN q : q[a] = x
      BY DEF Range
    <3>2. a \in DOMAIN r /\ r[a] = x
      BY <1>2, <1>3, <1>4, <3>1
    <3> QED BY <3>2 DEF Range
  <2>3. ASSUME NEW x \in (m + 1) .. (m + k) PROVE x \in Range(r)
    <3>1. Len(q) + (x - m) \in DOMAIN r /\ ~(Len(q) + (x - m) <= Len(q))
      BY <1>2, <1>3
    <3>2. r[Len(q) + (x - m)] = m + ((Len(q) + (x - m)) - Len(q))
      BY <1>4, <3>1
    <3>3. r[Len(q) + (x - m)] = x
      BY <1>2, <3>2
    <3> QED BY <3>1, <3>3 DEF Range
  <2> QED BY <2>1, <2>2, <2>3
<1> QED BY <1>3, <1>5, <1>6
-----------------------------------------------------------------------------
(* The inductive invariant. *)

QueuesOf(st, l, h) ==
  /\ l \in Seq(DOMAIN st.made) /\ h \in Seq(DOMAIN st.made \cup {Visibility})
  /\ Once(l) /\ Once(h)
  /\ Range(l) \cap Range(h) = {}

\* The requests that have been answered or forgotten.
DoneOf(st, l, h) == DOMAIN st.made \ (Range(l) \cup Range(h))

InvOf(st, l, h, f) ==
  /\ QueuesOf(st, l, h)
  /\ Good(st, DoneOf(st, l, h))
  /\ ~st.inZoom => Sharp(st) /\ Current(st, DoneOf(st, l, h))
  /\ f => Rested(st)

IInv == InvOf(s, line, handler, fresh)

\* A sequence holds what it is a sequence of.
LEMMA InRange == ASSUME NEW S, NEW q \in Seq(S) PROVE Range(q) \subseteq S
BY DEF Range

\* What the methods asked of the service goes to the end of the line.
Calling(st, l, h, r, k, g) ==
  /\ st \in State /\ QueuesOf(st, l, h)
  /\ r \in State /\ Len(st.made) <= Len(r.made)
  /\ g \in Seq(DOMAIN st.made \cup {Visibility}) /\ Once(g)
  /\ Range(h) \cup {Visibility} = Range(g) \cup {Visibility}
  /\ \E e : Numbers(e, Len(st.made), Len(r.made) - Len(st.made)) /\ k = l \o e

\* Such a call keeps the queues, and answers nothing.
LEMMA CallQueues ==
  ASSUME NEW st, NEW l, NEW h, NEW r, NEW k, NEW g, Calling(st, l, h, r, k, g)
  PROVE  QueuesOf(r, k, g) /\ DoneOf(r, k, g) = DoneOf(st, l, h)
<1> DEFINE m == Len(st.made)
           d == Len(r.made) - Len(st.made)
<1>0. /\ st \in State /\ QueuesOf(st, l, h)
      /\ r \in State /\ Len(st.made) <= Len(r.made)
      /\ g \in Seq(DOMAIN st.made \cup {Visibility}) /\ Once(g)
      /\ Range(h) \cup {Visibility} = Range(g) \cup {Visibility}
  BY DEF Calling
<1>1. /\ DOMAIN st.made = 1 .. m /\ m \in Nat
      /\ DOMAIN r.made = 1 .. Len(r.made) /\ Len(r.made) \in Nat /\ m <= Len(r.made)
  BY <1>0, StateFields
<1>2. d \in Nat /\ m + d = Len(r.made)
  BY <1>1
<1>3. l \in Seq(1 .. m) /\ Once(l)
  BY <1>0, <1>1 DEF QueuesOf
<1>4. PICK e : Numbers(e, m, d) /\ k = l \o e
  BY DEF Calling
<1> HIDE DEF m, d
<1>5. k \in Seq(1 .. (m + d)) /\ Once(k) /\ Range(k) = Range(l) \cup ((m + 1) .. (m + d))
  <2>1. m \in Nat
    BY <1>1
  <2>2. d \in Nat
    BY <1>2
  <2>3. l \in Seq(1 .. m)
    BY <1>3
  <2>4. Once(l)
    BY <1>3
  <2>5. Numbers(e, m, d)
    BY <1>4
  <2>6. k = l \o e
    BY <1>4
  <2> QED BY <2>1, <2>2, <2>3, <2>4, <2>5, <2>6, JoinedOnce, Zenon
<1>6. Range(l) \subseteq 1 .. m
  BY <1>3, InRange
<1>7. Range(g) \subseteq (1 .. m) \cup {Visibility}
  BY <1>0, <1>1, InRange
<1>8. Visibility \notin 1 .. (m + d) /\ 1 .. m \subseteq 1 .. (m + d)
      /\ (1 .. m) \cap ((m + 1) .. (m + d)) = {}
      /\ 1 .. (m + d) = (1 .. m) \cup ((m + 1) .. (m + d))
  BY <1>1, <1>2 DEF Visibility
<1>9. Range(l) \cap Range(h) = {}
  BY <1>0 DEF QueuesOf
<1>10. DOMAIN r.made = 1 .. (m + d)
  BY <1>1, <1>2
<1>11. Range(k) \cap Range(g) = {}
  <2> SUFFICES ASSUME NEW x \in Range(k), x \in Range(g) PROVE FALSE
    OBVIOUS
  <2>1. x \in (1 .. m) \cup {Visibility}
    BY <1>7
  <2>2. CASE x \in Range(l)
    BY <1>0, <1>6, <1>8, <1>9, <2>2
  <2>3. CASE x \in (m + 1) .. (m + d)
    BY <1>8, <2>1, <2>3
  <2> QED BY <1>5, <2>2, <2>3
<1>12. g \in Seq(DOMAIN r.made \cup {Visibility})
  <2>1. DOMAIN st.made \cup {Visibility} \subseteq DOMAIN r.made \cup {Visibility}
    BY <1>1, <1>8, <1>10
  <2> QED BY <1>0, <2>1
<1>13. QueuesOf(r, k, g)
  BY <1>0, <1>5, <1>10, <1>11, <1>12 DEF QueuesOf
<1>14. ASSUME NEW x PROVE x \in DoneOf(r, k, g) <=> x \in DoneOf(st, l, h)
  BY <1>0, <1>1, <1>5, <1>6, <1>7, <1>8, <1>10 DEF DoneOf
<1> QED BY <1>13, <1>14

\* One runnable less.
LEMMA HandlerTaken ==
  ASSUME NEW st, st \in State, NEW l, NEW h, QueuesOf(st, l, h), h # <<>>
  PROVE  /\ QueuesOf(st, l, Tail(h))
         /\ Head(h) = Visibility =>
              /\ Range(h) \cup {Visibility} = Range(Tail(h)) \cup {Visibility}
         /\ Head(h) # Visibility =>
              /\ Head(h) \in DOMAIN st.made /\ Head(h) \notin DoneOf(st, l, h)
              /\ DoneOf(st, l, Tail(h)) = DoneOf(st, l, h) \cup {Head(h)}
<1> DEFINE S == DOMAIN st.made \cup {Visibility}
           t == Tail(h)
           x == Head(h)
<1>1. /\ t \in Seq(S) /\ Once(t) /\ x \in S
      /\ Range(h) = Range(t) \cup {x}
      /\ x # Visibility => x \notin Range(t)
  BY TakenOnce DEF QueuesOf
<1> HIDE DEF t, x
<1>2. QueuesOf(st, l, t)
  BY <1>1 DEF QueuesOf
<1>3. x # Visibility => x \in DOMAIN st.made /\ x \notin DoneOf(st, l, h)
  BY <1>1 DEF DoneOf
<1>4. x # Visibility => DoneOf(st, l, t) = DoneOf(st, l, h) \cup {x}
  BY <1>1 DEF DoneOf, QueuesOf
<1> QED BY <1>1, <1>2, <1>3, <1>4 DEF t, x

\* updatePageVisibility is posted.
LEMMA HandlerPut ==
  ASSUME NEW st, NEW l, NEW h, QueuesOf(st, l, h), st \in State
  PROVE  /\ QueuesOf(st, l, Append(h, Visibility))
         /\ DoneOf(st, l, Append(h, Visibility)) = DoneOf(st, l, h)
<1> DEFINE S == DOMAIN st.made \cup {Visibility}
           t == Append(h, Visibility)
<1>1. t \in Seq(S) /\ Once(t) /\ Range(t) = Range(h) \cup {Visibility}
  BY PutOnce DEF QueuesOf
<1> HIDE DEF t
<1>2. Visibility \notin DOMAIN st.made
  BY StateFields DEF Visibility
<1>3. Range(l) \subseteq DOMAIN st.made
  BY InRange DEF QueuesOf
<1> QED BY <1>1, <1>2, <1>3 DEF QueuesOf, DoneOf, t

\* The service answers its oldest request ...
LEMMA LineAnswered ==
  ASSUME NEW st, st \in State, NEW l, NEW h, QueuesOf(st, l, h), l # <<>>
  PROVE  /\ QueuesOf(st, Tail(l), Append(h, Head(l)))
         /\ DoneOf(st, Tail(l), Append(h, Head(l))) = DoneOf(st, l, h)
<1> DEFINE t == Tail(l)
           x == Head(l)
           g == Append(h, x)
<1>1. x \in DOMAIN st.made => x # Visibility
  BY StateFields DEF Visibility
<1>2. /\ t \in Seq(DOMAIN st.made) /\ Once(t) /\ x \in DOMAIN st.made
      /\ Range(l) = Range(t) \cup {x}
      /\ x # Visibility => x \notin Range(t)
  BY TakenOnce DEF QueuesOf
<1> HIDE DEF t, x
<1>3. x \notin Range(h) /\ x \in DOMAIN st.made \cup {Visibility}
  BY <1>2 DEF QueuesOf
<1>4. g \in Seq(DOMAIN st.made \cup {Visibility}) /\ Once(g) /\ Range(g) = Range(h) \cup {x}
  BY <1>3, PutOnce DEF QueuesOf
<1> HIDE DEF g
<1>5. QueuesOf(st, t, g)
  BY <1>1, <1>2, <1>4 DEF QueuesOf
<1>6. DoneOf(st, t, g) = DoneOf(st, l, h)
  BY <1>2, <1>4 DEF DoneOf
<1> QED BY <1>5, <1>6 DEF t, x, g

\* ... or forgets a request.
LEMMA LineShorter ==
  ASSUME NEW st, NEW l, NEW h, QueuesOf(st, l, h),
         NEW k, k \in Seq(DOMAIN st.made), Once(k), Range(k) \subseteq Range(l)
  PROVE  /\ QueuesOf(st, k, h)
         /\ DoneOf(st, l, h) \subseteq DoneOf(st, k, h)
         /\ DoneOf(st, k, h) \subseteq DOMAIN st.made
BY DEF QueuesOf, DoneOf

\* A request is withdrawn or its decode throws.
LEMMA InvForgets ==
  ASSUME NEW st, NEW l, NEW h, NEW f, InvOf(st, l, h, f),
         NEW k, k \in Seq(DOMAIN st.made), Once(k), Range(k) \subseteq Range(l)
  PROVE  InvOf(st, k, h, f)
<1> DEFINE A == DoneOf(st, l, h)
           B == DoneOf(st, k, h)
<1>1. QueuesOf(st, k, h) /\ A \subseteq B /\ B \subseteq DOMAIN st.made
  BY LineShorter DEF InvOf
<1>2. Good(st, A)
  BY DEF InvOf
<1> HIDE DEF A, B
<1>3. Good(st, B) /\ (Current(st, A) => Current(st, B))
  BY <1>1, <1>2, MoreAnswered
<1> QED BY <1>1, <1>3 DEF InvOf, A, B

\* The invariant holds of a page that was just opened.
LEMMA InitInv == Init => IInv
<1> SUFFICES ASSUME Init PROVE IInv
  OBVIOUS
<1>1. /\ s.tree = [n \in Node |-> NewNode] /\ s.view \in Views /\ s.zoom = 1
      /\ s.inZoom = FALSE /\ s.made = <<>> /\ s.withdrawn = {} /\ s.orphan = {}
      /\ s.late = {} /\ s.recycled = {} /\ s.progress = 0
      /\ line = <<>> /\ handler = <<Visibility>> /\ fresh = FALSE
  BY DEF Init
<1>2. s \in State
  <2>1. s.tree \in [Node -> Slice]
    BY <1>1, NewNodeType
  <2>2. 1 \in Zoom /\ s.view \in SUBSET Node
    BY <1>1, TreeAssumption DEF TreeAssumption
  <2>3. <<>> \in Seq(Request)
    OBVIOUS
  <2> HIDE DEF Init
  <2>4. s = [tree |-> s.tree, view |-> s.view, zoom |-> s.zoom, inZoom |-> s.inZoom,
             made |-> s.made, withdrawn |-> s.withdrawn, orphan |-> s.orphan,
             late |-> s.late, recycled |-> s.recycled, progress |-> s.progress]
    BY DEF Init
  <2>5. /\ s.zoom \in Zoom /\ s.inZoom \in BOOLEAN /\ s.made \in Seq(Request)
        /\ s.withdrawn \in SUBSET Nat /\ s.orphan \in SUBSET Nat
        /\ s.late \in SUBSET Nat /\ s.recycled \in SUBSET Nat /\ s.progress \in Int
    <3>0. s.inZoom \in BOOLEAN
      BY <1>1, Zenon
    <3>1. /\ s.zoom = 1 /\ s.made = <<>> /\ s.withdrawn = {}
          /\ s.orphan = {} /\ s.late = {} /\ s.recycled = {} /\ s.progress = 0
      BY <1>1, Zenon
    <3> QED BY <2>2, <2>3, <3>0, <3>1
  <2> QED BY <2>1, <2>2, <2>4, <2>5 DEF State
<1>3. QueuesOf(s, line, handler)
  BY <1>1 DEF QueuesOf, Once, Range
<1>4. DOMAIN s.made = {}
  BY <1>1
<1>5. DoneOf(s, line, handler) = {}
  BY <1>4 DEF DoneOf
<1>6. \A n \in Node : /\ s.tree[n].bitmap = None /\ s.tree[n].weak = None
                      /\ s.tree[n].decoding = FALSE /\ s.tree[n].expanded = FALSE
                      /\ s.tree[n] = NewNode
  BY <1>1 DEF NewNode
<1>7. Live(s, {}) = {}
  BY <1>4 DEF Live
<1>8. Numbered(s, {}) /\ Drawable(s, {}) /\ Expected(s, {}) /\ Divided(s)
  BY <1>1, <1>6, <1>7 DEF Numbered, Drawable, Expected, Divided
<1>9. Rooted(s)
  BY <1>4, <1>6, KidsType DEF Rooted
<1>10. s.progress = Cardinality(Decoding(s))
  <2>1. Decoding(s) = {}
    BY <1>6 DEF Decoding
  <2> QED BY <1>1, <2>1, FS_EmptySet
<1>11. Good(s, {})
  BY <1>1, <1>2, <1>8, <1>9, <1>10 DEF Good
<1>12. Sharp(s) /\ Current(s, {})
  BY <1>6, <1>7 DEF Sharp, Current
<1> QED BY <1>1, <1>3, <1>5, <1>11, <1>12 DEF IInv, InvOf
-----------------------------------------------------------------------------
\* The root of the tree always exists.
LEMMA RootHasParent == ASSUME NEW st PROVE HasParent(st, Root) /\ Root \in Node
BY TreeAssumption DEF TreeAssumption, HasParent

\* updatePageVisibility
LEMMA VisibilityFollows ==
  ASSUME NEW A, NEW st, st \in State, Good(st, A), NEW r, r = UpdateVisibility[Root][st]
  PROVE  /\ r \in State /\ Good(r, A) /\ Rested(r)
         /\ Sharp(st) => Sharp(r)
         /\ Current(st, A) => Current(r, A)
         /\ r.inZoom = st.inZoom /\ Len(st.made) <= Len(r.made)
<1>1. Follows(r, st, Sub(Root), A) /\ <<Root, r>> \in Updated
  BY RootHasParent, UpdateVisibilityFollows
<1>2. r \in State
  BY <1>1 DEF Follows, Good
<1>3. (\A m \in Sub(Root) : Settled(m, r)) /\ Covered(Root, r)
  BY <1>1, <1>2, RootHasParent, UpdatedIsLocal
<1>4. Rested(r)
  BY <1>3, RootAboveAll DEF Rested
<1> QED BY <1>1, <1>2, <1>4 DEF Follows, Fixed

\* The view moves.
LEMMA ViewMoves ==
  ASSUME NEW st, st \in State, NEW v, v \in Views, NEW r, r = [st EXCEPT !.view = v]
  PROVE  SamePage(r, st) /\ r.zoom = st.zoom /\ r.inZoom = st.inZoom
<1>1. v \in SUBSET Node
  BY TreeAssumption DEF TreeAssumption
<1>2. r \in State /\ r.view = v /\ r.zoom = st.zoom /\ r.inZoom = st.inZoom
      /\ r.tree = st.tree /\ r.made = st.made /\ r.withdrawn = st.withdrawn
      /\ r.orphan = st.orphan /\ r.late = st.late /\ r.recycled = st.recycled
      /\ r.progress = st.progress
  BY <1>1 DEF State
<1> QED BY <1>2 DEF SamePage

\* The bitmaps are all marked as out of date, and nothing is waited for any more.
LEMMA InvalidatedSharp ==
  ASSUME NEW A, NEW st, st \in State, Good(st, A), NEW r, r = InvalidateRecursive[Root][st]
  PROVE  /\ r \in State /\ Good(r, A) /\ Sharp(r) /\ Current(r, A)
         /\ r.view = st.view /\ Len(st.made) <= Len(r.made)
<1>1. Follows(r, st, Sub(Root), A) /\ <<Root, r>> \in Outdated
  BY RootHasParent, InvalidateRecursiveFollows
<1>2. r \in State /\ Good(r, A)
  BY <1>1 DEF Follows, Good
<1>3. \A m \in Node : Stale(m, r)
  BY <1>1, <1>2, RootHasParent, RootAboveAll, OutdatedIsLocal
<1>4. Sharp(r)
  BY <1>3 DEF Sharp, Stale
<1>5. Current(r, A)
  <2> SUFFICES ASSUME NEW i \in Live(r, A) PROVE LateAt(r, r.made[i].node)
    BY DEF Current
  <2>1. i \in DOMAIN r.made
    BY DEF Live
  <2>2. r.made[i].node \in Node
    BY <1>2, <2>1, RequestFields
  <2>3. ~r.tree[r.made[i].node].decoding
    BY <1>3, <2>2 DEF Stale
  <2> QED BY <1>2, <2>3 DEF Good, Expected
<1> QED BY <1>1, <1>2, <1>4, <1>5 DEF Follows, Fixed

\* commitZoom
LEMMA CommitFollows ==
  ASSUME NEW A, NEW st, st \in State, Good(st, A), NEW v, v \in Views,
         NEW r, r = [Invalidate([st EXCEPT !.view = v], Root) EXCEPT !.inZoom = FALSE]
  PROVE  /\ r \in State /\ Good(r, A) /\ Sharp(r) /\ Current(r, A) /\ Rested(r)
         /\ r.inZoom = FALSE /\ Len(st.made) <= Len(r.made)
<1> DEFINE a == [st EXCEPT !.view = v]
           b == InvalidateChildren(a, Root)
           c == InvalidateRecursive[Root][b]
           d == UpdateVisibility[Root][c]
<1>0. r = [d EXCEPT !.inZoom = FALSE]
  BY DEF Invalidate
<1>1. SamePage(a, st)
  BY ViewMoves
<1>2. a \in State /\ Good(a, A) /\ a.made = st.made
  BY <1>1, SamePageGood DEF SamePage
<1> HIDE DEF a
<1>3. b \in State /\ Follows(b, a, Sub(Root), A)
  BY <1>2, RootHasParent, InvalidateChildrenFollows
<1> HIDE DEF b
<1>4. Good(b, A) /\ Len(a.made) <= Len(b.made)
  BY <1>3 DEF Follows, Fixed
<1>5. c \in State /\ Good(c, A) /\ Sharp(c) /\ Current(c, A) /\ Len(b.made) <= Len(c.made)
  BY <1>3, <1>4, InvalidatedSharp
<1> HIDE DEF c
<1>6. /\ d \in State /\ Good(d, A) /\ Rested(d) /\ Sharp(d) /\ Current(d, A)
      /\ Len(c.made) <= Len(d.made)
  BY <1>5, VisibilityFollows
<1> HIDE DEF d
<1>7. r \in State /\ r.view = d.view /\ r.zoom = d.zoom /\ r.inZoom = FALSE
      /\ r.tree = d.tree /\ r.made = d.made /\ r.withdrawn = d.withdrawn
      /\ r.orphan = d.orphan /\ r.late = d.late /\ r.recycled = d.recycled
      /\ r.progress = d.progress
  <2>1. FALSE \in BOOLEAN
    OBVIOUS
  <2> QED BY <1>0, <1>6, <2>1 DEF State
<1>8. SamePage(r, d)
  BY <1>6, <1>7 DEF SamePage, Good
<1>9. Good(r, A) /\ Sharp(r) /\ Current(r, A)
  BY <1>6, <1>7, <1>8, SamePageGood
<1>10. Rested(r)
  BY <1>6, <1>7 DEF Rested, Settled, Covered, Visible, ThresholdHit
<1>11. Len(st.made) <= Len(r.made)
  <2>1. /\ Len(st.made) \in Nat /\ Len(a.made) \in Nat /\ Len(b.made) \in Nat
        /\ Len(c.made) \in Nat /\ Len(d.made) \in Nat
    BY <1>2, <1>3, <1>5, <1>6, StateFields
  <2> QED BY <1>2, <1>4, <1>5, <1>6, <1>7, <2>1
<1> QED BY <1>7, <1>9, <1>10, <1>11

\* A soft reference is cleared.
LEMMA ClearFollows ==
  ASSUME NEW A, NEW st, st \in State, Good(st, A), NEW n, n \in Node,
         st.tree[n].bitmap = None, st.tree[n].weak # None,
         NEW r, r = [st EXCEPT !.tree[n].weak = None]
  PROVE  /\ r \in State /\ Good(r, A) /\ r.made = st.made /\ r.inZoom = st.inZoom
         /\ Sharp(st) => Sharp(r)
         /\ Current(st, A) => Current(r, A)
         /\ Rested(st) => Rested(r)
<1> DEFINE x == [st.tree[n] EXCEPT !.weak = None]
           t == [st.tree EXCEPT ![n] = x]
<1>1. x \in Slice /\ x.weak = None /\ x.bitmap = st.tree[n].bitmap
      /\ x.invalid = st.tree[n].invalid
      /\ x.decoding = st.tree[n].decoding /\ x.expanded = st.tree[n].expanded
  <2>1. st.tree[n] \in Slice
    BY StateFields
  <2> QED BY <2>1 DEF Slice, None
<1>2. r = [st EXCEPT !.tree = t]
  BY DEF State
<1> HIDE DEF x
<1>3. t \in Trees
  BY <1>1, StateFields, TreeExcept DEF Trees
<1>4. t[n] = x /\ \A m \in Node : m # n => t[m] = st.tree[m]
  BY StateFields
<1> HIDE DEF t
<1>5. IsAltered(r, st, t, st.progress, st.withdrawn, st.made, st.orphan, st.recycled)
  BY <1>2, <1>3, OnlyTreeAltered
<1>6. /\ r \in State /\ r.tree = t /\ r.made = st.made /\ r.orphan = st.orphan
      /\ r.late = st.late /\ r.view = st.view /\ r.zoom = st.zoom
      /\ r.inZoom = st.inZoom /\ r.recycled = st.recycled
      /\ r.progress = st.progress /\ r.withdrawn = st.withdrawn
  BY <1>5 DEF IsAltered
<1>7. \A m \in Node : /\ r.tree[m].bitmap = st.tree[m].bitmap
                      /\ r.tree[m].invalid = st.tree[m].invalid
                      /\ r.tree[m].decoding = st.tree[m].decoding
                      /\ r.tree[m].expanded = st.tree[m].expanded
                      /\ r.tree[m].weak = IF m = n THEN None ELSE st.tree[m].weak
                      /\ m # n => r.tree[m] = st.tree[m]
  <2> SUFFICES ASSUME NEW m \in Node
               PROVE  /\ r.tree[m].bitmap = st.tree[m].bitmap
                      /\ r.tree[m].invalid = st.tree[m].invalid
                      /\ r.tree[m].decoding = st.tree[m].decoding
                      /\ r.tree[m].expanded = st.tree[m].expanded
                      /\ r.tree[m].weak = IF m = n THEN None ELSE st.tree[m].weak
                      /\ m # n => r.tree[m] = st.tree[m]
    OBVIOUS
  <2>1. CASE m = n
    BY <1>1, <1>4, <1>6, <2>1, Zenon
  <2>2. CASE m # n
    <3>1. r.tree[m] = st.tree[m]
      BY <1>4, <1>6, <2>2
    <3>2. r.tree[m].weak = IF m = n THEN None ELSE st.tree[m].weak
      BY <2>2, <3>1
    <3> QED BY <3>1, <3>2, Zenon
  <2> QED BY <2>1, <2>2
<1>8. Live(r, A) = Live(st, A)
  BY <1>6 DEF Live
<1>9. Rooted(r)
  <2> SUFFICES ASSUME NEW p \in Node, NEW q \in Range(Kids[p]), ~r.tree[p].expanded
               PROVE  /\ r.tree[q] = NewNode
                      /\ \A i \in DOMAIN r.made \ r.orphan : r.made[i].node # q
    BY DEF Rooted
  <2>1. st.tree[q] = NewNode /\ \A i \in DOMAIN st.made \ st.orphan : st.made[i].node # q
    BY <1>7 DEF Good, Rooted
  <2>2. q # n
    BY <2>1 DEF NewNode
  <2>3. q \in Node
    BY KidsType
  <2> QED BY <1>6, <1>7, <2>1, <2>2, <2>3
<1>10. Divided(r)
  BY <1>7 DEF Good, Divided
<1>11. Drawable(r, A)
  BY <1>6, <1>7 DEF Good, Drawable
<1>12. Expected(r, A)
  <2>1. \A i \in Live(st, A) : st.made[i].node \in Node
    BY RequestFields DEF Live
  <2> QED BY <1>6, <1>7, <1>8, <2>1 DEF Good, Expected, LateAt
<1>13. Decoding(r) = Decoding(st)
  BY <1>7 DEF Decoding
<1>14. Good(r, A)
  BY <1>6, <1>9, <1>10, <1>11, <1>12, <1>13 DEF Good, Numbered
<1>15. Sharp(st) => Sharp(r)
  BY <1>6, <1>7 DEF Sharp, LateAt
<1>16. Current(st, A) => Current(r, A)
  BY <1>6, <1>8 DEF Current, LateAt
<1>17. Rested(st) => Rested(r)
  <2> SUFFICES ASSUME Rested(st) PROVE Rested(r)
    OBVIOUS
  <2>1. \A m \in Node : Settled(m, r)
    BY <1>6, <1>7 DEF Rested, Settled, Visible, ThresholdHit
  <2>2. Covered(Root, r)
    <3>1. Sub(Root) = Node
      BY RootAboveAll
    <3> QED BY <1>6, <1>7, <3>1 DEF Rested, Covered, Visible
  <2> QED BY <2>1, <2>2 DEF Rested
<1> QED BY <1>6, <1>14, <1>15, <1>16, <1>17
-----------------------------------------------------------------------------
\* Every event keeps the invariant.
LEMMA NextInv == IInv /\ [Next]_vars => IInv'
<1> SUFFICES ASSUME InvOf(s, line, handler, fresh), [Next]_vars
             PROVE  InvOf(s', line', handler', fresh')
  BY DEF IInv
<1> DEFINE A  == DoneOf(s, line, handler)
           A1 == DoneOf(s', line', handler')
<1>1. /\ QueuesOf(s, line, handler) /\ Good(s, A) /\ s \in State
      /\ ~s.inZoom => Sharp(s) /\ Current(s, A)
      /\ fresh => Rested(s)
  BY DEF InvOf, Good
<1>2. ASSUME QueuesOf(s', line', handler'), A1 = A, Good(s', A),
             ~(s').inZoom => Sharp(s') /\ Current(s', A), fresh' => Rested(s')
      PROVE  InvOf(s', line', handler', fresh')
  BY <1>2 DEF InvOf
<1>3. ASSUME NEW v \in Views, s' = [s EXCEPT !.view = v], fresh' = FALSE,
             QueuesOf(s', line', handler'), A1 = A
      PROVE  InvOf(s', line', handler', fresh')
  <2>1. SamePage(s', s) /\ (s').zoom = s.zoom /\ (s').inZoom = s.inZoom
    BY <1>1, <1>3, ViewMoves
  <2>2. /\ Good(s', A) /\ (Sharp(s) => Sharp(s'))
        /\ (Current(s, A) => Current(s', A))
    BY <1>1, <2>1, SamePageGood
  <2> HIDE DEF A, A1
  <2> QED BY <1>1, <1>2, <1>3, <2>1, <2>2
<1>4. ASSUME NEW v \in Views, Scroll(v) PROVE InvOf(s', line', handler', fresh')
  <2>1. s' = [s EXCEPT !.view = v] /\ fresh' = FALSE /\ line' = line
        /\ (handler' = handler \/ handler' = Append(handler, Visibility))
    BY <1>4 DEF Scroll
  <2>2. QueuesOf(s, line', handler') /\ DoneOf(s, line', handler') = A
    BY <1>1, <2>1, HandlerPut
  <2>3. (s').made = s.made
    BY <1>1, <2>1, ViewMoves DEF SamePage
  <2>4. QueuesOf(s', line', handler') /\ A1 = A
    BY <2>2, <2>3 DEF QueuesOf, DoneOf
  <2> QED BY <1>3, <2>1, <2>4
<1>5. ASSUME NEW v \in Views, OtherPageMeasured(v)
      PROVE  InvOf(s', line', handler', fresh')
  <2>1. s' = [s EXCEPT !.view = v] /\ fresh' = FALSE /\ line' = line /\ handler' = handler
    BY <1>5 DEF OtherPageMeasured
  <2>2. (s').made = s.made
    BY <1>1, <2>1, ViewMoves DEF SamePage
  <2>3. QueuesOf(s', line', handler') /\ A1 = A
    BY <1>1, <2>1, <2>2 DEF QueuesOf, DoneOf
  <2> QED BY <1>3, <2>1, <2>3
<1>6. ASSUME NEW v \in Views, NEW z \in Zoom, ZoomChanged(z, v)
      PROVE  InvOf(s', line', handler', fresh')
  <2>1. /\ s' = [s EXCEPT !.zoom = z, !.view = v, !.inZoom = TRUE]
        /\ fresh' = FALSE /\ line' = line /\ handler' = handler
    BY <1>6 DEF ZoomChanged
  <2>2. v \in SUBSET Node /\ TRUE \in BOOLEAN
    BY TreeAssumption DEF TreeAssumption
  <2>3. /\ s' \in State /\ (s').view = v /\ (s').inZoom = TRUE
        /\ (s').tree = s.tree /\ (s').made = s.made /\ (s').withdrawn = s.withdrawn
        /\ (s').orphan = s.orphan /\ (s').late = s.late
        /\ (s').recycled = s.recycled /\ (s').progress = s.progress
    BY <1>1, <2>1, <2>2 DEF State
  <2>4. SamePage(s', s)
    BY <2>3 DEF SamePage
  <2>5. Good(s', A)
    BY <1>1, <2>4, SamePageGood
  <2>6. QueuesOf(s', line', handler') /\ A1 = A
    BY <1>1, <2>1, <2>3 DEF QueuesOf, DoneOf
  <2> HIDE DEF A, A1
  <2> QED BY <1>2, <2>1, <2>3, <2>5, <2>6
<1>7. ASSUME NEW v \in Views, CommitZoom(v) PROVE InvOf(s', line', handler', fresh')
  <2> DEFINE r == [Invalidate([s EXCEPT !.view = v], Root) EXCEPT !.inZoom = FALSE]
             e == [i \in 1 .. Len(r.made) - Len(s.made) |-> Len(s.made) + i]
  <2>1. s' = r /\ line' = line \o e /\ handler' = handler
        /\ Numbers(e, Len(s.made), Len(r.made) - Len(s.made))
    BY <1>7 DEF CommitZoom, Call, Numbers
  <2>2. /\ r \in State /\ Good(r, A) /\ Sharp(r) /\ Current(r, A) /\ Rested(r)
        /\ Len(s.made) <= Len(r.made)
    <3> HIDE DEF A
    <3> QED BY <1>1, CommitFollows
  <2> HIDE DEF r, e
  <2>3. handler \in Seq(DOMAIN s.made \cup {Visibility}) /\ Once(handler)
    BY <1>1 DEF QueuesOf
  <2>4. QueuesOf(r, line', handler') /\ DoneOf(r, line', handler') = A
    <3>1. Calling(s, line, handler, r, line', handler')
      BY <1>1, <2>1, <2>2, <2>3 DEF Calling
    <3> QED BY <3>1, CallQueues
  <2>5. QueuesOf(s', line', handler') /\ A1 = A
    BY <2>1, <2>4
  <2> HIDE DEF A, A1
  <2> QED BY <1>2, <2>1, <2>2, <2>5
<1>8. ASSUME RunVisibility PROVE InvOf(s', line', handler', fresh')
  <2> DEFINE r == UpdateVisibility[Root][s]
             e == [i \in 1 .. Len(r.made) - Len(s.made) |-> Len(s.made) + i]
  <2>1. s' = r /\ line' = line \o e /\ handler' = Tail(handler)
        /\ Numbers(e, Len(s.made), Len(r.made) - Len(s.made))
        /\ handler # <<>> /\ Head(handler) = Visibility
    BY <1>8 DEF RunVisibility, Call, Numbers
  <2>2. /\ r \in State /\ Good(r, A) /\ Rested(r)
        /\ Sharp(s) => Sharp(r)
        /\ Current(s, A) => Current(r, A)
        /\ r.inZoom = s.inZoom /\ Len(s.made) <= Len(r.made)
    <3> HIDE DEF A
    <3> QED BY <1>1, VisibilityFollows
  <2> HIDE DEF r, e
  <2>3. /\ QueuesOf(s, line, handler')
        /\ Range(handler) \cup {Visibility} = Range(handler') \cup {Visibility}
    BY <1>1, <2>1, HandlerTaken
  <2>4. handler' \in Seq(DOMAIN s.made \cup {Visibility}) /\ Once(handler')
    BY <2>3 DEF QueuesOf
  <2>5. QueuesOf(r, line', handler') /\ DoneOf(r, line', handler') = A
    <3>1. Calling(s, line, handler, r, line', handler')
      BY <1>1, <2>1, <2>2, <2>3, <2>4 DEF Calling
    <3> QED BY <3>1, CallQueues
  <2>6. QueuesOf(s', line', handler') /\ A1 = A
    BY <2>1, <2>5
  <2> HIDE DEF A, A1
  <2> QED BY <1>1, <1>2, <2>1, <2>2, <2>6
<1>9. ASSUME NEW v \in Views, RunAnswer(v) PROVE InvOf(s', line', handler', fresh')
  <2> DEFINE i == Head(handler)
             r == Receive(s, i, v)
             B == A \cup {i}
  <2>1. /\ s' = r /\ line' = line /\ handler' = Tail(handler)
        /\ handler # <<>> /\ i # Visibility
        /\ fresh' = (fresh /\ v = s.view)
    BY <1>9 DEF RunAnswer
  <2>2. /\ QueuesOf(s, line, handler') /\ i \in DOMAIN s.made /\ i \notin A
        /\ DoneOf(s, line, handler') = B
    BY <1>1, <2>1, HandlerTaken
  <2> HIDE DEF i, A
  <2>3. /\ r \in State /\ Good(r, B)
        /\ r.made = s.made /\ r.inZoom = s.inZoom
        /\ Sharp(s) /\ Current(s, A) => Sharp(r) /\ Current(r, B)
        /\ v = s.view /\ Rested(s) => Rested(r)
    BY <1>1, <2>2, ReceiveFollows
  <2> HIDE DEF r, B
  <2>4. QueuesOf(s', line', handler') /\ A1 = B
    BY <2>1, <2>2, <2>3 DEF QueuesOf, DoneOf
  <2> HIDE DEF A1
  <2>5. fresh' => Rested(s')
    BY <1>1, <2>1, <2>3
  <2> QED BY <1>1, <2>1, <2>3, <2>4, <2>5 DEF InvOf, A1
<1>10. ASSUME NEW n \in Node, ClearReference(n) PROVE InvOf(s', line', handler', fresh')
  <2>1. /\ s' = [s EXCEPT !.tree[n].weak = None]
        /\ s.tree[n].weak # None /\ s.tree[n].bitmap = None
        /\ line' = line /\ handler' = handler /\ fresh' = fresh
    BY <1>10 DEF ClearReference, GetBitmap
  <2>2. /\ s' \in State /\ Good(s', A) /\ (s').made = s.made /\ (s').inZoom = s.inZoom
        /\ Sharp(s) => Sharp(s')
        /\ Current(s, A) => Current(s', A)
        /\ Rested(s) => Rested(s')
    <3> HIDE DEF A
    <3> QED BY <1>1, <2>1, ClearFollows
  <2>3. QueuesOf(s', line', handler') /\ A1 = A
    BY <1>1, <2>1, <2>2 DEF QueuesOf, DoneOf
  <2> HIDE DEF A, A1
  <2> QED BY <1>1, <1>2, <2>1, <2>2, <2>3
<1>11. ASSUME Answer PROVE InvOf(s', line', handler', fresh')
  <2>1. /\ handler' = Append(handler, Head(line)) /\ line' = Tail(line) /\ line # <<>>
        /\ s' = s /\ fresh' = fresh
    BY <1>11 DEF Answer
  <2>2. QueuesOf(s', line', handler') /\ A1 = A
    BY <1>1, <2>1, LineAnswered
  <2> HIDE DEF A, A1
  <2> QED BY <1>1, <1>2, <2>1, <2>2
<1>12. ASSUME Fail PROVE InvOf(s', line', handler', fresh')
  <2>1. line # <<>> /\ line' = Tail(line) /\ s' = s /\ handler' = handler /\ fresh' = fresh
    BY <1>12 DEF Fail
  <2>2. /\ line' \in Seq(DOMAIN s.made) /\ Once(line')
        /\ Range(line') \subseteq Range(line)
    BY <1>1, <2>1, TakenOnce DEF QueuesOf
  <2> QED BY <2>1, <2>2, InvForgets
<1>13. ASSUME NEW i \in DOMAIN line, Drop(i) PROVE InvOf(s', line', handler', fresh')
  <2>1. line' = RemoveAt(line, i) /\ s' = s /\ handler' = handler /\ fresh' = fresh
    BY <1>13 DEF Drop
  <2>2. /\ line' \in Seq(DOMAIN s.made) /\ Once(line')
        /\ Range(line') \subseteq Range(line)
    BY <1>1, <2>1, RemovedOnce DEF QueuesOf
  <2> QED BY <2>1, <2>2, InvForgets
<1>14. CASE UNCHANGED vars
  BY <1>14 DEF vars
<1> HIDE DEF A, A1
<1> QED
  BY <1>4, <1>5, <1>6, <1>7, <1>8, <1>9, <1>10, <1>11, <1>12, <1>13, <1>14 DEF Next

\* So it holds always.
LEMMA Invariant == Spec => []IInv
<1> QED BY InitInv, NextInv, PTL DEF Spec
-----------------------------------------------------------------------------
(* The theorems. *)

\* The tree, the list of requests and the two queues have their types: the recursive
\* methods of PageTreeNode are defined wherever they are called, and the queues name
\* requests that were made.
THEOREM TypeCorrect == Spec => []TypeOK
<1>1. IInv => TypeOK
  <2> SUFFICES ASSUME IInv PROVE TypeOK
    OBVIOUS
  <2>1. QueuesOf(s, line, handler) /\ Good(s, DoneOf(s, line, handler))
    BY DEF IInv, InvOf
  <2>2. s.progress \in Nat
    BY <2>1, Count, RootHasParent DEF Good
  <2> QED BY <2>1, <2>2 DEF TypeOK, QueuesOf, Good, Numbered
<1> QED BY <1>1, Invariant, PTL

\* What is decoded or shown is attached to the tree.
LEMMA ExistsAttached ==
  ASSUME NEW A, Good(s, A), NEW n \in Node, s.tree[n] # NewNode
  PROVE  Attached(n)
BY NothingBelow DEF Good, Attached

\* The progress indicator counts exactly the nodes of the tree whose decodingNow is
\* set (stopDecodingThisNode, decodePageTreeNode and the answer's runnable), on every
\* tree, and however answers and withdrawals cross.
THEOREM ProgressCounts == Spec => []ProgressCountsDecoding
<1>1. IInv => ProgressCountsDecoding
  <2> SUFFICES ASSUME IInv PROVE ProgressCountsDecoding
    OBVIOUS
  <2>1. Good(s, DoneOf(s, line, handler))
    BY DEF IInv, InvOf
  <2>2. \A n \in Node : s.tree[n].decoding => s.tree[n] # NewNode
    BY DEF NewNode
  <2>3. Decoding(s) = {n \in Node : Attached(n) /\ s.tree[n].decoding}
    BY <2>1, <2>2, ExistsAttached DEF Decoding
  <2> QED BY <2>1, <2>3 DEF ProgressCountsDecoding, Good
<1> QED BY <1>1, Invariant, PTL

\* draw() never finds a recycled bitmap behind a node's reference: setBitmap recycles
\* only what it replaces in the reference as well.
THEOREM DrawsLiveBitmaps == Spec => []DrawsNoRecycledBitmap
<1>1. IInv => DrawsNoRecycledBitmap
  <2> SUFFICES ASSUME IInv, NEW n \in Node PROVE s.tree[n].weak \notin s.recycled
    BY DEF DrawsNoRecycledBitmap, GetBitmap
  <2>1. Good(s, DoneOf(s, line, handler))
    BY DEF IInv, InvOf
  <2> QED BY <2>1 DEF Good, Drawable, Numbered
<1> QED BY <1>1, Invariant, PTL

\* As long as visibility is up to date with the view, only visible nodes are being
\* decoded: updateVisibility stops the others, and no answer starts one.
THEOREM DecodesVisible == Spec => []OnlyVisibleDecode
<1>1. IInv => OnlyVisibleDecode
  BY DEF IInv, InvOf, Rested, Settled, OnlyVisibleDecode
<1> QED BY <1>1, Invariant, PTL

\* At rest every visible leaf is covered by a node that draw() reaches and that has a
\* bitmap or is being decoded: what invalidateChildren and the end of updateVisibility
\* give up is covered by others.
THEOREM NothingBlank == Spec => []NothingBlankAtRest
<1>1. IInv => NothingBlankAtRest
  <2> SUFFICES ASSUME IInv, fresh, NEW n \in Node, Kids[n] = <<>>, Visible(s, n)
               PROVE  \E p \in Above(n) :
                        Attached(p) /\ (GetBitmap(s, p) # None \/ s.tree[p].decoding)
    BY DEF NothingBlankAtRest, AtRest
  <2>1. Good(s, DoneOf(s, line, handler)) /\ Covered(Root, s)
    BY DEF IInv, InvOf, Rested
  <2>2. PICK p \in Node :
          n \in Sub(p) /\ (s.tree[p].bitmap # None \/ s.tree[p].decoding)
    BY <2>1, RootAboveAll DEF Covered
  <2>3. p \in Above(n)
    BY <2>2 DEF Above, Sub
  <2>4. s.tree[p] # NewNode
    BY <2>2 DEF NewNode
  <2>5. Attached(p)
    BY <2>1, <2>4, ExistsAttached
  <2>6. GetBitmap(s, p) # None \/ s.tree[p].decoding
    BY <2>1, <2>2 DEF GetBitmap, Good, Drawable
  <2> QED BY <2>3, <2>5, <2>6
<1> QED BY <1>1, Invariant, PTL

\* At rest a visible slice below the threshold was decoded at the present zoom, but
\* for decodes that threw and late answers: commitZoom marks every bitmap as out of
\* date and withdraws every request.
THEOREM SharpWhenAtRest == Spec => []SharpAtRest
<1>1. IInv => SharpAtRest
  <2> SUFFICES ASSUME IInv, AtRest, NEW n \in Node, Visible(s, n), ~ThresholdHit(s, n),
                      s.tree[n].bitmap # None
               PROVE  \/ s.made[s.tree[n].bitmap].zoom = s.zoom
                      \/ \E i \in s.late : s.made[i].node = n
                      \/ s.tree[n].decoding
    BY DEF SharpAtRest
  <2>1. Good(s, DoneOf(s, line, handler)) /\ Sharp(s) /\ Settled(n, s)
    BY DEF IInv, InvOf, Rested, AtRest
  <2>2. s.tree[n].weak = s.tree[n].bitmap /\ s.tree[n].weak # None
    BY <2>1 DEF Good, Drawable
  <2>3. s.made[s.tree[n].weak].zoom = s.zoom \/ s.tree[n].invalid \/ LateAt(s, n)
    BY <2>1, <2>2 DEF Sharp
  <2>4. s.tree[n].invalid => s.tree[n].decoding
    BY <2>1 DEF Settled
  <2> QED BY <2>2, <2>3, <2>4 DEF LateAt
<1> QED BY <1>1, Invariant, PTL
=============================================================================
