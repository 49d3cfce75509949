--------------------------- MODULE HierarchyProofs ---------------------------
(***************************************************************************)
(* Theorems about Hierarchy.tla: the servers, managers and workers of a    *)
(* runtime of any shape, with any number of managers on any number of      *)
(* levels, any number of workers and any tree of tasks.  The proofs go in  *)
(* five parts.                                                             *)
(*                                                                         *)
(*  1. The tree: the Bounds, Size and Team of every node, and that the     *)
(*     division of ids among employees finds the right one (RoutesRight).  *)
(*  2. The inductive invariant IInv.  It accounts for every edge of the    *)
(*     tree by itself: what the boss counts for an employee against what   *)
(*     the employee has, owes and counts in turn.                          *)
(*  3. Every handler of a server or manager keeps IInv.                    *)
(*  4. So does every step of a worker.                                     *)
(*  5. The properties: the clients' view implements Compilation            *)
(*     (TreeCompiles), the views of the managers give TreeIdle, woken      *)
(*     tasks and results under way give TreeServes, and the accounts of    *)
(*     the edges added up over a team give TreeCounts.                     *)
(***************************************************************************)
EXTENDS Hierarchy, CrewProofs

----------------------------------------------------------------------------
(* The tree of bosses and employees.                                       *)

\* Everyone employed has one boss; the bosses there are are the server and the
\* employed managers.
LEMMA TreeType ==
    ASSUME system \in Systems
    PROVE  /\ Employees \in [Bosses -> Seq(Nodes)] /\ IsTree(Employees)
           /\ Employed \subseteq Nodes /\ Server \notin Nodes /\ Bosses \cap Workers = {}
           /\ IsFiniteSet(Nodes)
           /\ \A n \in Bosses :
                 /\ Of(n) \subseteq Employed /\ IsFiniteSet(Of(n))
                 /\ Of(n) \subseteq Managers \/ Of(n) \subseteq Workers
                 /\ \A e \in Of(n) : Boss(e) = n
           /\ \A e \in Employed :
                 /\ Boss(e) \in Present /\ Boss(e) \in Bosses /\ e \in Of(Boss(e))
                 /\ Nth(e) \in 1 .. Len(Employees[Boss(e)])
                 /\ Employees[Boss(e)][Nth(e)] = e
           /\ Server \in Present /\ Present \subseteq Bosses
           /\ Present \ {Server} = Managers \cap Employed
           /\ Of(Server) \subseteq Managers
<1>1. Employees \in [Bosses -> Seq(Nodes)] /\ IsTree(Employees)
  BY SystemsAssumption DEF SystemType, Employees
<1>2. /\ \A n \in Bosses : IsInjective(Employees[n]) /\ (Of(n) \subseteq Managers \/ Of(n) \subseteq Workers)
      /\ Of(Server) # {} /\ Of(Server) \subseteq Managers
      /\ \A n, o \in Bosses : n # o => Of(n) \cap Of(o) = {}
      /\ \A n \in Bosses : \A m \in Of(n) \cap Managers : Of(m) # {}
      /\ \A S \in SUBSET {m \in Managers : Of(m) # {}} :
            S # {} => \E n \in Bosses \ S : Of(n) \cap S # {}
  BY <1>1 DEF IsTree, Of
<1>3. /\ Server \notin Nodes /\ Bosses \cap Workers = {} /\ IsFiniteSet(Nodes)
      /\ Server \in Bosses /\ Managers \subseteq Bosses
  <2>1. IsFiniteSet(Nodes)
    BY NodesAssumption, WorkersAssumption, FS_Union DEF Nodes
  <2> QED BY <2>1, NodesAssumption DEF Nodes, Bosses
<1>4. ASSUME NEW n \in Bosses
      PROVE  /\ Of(n) \subseteq Employed /\ Of(n) \subseteq Nodes /\ IsFiniteSet(Of(n))
             /\ \A e \in Of(n) : Boss(e) = n
  <2>1. Of(n) \subseteq Nodes /\ Of(n) \subseteq Employed
    BY <1>1, RangeType DEF Of, Employed
  <2>2. IsFiniteSet(Of(n))
    BY <1>3, <2>1, FS_Subset
  <2>3. ASSUME NEW e \in Of(n) PROVE Boss(e) = n
    <3>1. \E o \in Bosses : e \in Range(Employees[o])
      BY DEF Of
    <3>2. Boss(e) \in Bosses /\ e \in Of(Boss(e))
      BY <3>1 DEF Boss, BossIn, Of
    <3> QED BY <1>2, <3>2
  <2> QED BY <2>1, <2>2, <2>3
<1>5. ASSUME NEW e \in Employed
      PROVE  /\ Boss(e) \in Present /\ Boss(e) \in Bosses /\ e \in Of(Boss(e)) /\ e \in Nodes
             /\ Nth(e) \in 1 .. Len(Employees[Boss(e)])
             /\ Employees[Boss(e)][Nth(e)] = e
  <2>1. PICK n \in Bosses : e \in Of(n)
    BY DEF Employed
  <2>2. Boss(e) = n /\ n \in Present /\ e \in Nodes
    BY <1>4, <2>1 DEF Present
  <2>3. \E i \in DOMAIN Employees[Boss(e)] : Employees[Boss(e)][i] = e
    BY <2>1, <2>2 DEF Of, Range
  <2>4. Nth(e) \in DOMAIN Employees[Boss(e)] /\ Employees[Boss(e)][Nth(e)] = e
    BY <2>3 DEF Nth, NthIn, Boss
  <2>5. DOMAIN Employees[Boss(e)] = 1 .. Len(Employees[Boss(e)])
    BY <1>1, <2>2
  <2> QED BY <2>1, <2>2, <2>4, <2>5
<1>6. Server \in Present /\ Present \subseteq Bosses
  BY <1>2, <1>3 DEF Present
<1>7. Present \ {Server} = Managers \cap Employed
  <2>1. ASSUME NEW m \in Present, m # Server PROVE m \in Managers \cap Employed
    <3>1. m \in Managers /\ Of(m) # {}
      BY <2>1 DEF Present, Bosses
    <3>2. \E n \in Bosses \ {m} : Of(n) \cap {m} # {}
      BY <1>2, <3>1
    <3> QED BY <3>1, <3>2 DEF Employed
  <2>2. ASSUME NEW m \in Managers, m \in Employed PROVE m \in Present /\ m # Server
    <3>1. Of(m) # {}
      BY <1>2, <2>2 DEF Employed
    <3> QED BY <1>3, <3>1, NodesAssumption DEF Present, Nodes
  <2> QED BY <2>1, <2>2
<1> QED BY <1>1, <1>2, <1>3, <1>4, <1>5, <1>6, <1>7

\* Among any employees there is one whose boss is not among them ...
LEMMA TopDown ==
    ASSUME system \in Systems, NEW S \in SUBSET Employed, S # {}
    PROVE  \E x \in S : Boss(x) \notin S
<1>1. /\ IsTree(Employees) /\ Employed \subseteq Nodes /\ Server \notin Nodes
      /\ \A n \in Bosses : \A e \in Of(n) : Boss(e) = n
      /\ \A e \in Employed : Boss(e) \in Bosses
      /\ Bosses \cap Workers = {} /\ Managers \cap Employed = Present \ {Server}
  BY TreeType
<1>2. CASE S \cap Managers # {}
  <2>1. S \cap Managers \in SUBSET {m \in Managers : Of(m) # {}}
    BY <1>1 DEF Present
  <2>2. PICK n \in Bosses \ (S \cap Managers) : Of(n) \cap (S \cap Managers) # {}
    BY <1>1, <1>2, <2>1 DEF IsTree, Of
  <2>3. PICK x \in S \cap Managers : x \in Of(n)
    BY <2>2
  <2>4. Boss(x) = n /\ n \notin S
    BY <1>1, <2>2, <2>3 DEF Nodes, Bosses
  <2> QED BY <2>3, <2>4
<1>3. CASE S \cap Managers = {}
  <2>1. PICK x \in S : TRUE
    OBVIOUS
  <2>2. Boss(x) \in Bosses /\ Boss(x) \notin S
    BY <1>1, <1>3 DEF Nodes, Bosses
  <2> QED BY <2>2
<1> QED BY <1>2, <1>3

\* The nodes of the tree, the server included.
Tops == Bosses \cup Workers
\* The employees of a node of the tree; a worker has none.
Under(n) == IF n \in Workers THEN {} ELSE Of(n)

\* ... and among any nodes one that has no employee among them.
LEMMA BottomUp ==
    ASSUME system \in Systems, NEW S \in SUBSET Tops, S # {}
    PROVE  \E n \in S : Under(n) \cap S = {}
<1>1. /\ IsTree(Employees) /\ Employed \subseteq Nodes /\ Server \notin Nodes
      /\ \A n \in Bosses : Of(n) \subseteq Employed
      /\ IsFiniteSet(Nodes) /\ Bosses \cap Workers = {}
      /\ \A n \in Bosses : \A e \in Of(n) : Boss(e) = n
  BY TreeType
<1> SUFFICES ASSUME \A n \in S : Under(n) \cap S # {} PROVE FALSE
  OBVIOUS
<1>2. S \subseteq Bosses /\ \A n \in S : Under(n) = Of(n)
  BY <1>1 DEF Under, Tops
<1> DEFINE g == [n \in S |-> CHOOSE x \in S : x \in Of(n)]
<1>3. \A n \in S : g[n] \in S /\ g[n] \in Of(n)
  BY <1>2
<1> HIDE DEF g
<1>4. \A n, o \in S : g[n] = g[o] => n = o
  <2>1. ASSUME NEW n \in S PROVE Boss(g[n]) = n
    BY <1>1, <1>2, <1>3
  <2> QED BY <2>1
<1>5. IsFiniteSet(S)
  <2>1. IsFiniteSet(Nodes \cup {Server})
    BY <1>1, FS_AddElement
  <2>2. S \in SUBSET (Nodes \cup {Server})
    BY <1>2 DEF Bosses, Nodes
  <2> QED BY <2>1, <2>2, FS_Subset
<1>6. g \in Injection(S, S)
  BY <1>3, <1>4 DEF g, Injection, IsInjective
<1>7. g \in Surjection(S, S)
  BY <1>5, <1>6, FS_Injection
<1>8. \A x \in S : \E n \in S : g[n] = x
  BY <1>7 DEF Surjection
<1>9. S \subseteq {m \in Managers : Of(m) # {}}
  <2>1. ASSUME NEW x \in S PROVE x \in Managers /\ Of(x) # {}
    <3>1. PICK n \in S : g[n] = x
      BY <1>8
    <3>2. x \in Employed
      BY <1>1, <1>2, <1>3, <3>1
    <3> QED BY <1>1, <1>2, <1>3, <3>2 DEF Bosses, Nodes
  <2> QED BY <2>1
<1>10. PICK n \in Bosses \ S : Of(n) \cap S # {}
  BY <1>1, <1>9 DEF IsTree, Of
<1>11. PICK x \in S : x \in Of(n)
  BY <1>10
<1>12. PICK o \in S : g[o] = x
  BY <1>8
<1>13. Boss(x) = n /\ Boss(x) = o
  BY <1>1, <1>2, <1>3, <1>10, <1>11, <1>12
<1> QED BY <1>10, <1>13

\* total_workers: the workers below a node.
LEMMA SizeType ==
    ASSUME system \in Systems
    PROVE  /\ Size = [e \in Tops |-> IF e \in Workers THEN 1 ELSE Total([x \in Of(e) |-> Size[x]])]
           /\ \A e \in Tops : Size[e] \in Nat
<1> DEFINE body(p) == IF p[1] \in Workers THEN 1 ELSE Total([x \in Of(p[1]) |-> p[2][x]])
           h == [p \in Tops \X [Tops -> Nat] |-> body(p)]
           dep == [n \in Tops |-> Under(n)]
<1>1. /\ \A n \in Bosses : Of(n) \subseteq Tops /\ IsFiniteSet(Of(n))
      /\ Bosses \cap Workers = {}
  BY TreeType DEF Tops, Nodes, Bosses
<1>2. \A n \in Tops \ Workers : n \in Bosses
  BY DEF Tops
<1>3. dep \in [Tops -> SUBSET Tops] /\ NoCycle(Tops, dep) /\ \A n \in Tops : dep[n] = Under(n)
  <2>1. dep \in [Tops -> SUBSET Tops] /\ \A n \in Tops : dep[n] = Under(n)
    BY <1>1, <1>2 DEF Under
  <2> HIDE DEF dep
  <2>2. ASSUME NEW S \in SUBSET Tops, S # {} PROVE \E n \in S : dep[n] \cap S = {}
    <3>1. PICK n \in S : Under(n) \cap S = {}
      BY <2>2, BottomUp
    <3> QED BY <2>1, <3>1
  <2> QED BY <2>1, <2>2 DEF NoCycle
<1>4. ASSUME NEW n \in Tops \ Workers, NEW f \in [Tops -> Nat]
      PROVE  Total([x \in Of(n) |-> f[x]]) \in Nat
  <2>1. [x \in Of(n) |-> f[x]] \in [Of(n) -> Nat]
    BY <1>1, <1>2
  <2> QED BY <1>1, <1>2, <2>1, TotalNat
<1>5. h \in [Tops \X [Tops -> Nat] -> Nat] /\ \A n \in Tops, f \in [Tops -> Nat] :
          h[<<n, f>>] = IF n \in Workers THEN 1 ELSE Total([x \in Of(n) |-> f[x]])
  <2>1. ASSUME NEW n \in Tops, NEW f \in [Tops -> Nat] PROVE body(<<n, f>>) \in Nat
    BY <1>4
  <2>2. \A p \in Tops \X [Tops -> Nat] : body(p) \in Nat
    <3> HIDE DEF body
    <3> QED BY <2>1
  <2>3. \A p \in Tops \X [Tops -> Nat] : h[p] = body(p)
    OBVIOUS
  <2>4. h \in [Tops \X [Tops -> Nat] -> Nat]
    <3> HIDE DEF body
    <3> QED BY <2>2
  <2>5. ASSUME NEW n \in Tops, NEW f \in [Tops -> Nat]
        PROVE  h[<<n, f>>] = IF n \in Workers THEN 1 ELSE Total([x \in Of(n) |-> f[x]])
    <3>1. h[<<n, f>>] = body(<<n, f>>)
      BY <2>3
    <3> HIDE DEF h
    <3> QED BY <3>1
  <2> QED BY <2>4, <2>5
<1> HIDE DEF h, dep
<1>6. Looks(Tops, Nat, dep, h)
  <2>1. ASSUME NEW n \in Tops, NEW f \in [Tops -> Nat], NEW g \in [Tops -> Nat],
               \A x \in dep[n] : f[x] = g[x]
        PROVE  h[<<n, f>>] = h[<<n, g>>]
    <3>1. CASE n \in Workers
      BY <1>5, <3>1
    <3>2. CASE n \notin Workers
      <4>1. dep[n] = Of(n)
        BY <1>3, <3>2 DEF Under
      <4>2. [x \in Of(n) |-> f[x]] = [x \in Of(n) |-> g[x]]
        BY <2>1, <4>1
      <4>3. /\ h[<<n, f>>] = Total([x \in Of(n) |-> f[x]])
            /\ h[<<n, g>>] = Total([x \in Of(n) |-> g[x]])
        BY <1>5, <3>2
      <4> QED BY <4>2, <4>3
    <3> QED BY <3>1, <3>2
  <2> QED BY <2>1 DEF Looks
<1>7. \E f \in [Tops -> Nat] : \A n \in Tops : f[n] = h[<<n, f>>]
  <2>1. 0 \in Nat
    OBVIOUS
  <2>2. h \in [Tops \X [Tops -> Nat] -> Nat]
    BY <1>5
  <2>3. Solved(Tops, Nat, h)
    BY <1>3, <1>6, <2>1, <2>2, RecursionOnTree
  <2> QED BY <2>3 DEF Solved
<1>8. \E f : f = [e \in Tops |-> IF e \in Workers THEN 1 ELSE Total([x \in Of(e) |-> f[x]])]
  <2>1. PICK f \in [Tops -> Nat] : \A n \in Tops : f[n] = h[<<n, f>>]
    BY <1>7
  <2>2. \A n \in Tops : f[n] = IF n \in Workers THEN 1 ELSE Total([x \in Of(n) |-> f[x]])
    BY <1>5, <2>1
  <2>3. f = [e \in Tops |-> IF e \in Workers THEN 1 ELSE Total([x \in Of(e) |-> f[x]])]
    BY <2>2
  <2> QED BY <2>3
<1>9. Size = [e \in Tops |-> IF e \in Workers THEN 1 ELSE Total([x \in Of(e) |-> Size[x]])]
  BY <1>8 DEF Size, Sizes, Of, Tops
<1> DEFINE S == {e \in Tops : Size[e] \notin Nat}
<1>10. S = {}
  <2> SUFFICES ASSUME S # {} PROVE FALSE
    OBVIOUS
  <2>1. S \in SUBSET Tops
    OBVIOUS
  <2>2. PICK n \in S : Under(n) \cap S = {}
    BY <2>1, BottomUp
  <2>3. n \in Bosses /\ n \notin Workers /\ Under(n) = Of(n)
    BY <1>2, <1>9 DEF Under
  <2>4. \A x \in Of(n) : Size[x] \in Nat
    BY <1>1, <2>2, <2>3
  <2>5. [x \in Of(n) |-> Size[x]] \in [Of(n) -> Nat]
    BY <2>4
  <2>6. Total([x \in Of(n) |-> Size[x]]) \in Nat
    BY <1>1, <2>3, <2>5, TotalNat
  <2> HIDE DEF S
  <2>7. Size[n] \in Nat
    BY <1>9, <2>1, <2>3, <2>6
  <2> QED BY <2>7 DEF S
<1> QED BY <1>9, <1>10

\* The nodes below one, itself included.
LEMMA TeamEquation ==
    ASSUME system \in Systems
    PROVE  Team = [n \in Tops |-> {n} \cup UNION {Team[e] : e \in Under(n)}]
<1> DEFINE V == SUBSET Tops
           body(p) == {p[1]} \cup UNION {p[2][e] : e \in Under(p[1])}
           h == [p \in Tops \X [Tops -> V] |-> body(p)]
           dep == [n \in Tops |-> Under(n)]
<1>1. /\ \A n \in Bosses : Of(n) \subseteq Tops
      /\ Bosses \cap Workers = {}
  BY TreeType DEF Tops, Nodes, Bosses
<1>2. \A n \in Tops \ Workers : n \in Bosses
  BY DEF Tops
<1>3. dep \in [Tops -> SUBSET Tops] /\ NoCycle(Tops, dep) /\ \A n \in Tops : dep[n] = Under(n)
  <2>1. dep \in [Tops -> SUBSET Tops] /\ \A n \in Tops : dep[n] = Under(n)
    BY <1>1, <1>2 DEF Under
  <2> HIDE DEF dep
  <2>2. ASSUME NEW S \in SUBSET Tops, S # {} PROVE \E n \in S : dep[n] \cap S = {}
    <3>1. PICK n \in S : Under(n) \cap S = {}
      BY <2>2, BottomUp
    <3> QED BY <2>1, <3>1
  <2> QED BY <2>1, <2>2 DEF NoCycle
<1>5. h \in [Tops \X [Tops -> V] -> V] /\ \A n \in Tops, f \in [Tops -> V] :
          h[<<n, f>>] = {n} \cup UNION {f[e] : e \in Under(n)}
  <2>1. ASSUME NEW n \in Tops, NEW f \in [Tops -> V] PROVE body(<<n, f>>) \in V
    <3>1. \A e \in Under(n) : f[e] \in V
      BY <1>3
    <3>2. {n} \cup UNION {f[e] : e \in Under(n)} \in V
      BY <3>1
    <3> QED BY <3>2
  <2> HIDE DEF V
  <2> QED BY <2>1
<1> HIDE DEF h, dep, V
<1>6. Looks(Tops, V, dep, h)
  <2>1. ASSUME NEW n \in Tops, NEW f \in [Tops -> V], NEW g \in [Tops -> V],
               \A x \in dep[n] : f[x] = g[x]
        PROVE  h[<<n, f>>] = h[<<n, g>>]
    <3>1. {f[e] : e \in Under(n)} = {g[e] : e \in Under(n)}
      BY <1>3, <2>1
    <3> QED BY <1>5, <3>1
  <2> QED BY <2>1 DEF Looks
<1>7. \E f \in [Tops -> V] : \A n \in Tops : f[n] = h[<<n, f>>]
  <2>1. {} \in V
    BY DEF V
  <2>2. h \in [Tops \X [Tops -> V] -> V]
    BY <1>5
  <2>3. Solved(Tops, V, h)
    BY <1>3, <1>6, <2>1, <2>2, RecursionOnTree
  <2> QED BY <2>3 DEF Solved
<1>8. \E f : f = [n \in Tops |-> {n} \cup UNION {f[e] : e \in Under(n)}]
  <2>1. PICK f \in [Tops -> V] : \A n \in Tops : f[n] = h[<<n, f>>]
    BY <1>7
  <2>2. \A n \in Tops : f[n] = {n} \cup UNION {f[e] : e \in Under(n)}
    BY <1>5, <2>1
  <2>3. f = [n \in Tops |-> {n} \cup UNION {f[e] : e \in Under(n)}]
    BY <2>2
  <2> QED BY <2>3
<1>9. \A f : [n \in Tops |-> {n} \cup UNION {f[e] : e \in Under(n)}]
             = [n \in Bosses \cup Workers |->
                  {n} \cup (IF n \in Workers THEN {} ELSE UNION {f[e] : e \in Range(Employees[n])})]
  BY DEF Tops, Under, Of
<1>10. \E f : f = [n \in Bosses \cup Workers |->
                  {n} \cup (IF n \in Workers THEN {} ELSE UNION {f[e] : e \in Range(Employees[n])})]
  BY <1>8, <1>9, SMTT(30)
<1>11. Team = [n \in Bosses \cup Workers |->
                  {n} \cup (IF n \in Workers THEN {} ELSE UNION {Team[e] : e \in Range(Employees[n])})]
  BY <1>10 DEF Team, Teams
<1>12. [n \in Tops |-> {n} \cup UNION {Team[e] : e \in Under(n)}]
             = [n \in Bosses \cup Workers |->
                  {n} \cup (IF n \in Workers THEN {} ELSE UNION {Team[e] : e \in Range(Employees[n])})]
  BY DEF Tops, Under, Of
<1> QED BY <1>11, <1>12

\* Who is in a team.
LEMMA TeamType ==
    ASSUME system \in Systems
    PROVE  \A n \in Tops :
              /\ n \in Team[n] /\ Team[n] \subseteq Tops
              /\ \A e \in Under(n) : Team[e] \subseteq Team[n]
              /\ \A x \in Team[n] : x = n \/ \E e \in Under(n) : x \in Team[e]
              /\ Under(n) \subseteq Tops \cap Employed
              /\ n \in Workers => Team[n] = {n}
<1>1. /\ \A n \in Bosses : Of(n) \subseteq Tops /\ Of(n) \subseteq Employed
      /\ Bosses \cap Workers = {}
  BY TreeType DEF Tops, Nodes, Bosses
<1>2. \A n \in Tops : Team[n] = {n} \cup UNION {Team[e] : e \in Under(n)}
  BY TeamEquation
<1>3. \A n \in Tops : Under(n) \subseteq Tops \cap Employed
  BY <1>1 DEF Tops, Under
<1> DEFINE S == {n \in Tops : ~(Team[n] \subseteq Tops)}
<1>4. S = {}
  <2> SUFFICES ASSUME S # {} PROVE FALSE
    OBVIOUS
  <2>1. S \in SUBSET Tops
    OBVIOUS
  <2>2. PICK n \in S : Under(n) \cap S = {}
    BY <2>1, BottomUp
  <2>3. \A e \in Under(n) : Team[e] \subseteq Tops
    BY <1>3, <2>2
  <2>4. Team[n] = {n} \cup UNION {Team[e] : e \in Under(n)} /\ n \in Tops
    BY <1>2
  <2>5. Team[n] \subseteq Tops
    BY <2>3, <2>4
  <2> QED BY <2>5
<1>5. \A n \in Workers : Team[n] = {n}
  <2>1. \A n \in Workers : n \in Tops /\ Under(n) = {}
    BY DEF Tops, Under
  <2> QED BY <1>2, <2>1
<1> QED BY <1>2, <1>3, <1>4, <1>5

\* The team of a member is part of the team.
LEMMA TeamTransitive ==
    ASSUME system \in Systems, NEW n \in Tops, NEW m \in Team[n]
    PROVE  Team[m] \subseteq Team[n] /\ m \in Tops
<1> DEFINE S == {b \in Tops : \E a \in Team[b] : ~(Team[a] \subseteq Team[b])}
<1>1. S = {}
  <2> SUFFICES ASSUME S # {} PROVE FALSE
    OBVIOUS
  <2>1. S \in SUBSET Tops
    OBVIOUS
  <2>2. PICK b \in S : Under(b) \cap S = {}
    BY <2>1, BottomUp
  <2>3. PICK a \in Team[b] : ~(Team[a] \subseteq Team[b])
    OBVIOUS
  <2>4. PICK e \in Under(b) : a \in Team[e] /\ e \in Tops
    BY <2>3, TeamType
  <2>5. Team[a] \subseteq Team[e]
    BY <2>2, <2>4
  <2> QED BY <2>3, <2>4, <2>5, TeamType
<1> QED BY <1>1, TeamType

\* A member is the head of the team, or its boss is in the team too.
LEMMA TeamBoss ==
    ASSUME system \in Systems, NEW n \in Tops, NEW x \in Team[n], x # n
    PROVE  x \in Employed /\ Boss(x) \in Team[n]
<1> DEFINE S == {b \in Tops : \E a \in Team[b] : a # b /\ ~(a \in Employed /\ Boss(a) \in Team[b])}
<1>1. S = {}
  <2> SUFFICES ASSUME S # {} PROVE FALSE
    OBVIOUS
  <2>1. S \in SUBSET Tops
    OBVIOUS
  <2>2. PICK b \in S : Under(b) \cap S = {}
    BY <2>1, BottomUp
  <2>3. PICK a \in Team[b] : a # b /\ ~(a \in Employed /\ Boss(a) \in Team[b])
    OBVIOUS
  <2>4. PICK e \in Under(b) : a \in Team[e] /\ e \in Tops /\ e \in Employed
    BY <2>3, TeamType
  <2>5. CASE a = e
    <3>1. b \in Bosses /\ e \in Of(b)
      BY <2>4 DEF Under, Tops
    <3>2. Boss(e) = b
      BY <3>1, TreeType
    <3> QED BY <2>3, <2>4, <2>5, <3>2, TeamType
  <2>6. CASE a # e
    <3>1. a \in Employed /\ Boss(a) \in Team[e]
      BY <2>2, <2>4, <2>6
    <3> QED BY <2>3, <2>4, <3>1, TeamType
  <2> QED BY <2>5, <2>6
<1> QED BY <1>1

\* Nobody is in the team of an employee of its own.
LEMMA TeamAcyclic ==
    ASSUME system \in Systems, NEW n \in Bosses, NEW e \in Of(n)
    PROVE  n \notin Team[e]
<1> DEFINE S == {b \in Tops : \E a \in Under(b) : b \in Team[a]}
<1>1. S = {}
  <2> SUFFICES ASSUME S # {} PROVE FALSE
    OBVIOUS
  <2>1. S \in SUBSET Tops
    OBVIOUS
  <2>2. PICK b \in S : Under(b) \cap S = {}
    BY <2>1, BottomUp
  <2>3. PICK a \in Under(b) : b \in Team[a] /\ a \in Tops
    BY TeamType
  <2>4. PICK c \in Under(a) : b \in Team[c] /\ c \in Tops
    <3>1. b # a
      BY <2>2, <2>3
    <3> QED BY <2>3, <3>1, TeamType
  <2>5. a \in Team[b]
    BY <2>3, TeamType
  <2>6. a \in Team[c]
    BY <2>4, <2>5, TeamTransitive
  <2>7. a \in S
    BY <2>3, <2>4, <2>6
  <2> QED BY <2>2, <2>3, <2>7
<1>2. n \in Tops /\ e \in Under(n)
  <2>1. n \notin Workers
    BY TreeType
  <2> QED BY <2>1 DEF Tops, Under
<1> QED BY <1>1, <1>2

\* Two teams with a common member: one contains the head of the other.
LEMMA TeamsNested ==
    ASSUME system \in Systems, NEW a \in Tops, NEW b \in Tops, NEW x \in Team[a] \cap Team[b]
    PROVE  a \in Team[b] \/ b \in Team[a]
<1> DEFINE S == {y \in Employed : y \in Team[a] \cap Team[b]}
<1> SUFFICES ASSUME a \notin Team[b], b \notin Team[a] PROVE FALSE
  OBVIOUS
<1>1. \A y \in Team[a] \cap Team[b] : y \in Employed /\ Boss(y) \in Team[a] \cap Team[b]
  <2>1. ASSUME NEW y \in Team[a] \cap Team[b]
        PROVE  y \in Employed /\ Boss(y) \in Team[a] \cap Team[b]
    <3>1. y # a /\ y # b
      OBVIOUS
    <3> QED BY <3>1, TeamBoss
  <2> QED BY <2>1
<1>2. S \in SUBSET Employed /\ S # {}
  BY <1>1
<1>3. PICK y \in S : Boss(y) \notin S
  BY <1>2, TopDown
<1> QED BY <1>1, <1>3

\* The teams of the employees of a node are disjoint.
LEMMA TeamsApart ==
    ASSUME system \in Systems, NEW n \in Bosses, NEW e \in Of(n), NEW g \in Of(n), e # g
    PROVE  Team[e] \cap Team[g] = {}
<1>1. e \in Tops /\ g \in Tops /\ Boss(e) = n /\ Boss(g) = n
  BY TreeType DEF Tops, Nodes, Bosses
<1>2. e \notin Team[g]
  <2>1. e \in Team[g] => n \in Team[g]
    BY <1>1, TeamBoss
  <2> QED BY <2>1, TeamAcyclic
<1>3. g \notin Team[e]
  <2>1. g \in Team[e] => n \in Team[e]
    BY <1>1, TeamBoss
  <2> QED BY <2>1, TeamAcyclic
<1> QED BY <1>1, <1>2, <1>3, TeamsNested

\* Everyone employed is in the server's team, and in that of one of its
\* employees.
LEMMA TeamServer ==
    ASSUME system \in Systems, NEW x \in Employed
    PROVE  x \in Team[Server] /\ \E e \in Of(Server) : x \in Team[e]
<1>1. /\ Employed \subseteq Nodes /\ Server \notin Nodes /\ Server \in Bosses /\ Bosses \cap Workers = {}
      /\ \A e \in Employed : Boss(e) \in Present /\ e \in Of(Boss(e)) /\ Boss(e) \in Bosses
      /\ Present \ {Server} \subseteq Employed
  BY TreeType DEF Bosses
<1>2. Server \in Tops /\ Under(Server) = Of(Server)
  BY <1>1 DEF Tops, Under
<1> DEFINE S == {y \in Employed : y \notin Team[Server]}
<1>3. S = {}
  <2> SUFFICES ASSUME S # {} PROVE FALSE
    OBVIOUS
  <2>1. S \in SUBSET Employed
    OBVIOUS
  <2>2. PICK y \in S : Boss(y) \notin S
    BY <2>1, TopDown
  <2>3. Boss(y) \in Team[Server]
    BY <1>1, <1>2, <2>2, TeamType
  <2>4. Boss(y) \in Tops /\ y \in Under(Boss(y))
    BY <1>1 DEF Tops, Under
  <2>5. y \in Team[Boss(y)]
    BY <2>4, TeamType
  <2> QED BY <1>2, <2>3, <2>5, TeamTransitive
<1>4. x \in Team[Server] /\ x # Server
  BY <1>1, <1>3
<1> QED BY <1>2, <1>4, TeamType

\* The boss's team is in every team that an employee is strictly part of; every
\* employee's team is in its boss's.
LEMMA TeamOfBoss ==
    ASSUME system \in Systems, NEW e \in Employed
    PROVE  /\ Team[e] \subseteq Team[Boss(e)] /\ Boss(e) \in Tops
           /\ e \in Tops /\ Team[e] \subseteq Employed
<1>1. Boss(e) \in Bosses /\ e \in Of(Boss(e)) /\ Bosses \cap Workers = {} /\ e \in Nodes
  BY TreeType
<1>2. Boss(e) \in Tops /\ e \in Under(Boss(e)) /\ e \in Tops
  BY <1>1 DEF Tops, Under, Nodes, Bosses
<1>3. ASSUME NEW x \in Team[e] PROVE x \in Employed
  <2>1. CASE x = e
    BY <2>1
  <2>2. CASE x # e
    BY <1>2, <2>2, TeamBoss
  <2> QED BY <2>1, <2>2
<1> QED BY <1>2, <1>3, TeamType

----------------------------------------------------------------------------
(* Ids.                                                                    *)

\* The share of the range lo .. hi that the i-th of len employees gets.
Part(lo, hi, len, i) ==
    <<lo + (i - 1) * ((hi - lo) \div len), Capped(lo + i * ((hi - lo) \div len), lo, hi)>>

\* What the recursive definition in Ranges computes.
LEMMA BoundsEquation ==
    ASSUME system \in Systems
    PROVE  \A n \in Present :
              Bounds[n] = IF n = Server THEN <<0, IdRange>>
                          ELSE LET b == Boss(n) IN
                               Part(Bounds[b][1], Bounds[b][2], Len(Employees[b]), Nth(n))
<1> DEFINE V == Int \X Int
           next(n, r) == Part(r[1], r[2], Len(Employees[Boss(n)]), Nth(n))
           body(p) == IF p[1] = Server THEN <<0, IdRange>> ELSE next(p[1], p[2][Boss(p[1])])
           h == [p \in Present \X [Present -> V] |-> body(p)]
           dep == [n \in Present |-> IF n = Server THEN {} ELSE {Boss(n)}]
<1>1. /\ Employees \in [Bosses -> Seq(Nodes)] /\ Server \in Present /\ Present \subseteq Bosses
      /\ Present \ {Server} \subseteq Employed
      /\ \A e \in Employed : Boss(e) \in Present /\ Nth(e) \in 1 .. Len(Employees[Boss(e)])
  BY TreeType
<1>2. dep \in [Present -> SUBSET Present] /\ NoCycle(Present, dep)
      /\ \A n \in Present : dep[n] = IF n = Server THEN {} ELSE {Boss(n)}
  <2>1. /\ dep \in [Present -> SUBSET Present]
        /\ \A n \in Present : dep[n] = IF n = Server THEN {} ELSE {Boss(n)}
    BY <1>1
  <2> HIDE DEF dep
  <2>2. ASSUME NEW S \in SUBSET Present, S # {} PROVE \E n \in S : dep[n] \cap S = {}
    <3>1. CASE Server \in S
      BY <1>1, <2>1, <3>1
    <3>2. CASE Server \notin S
      <4>1. S \in SUBSET Employed
        BY <1>1, <3>2
      <4>2. PICK n \in S : Boss(n) \notin S
        BY <2>2, <4>1, TopDown
      <4> QED BY <2>1, <3>2, <4>2
    <3> QED BY <3>1, <3>2
  <2> QED BY <2>1, <2>2 DEF NoCycle
<1>3. ASSUME NEW n \in Present, n # Server, NEW r \in V PROVE next(n, r) \in V
  <2>1. Boss(n) \in Bosses /\ Nth(n) \in 1 .. Len(Employees[Boss(n)])
    BY <1>1, <1>3
  <2>2. Len(Employees[Boss(n)]) \in Nat
    BY <1>1, <2>1
  <2> DEFINE len == Len(Employees[Boss(n)])
             i == Nth(n)
  <2>3. len \in Nat /\ i \in 1..len /\ i \in Int /\ len >= 1
    BY <2>1, <2>2
  <2>4. r[1] \in Int /\ r[2] \in Int
    OBVIOUS
  <2> HIDE DEF len, i
  <2>5. (r[2] - r[1]) \div len \in Int
    BY <2>3, <2>4
  <2> DEFINE d == (r[2] - r[1]) \div len
  <2> HIDE DEF d
  <2>6. r[1] + (i - 1) * d \in Int /\ r[1] + i * d \in Int
    BY <2>3, <2>4, <2>5 DEF d
  <2>7. Capped(r[1] + i * d, r[1], r[2]) \in Int
    BY <2>4, <2>6 DEF Capped
  <2>8. Part(r[1], r[2], len, i) \in V
    BY <2>6, <2>7 DEF d, Part
  <2> QED BY <2>8 DEF len, i
<1>4. h \in [Present \X [Present -> V] -> V] /\ \A n \in Present, f \in [Present -> V] :
          h[<<n, f>>] = IF n = Server THEN <<0, IdRange>> ELSE next(n, f[Boss(n)])
  <2>1. ASSUME NEW n \in Present, NEW f \in [Present -> V] PROVE body(<<n, f>>) \in V
    <3>1. CASE n = Server
      BY <3>1, SystemsAssumption
    <3>2. CASE n # Server
      <4>1. f[Boss(n)] \in V
        BY <1>1, <3>2
      <4> HIDE DEF next, V
      <4> QED BY <1>3, <3>2, <4>1
    <3> QED BY <3>1, <3>2
  <2> HIDE DEF V, next
  <2>2. \A p \in Present \X [Present -> V] : body(p) \in V
    <3> HIDE DEF body
    <3> QED BY <2>1
  <2>3. h \in [Present \X [Present -> V] -> V]
    <3> HIDE DEF body
    <3> QED BY <2>2
  <2> QED BY <2>3
<1> HIDE DEF h, dep, V, next
<1>5. Looks(Present, V, dep, h)
  <2>1. ASSUME NEW n \in Present, NEW f \in [Present -> V], NEW g \in [Present -> V],
               \A x \in dep[n] : f[x] = g[x]
        PROVE  h[<<n, f>>] = h[<<n, g>>]
    <3>1. n # Server => f[Boss(n)] = g[Boss(n)]
      BY <1>2, <2>1
    <3> QED BY <1>4, <3>1
  <2> QED BY <2>1 DEF Looks
<1>6. \E f \in [Present -> V] : \A n \in Present :
          f[n] = IF n = Server THEN <<0, IdRange>> ELSE next(n, f[Boss(n)])
  <2>1. <<0, IdRange>> \in V
    BY SystemsAssumption DEF V
  <2>2. h \in [Present \X [Present -> V] -> V]
    BY <1>4
  <2>3. Solved(Present, V, h)
    BY <1>2, <1>5, <2>1, <2>2, RecursionOnTree
  <2> QED BY <1>4, <2>3 DEF Solved
<1> DEFINE Eq(f) == f = [n \in {m \in Bosses : Range(Employees[m]) # {}} |->
          IF n = Server THEN <<0, IdRange>>
          ELSE LET boss == BossIn(Employees, n)
                   lo   == f[boss][1]
                   hi   == f[boss][2]
                   step == (hi - lo) \div Len(Employees[boss])
                   i    == NthIn(Employees, n)
               IN  <<lo + (i - 1) * step, Capped(lo + i * step, lo, hi)>>]
<1>7. \E f : Eq(f)
  <2>1. PICK f \in [Present -> V] : \A n \in Present :
          f[n] = IF n = Server THEN <<0, IdRange>> ELSE next(n, f[Boss(n)])
    BY <1>6
  <2>2. f = [n \in Present |-> IF n = Server THEN <<0, IdRange>> ELSE next(n, f[Boss(n)])]
    BY <2>1
  <2>3. Eq(f)
    BY <2>2, Zenon DEF next, Part, Boss, Nth, Present, Of
  <2> HIDE DEF Eq
  <2> QED BY <2>3
<1>8. Eq(Bounds)
  BY <1>7, Zenon DEF Bounds, Ranges
<1> QED BY <1>8, Zenon DEF Part, Boss, Nth, Present, Of

\* The first and the last bound of the ids of n (base.py lower_id_bound and
\* upper_id_bound), its number of employees, and the ids of each of them.
Lo(n)    == Bounds[n][1]
Hi(n)    == Bounds[n][2]
Staff(n) == Len(Employees[n])
Slice(n) == (Hi(n) - Lo(n)) \div Staff(n)

\* Ranges are what they should be, and a manager's lies in its boss's.
LEMMA BoundsType ==
    ASSUME system \in Systems
    PROVE  \A n \in Present :
              /\ Lo(n) \in Nat /\ Hi(n) \in Nat /\ Lo(n) <= Hi(n) /\ Staff(n) \in Nat \ {0}
              /\ n # Server =>
                    LET b == Boss(n)
                        i == Nth(n)
                    IN  /\ b \in Present /\ i \in 1 .. Staff(b) /\ Slice(b) \in Nat
                        /\ Lo(n) = Lo(b) + (i - 1) * Slice(b)
                        /\ Hi(n) = Lo(n) + Slice(b)
                        /\ Lo(b) <= Lo(n) /\ Hi(n) <= Hi(b)
<1> DEFINE ok(n) == Lo(n) \in Nat /\ Hi(n) \in Nat /\ Lo(n) <= Hi(n)
           S == {n \in Present : ~ok(n)}
<1>1. /\ Employees \in [Bosses -> Seq(Nodes)] /\ Server \in Present /\ Present \subseteq Bosses
      /\ Present \ {Server} \subseteq Employed
      /\ \A e \in Employed : Boss(e) \in Present /\ Nth(e) \in 1 .. Staff(Boss(e))
  BY TreeType DEF Staff
<1>2. \A n \in Present : Staff(n) \in Nat \ {0}
  <2>1. ASSUME NEW n \in Present PROVE Staff(n) \in Nat \ {0}
    <3>1. Employees[n] \in Seq(Nodes) /\ Range(Employees[n]) # {}
      BY <1>1 DEF Present, Of
    <3>2. Employees[n] # <<>>
      BY <3>1, RangeType
    <3> QED BY <3>1, <3>2 DEF Staff
  <2> QED BY <2>1
<1>3. ASSUME NEW n \in Present, n # Server, ok(Boss(n))
      PROVE  LET b == Boss(n)
                 i == Nth(n)
             IN  /\ b \in Present /\ i \in 1 .. Staff(b) /\ Slice(b) \in Nat
                 /\ Lo(n) = Lo(b) + (i - 1) * Slice(b)
                 /\ Hi(n) = Lo(n) + Slice(b)
                 /\ Lo(b) <= Lo(n) /\ Hi(n) <= Hi(b) /\ ok(n)
  <2> DEFINE b == Boss(n)
             i == Nth(n)
             len == Staff(b)
             d == Slice(b)
             lo == Lo(b)
             hi == Hi(b)
             w == hi - lo
  <2>1. b \in Present /\ i \in 1..len /\ len \in Nat \ {0} /\ lo \in Nat /\ hi \in Nat /\ w \in Nat
        /\ hi = lo + w /\ i \in Int
    BY <1>1, <1>2, <1>3
  <2>2. d = w \div len
    BY DEF Slice
  <2>3. Bounds[n] = Part(lo, hi, len, i)
    BY <1>3, BoundsEquation DEF Lo, Hi, Staff
  <2> HIDE DEF b, i, len, d, lo, hi, w
  <2>4. /\ d \in Nat /\ len * d <= w /\ (i - 1) * d \in Nat /\ i * d = (i - 1) * d + d
        /\ i * d <= len * d /\ i * d \in Nat
    BY <2>1, <2>2, Slices
  <2>5. lo + i * d >= lo /\ lo + i * d <= hi /\ lo + i * d \in Nat
    <3> DEFINE x == i * d
               y == len * d
    <3>1. x \in Nat /\ x <= y /\ y <= w /\ y \in Nat
      BY <2>1, <2>4
    <3> HIDE DEF x, y
    <3>2. lo + x >= lo /\ lo + x <= hi /\ lo + x \in Nat
      BY <2>1, <3>1
    <3> QED BY <3>2 DEF x
  <2>6. Capped(lo + i * d, lo, hi) = lo + i * d
    BY <2>1, <2>5 DEF Capped
  <2>7. Lo(n) = lo + (i - 1) * d /\ Hi(n) = lo + i * d
    <3>1. (hi - lo) \div len = d
      BY <2>2 DEF w
    <3> QED BY <2>3, <2>6, <3>1 DEF Part, Lo, Hi
  <2>8. Hi(n) = Lo(n) + d /\ lo <= Lo(n) /\ Hi(n) <= hi /\ Lo(n) \in Nat /\ Hi(n) \in Nat /\ Lo(n) <= Hi(n)
    <3> DEFINE z == (i - 1) * d
    <3>1. z \in Nat /\ Hi(n) = lo + (z + d) /\ Lo(n) = lo + z
      BY <2>4, <2>7
    <3> HIDE DEF z
    <3> QED BY <2>1, <2>4, <2>5, <2>7, <3>1
  <2> QED BY <2>1, <2>4, <2>7, <2>8 DEF b, i, len, d, lo, hi
<1>4. ok(Server)
  <2>1. Bounds[Server] = <<0, IdRange>>
    BY <1>1, BoundsEquation
  <2> QED BY <2>1, SystemsAssumption DEF Lo, Hi
<1>5. S = {}
  <2> SUFFICES ASSUME S # {} PROVE FALSE
    OBVIOUS
  <2>1. S \in SUBSET Employed
    BY <1>1, <1>4
  <2>2. PICK n \in S : Boss(n) \notin S
    BY <2>1, TopDown
  <2>3. n \in Present /\ n # Server /\ Boss(n) \in Present
    BY <1>1, <1>4, <2>1
  <2>4. ok(Boss(n))
    BY <2>2, <2>3
  <2> HIDE DEF ok
  <2> QED BY <1>3, <2>2, <2>3, <2>4
<1>6. \A n \in Present : ok(n)
  BY <1>5
<1> HIDE DEF ok
<1>7. \A n \in Present : n # Server => Boss(n) \in Present
  BY <1>1
<1>8. ASSUME NEW n \in Present, n # Server
      PROVE  LET b == Boss(n)
                 i == Nth(n)
             IN  /\ b \in Present /\ i \in 1 .. Staff(b) /\ Slice(b) \in Nat
                 /\ Lo(n) = Lo(b) + (i - 1) * Slice(b)
                 /\ Hi(n) = Lo(n) + Slice(b)
                 /\ Lo(b) <= Lo(n) /\ Hi(n) <= Hi(b)
  <2>1. ok(Boss(n))
    BY <1>6, <1>7, <1>8
  <2> QED BY <1>3, <1>8, <2>1
<1> QED BY <1>2, <1>6, <1>8 DEF ok

\* No step size is 0: the start-up check of the lowest managers covers all.
LEMMA StepSizeType ==
    ASSUME system \in Systems, Connected
    PROVE  \A n \in Present :
              /\ StepSize(n) \in Nat \ {0} /\ Lo(n) < Hi(n)
              /\ Lo(n) + Staff(n) * StepSize(n) <= Hi(n)
              /\ Of(n) \subseteq Workers => StepSize(n) = 1
              /\ ~(Of(n) \subseteq Workers) => StepSize(n) = Slice(n) /\ Of(n) \subseteq Managers
<1>1. /\ Server \in Present /\ Present \subseteq Bosses /\ Bosses \cap Workers = {}
      /\ Present \ {Server} = Managers \cap Employed
      /\ \A n \in Bosses : /\ Of(n) \subseteq Employed
                           /\ Of(n) \subseteq Managers \/ Of(n) \subseteq Workers
                           /\ \A e \in Of(n) : Boss(e) = n
      /\ Server \notin Nodes
  BY TreeType
<1>2. \A n \in Present : Lo(n) \in Nat /\ Hi(n) \in Nat /\ Lo(n) <= Hi(n) /\ Staff(n) \in Nat \ {0}
  BY BoundsType
<1>3. \A n \in Present : Of(n) \subseteq Workers => Lo(n) + Staff(n) < Hi(n)
  BY DEF Connected, Lo, Hi, Staff
<1>4. ASSUME NEW n \in Present, ~(Of(n) \subseteq Workers)
      PROVE  Of(n) \subseteq Managers /\ \A m \in Of(n) : m \in Present /\ Hi(m) = Lo(m) + Slice(n)
  <2>1. Of(n) \subseteq Managers
    BY <1>1, <1>4
  <2>2. ASSUME NEW m \in Of(n) PROVE m \in Present /\ Hi(m) = Lo(m) + Slice(n)
    <3>1. m \in Present /\ m # Server /\ Boss(m) = n
      BY <1>1, <2>1
    <3> QED BY <3>1, BoundsType
  <2> QED BY <2>1, <2>2
<1>5. ASSUME NEW n \in Present, Slice(n) >= 1 PROVE Lo(n) < Hi(n)
  <2> DEFINE w == Hi(n) - Lo(n)
             len == Staff(n)
  <2>1. w \in Nat /\ len \in Nat \ {0} /\ 1 \in 1..len /\ w \div len >= 1
    BY <1>2, <1>5 DEF Slice
  <2> HIDE DEF w, len
  <2>2. w >= 1
    BY <2>1, Slices
  <2> QED BY <1>2, <2>2 DEF w
<1> DEFINE S == {n \in Present : ~(Lo(n) < Hi(n))}
<1>6. S = {}
  <2> SUFFICES ASSUME S # {} PROVE FALSE
    OBVIOUS
  <2>1. S \in SUBSET Tops
    BY <1>1 DEF Tops
  <2>2. PICK n \in S : Under(n) \cap S = {}
    BY <2>1, BottomUp
  <2>3. Under(n) = Of(n) /\ n \in Present
    BY <1>1 DEF Under
  <2>4. CASE Of(n) \subseteq Workers
    <3>1. Lo(n) + Staff(n) < Hi(n) /\ Lo(n) \in Nat /\ Hi(n) \in Nat /\ Staff(n) \in Nat
      BY <1>2, <1>3, <2>3, <2>4
    <3>2. Lo(n) < Hi(n)
      BY <3>1
    <3> QED BY <3>2
  <2>5. CASE ~(Of(n) \subseteq Workers)
    <3>1. PICK m \in Of(n) : TRUE
      BY <2>3 DEF Present
    <3>2. m \in Present /\ Hi(m) = Lo(m) + Slice(n) /\ Lo(m) < Hi(m) /\ Lo(m) \in Nat /\ Hi(m) \in Nat
      <4>1. m \in Present /\ Hi(m) = Lo(m) + Slice(n)
        BY <1>4, <2>3, <2>5
      <4>2. m \notin S
        BY <2>2, <2>3
      <4> QED BY <1>2, <4>1, <4>2
    <3>3. Slice(n) \in Int
      BY <1>2, <2>3 DEF Slice
    <3>4. Slice(n) >= 1
      BY <3>2, <3>3
    <3>5. Lo(n) < Hi(n)
      BY <1>5, <2>3, <3>4
    <3> QED BY <3>5
  <2> QED BY <2>4, <2>5
<1>7. ASSUME NEW n \in Present
      PROVE  /\ StepSize(n) \in Nat \ {0} /\ Lo(n) < Hi(n)
             /\ Lo(n) + Staff(n) * StepSize(n) <= Hi(n)
             /\ Of(n) \subseteq Workers => StepSize(n) = 1
             /\ ~(Of(n) \subseteq Workers) => StepSize(n) = Slice(n) /\ Of(n) \subseteq Managers
  <2>1. Lo(n) < Hi(n) /\ Lo(n) \in Nat /\ Hi(n) \in Nat /\ Staff(n) \in Nat \ {0}
    BY <1>2, <1>6
  <2>2. CASE Of(n) \subseteq Workers
    <3>1. StepSize(n) = 1 /\ Lo(n) + Staff(n) < Hi(n)
      BY <1>3, <2>2 DEF StepSize
    <3>2. Staff(n) * 1 = Staff(n)
      BY <2>1
    <3> QED BY <2>1, <2>2, <3>1, <3>2
  <2>3. CASE ~(Of(n) \subseteq Workers)
    <3>1. StepSize(n) = Slice(n) /\ Of(n) \subseteq Managers
      BY <1>4, <2>3 DEF StepSize, Slice, Hi, Lo, Staff
    <3>2. PICK m \in Of(n) : TRUE
      BY DEF Present
    <3>3. m \in Present /\ Hi(m) = Lo(m) + Slice(n) /\ Lo(m) < Hi(m) /\ Lo(m) \in Nat /\ Hi(m) \in Nat
      BY <1>2, <1>4, <1>6, <2>3
    <3>4. Slice(n) \in Int
      BY <2>1 DEF Slice
    <3>5. Slice(n) \in Nat \ {0}
      BY <3>3, <3>4
    <3> DEFINE w == Hi(n) - Lo(n)
               len == Staff(n)
               d == w \div len
    <3>6. w \in Nat /\ len \in Nat \ {0} /\ 1 \in 1..len /\ Slice(n) = d
      BY <2>1 DEF Slice
    <3>7. len * d <= w
      <4> HIDE DEF w, len
      <4> QED BY <3>6, Slices
    <3>8. Lo(n) + len * d <= Hi(n)
      <4> DEFINE x == len * d
      <4>1. x <= w /\ x \in Int
        BY <3>5, <3>6, <3>7
      <4> HIDE DEF x
      <4> QED BY <2>1, <4>1 DEF x
    <3> QED BY <2>1, <2>3, <3>1, <3>5, <3>6, <3>8
  <2> QED BY <2>2, <2>3
<1> QED BY <1>7

\* The i-th employee of a boss has the i-th slice of its range.
LEMMA SliceOf ==
    ASSUME system \in Systems, Connected, NEW n \in Present, NEW m \in Of(n) \cap Managers
    PROVE  /\ m \in Present /\ Boss(m) = n /\ Nth(m) \in 1 .. Staff(n)
           /\ Lo(m) = Lo(n) + (Nth(m) - 1) * StepSize(n)
           /\ Hi(m) = Lo(m) + StepSize(n) /\ Lo(n) <= Lo(m) /\ Hi(m) <= Hi(n)
<1>1. m \in Present /\ m # Server /\ Boss(m) = n
  BY TreeType
<1>2. ~(Of(n) \subseteq Workers)
  BY NodesAssumption
<1>3. StepSize(n) = Slice(n)
  BY <1>2, StepSizeType
<1> QED BY <1>1, <1>3, BoundsType

\* The ids of a node's workers lie in its range ...
LEMMA IdInside ==
    ASSUME system \in Systems, Connected, NEW n \in Present, NEW w \in Workers \cap Team[n]
    PROVE  Id(w) \in Int /\ Lo(n) <= Id(w) /\ Id(w) < Hi(n)
<1> DEFINE ok(o, v) == Id(v) \in Int /\ Lo(o) <= Id(v) /\ Id(v) < Hi(o)
           S == {o \in Present : \E v \in Workers \cap Team[o] : ~ok(o, v)}
<1>1. /\ Present \subseteq Bosses /\ Bosses \cap Workers = {}
      /\ \A o \in Bosses : /\ Of(o) \subseteq Managers \/ Of(o) \subseteq Workers
                           /\ \A e \in Of(o) : Boss(e) = o
                           /\ Of(o) \subseteq Employed
      /\ \A e \in Employed : Nth(e) \in 1 .. Staff(Boss(e))
  BY TreeType DEF Staff
<1>2. \A o \in Present : Lo(o) \in Nat /\ Hi(o) \in Nat /\ Staff(o) \in Nat
  BY BoundsType
<1>3. S = {}
  <2> SUFFICES ASSUME S # {} PROVE FALSE
    OBVIOUS
  <2>1. S \in SUBSET Tops
    BY <1>1 DEF Tops
  <2>2. PICK o \in S : Under(o) \cap S = {}
    BY <2>1, BottomUp
  <2>3. PICK v \in Workers \cap Team[o] : ~ok(o, v)
    OBVIOUS
  <2>4. o \in Present /\ o \in Bosses /\ o \in Tops /\ Under(o) = Of(o) /\ v # o
    BY <1>1 DEF Tops, Under
  <2>5. PICK e \in Of(o) : v \in Team[e]
    BY <2>3, <2>4, TeamType
  <2>6. CASE e \in Workers
    <3>1. v = e
      <4>1. e \in Tops
        BY <2>6 DEF Tops
      <4> QED BY <2>5, <2>6, <4>1, TeamType
    <3>2. Of(o) \subseteq Workers /\ Boss(v) = o /\ Nth(v) \in 1 .. Staff(o)
      BY <1>1, <2>4, <2>5, <2>6, <3>1, NodesAssumption
    <3>3. Id(v) = Lo(o) + Nth(v) - 1
      BY <2>3, <3>2, NoneAssumption DEF Id, Lo
    <3>4. Lo(o) + Staff(o) < Hi(o)
      BY <2>4, <3>2 DEF Connected, Lo, Hi, Staff
    <3> QED BY <1>2, <2>3, <2>4, <3>2, <3>3, <3>4
  <2>7. CASE e \notin Workers
    <3>1. e \in Of(o) \cap Managers
      BY <1>1, <2>4, <2>5, <2>7
    <3>2. e \in Present /\ Lo(o) <= Lo(e) /\ Hi(e) <= Hi(o)
      BY <2>4, <3>1, SliceOf
    <3>3. ok(e, v)
      <4>1. e \notin S
        BY <2>2, <2>4, <2>5
      <4> QED BY <2>3, <2>5, <3>2, <4>1
    <3> QED BY <1>2, <2>3, <2>4, <3>2, <3>3
  <2> QED BY <2>6, <2>7
<1> QED BY <1>3

\* ... and those of others do not.
LEMMA IdOutside ==
    ASSUME system \in Systems, Connected, NEW n \in Present,
           NEW w \in Workers \cap Employed, w \notin Team[n]
    PROVE  Id(w) \in Int /\ (Id(w) < Lo(n) \/ Id(w) >= Hi(n))
<1> DEFINE out(o) == Id(w) < Lo(o) \/ Id(w) >= Hi(o)
           S == {o \in Present : w \notin Team[o] /\ ~out(o)}
<1>1. /\ Server \in Present /\ Present \subseteq Bosses /\ Bosses \cap Workers = {}
      /\ Present \ {Server} = Managers \cap Employed
      /\ \A o \in Bosses : /\ Of(o) \subseteq Managers \/ Of(o) \subseteq Workers
                           /\ \A e \in Of(o) : Boss(e) = o
                           /\ Of(o) \subseteq Employed
      /\ \A e \in Employed : /\ Boss(e) \in Present /\ e \in Of(Boss(e))
  BY TreeType
<1>2. \A o \in Present : Lo(o) \in Nat /\ Hi(o) \in Nat /\ Staff(o) \in Nat
  BY BoundsType
<1>3. w \in Team[Server] /\ Id(w) \in Int
  <2>1. w \in Team[Server]
    BY TeamServer
  <2> QED BY <1>1, <2>1, IdInside
<1>4. S = {}
  <2> SUFFICES ASSUME S # {} PROVE FALSE
    OBVIOUS
  <2>1. S \in SUBSET Employed
    BY <1>1, <1>3
  <2>2. PICK o \in S : Boss(o) \notin S
    BY <2>1, TopDown
  <2> DEFINE b == Boss(o)
  <2>3. o \in Employed /\ o \in Managers /\ b \in Present /\ o \in Of(b) /\ b \in Bosses
    BY <1>1, <1>3, <2>1
  <2>4. /\ o \in Present /\ Lo(o) = Lo(b) + (Nth(o) - 1) * StepSize(b) /\ Nth(o) \in 1 .. Staff(b)
        /\ Hi(o) = Lo(o) + StepSize(b) /\ Lo(b) <= Lo(o) /\ Hi(o) <= Hi(b)
    BY <2>3, SliceOf
  <2> HIDE DEF b
  <2>5. CASE w \notin Team[b]
    <3>1. out(b)
      BY <2>2, <2>3, <2>5 DEF b
    <3>2. out(o)
      BY <1>2, <1>3, <2>3, <2>4, <3>1
    <3> QED BY <3>2
  <2>6. CASE w \in Team[b]
    <3>1. b \in Tops /\ Under(b) = Of(b) /\ w # b
      BY <1>1, <2>3 DEF Tops, Under
    <3>2. PICK e \in Of(b) : w \in Team[e]
      BY <2>6, <3>1, TeamType
    <3>3. e # o /\ e \in Managers /\ e \in Present
      BY <1>1, <2>2, <2>3, <3>2, NodesAssumption
    <3>4. /\ Lo(e) = Lo(b) + (Nth(e) - 1) * StepSize(b) /\ Nth(e) \in 1 .. Staff(b)
          /\ Hi(e) = Lo(e) + StepSize(b)
      BY <2>3, <3>2, <3>3, SliceOf
    <3>5. Lo(e) <= Id(w) /\ Id(w) < Hi(e)
      BY <3>2, <3>3, IdInside
    <3>6. Nth(e) # Nth(o)
      BY <2>3, <3>2, <3>3, TreeType
    <3> DEFINE i == Nth(e)
               j == Nth(o)
               d == StepSize(b)
    <3>7. i \in Int /\ j \in Int /\ d \in Nat \ {0} /\ i # j
      BY <2>3, <2>4, <3>4, <3>6, StepSizeType
    <3>8. Lo(e) = Lo(b) + (i - 1) * d /\ Lo(o) = Lo(b) + (j - 1) * d /\ Hi(o) = Lo(o) + d
          /\ Hi(e) = Lo(e) + d
      BY <2>4, <3>4
    <3> HIDE DEF i, j, d
    <3>9. Hi(e) <= Lo(o) \/ Hi(o) <= Lo(e)
      <4>1. CASE i < j
        <5>1. (i - 1) * d + d <= (j - 1) * d
          BY <3>7, <4>1
        <5>2. (i - 1) * d \in Int /\ (j - 1) * d \in Int
          BY <3>7
        <5> QED BY <1>2, <2>3, <3>7, <3>8, <5>1, <5>2
      <4>2. CASE j < i
        <5>1. (j - 1) * d + d <= (i - 1) * d
          BY <3>7, <4>2
        <5>2. (i - 1) * d \in Int /\ (j - 1) * d \in Int
          BY <3>7
        <5> QED BY <1>2, <2>3, <3>7, <3>8, <5>1, <5>2
      <4> QED BY <3>7, <4>1, <4>2
    <3>10. out(o)
      BY <1>2, <1>3, <2>4, <3>3, <3>5, <3>9
    <3> QED BY <3>10
  <2> QED BY <2>5, <2>6
<1> QED BY <1>3, <1>4

\* Integer division finds the employee that has the worker, and there is none
\* for a worker elsewhere or a mailbox of the server.
LEMMA RoutesRight ==
    ASSUME system \in Systems, Connected, NEW n \in Present
    PROVE  /\ ~is_my_worker(n, None)
           /\ \A w \in Workers \cap Employed :
                 /\ is_my_worker(n, w) <=> w \in Team[n]
                 /\ w \in Team[n] => Responsible(n, w) \in Of(n) /\ w \in Team[Responsible(n, w)]
<1> DEFINE d == StepSize(n)
           lo == Lo(n)
           hi == Hi(n)
           len == Staff(n)
<1>1. /\ n \in Bosses /\ Bosses \cap Workers = {}
      /\ Of(n) \subseteq Managers \/ Of(n) \subseteq Workers
      /\ Of(n) \subseteq Employed
      /\ \A e \in Of(n) : Boss(e) = n
      /\ \A e \in Employed : Nth(e) \in 1 .. Staff(Boss(e)) /\ Employees[Boss(e)][Nth(e)] = e
  BY TreeType DEF Staff
<1>2. /\ d \in Nat \ {0} /\ lo \in Nat /\ hi \in Nat /\ len \in Nat \ {0} /\ lo + len * d <= hi
      /\ Of(n) \subseteq Workers => d = 1
  BY BoundsType, StepSizeType
<1>3. \A id : EmployeeId(n, id) = (id - lo) \div d
  BY DEF EmployeeId, Lo
<1>4. \A w : is_my_worker(n, w) <=> (Id(w) - lo) \div d \in 0 .. len - 1
  BY <1>3 DEF is_my_worker, Staff
<1>5. \A w : Responsible(n, w) = Employees[n][(Id(w) - lo) \div d + 1]
  BY <1>3 DEF Responsible
<1>6. ASSUME NEW a \in Int, a \div d \in 0 .. len - 1 PROVE 0 <= a /\ a < len * d
  <2> DEFINE q == a \div d
  <2>1. q \in Int /\ q * d <= a /\ a < q * d + d
    BY <1>2
  <2>2. q \in 0 .. len - 1
    BY <1>6
  <2> HIDE DEF q, d, len
  <2>3. 0 <= q * d /\ q * d + d <= len * d
    BY <1>2, <2>1, <2>2
  <2>4. q * d \in Int /\ len * d \in Int
    BY <1>2, <2>1
  <2> QED BY <1>2, <2>1, <2>3, <2>4
<1>7. ~is_my_worker(n, None)
  <2>1. Id(None) = -1 /\ -1 - lo \in Int /\ ~(0 <= -1 - lo)
    BY <1>2 DEF Id
  <2> HIDE DEF d, lo, len
  <2> QED BY <1>4, <1>6, <2>1
<1>8. ASSUME NEW w \in Workers \cap Employed, w \notin Team[n] PROVE ~is_my_worker(n, w)
  <2>1. Id(w) \in Int /\ (Id(w) < lo \/ Id(w) >= hi)
    BY <1>8, IdOutside
  <2> HIDE DEF d, lo, len, hi
  <2>2. Id(w) - lo \in Int /\ (Id(w) - lo < 0 \/ Id(w) - lo >= len * d)
    <3> DEFINE x == len * d
    <3>1. x \in Int /\ lo + x <= hi
      BY <1>2
    <3> HIDE DEF x
    <3>2. Id(w) - lo \in Int /\ (Id(w) - lo < 0 \/ Id(w) - lo >= x)
      BY <1>2, <2>1, <3>1
    <3> QED BY <3>2 DEF x
  <2>3. len * d \in Int
    BY <1>2
  <2>4. ~((Id(w) - lo) \div d \in 0 .. len - 1)
    <3> SUFFICES ASSUME (Id(w) - lo) \div d \in 0 .. len - 1 PROVE FALSE
      OBVIOUS
    <3>1. 0 <= Id(w) - lo /\ Id(w) - lo < len * d
      BY <1>6, <2>2
    <3> QED BY <2>2, <2>3, <3>1
  <2> QED BY <1>4, <2>4
<1>9. ASSUME NEW w \in Workers \cap Employed, w \in Team[n]
      PROVE  /\ is_my_worker(n, w)
             /\ Responsible(n, w) \in Of(n) /\ w \in Team[Responsible(n, w)]
  <2>1. n \in Tops /\ Under(n) = Of(n) /\ w # n
    BY <1>1 DEF Tops, Under
  <2>2. PICK e \in Of(n) : w \in Team[e]
    BY <1>9, <2>1, TeamType
  <2> DEFINE i == Nth(e)
  <2>3. e \in Employed /\ Boss(e) = n /\ i \in 1..len /\ Employees[n][i] = e
    BY <1>1, <2>2
  <2>4. Id(w) \in Int /\ (i - 1) * d <= Id(w) - lo /\ Id(w) - lo < (i - 1) * d + d
    <3>1. CASE Of(n) \subseteq Workers
      <4>1. e \in Workers /\ e \in Tops
        BY <2>2, <3>1 DEF Tops
      <4>2. w = e
        BY <2>2, <4>1, TeamType
      <4>3. Id(w) = lo + i - 1
        BY <2>3, <4>1, <4>2, NoneAssumption DEF Id, Lo
      <4>4. d = 1 /\ i \in Int
        BY <1>2, <2>3, <3>1
      <4> HIDE DEF i, lo, d
      <4>5. (i - 1) * d = i - 1
        BY <4>4
      <4> QED BY <1>2, <4>3, <4>4, <4>5
    <3>2. CASE Of(n) \subseteq Managers
      <4>1. e \in Of(n) \cap Managers
        BY <3>2
      <4>2. e \in Present /\ Lo(e) = lo + (i - 1) * d /\ Hi(e) = Lo(e) + d
        BY <4>1, SliceOf
      <4>3. Id(w) \in Int /\ Lo(e) <= Id(w) /\ Id(w) < Hi(e)
        BY <2>2, <4>2, IdInside
      <4> DEFINE x == (i - 1) * d
      <4>4. x \in Int
        BY <1>2, <2>3
      <4> HIDE DEF i, lo, d, x
      <4>5. x <= Id(w) - lo /\ Id(w) - lo < x + d
        BY <1>2, <4>2, <4>3, <4>4 DEF x
      <4> QED BY <4>3, <4>5 DEF x
    <3> QED BY <1>1, <3>1, <3>2
  <2>5. (Id(w) - lo) \div d = i - 1
    <3>1. Id(w) - lo \in Int /\ i - 1 \in Int
      BY <1>2, <2>3, <2>4
    <3> HIDE DEF i, lo, d
    <3> QED BY <1>2, <2>4, <3>1, Quotient
  <2>6. i - 1 \in 0 .. len - 1 /\ (i - 1) + 1 = i
    BY <1>2, <2>3
  <2>7. is_my_worker(n, w)
    BY <1>4, <2>5, <2>6
  <2>8. Responsible(n, w) = e
    BY <1>5, <2>3, <2>5, <2>6
  <2> QED BY <2>2, <2>7, <2>8
<1> QED BY <1>7, <1>8, <1>9

----------------------------------------------------------------------------
(* The inductive invariant: what holds between a node and its boss.        *)

\* The tasks with a worker, or under way to a manager.
InHand(e) == IF e \in Workers THEN Assigned(e) ELSE Sent(down[e])

\* The first task of the batch e read last, whether e holds a batch it has not dealt,
\* and what the cache of e's boss says of them.
ReadBy(e) == IF e \in Workers THEN receipt[e] ELSE read[e]
Busy(e)   == e \in Workers /\ batch[e] # None
Cached(e) == Marks(cache[e], up[e], down[e], ReadBy(e), Busy(e))

\* The entry of a batch under way counts its tasks.
Weighed(q, d) ==
    \A y \in Range(q), m \in Range(d) :
        m.type = "SUBMIT_BATCH" /\ y[1] = m.tasks[1] => y[2] = Len(m.tasks)

\* What e counts for itself: a worker nothing, a manager the tasks of its
\* employees and what it announced in vain.
Within(e)  == IF e \in Workers THEN 0 ELSE Total(Mine(numTasks, e)) + announced[e]

\* The account of an edge: what the boss counts for e, with what e still owes it, is
\* what is with e or under way to it, and what e counts for itself.
Account(e) ==
    /\ IsFiniteSet(InHand(e))
    /\ numTasks[e] + OwedIn(up[e]) = Cardinality(InHand(e)) + Within(e)

\* The boss's idle count of e is right for a worker, and for a manager agrees with what
\* the manager last said.
IdleView(e) ==
    IF e \in Workers THEN IdleRight(idle[e], up[e], down[e], receipt[e], batch[e] # None)
    ELSE View(cache[e], up[e], idle[e], read[e], numIdle[e], last[e])

\* Every message is where its reader can handle it.
DownRoute(e, m) ==
    /\ m.type \in {"SUBMIT_BATCH", "RESULT"}
    /\ m.type = "RESULT" => home[m.task] \in Team[e]
UpRoute(e, m) ==
    /\ m.type = "RESULT" => m.completed_by \in Team[e] \cap Workers
    /\ m.type = "WAITING" => m.idle <= Size[e]

\* Every message of the queues of e is where its reader can handle it.
Routed(e) ==
    /\ \A m \in Range(down[e]) : DownRoute(e, m)
    /\ \A m \in Range(up[e]) : UpRoute(e, m)

\* What holds between a node and its boss.
Edge(e) ==
    /\ Cached(e) /\ Distinct(cache[e]) /\ Weighed(cache[e], down[e])
    /\ idle[e] <= Size[e] /\ Account(e) /\ IdleView(e) /\ Routed(e)

----------------------------------------------------------------------------
(* The inductive invariant: the whole.                                     *)

\* The tasks that exist: those a client submitted and the children of those.
Born == submitted \cup UNION {Kids(t) : t \in mapped}

\* The types of what servers and managers keep.
BossType ==
    /\ numTasks \in [Employed -> Int] /\ idle \in [Employed -> Nat]
    /\ cache \in [Employed -> Seq(Entries)]
    /\ numIdle \in [Present -> Nat]
    /\ last \in [Present \ {Server} -> Nat] /\ read \in [Present \ {Server} -> Tasks \cup {None}]
    /\ announced \in [Present \ {Server} -> Int]

\* A client is answered once, for a task that it submitted and that is over.
Clients == submitted \subseteq Roots /\ done \subseteq Roots \cap finished

\* The tasks that exist are those that lie somewhere.
Births  == Born = Everywhere(Layout(Nodes))

\* A node that is not part of the hierarchy does nothing.
Strangers ==
    /\ \A e \in Nodes \ Employed : down[e] = <<>> /\ up[e] = <<>>
    /\ \A w \in Workers \ Employed :
          ready[w] = <<>> /\ delayed[w] = <<>> /\ held[w] = {} /\ batch[w] = None

\* A task that was started has a home among the workers in use.
Homed == \A t \in Tasks : home[t] # None => home[t] \in Workers \cap Employed

\* Tasks only go down once they have been sent down.
Firsts(e) == {y[1] : y \in Range(cache[e])}
Descends ==
    \A e \in Employed :
        /\ Firsts(e) \subseteq Born
        /\ \A x \in Nodes : Firsts(e) \cap Sent(up[x]) = {}
        /\ \A x \in Employed : e \in Team[x] /\ x # e => Firsts(e) \cap Sent(down[x]) = {}

\* The count of a server or manager is the sum over its employees.
IdleSums == \A n \in Present : numIdle[n] = Total(Mine(idle, n))

\* A task that is held is ready or awaits a child.
Wakes ==
    \A w \in Workers : \A t \in held[w] :
        t \in Range(ready[w]) \/ (t \in mapped /\ missing[t] # {})

\* The result of a task is under way until it has arrived.
Underway(t) ==
    \E e \in Nodes : \E m \in Range(up[e]) \cup Range(down[e]) : m.type = "RESULT" /\ m.task = t
Arrives ==
    \A t \in finished :
        IF t \in Roots THEN t \in done \/ Underway(t)
        ELSE t \in missing[Parent(t)] => Underway(t)

\* The inductive invariant.
IInv ==
    /\ system \in Systems /\ Connected
    /\ CrewInv(Nodes) /\ BossType /\ Clients /\ Births /\ Strangers /\ Homed
    /\ (\A e \in Employed : Edge(e))
    /\ Descends /\ IdleSums /\ Wakes /\ Arrives
    /\ error = "none"

----------------------------------------------------------------------------
(* A step of a server or manager.                                          *)

\* The hierarchy does not change.
LEMMA TreeSame ==
    ASSUME UNCHANGED system
    PROVE  /\ Employees' = Employees /\ Employed' = Employed /\ Present' = Present
           /\ Team' = Team /\ Size' = Size /\ Bounds' = Bounds
           /\ \A n : Of(n)' = Of(n) /\ Boss(n)' = Boss(n)
           /\ Connected' = Connected
<1>1. Employees' = Employees
  BY DEF Employees
<1>2. Team' = Team /\ Size' = Size /\ Bounds' = Bounds
  BY <1>1 DEF Team, Size, Bounds
<1>3. \A n : Of(n)' = Of(n) /\ Boss(n)' = Boss(n)
  BY <1>1 DEF Of, Boss
<1>4. Employed' = Employed
  BY <1>3 DEF Employed
<1>5. Present' = Present
  BY <1>3 DEF Present
<1>6. Connected' = Connected
  BY <1>1, <1>2, <1>3, <1>5 DEF Connected
<1> QED BY <1>1, <1>2, <1>3, <1>4, <1>5, <1>6

\* A step of node n leaves all alone but its employees, and its own queues.
BossFrame(n) ==
    /\ UNCHANGED <<system, worker, tree>> /\ BossType'
    /\ down' \in [Nodes -> Seq(Messages)] /\ up' \in [Nodes -> Seq(Messages)]
    /\ \A x \in Employed \ Of(n) :
          numTasks'[x] = numTasks[x] /\ idle'[x] = idle[x] /\ cache'[x] = cache[x]
    /\ \A x \in Nodes \ (Of(n) \cup {n}) : down'[x] = down[x] /\ up'[x] = up[x]
    /\ \A m \in Present \ {n} : numIdle'[m] = numIdle[m]
    /\ \A m \in Present \ {n, Server} :
          last'[m] = last[m] /\ read'[m] = read[m] /\ announced'[m] = announced[m]

\* At most one message of employee x is handled, and it is no WAITING.
Listened(x) ==
    \/ up'[x] = up[x]
    \/ up[x] # <<>> /\ Head(up[x]).type # "WAITING" /\ up'[x] = Tail(up[x])

\* The boss counts what x has said, and sends it the tasks ts or a result.
Served(x, ts) ==
    /\ Listened(x)
    /\ \/ down'[x] = Given(down[x], ts)
       \/ ts = <<>> /\ \E m \in Messages : /\ m.type = "RESULT" /\ down'[x] = Append(down[x], m)
                                           /\ m.task \in finished /\ home[m.task] \in Team[x] \cap Workers
    /\ cache'[x] = IF ts = <<>> THEN cache[x] ELSE Append(cache[x], <<ts[1], Len(ts)>>)
    /\ idle'[x] = Capped(idle[x] - Len(ts), 0, idle[x])
    /\ numTasks'[x] + OwedIn(up'[x]) = numTasks[x] + OwedIn(up[x]) + Len(ts)

\* The kinds of nodes.
LEMMA NodeKinds ==
    ASSUME system \in Systems
    PROVE  /\ \A e \in Employed : e \in Nodes /\ e \in Tops /\ e # Server /\ (e \in Workers \/ e \in Managers)
           /\ \A e \in Employed \ Workers : /\ e \in Managers /\ e \in Present /\ e \in Present \ {Server}
           /\ \A n \in Present : n \in Bosses /\ n \notin Workers /\ Of(n) \subseteq Employed
           /\ \A n \in Present \ {Server} : n \in Managers /\ n \in Employed
           /\ \A n \in Present : n \notin Of(n)
           /\ \A n, o \in Bosses : n # o => Of(n) \cap Of(o) = {}
<1>1. \A e \in Employed : e \in Nodes /\ e \in Tops /\ e # Server /\ (e \in Workers \/ e \in Managers)
  BY TreeType DEF Nodes, Tops, Bosses
<1>2. \A e \in Employed \ Workers : e \in Managers /\ e \in Present /\ e \in Present \ {Server}
  BY <1>1, TreeType
<1>3. \A n \in Present : n \in Bosses /\ n \notin Workers /\ Of(n) \subseteq Employed
  BY TreeType
<1>4. \A n \in Present \ {Server} : n \in Managers /\ n \in Employed
  BY TreeType
<1>5. \A n \in Present : n \notin Of(n)
  <2> SUFFICES ASSUME NEW n \in Present, n \in Of(n) PROVE FALSE
    OBVIOUS
  <2>1. n \notin Team[n]
    BY <1>3, TeamAcyclic
  <2> QED BY <2>1, <1>3, TeamType DEF Tops
<1>6. \A n, o \in Bosses : n # o => Of(n) \cap Of(o) = {}
  BY TreeType
<1> QED BY <1>1, <1>2, <1>3, <1>4, <1>5, <1>6

\* The totals over the employees of a node.
LEMMA MineTotal ==
    ASSUME system \in Systems, BossType
    PROVE  /\ \A n \in Present :
                 /\ IsFiniteSet(Of(n)) /\ Of(n) \subseteq Employed
                 /\ Mine(numTasks, n) \in [Of(n) -> Int] /\ Total(Mine(numTasks, n)) \in Int
                 /\ Mine(idle, n) \in [Of(n) -> Nat] /\ Total(Mine(idle, n)) \in Nat
           /\ \A e \in Employed : Within(e) \in Int
<1>1. ASSUME NEW n \in Present
      PROVE  /\ IsFiniteSet(Of(n)) /\ Of(n) \subseteq Employed
             /\ Mine(numTasks, n) \in [Of(n) -> Int] /\ Total(Mine(numTasks, n)) \in Int
             /\ Mine(idle, n) \in [Of(n) -> Nat] /\ Total(Mine(idle, n)) \in Nat
  <2>1. IsFiniteSet(Of(n)) /\ Of(n) \subseteq Employed
    BY TreeType, NodeKinds
  <2>2. Mine(numTasks, n) \in [Of(n) -> Int] /\ Mine(idle, n) \in [Of(n) -> Nat]
    BY <2>1 DEF Mine, BossType
  <2>3. Total(Mine(numTasks, n)) \in Int
    BY <2>1, <2>2, TotalSums
  <2>4. Total(Mine(idle, n)) \in Nat
    BY <2>1, <2>2, TotalNat
  <2> QED BY <2>1, <2>2, <2>3, <2>4
<1>2. ASSUME NEW e \in Employed PROVE Within(e) \in Int
  <2>1. CASE e \in Workers
    BY <2>1 DEF Within
  <2>2. CASE e \notin Workers
    <3>1. e \in Present /\ e \in Present \ {Server}
      BY <2>2, NodeKinds
    <3>2. announced[e] \in Int
      BY <3>1 DEF BossType
    <3> QED BY <2>2, <3>1, <3>2, <1>1 DEF Within
  <2> QED BY <2>1, <2>2
<1> QED BY <1>1, <1>2

\* What the step of a boss leaves alone of any other node.
LEMMA FrameInside ==
    ASSUME system \in Systems, NEW n \in Present, BossFrame(n), NEW e \in Employed, e # n
    PROVE  /\ Within(e)' = Within(e) /\ ReadBy(e)' = ReadBy(e) /\ Busy(e)' = Busy(e)
           /\ e \notin Workers => numIdle'[e] = numIdle[e] /\ last'[e] = last[e] /\ read'[e] = read[e]
           /\ e \in Workers => batch'[e] = batch[e] /\ receipt'[e] = receipt[e]
           /\ Team'[e] = Team[e] /\ Size'[e] = Size[e]
<1> USE NodeKinds
<1>1. UNCHANGED <<batch, receipt>> /\ UNCHANGED system
  BY DEF BossFrame, worker
<1>2. Team'[e] = Team[e] /\ Size'[e] = Size[e]
  BY <1>1, TreeSame
<1>3. e \notin Workers => /\ numIdle'[e] = numIdle[e] /\ last'[e] = last[e] /\ read'[e] = read[e]
                          /\ announced'[e] = announced[e]
  BY DEF BossFrame
<1>4. ReadBy(e)' = ReadBy(e) /\ Busy(e)' = Busy(e)
  BY <1>1, <1>3 DEF ReadBy, Busy
<1>5. e \notin Workers => Mine(numTasks, e)' = Mine(numTasks, e)
  <2> SUFFICES ASSUME e \notin Workers PROVE Mine(numTasks, e)' = Mine(numTasks, e)
    OBVIOUS
  <2>1. Of(e)' = Of(e) /\ Of(e) \cap Of(n) = {} /\ Of(e) \subseteq Employed
    BY <1>1, TreeSame
  <2>2. \A x \in Of(e) : numTasks'[x] = numTasks[x]
    BY <2>1 DEF BossFrame
  <2> QED BY <2>1, <2>2 DEF Mine
<1>6. Within(e)' = Within(e)
  BY <1>3, <1>5 DEF Within
<1> QED BY <1>1, <1>2, <1>3, <1>4, <1>6

\* A queue after one message, no WAITING, has been taken from it, or none.
LEMMA ListenedType ==
    ASSUME NEW x, up[x] \in Seq(Messages), Listened(x)
    PROVE  /\ up'[x] \in Seq(Messages)
           /\ Range(up'[x]) \subseteq Range(up[x]) /\ Sent(up'[x]) \subseteq Sent(up[x])
           /\ OnceEach(up[x]) => OnceEach(up'[x])
           /\ \A e, d, r : \A busy : Marks(e, up[x], d, r, busy) => Marks(e, up'[x], d, r, busy)
           /\ \A c, id, r, n, l : View(c, up[x], id, r, n, l) => View(c, up'[x], id, r, n, l)
<1>1. CASE up'[x] = up[x]
  BY <1>1
<1>2. CASE up[x] # <<>> /\ Head(up[x]).type # "WAITING" /\ up'[x] = Tail(up[x])
  <2>1. Range(up'[x]) \subseteq Range(up[x]) /\ up'[x] \in Seq(Messages)
    BY <1>2, RangeTail
  <2>2. Sent(up'[x]) \subseteq Sent(up[x]) /\ (OnceEach(up[x]) => OnceEach(up'[x]))
    BY <1>2, SentTail
  <2>3. \A e, d, r : \A busy : Marks(e, up[x], d, r, busy) => Marks(e, up'[x], d, r, busy)
    BY <1>2, MarksHeard
  <2>4. \A c, id, r, n, l : View(c, up[x], id, r, n, l) => View(c, up'[x], id, r, n, l)
    BY <1>2, ViewHeard
  <2> QED BY <2>1, <2>2, <2>3, <2>4
<1> QED BY <1>1, <1>2 DEF Listened

\* The queue to an employee after it has been served.
LEMMA ServedDown ==
    ASSUME NEW x, down[x] \in Seq(Messages), NEW ts \in Seq(Tasks), Served(x, ts)
    PROVE  /\ down'[x] \in Seq(Messages) /\ Sent(down'[x]) = Sent(down[x]) \cup Range(ts)
           /\ OnceEach(down[x]) /\ NoRepeat(ts) /\ Sent(down[x]) \cap Range(ts) = {}
                => OnceEach(down'[x])
           /\ ts = <<>> => Unread(down'[x]) = Unread(down[x])
           /\ ts # <<>> => down'[x] = Append(down[x], Batch(ts))
           /\ \A m \in Range(down'[x]) :
                 \/ m \in Range(down[x])
                 \/ m = Batch(ts) /\ ts # <<>>
                 \/ m.type = "RESULT" /\ m.task \in finished /\ home[m.task] \in Team[x] \cap Workers
<1>1. CASE down'[x] = Given(down[x], ts)
  <2>1. ts # <<>> => down'[x] = Append(down[x], Batch(ts)) /\ Batch(ts) \in Messages
    BY <1>1, MessagesMade DEF Given
  <2>2. ts = <<>> => down'[x] = down[x]
    BY <1>1 DEF Given
  <2>3. Range(down'[x]) \subseteq Range(down[x]) \cup (IF ts = <<>> THEN {} ELSE {Batch(ts)})
    <3>1. CASE ts = <<>>
      BY <3>1, <2>2
    <3>2. CASE ts # <<>>
      <4>1. Range(Append(down[x], Batch(ts))) = Range(down[x]) \cup {Batch(ts)}
        BY <3>2, <2>1, RangeAppend
      <4> QED BY <3>2, <4>1, <2>1
    <3> QED BY <3>1, <3>2
  <2> QED BY <1>1, <2>1, <2>2, <2>3, GivenType
<1>2. ASSUME ts = <<>>, NEW m \in Messages, m.type = "RESULT", down'[x] = Append(down[x], m),
             m.task \in finished /\ home[m.task] \in Team[x] \cap Workers
      PROVE  /\ down'[x] \in Seq(Messages) /\ Sent(down'[x]) = Sent(down[x]) \cup Range(ts)
             /\ OnceEach(down[x]) => OnceEach(down'[x])
             /\ Unread(down'[x]) = Unread(down[x])
             /\ \A l \in Range(down'[x]) : l \in Range(down[x]) \/ l = m
  <2>1. SentBy(m) = {} /\ Range(ts) = {}
    BY <1>2, RangeType DEF SentBy
  <2>2. \A l \in Range(down'[x]) : l \in Range(down[x]) \/ l = m
    BY <1>2, RangeAppend
  <2> QED BY <1>2, <2>1, <2>2, SentAppend, UnreadSame, ZenonT(30)
<1> QED BY <1>1, <1>2 DEF Served

\* The read receipts of an employee that has been served.
LEMMA ServedCached ==
    ASSUME IInv, NEW n \in Present, BossFrame(n), NEW x \in Of(n), NEW ts \in Seq(Tasks),
           Served(x, ts), Range(ts) \cap (Firsts(x) \cup InHand(x)) = {}
    PROVE  /\ Cached(x)' /\ Distinct(cache'[x]) /\ Weighed(cache'[x], down'[x])
           /\ cache'[x] \in Seq(Entries)
<1> DEFINE y == <<ts[1], Len(ts)>>
<1>1. /\ x \in Employed /\ x # n /\ down[x] \in Seq(Messages) /\ up[x] \in Seq(Messages)
      /\ cache[x] \in Seq(Entries) /\ Edge(x)
  BY NodeKinds, TreeType DEF IInv, CrewInv, CrewType, BossType
<1>2. ReadBy(x)' = ReadBy(x) /\ Busy(x)' = Busy(x)
  BY <1>1, FrameInside DEF IInv
<1>3. CASE ts = <<>>
  <2>1. cache'[x] = cache[x] /\ Unread(down'[x]) = Unread(down[x])
    BY <1>1, <1>3, ServedDown DEF Served
  <2>2. Marks(cache[x], up[x], down'[x], ReadBy(x), Busy(x))
    BY <1>1, <2>1, MarksSame DEF Edge, Cached
  <2>3. Marks(cache[x], up'[x], down'[x], ReadBy(x), Busy(x))
    BY <1>1, <2>2, ListenedType DEF Served
  <2>4. Cached(x)'
    BY <1>2, <2>1, <2>3 DEF Cached
  <2>5. Weighed(cache'[x], down'[x])
    BY <1>1, <1>3, <2>1, ServedDown DEF Edge, Weighed
  <2> QED BY <1>1, <2>1, <2>4, <2>5 DEF Edge
<1>4. CASE ts # <<>>
  <2>1. cache'[x] = Append(cache[x], y) /\ down'[x] = Append(down[x], Batch(ts))
    BY <1>1, <1>4, ServedDown DEF Served
  <2>2. /\ Append(cache[x], y) \in Seq(Entries)
        /\ Marks(Append(cache[x], y), up[x], Append(down[x], Batch(ts)), ReadBy(x), Busy(x))
    BY <1>1, <1>4, MarksSent DEF Edge, Cached
  <2>3. Marks(cache'[x], up'[x], down'[x], ReadBy(x), Busy(x))
    BY <1>1, <2>1, <2>2, ListenedType DEF Served
  <2>4. Cached(x)'
    BY <1>2, <2>1, <2>3 DEF Cached
  <2>5. ts[1] \in Range(ts) /\ y[1] = ts[1] /\ y[2] = Len(ts)
    BY <1>4 DEF Range
  <2>6. y \in Entries
    BY <2>2, <1>1, <1>4 DEF Entries
  <2> HIDE DEF y
  <2>7. Range(cache'[x]) = Range(cache[x]) \cup {y}
    BY <1>1, <2>1, <2>6, RangeAppend
  <2>8. \A z \in Range(cache[x]) : z[1] # y[1]
    BY <2>5 DEF Firsts
  <2>9. Distinct(cache'[x])
    <3>1. Len(cache'[x]) = Len(cache[x]) + 1 /\ cache'[x][Len(cache[x]) + 1] = y
          /\ Len(cache[x]) \in Nat /\ cache'[x] \in Seq(Entries)
          /\ \A i \in 1..Len(cache[x]) : cache'[x][i] = cache[x][i]
      BY <1>1, <2>1, <2>6
    <3>2. \A i \in 1..Len(cache[x]) : cache'[x][i][1] # y[1]
      <4>1. \A i \in 1..Len(cache[x]) : cache[x][i] \in Range(cache[x])
        BY <1>1 DEF Range
      <4> QED BY <4>1, <3>1, <2>8
    <3>3. \A i, j \in 1..Len(cache[x]) : cache'[x][i][1] = cache'[x][j][1] => i = j
      <4>1. Distinct(cache[x]) /\ DOMAIN cache[x] = 1..Len(cache[x])
        BY <1>1 DEF Edge
      <4> QED BY <4>1, <3>1 DEF Distinct
    <3>4. DOMAIN cache'[x] = 1..(Len(cache[x]) + 1)
      BY <3>1
    <3>5. ASSUME NEW i \in DOMAIN cache'[x], NEW j \in DOMAIN cache'[x],
                 cache'[x][i][1] = cache'[x][j][1]
          PROVE  i = j
      <4>1. i \in 1..Len(cache[x]) \/ i = Len(cache[x]) + 1
        BY <3>1, <3>4
      <4>2. j \in 1..Len(cache[x]) \/ j = Len(cache[x]) + 1
        BY <3>1, <3>4
      <4> QED BY <4>1, <4>2, <3>1, <3>2, <3>3, <3>5
    <3> QED BY <3>5 DEF Distinct
  <2>10. \A m \in Range(down[x]) : m.type = "SUBMIT_BATCH" => m.tasks[1] \in Sent(down[x])
    <3> SUFFICES ASSUME NEW m \in Range(down[x]), m.type = "SUBMIT_BATCH"
                 PROVE  m.tasks[1] \in Sent(down[x])
      OBVIOUS
    <3>1. PICK i \in DOMAIN down[x] : m = down[x][i]
      BY DEF Range
    <3>2. m \in Messages /\ m.tasks \in Seq(Tasks) /\ m.tasks # <<>>
      BY <1>1, <3>1, Fields
    <3>3. m.tasks[1] \in SentBy(m)
      BY <3>2 DEF SentBy, Range
    <3> QED BY <1>1, <3>1, <3>3, SentType
  <2>11. Sent(down[x]) \subseteq InHand(x)
    BY AssignedLies DEF InHand
  <2>12. ts[1] \notin Sent(down[x])
    BY <2>5, <2>11
  <2>13. Range(down'[x]) = Range(down[x]) \cup {Batch(ts)} /\ Batch(ts).tasks = ts
    <3>1. Batch(ts) \in Messages
      BY <1>4, MessagesMade
    <3> QED BY <1>1, <2>1, <3>1, RangeAppend, Carried
  <2>14. Weighed(cache'[x], down'[x])
    <3> SUFFICES ASSUME NEW z \in Range(cache'[x]), NEW m \in Range(down'[x]),
                        m.type = "SUBMIT_BATCH", z[1] = m.tasks[1]
                 PROVE  z[2] = Len(m.tasks)
      BY DEF Weighed
    <3>1. CASE z = y
      BY <3>1, <2>5, <2>10, <2>12, <2>13
    <3>2. CASE z # y
      <4>1. z \in Range(cache[x])
        BY <3>2, <2>7
      <4> QED BY <4>1, <1>1, <2>5, <2>8, <2>13 DEF Edge, Weighed
    <3> QED BY <3>1, <3>2
  <2> QED BY <2>1, <2>2, <2>4, <2>9, <2>14 DEF y
<1> QED BY <1>3, <1>4

\* The tasks with an employee that has been served, and their count.
LEMMA ServedAccount ==
    ASSUME IInv, NEW n \in Present, BossFrame(n), NEW x \in Of(n), NEW ts \in Seq(Tasks),
           NoRepeat(ts), Served(x, ts), Range(ts) \cap (Firsts(x) \cup InHand(x)) = {}
    PROVE  Account(x)' /\ InHand(x)' = InHand(x) \cup Range(ts)
<1>1. x \in Employed /\ x # n /\ down[x] \in Seq(Messages) /\ up[x] \in Seq(Messages) /\ Edge(x)
  BY NodeKinds, TreeType DEF IInv, CrewInv, CrewType
<1>2. Within(x)' = Within(x)
  BY <1>1, FrameInside DEF IInv
<1>3. Sent(down'[x]) = Sent(down[x]) \cup Range(ts)
  BY <1>1, ServedDown
<1>4. Assigned(x)' = Sent(down'[x]) \cup Range(delayed[x]) \cup held[x] \cup Batched(x)
  BY AssignedLies DEF BossFrame, worker, Batched
<1>5. InHand(x)' = InHand(x) \cup Range(ts)
  BY <1>3, <1>4, AssignedLies DEF InHand
<1>6. IsFiniteSet(Range(ts)) /\ Cardinality(Range(ts)) = Len(ts) /\ Len(ts) \in Nat
  BY RangeCardinality
<1>7. IsFiniteSet(InHand(x)) /\ Cardinality(InHand(x)) \in Nat
  BY <1>1, FS_CardinalityType DEF Edge, Account
<1>8. /\ IsFiniteSet(InHand(x) \cup Range(ts))
      /\ Cardinality(InHand(x) \cup Range(ts)) = Cardinality(InHand(x)) + Len(ts)
  <2> DEFINE A == InHand(x)
             B == Range(ts)
  <2>1. A \cap B = {} /\ Cardinality(A \cap B) = 0
    <3>1. A \cap B = {}
      OBVIOUS
    <3> QED BY <3>1, FS_EmptySet
  <2>2. /\ IsFiniteSet(A) /\ IsFiniteSet(B) /\ Cardinality(A) \in Nat /\ Cardinality(B) = Len(ts)
        /\ Len(ts) \in Nat
    BY <1>6, <1>7
  <2> HIDE DEF A, B
  <2>3. IsFiniteSet(A \cup B) /\ Cardinality(A \cup B) = Cardinality(A) + Cardinality(B) - Cardinality(A \cap B)
    BY <2>2, FS_Union
  <2>4. Cardinality(A \cup B) = Cardinality(A) + Len(ts)
    BY <2>1, <2>2, <2>3
  <2> QED BY <2>3, <2>4 DEF A, B
<1>9. numTasks'[x] + OwedIn(up'[x]) = numTasks[x] + OwedIn(up[x]) + Len(ts)
  BY DEF Served
<1>10. numTasks[x] + OwedIn(up[x]) = Cardinality(InHand(x)) + Within(x)
  BY <1>1 DEF Edge, Account
<1>11. /\ numTasks[x] \in Int /\ OwedIn(up[x]) \in Int /\ numTasks'[x] \in Int
       /\ OwedIn(up'[x]) \in Int
  <2>1. Employed' = Employed
    BY TreeSame DEF BossFrame
  <2>2. up'[x] \in Seq(Messages)
    BY <1>1, ListenedType DEF Served
  <2>3. OwedIn(up[x]) \in Int /\ OwedIn(up'[x]) \in Int
    BY <1>1, <2>2, OwedConcat
  <2> QED BY <1>1, <2>1, <2>3 DEF IInv, BossType, BossFrame
<1>12. Within(x) \in Int
  BY <1>7, <1>10, <1>11, <1>1, NodeKinds, MineTotal DEF IInv
<1>13. numTasks'[x] + OwedIn(up'[x]) = Cardinality(InHand(x)') + Within(x)'
  BY <1>2, <1>5, <1>7, <1>8, <1>9, <1>10, <1>11, <1>12, <1>6
<1> QED BY <1>5, <1>8, <1>13 DEF Account

\* The idle count of an employee that has been served.
LEMMA ServedIdle ==
    ASSUME IInv, NEW n \in Present, BossFrame(n), NEW x \in Of(n), NEW ts \in Seq(Tasks),
           Served(x, ts), Range(ts) \cap (Firsts(x) \cup InHand(x)) = {}
    PROVE  IdleView(x)' /\ idle'[x] <= idle[x] /\ idle'[x] \in Nat /\ idle'[x] >= idle[x] - Len(ts)
           /\ idle'[x] <= Size'[x]
<1> DEFINE y == <<ts[1], Len(ts)>>
<1>1. /\ x \in Employed /\ x # n /\ down[x] \in Seq(Messages) /\ up[x] \in Seq(Messages)
      /\ cache[x] \in Seq(Entries) /\ Edge(x) /\ idle[x] \in Nat /\ Size[x] \in Nat
  BY NodeKinds, TreeType, SizeType DEF IInv, CrewInv, CrewType, BossType
<1>2. /\ x \notin Workers => numIdle'[x] = numIdle[x] /\ last'[x] = last[x] /\ read'[x] = read[x]
      /\ x \in Workers => batch'[x] = batch[x] /\ receipt'[x] = receipt[x]
      /\ Size'[x] = Size[x]
  BY <1>1, FrameInside DEF IInv
<1>3. Len(ts) \in Nat /\ (ts # <<>> => Len(ts) >= 1) /\ (ts = <<>> => Len(ts) = 0)
  OBVIOUS
<1>4. /\ idle'[x] = (IF idle[x] - Len(ts) < 0 THEN 0 ELSE idle[x] - Len(ts))
      /\ idle'[x] = Capped(idle[x] - Len(ts), 0, idle[x])
  BY <1>1, <1>3 DEF Served, Capped
<1>5. /\ idle'[x] <= idle[x] /\ idle'[x] \in Nat /\ idle'[x] >= idle[x] - Len(ts)
      /\ idle'[x] <= Size'[x]
  BY <1>1, <1>2, <1>3, <1>4 DEF Edge
<1>6. CASE x \in Workers
  <2>1. IdleRight(idle[x], up[x], down[x], receipt[x], batch[x] # None) /\ Size[x] = 1
    BY <1>1, <1>6, SizeType, NodeKinds DEF Edge, IdleView, IInv
  <2>2. idle'[x] > 0 => ts = <<>>
    BY <1>1, <1>3, <1>4, <2>1 DEF Edge
  <2>3. Range(up'[x]) \subseteq Range(up[x])
    BY <1>1, ListenedType DEF Served
  <2>4. ts = <<>> => Unread(down'[x]) = Unread(down[x]) /\ idle'[x] = idle[x]
    <3>1. ts = <<>> => Unread(down'[x]) = Unread(down[x])
      BY <1>1, ServedDown
    <3>2. ts = <<>> => idle'[x] = idle[x]
      BY <1>1, <1>3, <1>4
    <3> QED BY <3>1, <3>2
  <2>5. IdleRight(idle'[x], up'[x], down'[x], receipt'[x], batch'[x] # None)
    BY <1>2, <1>6, <2>1, <2>2, <2>3, <2>4 DEF IdleRight
  <2> QED BY <1>5, <1>6, <2>5 DEF IdleView
<1>7. CASE x \notin Workers
  <2>1. /\ View(cache[x], up[x], idle[x], read[x], numIdle[x], last[x])
        /\ numIdle[x] \in Nat /\ last[x] \in Nat
    BY <1>1, <1>7, NodeKinds DEF Edge, IdleView, IInv, BossType
  <2>2. View(cache'[x], up[x], idle'[x], read[x], numIdle[x], last[x])
    <3>1. CASE ts = <<>>
      BY <1>1, <1>3, <1>4, <2>1, <3>1 DEF Served
    <3>2. CASE ts # <<>>
      <4>1. cache'[x] = Append(cache[x], y)
        BY <3>2 DEF Served
      <4>2. y \in Entries /\ y[2] = Len(ts)
        BY <1>3, <3>2 DEF Entries
      <4>3. Distinct(cache'[x])
        BY ServedCached
      <4>4. Pointed(cache[x], up[x], read[x])
        BY <1>1, <1>7, MarksPoint DEF Edge, Cached, ReadBy, Busy
      <4> HIDE DEF y
      <4>5. View(Append(cache[x], y), up[x], Capped(idle[x] - y[2], 0, idle[x]), read[x],
                 numIdle[x], last[x])
        BY <1>1, <2>1, <4>1, <4>2, <4>3, <4>4, ViewSent, SMTT(30)
      <4> QED BY <1>4, <4>1, <4>2, <4>5
    <3> QED BY <3>1, <3>2
  <2>3. View(cache'[x], up'[x], idle'[x], read[x], numIdle[x], last[x])
    BY <1>1, <2>2, ListenedType DEF Served
  <2> QED BY <1>2, <1>5, <1>7, <2>3 DEF IdleView
<1> QED BY <1>6, <1>7

\* The messages of an employee that has been served.
LEMMA ServedRouted ==
    ASSUME IInv, NEW n \in Present, BossFrame(n), NEW x \in Of(n), NEW ts \in Seq(Tasks),
           Served(x, ts)
    PROVE  Routed(x)'
<1>1. x \in Employed /\ x # n /\ down[x] \in Seq(Messages) /\ up[x] \in Seq(Messages) /\ Edge(x)
  BY NodeKinds, TreeType DEF IInv, CrewInv, CrewType
<1>2. Team'[x] = Team[x] /\ Size'[x] = Size[x] /\ home' = home
  BY <1>1, FrameInside DEF IInv, BossFrame, tree
<1>3. Range(up'[x]) \subseteq Range(up[x])
  BY <1>1, ListenedType DEF Served
<1>4. ASSUME NEW m \in Range(up'[x]) PROVE UpRoute(x, m)'
  BY <1>1, <1>2, <1>3 DEF Edge, Routed, UpRoute
<1>5. ASSUME NEW m \in Range(down'[x]) PROVE DownRoute(x, m)'
  <2>1. CASE m \in Range(down[x])
    BY <1>1, <1>2, <2>1 DEF Edge, Routed, DownRoute
  <2>2. CASE m = Batch(ts)
    BY <2>2 DEF DownRoute, Batch
  <2>3. CASE m.type = "RESULT" /\ m.task \in finished /\ home[m.task] \in Team[x] \cap Workers
    BY <1>2, <2>3 DEF DownRoute
  <2> QED BY <1>1, <2>1, <2>2, <2>3, ServedDown
<1> QED BY <1>4, <1>5 DEF Routed

\* All between a boss and an employee it has served stays right.
LEMMA ServedEdge ==
    ASSUME IInv, NEW n \in Present, BossFrame(n), NEW x \in Of(n), NEW ts \in Seq(Tasks),
           NoRepeat(ts), Served(x, ts), Range(ts) \cap (Firsts(x) \cup InHand(x)) = {}
    PROVE  Edge(x)'
BY ServedCached, ServedAccount, ServedIdle, ServedRouted DEF Edge

\* Nothing changes between two nodes other than the boss and its employees.
LEMMA AwayEdge ==
    ASSUME IInv, NEW n \in Present, BossFrame(n), NEW e \in Employed, e \notin Of(n), e # n
    PROVE  Edge(e)' /\ InHand(e)' = InHand(e)
<1>1. e \in Nodes /\ Edge(e)
  BY NodeKinds DEF IInv
<1>2. /\ numTasks'[e] = numTasks[e] /\ idle'[e] = idle[e] /\ cache'[e] = cache[e]
      /\ down'[e] = down[e] /\ up'[e] = up[e] /\ home' = home
  BY <1>1 DEF BossFrame, tree
<1>3. /\ Within(e)' = Within(e) /\ ReadBy(e)' = ReadBy(e) /\ Busy(e)' = Busy(e)
      /\ e \notin Workers => numIdle'[e] = numIdle[e] /\ last'[e] = last[e] /\ read'[e] = read[e]
      /\ e \in Workers => batch'[e] = batch[e] /\ receipt'[e] = receipt[e]
      /\ Team'[e] = Team[e] /\ Size'[e] = Size[e]
  BY FrameInside DEF IInv
<1>4. Assigned(e)' = Sent(down'[e]) \cup Range(delayed[e]) \cup held[e] \cup Batched(e)
  BY AssignedLies DEF BossFrame, worker, Batched
<1>5. InHand(e)' = InHand(e)
  BY <1>2, <1>4, AssignedLies DEF InHand
<1>6. Account(e)'
  BY <1>1, <1>2, <1>3, <1>5 DEF Edge, Account
<1>7. Cached(e)' /\ Distinct(cache'[e]) /\ Weighed(cache'[e], down'[e]) /\ idle'[e] <= Size'[e]
  BY <1>1, <1>2, <1>3 DEF Edge, Cached
<1>8. IdleView(e)'
  BY <1>1, <1>2, <1>3 DEF Edge, IdleView
<1>9. Routed(e)'
  BY <1>1, <1>2, <1>3 DEF Edge, Routed, UpRoute, DownRoute
<1> QED BY <1>5, <1>6, <1>7, <1>8, <1>9 DEF Edge

----------------------------------------------------------------------------
(* What the step of a boss keeps of the whole.                             *)

\* No two queues have a task in common.
LEMMA QueuesApart ==
    ASSUME Apart(Layout(Nodes))'
    PROVE  \A e, x \in Nodes :
              /\ Sent(down'[e]) \cap Sent(up'[x]) = {}
              /\ e # x => Sent(down'[e]) \cap Sent(down'[x]) = {}
              /\ Sent(down'[e]) \subseteq Everywhere(Layout(Nodes))'
<1> SUFFICES ASSUME NEW e \in Nodes, NEW x \in Nodes
             PROVE  /\ Sent(down'[e]) \cap Sent(up'[x]) = {}
                    /\ e # x => Sent(down'[e]) \cap Sent(down'[x]) = {}
                    /\ Sent(down'[e]) \subseteq Everywhere(Layout(Nodes))'
  OBVIOUS
<1> DEFINE a == <<"down", e>>
           b == <<"down", x>>
           c == <<"up", x>>
<1>1. a \in Spots(Nodes) /\ b \in Spots(Nodes) /\ c \in Spots(Nodes)
  BY LayoutType
<1>2. /\ Layout(Nodes)'[a] = Sent(down'[e]) /\ Layout(Nodes)'[b] = Sent(down'[x])
      /\ Layout(Nodes)'[c] = Sent(up'[x]) /\ DOMAIN Layout(Nodes)' = Spots(Nodes)
  BY <1>1, LayoutType, LiesAt
<1>3. a # c /\ (e # x => a # b)
  OBVIOUS
<1> HIDE DEF a, b, c
<1>4. Layout(Nodes)'[a] \cap Layout(Nodes)'[c] = {}
  BY <1>1, <1>2, <1>3 DEF Apart
<1>5. e # x => Layout(Nodes)'[a] \cap Layout(Nodes)'[b] = {}
  BY <1>1, <1>2, <1>3 DEF Apart
<1>6. Layout(Nodes)'[a] \subseteq Everywhere(Layout(Nodes))'
  BY <1>1, <1>2 DEF Everywhere
<1> QED BY <1>2, <1>4, <1>5, <1>6

\* The same now.
LEMMA QueuesApartNow ==
    ASSUME Apart(Layout(Nodes))
    PROVE  \A e, x \in Nodes :
              /\ Sent(down[e]) \cap Sent(up[x]) = {}
              /\ e # x => Sent(down[e]) \cap Sent(down[x]) = {} /\ Sent(up[e]) \cap Sent(up[x]) = {}
              /\ Sent(down[e]) \subseteq Everywhere(Layout(Nodes))
              /\ Sent(up[e]) \subseteq Everywhere(Layout(Nodes))
<1> SUFFICES ASSUME NEW e \in Nodes, NEW x \in Nodes
             PROVE  /\ Sent(down[e]) \cap Sent(up[x]) = {}
                    /\ e # x => Sent(down[e]) \cap Sent(down[x]) = {} /\ Sent(up[e]) \cap Sent(up[x]) = {}
                    /\ Sent(down[e]) \subseteq Everywhere(Layout(Nodes))
                    /\ Sent(up[e]) \subseteq Everywhere(Layout(Nodes))
  OBVIOUS
<1> DEFINE a == <<"down", e>>
           b == <<"down", x>>
           c == <<"up", x>>
           d == <<"up", e>>
<1>1. a \in Spots(Nodes) /\ b \in Spots(Nodes) /\ c \in Spots(Nodes) /\ d \in Spots(Nodes)
  BY LayoutType
<1>2. /\ Layout(Nodes)[a] = Sent(down[e]) /\ Layout(Nodes)[b] = Sent(down[x])
      /\ Layout(Nodes)[c] = Sent(up[x]) /\ Layout(Nodes)[d] = Sent(up[e])
      /\ DOMAIN Layout(Nodes) = Spots(Nodes)
  BY <1>1, LayoutType, LiesAt
<1>3. a # c /\ (e # x => a # b /\ c # d)
  OBVIOUS
<1> HIDE DEF a, b, c, d
<1>4. Layout(Nodes)[a] \cap Layout(Nodes)[c] = {}
  BY <1>1, <1>2, <1>3 DEF Apart
<1>5. e # x => Layout(Nodes)[a] \cap Layout(Nodes)[b] = {} /\ Layout(Nodes)[c] \cap Layout(Nodes)[d] = {}
  BY <1>1, <1>2, <1>3 DEF Apart
<1>6. /\ Layout(Nodes)[a] \subseteq Everywhere(Layout(Nodes))
      /\ Layout(Nodes)[d] \subseteq Everywhere(Layout(Nodes))
  BY <1>1, <1>2 DEF Everywhere
<1> QED BY <1>2, <1>4, <1>5, <1>6

\* What a boss sends down has not been sent below it before.
LEMMA DescendsKept ==
    ASSUME IInv, NEW n \in Present, BossFrame(n), Apart(Layout(Nodes))', Births',
           Born \subseteq Born', NEW M,
           \A e \in Employed : e \in Team[n] /\ e # n => Firsts(e) \cap M = {},
           \A x \in Of(n) : Sent(down'[x]) \subseteq Sent(down[x]) \cup M,
           n \in Employed => Sent(down'[n]) \subseteq Sent(down[n]),
           \A y \in Nodes : \A t \in Sent(up'[y]) : \E z \in Nodes : t \in Sent(up[z]),
           \A x \in Of(n) : Firsts(x)' \subseteq Firsts(x) \cup Sent(down'[x])
    PROVE  Descends'
<1>0. system \in Systems /\ Descends /\ UNCHANGED system
  BY DEF IInv, BossFrame
<1>1. Employed' = Employed /\ Team' = Team
  BY <1>0, TreeSame
<1> SUFFICES ASSUME NEW e \in Employed, NEW t \in Firsts(e)'
             PROVE  /\ t \in Born' /\ \A x \in Nodes : t \notin Sent(up'[x])
                    /\ \A x \in Employed : e \in Team[x] /\ x # e => t \notin Sent(down'[x])
  BY <1>1 DEF Descends
<1>2. e \in Nodes
  BY <1>0, NodeKinds
<1>3. CASE t \in Firsts(e)
  <2>1. t \in Born' /\ \A x \in Nodes : t \notin Sent(up'[x])
    BY <1>0, <1>3 DEF Descends
  <2>2. ASSUME NEW x \in Employed, e \in Team[x], x # e, t \in Sent(down'[x]) PROVE FALSE
    <3>0. t \notin Sent(down[x]) /\ x \in Nodes
      BY <1>0, <1>3, <2>2, NodeKinds DEF Descends
    <3>1. CASE x \in Of(n)
      <4>1. t \in M
        BY <3>0, <3>1, <2>2
      <4>2. Boss(x) = n /\ n \in Bosses
        BY <1>0, <3>1, TreeType, NodeKinds
      <4>3. e \in Team[n] /\ n \notin Team[x]
        BY <1>0, <2>2, <3>1, <4>2, TeamOfBoss, TeamAcyclic
      <4> QED BY <4>1, <4>3, <2>2, <1>3
    <3>2. CASE x = n
      BY <3>0, <3>2, <2>2
    <3>3. CASE x \notin Of(n) /\ x # n
      BY <3>0, <3>3, <2>2 DEF BossFrame
    <3> QED BY <3>1, <3>2, <3>3
  <2> QED BY <2>1, <2>2
<1>4. CASE t \notin Firsts(e)
  <2>1. e \in Of(n)
    <3>1. e \notin Of(n) => cache'[e] = cache[e]
      BY DEF BossFrame
    <3> QED BY <3>1, <1>4 DEF Firsts
  <2>2. t \in Sent(down'[e])
    BY <2>1, <1>4
  <2>3. t \in Born'
    BY <1>2, <2>2, QueuesApart DEF Births
  <2>4. \A x \in Nodes : t \notin Sent(up'[x]) /\ (x # e => t \notin Sent(down'[x]))
    BY <1>2, <2>2, QueuesApart
  <2> QED BY <1>0, <2>3, <2>4, NodeKinds
<1> QED BY <1>3, <1>4

\* Results under way stay so, or have come to the server.
LEMMA ArrivesKept ==
    ASSUME IInv, UNCHANGED tree, done \subseteq done',
           \A t \in finished : Underway(t) => Underway(t)' \/ t \in Roots \cap done'
    PROVE  Arrives'
<1>1. finished' = finished /\ missing' = missing
  BY DEF tree
<1>2. \A t \in finished : IF t \in Roots THEN t \in done \/ Underway(t)
                          ELSE t \in missing[Parent(t)] => Underway(t)
  BY DEF IInv, Arrives
<1>3. \A t \in finished : IF t \in Roots THEN t \in done' \/ Underway(t)'
                          ELSE t \in missing'[Parent(t)] => Underway(t)'
  BY <1>1, <1>2
<1> QED BY <1>1, <1>3 DEF Arrives

\* The parts of the invariant together.
LEMMA BossKeepsAll ==
    ASSUME IInv, NEW n \in Present, BossFrame(n), CrewInv(Nodes)', Births', Clients',
           \A x \in Of(n) : Edge(x)', n # Server => Edge(n)',
           Descends', numIdle'[n] = Total(Mine(idle, n)'), Arrives', error' = "none"
    PROVE  IInv'
<1>0. /\ system \in Systems /\ UNCHANGED system /\ system' \in Systems
      /\ UNCHANGED <<worker, tree>> /\ Connected
  BY DEF IInv, BossFrame
<1>1. Employed' = Employed /\ Present' = Present /\ Connected' /\ \A m : Of(m)' = Of(m)
  BY <1>0, TreeSame
<1>2. ASSUME NEW e \in Employed PROVE Edge(e)'
  BY <1>0, AwayEdge, NodeKinds
<1>3. IdleSums'
  <2> SUFFICES ASSUME NEW m \in Present PROVE numIdle'[m] = Total(Mine(idle, m)')
    BY <1>1 DEF IdleSums
  <2>1. CASE m = n
    BY <2>1
  <2>2. CASE m # n
    <3>1. Of(m) \cap Of(n) = {} /\ Of(m) \subseteq Employed
      BY <1>0, <2>2, NodeKinds
    <3>2. \A x \in Of(m) : idle'[x] = idle[x]
      BY <3>1 DEF BossFrame
    <3>3. Mine(idle, m)' = Mine(idle, m)
      BY <1>1, <3>2 DEF Mine
    <3> QED BY <2>2, <3>3 DEF IInv, IdleSums, BossFrame
  <2> QED BY <2>1, <2>2
<1>4. Strangers'
  <2>1. \A e \in Nodes \ Employed : e \notin Of(n) /\ e # n
    BY <1>0, NodeKinds, TreeType
  <2>2. \A e \in Nodes \ Employed : down'[e] = <<>> /\ up'[e] = <<>>
    BY <2>1 DEF IInv, Strangers, BossFrame
  <2> QED BY <1>0, <1>1, <2>2 DEF IInv, Strangers, worker
<1>5. Homed' /\ Wakes'
  <2>1. UNCHANGED <<home, mapped, missing, held, ready>>
    BY <1>0 DEF worker, tree
  <2> QED BY <1>1, <2>1 DEF IInv, Homed, Wakes
<1>6. BossType'
  BY DEF BossFrame
<1>7. \A e \in Employed' : Edge(e)'
  BY <1>1, <1>2
<1> QED BY <1>0, <1>1, <1>3, <1>4, <1>5, <1>6, <1>7 DEF IInv

\* Results are still of tasks that are over, with a home on their way down.
LEMMA BossResults ==
    ASSUME IInv, NEW n \in Present, BossFrame(n),
           \A x \in Of(n) :
              /\ Range(up'[x]) \subseteq Range(up[x])
              /\ \A m \in Range(down'[x]) :
                    m \in Range(down[x]) \/ (m.type = "RESULT" => m.task \in finished /\ home[m.task] # None),
           n \in Employed => Range(down'[n]) \subseteq Range(down[n]),
           n \in Employed => \A m \in Range(up'[n]) :
              m \in Range(up[n]) \/ (m.type = "RESULT" => m.task \in finished)
    PROVE  Results(Nodes)'
<1>1. UNCHANGED <<finished, home>> /\ Results(Nodes) /\ system \in Systems
  BY DEF BossFrame, tree, IInv, CrewInv
<1>2. ASSUME NEW e \in Nodes
      PROVE  /\ \A m \in Range(up'[e]) : m.type = "RESULT" => m.task \in finished
             /\ \A m \in Range(down'[e]) : m.type = "RESULT" => m.task \in finished /\ home[m.task] # None
  <2>1. CASE e \in Of(n)
    BY <1>1, <2>1 DEF Results
  <2>2. CASE e = n
    <3>1. n \in Employed
      BY <1>1, <2>2, NodeKinds, TreeType
    <3> QED BY <1>1, <2>2, <3>1 DEF Results
  <2>3. CASE e \notin Of(n) /\ e # n
    <3>1. up'[e] = up[e] /\ down'[e] = down[e]
      BY <2>3 DEF BossFrame
    <3> QED BY <1>1, <1>2, <3>1 DEF Results
  <2> QED BY <2>1, <2>2, <2>3
<1> QED BY <1>1, <1>2 DEF Results

----------------------------------------------------------------------------
(* Dealing tasks.                                                          *)

\* What schedule_tasks among the employees of n comes to, their queues being q.
DealtTo(n, ts, q, share) ==
    /\ Dealt(ts, share, Of(n))
    /\ \A x \in Of(n) :
          /\ down'[x] = Given(q[x], share[x])
          /\ numTasks'[x] = numTasks[x] + Len(share[x])
          /\ idle'[x] = Capped(idle[x] - Len(share[x]), 0, idle[x])
          /\ cache'[x] = IF share[x] = <<>> THEN cache[x]
                         ELSE Append(cache[x], <<share[x][1], Len(share[x])>>)
    /\ \A x \in Nodes \ Of(n) : down'[x] = q[x]
    /\ \A x \in Employed \ Of(n) :
          numTasks'[x] = numTasks[x] /\ idle'[x] = idle[x] /\ cache'[x] = cache[x]
    /\ \A m \in Present \ {n} : numIdle'[m] = numIdle[m]
    /\ down' \in [Nodes -> Seq(Messages)]
    /\ numTasks' \in [Employed -> Int] /\ idle' \in [Employed -> Nat]
    /\ cache' \in [Employed -> Seq(Entries)] /\ numIdle' \in [Present -> Nat]
    /\ numIdle'[n] = Total(Mine(idle, n)')

\* schedule_tasks deals the tasks and enters them in the books.
LEMMA ScheduleEffect ==
    ASSUME IInv, UNCHANGED system, NEW n \in Present, NEW ts \in Seq(Tasks), NoRepeat(ts),
           NEW q \in [Nodes -> Seq(Messages)], ScheduleOn(n, ts, q)
    PROVE  \E share : DealtTo(n, ts, q, share)
<1> DEFINE size(share, e) == IF e \in Of(n) THEN Len(share[e]) ELSE 0
<1>1. PICK share \in Assignments(ts, Mine(idle, n), Mine(numTasks, n)) :
        /\ down' = [e \in Nodes |-> IF size(share, e) > 0 THEN Append(q[e], Batch(share[e])) ELSE q[e]]
        /\ numTasks' = [e \in Employed |-> numTasks[e] + size(share, e)]
        /\ idle' = [e \in Employed |-> Capped(idle[e] - size(share, e), 0, idle[e])]
        /\ cache' = [e \in Employed |-> IF size(share, e) > 0
                       THEN Append(cache[e], <<share[e][1], size(share, e)>>) ELSE cache[e]]
        /\ numIdle' = [numIdle EXCEPT ![n] = Total(Mine(idle', n))]
  BY DEF ScheduleOn
<1>2. /\ system \in Systems /\ BossType /\ CrewType(Nodes)
      /\ \A x \in Of(n) : x \in Employed /\ x \in Nodes
      /\ Employed \subseteq Nodes
  BY NodeKinds, TreeType DEF IInv, CrewInv
<1>3. /\ IsFiniteSet(Of(n)) /\ Mine(idle, n) \in [Of(n) -> Nat] /\ Total(Mine(idle, n)) \in Nat
      /\ DOMAIN Mine(idle, n) = Of(n)
  BY <1>2, MineTotal
<1>4. Dealt(ts, share, Of(n))
  BY <1>3, AssignmentsDeal
<1>5. \A x \in Of(n) : /\ share[x] \in Seq(Tasks) /\ Len(share[x]) \in Nat
                       /\ Len(share[x]) > 0 <=> share[x] # <<>>
  BY <1>4 DEF Dealt
<1>6. ASSUME NEW x \in Of(n)
      PROVE  /\ down'[x] = Given(q[x], share[x])
             /\ numTasks'[x] = numTasks[x] + Len(share[x])
             /\ idle'[x] = Capped(idle[x] - Len(share[x]), 0, idle[x])
             /\ cache'[x] = IF share[x] = <<>> THEN cache[x]
                            ELSE Append(cache[x], <<share[x][1], Len(share[x])>>)
             /\ down'[x] \in Seq(Messages) /\ numTasks'[x] \in Int /\ idle'[x] \in Nat
             /\ cache'[x] \in Seq(Entries)
  <2>1. /\ down'[x] = Given(q[x], share[x])
        /\ numTasks'[x] = numTasks[x] + Len(share[x])
        /\ idle'[x] = Capped(idle[x] - Len(share[x]), 0, idle[x])
        /\ cache'[x] = IF share[x] = <<>> THEN cache[x]
                       ELSE Append(cache[x], <<share[x][1], Len(share[x])>>)
    BY <1>1, <1>2, <1>5 DEF Given
  <2>2. numTasks[x] \in Int /\ idle[x] \in Nat /\ cache[x] \in Seq(Entries) /\ q[x] \in Seq(Messages)
    BY <1>2 DEF BossType
  <2>3. down'[x] \in Seq(Messages)
    BY <2>1, <2>2, <1>5, GivenType
  <2>4. share[x] # <<>> => <<share[x][1], Len(share[x])>> \in Entries
    BY <1>5 DEF Entries
  <2>5. cache'[x] \in Seq(Entries)
    <3>1. \A z \in Entries : Append(cache[x], z) \in Seq(Entries)
      BY <2>2
    <3> QED BY <2>1, <2>2, <2>4, <3>1
  <2>6. numTasks'[x] \in Int /\ idle'[x] \in Nat
    BY <2>1, <2>2, <1>5, SMTT(30) DEF Capped
  <2> QED BY <2>1, <2>3, <2>5, <2>6
<1>7. ASSUME NEW x \in Employed, x \notin Of(n)
      PROVE  /\ numTasks'[x] = numTasks[x] /\ idle'[x] = idle[x] /\ cache'[x] = cache[x]
             /\ numTasks'[x] \in Int /\ idle'[x] \in Nat /\ cache'[x] \in Seq(Entries)
  <2>1. numTasks[x] \in Int /\ idle[x] \in Nat /\ cache[x] \in Seq(Entries)
    BY <1>2 DEF BossType
  <2>2. numTasks'[x] = numTasks[x] + 0 /\ idle'[x] = Capped(idle[x] - 0, 0, idle[x]) /\ cache'[x] = cache[x]
    BY <1>1, <1>7
  <2> QED BY <2>1, <2>2 DEF Capped
<1>8. ASSUME NEW x \in Nodes, x \notin Of(n) PROVE down'[x] = q[x] /\ down'[x] \in Seq(Messages)
  BY <1>1, <1>8
<1>9. /\ down' = [e \in Nodes |-> down'[e]] /\ numTasks' = [e \in Employed |-> numTasks'[e]]
      /\ idle' = [e \in Employed |-> idle'[e]] /\ cache' = [e \in Employed |-> cache'[e]]
  BY <1>1
<1>10. /\ down' \in [Nodes -> Seq(Messages)]
       /\ numTasks' \in [Employed -> Int] /\ idle' \in [Employed -> Nat]
       /\ cache' \in [Employed -> Seq(Entries)]
  <2>1. \A e \in Nodes : down'[e] \in Seq(Messages)
    BY <1>6, <1>8
  <2>2. \A e \in Employed : numTasks'[e] \in Int /\ idle'[e] \in Nat /\ cache'[e] \in Seq(Entries)
    BY <1>6, <1>7
  <2> QED BY <1>9, <2>1, <2>2
<1>11. Mine(idle', n) = Mine(idle, n)' /\ Mine(idle, n)' \in [Of(n) -> Nat]
  <2>1. Of(n)' = Of(n)
    BY TreeSame
  <2> QED BY <2>1, <1>2, <1>10 DEF Mine
<1>12. Total(Mine(idle, n)') \in Nat
  BY <1>3, <1>11, TotalNat
<1>13. /\ numIdle' \in [Present -> Nat] /\ numIdle'[n] = Total(Mine(idle, n)')
       /\ \A m \in Present \ {n} : numIdle'[m] = numIdle[m]
  BY <1>1, <1>2, <1>11, <1>12 DEF BossType
<1> HIDE DEF size
<1>14. DealtTo(n, ts, q, share)
  BY <1>4, <1>6, <1>7, <1>8, <1>10, <1>13 DEF DealtTo
<1> QED BY <1>14

\* The lengths of the shares add up to the length of what is dealt.
LEMMA DealtLength ==
    ASSUME NEW E, IsFiniteSet(E), NEW ts \in Seq(Tasks), NoRepeat(ts), NEW share, Dealt(ts, share, E)
    PROVE  /\ [x \in E |-> Len(share[x])] \in [E -> Nat]
           /\ Total([x \in E |-> Len(share[x])]) = Len(ts)
<1> DEFINE X == [x \in E |-> Range(share[x])]
<1>1. \A x \in E : share[x] \in Seq(Tasks) /\ NoRepeat(share[x]) /\ Len(share[x]) \in Nat
  BY DEF Dealt
<1>2. \A x \in E : IsFiniteSet(X[x]) /\ Cardinality(X[x]) = Len(share[x])
  BY <1>1, RangeCardinality
<1>3. Families(E, X)
  BY DEF Dealt, Families
<1>4. Union(E, X) = Range(ts)
  BY DEF Dealt, Union
<1>5. [x \in E |-> Cardinality(X[x])] = [x \in E |-> Len(share[x])]
  BY <1>2
<1>6. Cardinality(Range(ts)) = Len(ts)
  BY RangeCardinality
<1> HIDE DEF X
<1>7. Cardinality(Union(E, X)) = Total([x \in E |-> Cardinality(X[x])])
  BY <1>2, <1>3, SizeOfFamily
<1> QED BY <1>1, <1>4, <1>5, <1>6, <1>7

\* Functions added term by term, and their totals.
Adds(S, f, g, s) ==
    f \in [S -> Int] /\ g \in [S -> Int] /\ s \in [S -> Int] /\ \A x \in S : s[x] = f[x] + g[x]

\* The total of the sums is the sum of the totals.
LEMMA TotalAdds ==
    ASSUME NEW S, IsFiniteSet(S), NEW f, NEW g, NEW s, Adds(S, f, g, s)
    PROVE  Total(s) = Total(f) + Total(g)
<1>1. f \in [S -> Int] /\ g \in [S -> Int] /\ s \in [S -> Int]
  BY DEF Adds
<1>2. \A x \in S : s[x] = f[x] + g[x]
  BY DEF Adds
<1> QED BY <1>1, <1>2, TotalPlus

\* The totals after tasks have been dealt.
LEMMA DealtTotals ==
    ASSUME IInv, UNCHANGED system, NEW n \in Present, NEW ts \in Seq(Tasks), NoRepeat(ts),
           NEW q, NEW share, DealtTo(n, ts, q, share)
    PROVE  /\ Total(Mine(numTasks, n)') = Total(Mine(numTasks, n)) + Len(ts)
           /\ numIdle'[n] \in Nat /\ numIdle'[n] <= numIdle[n]
           /\ numIdle'[n] >= numIdle[n] - Len(ts)
<1> DEFINE E == Of(n)
           len == [x \in E |-> Len(share[x])]
           a == Mine(numTasks, n)
           b == Mine(numTasks, n)'
           c == Mine(idle, n)
           d == Mine(idle, n)'
<1>0. /\ system \in Systems /\ BossType /\ \A x \in E : x \in Employed
      /\ Employed' = Employed /\ Of(n)' = E
  BY NodeKinds, TreeSame DEF IInv
<1>1. IsFiniteSet(E) /\ Dealt(ts, share, E)
  BY <1>0, MineTotal DEF DealtTo
<1>2. len \in [E -> Nat] /\ Total(len) = Len(ts)
  BY <1>1, DealtLength
<1>3. a \in [E -> Int] /\ b \in [E -> Int] /\ c \in [E -> Int] /\ d \in [E -> Int]
      /\ c \in [E -> Nat] /\ d \in [E -> Nat]
  BY <1>0 DEF Mine, DealtTo, BossType
<1>4. \A x \in E : /\ b[x] = a[x] + len[x] /\ d[x] <= c[x] /\ c[x] <= d[x] + len[x]
  <2> SUFFICES ASSUME NEW x \in E
               PROVE  b[x] = a[x] + len[x] /\ d[x] <= c[x] /\ c[x] <= d[x] + len[x]
    OBVIOUS
  <2>1. /\ b[x] = numTasks'[x] /\ a[x] = numTasks[x] /\ d[x] = idle'[x] /\ c[x] = idle[x]
        /\ len[x] = Len(share[x])
    BY <1>0 DEF Mine
  <2>2. numTasks'[x] = numTasks[x] + Len(share[x]) /\ idle'[x] = Capped(idle[x] - Len(share[x]), 0, idle[x])
    BY DEF DealtTo
  <2>3. idle[x] \in Nat /\ Len(share[x]) \in Nat
    BY <1>0, <1>2, <2>1 DEF BossType
  <2>4. idle'[x] <= idle[x] /\ idle[x] <= idle'[x] + Len(share[x])
    BY <2>2, <2>3 DEF Capped
  <2> QED BY <2>1, <2>2, <2>4
<1>5. numIdle[n] = Total(c) /\ numIdle'[n] = Total(d) /\ numIdle'[n] \in Nat
  BY DEF IInv, IdleSums, DealtTo
<1>6. len \in [E -> Int] /\ Total(len) \in Int
  BY <1>2
<1> HIDE DEF E, len, a, b, c, d
<1>7. Total(b) = Total(a) + Total(len)
  <2>1. Adds(E, a, len, b)
    BY <1>3, <1>4, <1>6 DEF Adds
  <2> QED BY <1>1, <2>1, TotalAdds
<1>8. Total(d) <= Total(c)
  BY <1>1, <1>3, <1>4, TotalMonotonic
<1>9. Total(c) <= Total(d) + Total(len)
  <2> DEFINE s == [x \in E |-> d[x] + len[x]]
  <2>1. s \in [E -> Int] /\ \A x \in E : c[x] <= s[x]
    BY <1>3, <1>4, <1>6
  <2>4. Adds(E, d, len, s)
    BY <1>3, <1>6 DEF Adds
  <2> HIDE DEF s
  <2>2. Total(s) = Total(d) + Total(len)
    BY <2>4, <1>1, TotalAdds
  <2>3. Total(c) <= Total(s)
    BY <2>1, <1>1, <1>3, TotalMonotonic
  <2> QED BY <2>2, <2>3
<1>10. Total(b) = Total(a) + Len(ts)
  BY <1>2, <1>7
<1>11. numIdle'[n] <= numIdle[n] /\ numIdle'[n] >= numIdle[n] - Len(ts)
  <2>1. Total(c) \in Int /\ Total(d) \in Int /\ Len(ts) \in Nat
    BY <1>1, <1>3, TotalNat
  <2> QED BY <1>2, <1>5, <1>8, <1>9, <2>1
<1> QED BY <1>5, <1>10, <1>11 DEF a, b

\* Idle counts within the numbers of workers add up to no more than those.
LEMMA TotalIdle ==
    ASSUME system \in Systems, NEW n \in Present, NEW f \in [Of(n) -> Nat],
           \A x \in Of(n) : f[x] <= Size[x]
    PROVE  Total(f) <= Size[n] /\ Total(f) \in Nat /\ Size[n] \in Nat
<1> DEFINE g == [x \in Of(n) |-> Size[x]]
<1>1. n \in Tops /\ n \notin Workers /\ IsFiniteSet(Of(n))
  BY NodeKinds, TreeType DEF Tops
<1>2. \A x \in Of(n) : x \in Tops
  BY NodeKinds
<1>3. Size[n] = Total(g) /\ Size[n] \in Nat
  BY <1>1, SizeType
<1>4. g \in [Of(n) -> Int] /\ f \in [Of(n) -> Int] /\ \A x \in Of(n) : f[x] <= g[x]
  BY <1>2, SizeType
<1> HIDE DEF g
<1>5. Total(f) <= Total(g)
  BY <1>1, <1>4, TotalMonotonic
<1>6. Total(f) \in Nat
  BY <1>1, TotalNat
<1> QED BY <1>3, <1>5, <1>6

----------------------------------------------------------------------------
(* What the steps of a server or manager have in common.                   *)

\* A task in hand lies with the node that has it in hand.
LEMMA InHandSpot ==
    ASSUME IInv, NEW e \in Employed, NEW t \in InHand(e)
    PROVE  \E s \in Spots(Nodes) :
              /\ t \in Layout(Nodes)[s]
              /\ s \in {<<"down", e>>, <<"batch", e>>, <<"delayed", e>>, <<"held", e>>}
<1>0. e \in Nodes
  BY NodeKinds DEF IInv
<1>1. /\ <<"down", e>> \in Spots(Nodes) /\ Layout(Nodes)[<<"down", e>>] = Sent(down[e])
  BY <1>0, LayoutType, LiesAt
<1>2. CASE e \notin Workers
  BY <1>1, <1>2 DEF InHand
<1>3. CASE e \in Workers
  <2>1. t \in Sent(down[e]) \cup Range(delayed[e]) \cup held[e] \cup Batched(e)
    BY <1>3, AssignedLies DEF InHand
  <2>2. /\ <<"batch", e>> \in Spots(Nodes) /\ Layout(Nodes)[<<"batch", e>>] = Batched(e)
        /\ <<"delayed", e>> \in Spots(Nodes) /\ Layout(Nodes)[<<"delayed", e>>] = Range(delayed[e])
        /\ <<"held", e>> \in Spots(Nodes) /\ Layout(Nodes)[<<"held", e>>] = held[e]
    BY <1>3, LayoutType, LiesAt
  <2> HIDE DEF Layout, Spots
  <2>3. CASE t \in Sent(down[e])
    BY <1>1, <2>3
  <2>4. CASE t \in Range(delayed[e])
    BY <2>2, <2>4
  <2>5. CASE t \in held[e]
    BY <2>2, <2>5
  <2>6. CASE t \in Batched(e)
    BY <2>2, <2>6
  <2> QED BY <2>1, <2>3, <2>4, <2>5, <2>6
<1> QED BY <1>2, <1>3

\* Tasks that nobody below n has in hand, or has been sent.
Loose(n, M) ==
    \A e \in Employed : e \in Team[n] /\ e # n => Firsts(e) \cap M = {} /\ InHand(e) \cap M = {}

\* Such are those of a message on its way up ...
LEMMA LooseFromUp ==
    ASSUME IInv, NEW n \in Present, NEW z \in Nodes, NEW M, M \subseteq Sent(up[z])
    PROVE  Loose(n, M) /\ M \subseteq Born
<1>1. Apart(Layout(Nodes)) /\ Births /\ Descends
  BY DEF IInv, CrewInv, Placed
<1>2. /\ <<"up", z>> \in Spots(Nodes) /\ Layout(Nodes)[<<"up", z>>] = Sent(up[z])
      /\ DOMAIN Layout(Nodes) = Spots(Nodes)
  BY LayoutType, LiesAt, ZenonT(30)
<1>3. M \subseteq Born
  BY <1>1, QueuesApartNow DEF Births
<1>4. ASSUME NEW e \in Employed, NEW t \in InHand(e), t \in M PROVE FALSE
  <2>1. PICK s \in Spots(Nodes) :
          /\ t \in Layout(Nodes)[s]
          /\ s \in {<<"down", e>>, <<"batch", e>>, <<"delayed", e>>, <<"held", e>>}
    BY InHandSpot
  <2>2. s # <<"up", z>>
    BY <2>1
  <2>3. Layout(Nodes)[s] \cap Layout(Nodes)[<<"up", z>>] = {}
    BY <1>1, <1>2, <2>2 DEF Apart
  <2> QED BY <1>2, <1>4, <2>1, <2>3
<1>5. \A e \in Employed : Firsts(e) \cap M = {}
  BY <1>1 DEF Descends
<1> QED BY <1>3, <1>4, <1>5 DEF Loose

\* ... those on their way down to n ...
LEMMA LooseFromDown ==
    ASSUME IInv, NEW n \in Present \ {Server}, NEW M, M \subseteq Sent(down[n])
    PROVE  Loose(n, M) /\ M \subseteq Born
<1>0. n \in Nodes /\ n \in Employed
  BY NodeKinds, TreeType DEF IInv
<1>1. Apart(Layout(Nodes)) /\ Births /\ Descends
  BY DEF IInv, CrewInv, Placed
<1>2. /\ <<"down", n>> \in Spots(Nodes) /\ Layout(Nodes)[<<"down", n>>] = Sent(down[n])
      /\ DOMAIN Layout(Nodes) = Spots(Nodes)
  BY <1>0, LayoutType, LiesAt, ZenonT(30)
<1>3. M \subseteq Born
  BY <1>0, <1>1, QueuesApartNow DEF Births
<1>4. ASSUME NEW e \in Employed, e # n, NEW t \in InHand(e), t \in M PROVE FALSE
  <2>1. PICK s \in Spots(Nodes) :
          /\ t \in Layout(Nodes)[s]
          /\ s \in {<<"down", e>>, <<"batch", e>>, <<"delayed", e>>, <<"held", e>>}
    BY InHandSpot
  <2>2. s # <<"down", n>>
    BY <2>1, <1>4
  <2>3. Layout(Nodes)[s] \cap Layout(Nodes)[<<"down", n>>] = {}
    BY <1>1, <1>2, <2>2 DEF Apart
  <2> QED BY <1>2, <1>4, <2>1, <2>3
<1>5. \A e \in Employed : e \in Team[n] /\ n # e => Firsts(e) \cap M = {}
  BY <1>0, <1>1 DEF Descends
<1> QED BY <1>3, <1>4, <1>5 DEF Loose

\* ... and those that are new.
LEMMA LooseNew ==
    ASSUME IInv, NEW n, NEW M, M \cap Born = {}
    PROVE  Loose(n, M)
<1>1. \A e \in Employed : Firsts(e) \subseteq Born
  BY DEF IInv, Descends
<1>2. ASSUME NEW e \in Employed, NEW t \in InHand(e), t \in M PROVE FALSE
  <2>1. PICK s \in Spots(Nodes) : t \in Layout(Nodes)[s]
    BY InHandSpot
  <2>2. DOMAIN Layout(Nodes) = Spots(Nodes)
    BY LayoutType
  <2>3. t \in Everywhere(Layout(Nodes))
    BY <2>1, <2>2 DEF Everywhere
  <2> QED BY <1>2, <2>3 DEF IInv, Births
<1> QED BY <1>1, <1>2 DEF Loose

\* A step in which n deals the tasks ts to its employees, or none.
Move(n, ts, share) ==
    /\ BossFrame(n) /\ Dealt(ts, share, Of(n)) /\ Loose(n, Range(ts))
    /\ \A x \in Of(n) : Served(x, share[x])
    /\ numIdle'[n] = Total(Mine(idle, n)') /\ error' = "none"

\* It leaves the queues between n and its boss in order.
Upward(n) ==
    /\ Range(down'[n]) \subseteq Range(down[n]) /\ OnceEach(down'[n]) /\ OnceEach(up'[n])
    /\ \A m \in Range(up'[n]) : m \in Range(up[n]) \/ (m.type = "RESULT" => m.task \in finished)

\* Every employee of n has been served right.
LEMMA MoveServes ==
    ASSUME IInv, NEW n \in Present, NEW ts, NEW share, Move(n, ts, share), NEW x \in Of(n)
    PROVE  /\ share[x] \in Seq(Tasks) /\ NoRepeat(share[x]) /\ Range(share[x]) \subseteq Range(ts)
           /\ Range(share[x]) \cap (Firsts(x) \cup InHand(x)) = {}
           /\ Edge(x)'
           /\ Sent(down'[x]) = Sent(down[x]) \cup Range(share[x])
           /\ Sent(up'[x]) \subseteq Sent(up[x]) /\ Range(up'[x]) \subseteq Range(up[x])
           /\ OnceEach(down'[x]) /\ OnceEach(up'[x])
           /\ Firsts(x)' \subseteq Firsts(x) \cup Sent(down'[x])
           /\ \A m \in Range(down'[x]) :
                 m \in Range(down[x]) \/ (m.type = "RESULT" => m.task \in finished /\ home[m.task] # None)
<1>0. /\ system \in Systems /\ x \in Employed /\ x # n /\ x \in Nodes
      /\ down[x] \in Seq(Messages) /\ up[x] \in Seq(Messages) /\ cache[x] \in Seq(Entries)
      /\ OnceEach(down[x]) /\ OnceEach(up[x]) /\ BossFrame(n) /\ Served(x, share[x])
  BY NodeKinds, TreeType DEF IInv, CrewInv, CrewType, Placed, Once, Move, BossType
<1>1. share[x] \in Seq(Tasks) /\ NoRepeat(share[x]) /\ Range(share[x]) \subseteq Range(ts)
  BY DEF Move, Dealt
<1>2. x \in Team[n]
  <2>1. Boss(x) = n /\ x \in Tops
    BY <1>0, TreeType, NodeKinds
  <2>2. x \in Team[x]
    BY <1>0, <2>1, TeamType
  <2> QED BY <1>0, <2>1, <2>2, TeamOfBoss
<1>3. Range(share[x]) \cap (Firsts(x) \cup InHand(x)) = {}
  BY <1>0, <1>1, <1>2 DEF Move, Loose
<1>4. Edge(x)'
  BY <1>0, <1>1, <1>3, ServedEdge
<1>5. /\ Sent(down'[x]) = Sent(down[x]) \cup Range(share[x])
      /\ OnceEach(down[x]) /\ NoRepeat(share[x]) /\ Sent(down[x]) \cap Range(share[x]) = {}
           => OnceEach(down'[x])
      /\ \A m \in Range(down'[x]) :
            \/ m \in Range(down[x])
            \/ m = Batch(share[x]) /\ share[x] # <<>>
            \/ m.type = "RESULT" /\ m.task \in finished /\ home[m.task] \in Team[x] \cap Workers
  BY <1>0, <1>1, ServedDown
<1>6. Sent(down[x]) \subseteq InHand(x)
  BY AssignedLies DEF InHand
<1>7. OnceEach(down'[x])
  BY <1>0, <1>1, <1>3, <1>5, <1>6
<1>8. /\ Sent(up'[x]) \subseteq Sent(up[x]) /\ Range(up'[x]) \subseteq Range(up[x])
      /\ OnceEach(up'[x])
  BY <1>0, ListenedType DEF Served
<1>9. \A m \in Range(down'[x]) :
         m \in Range(down[x]) \/ (m.type = "RESULT" => m.task \in finished /\ home[m.task] # None)
  <2>1. None \notin Workers /\ Batch(share[x]).type # "RESULT"
    BY NoneAssumption DEF Batch
  <2> QED BY <1>5, <2>1
<1>10. Firsts(x)' \subseteq Firsts(x) \cup Sent(down'[x])
  <2>1. CASE share[x] = <<>>
    BY <1>0, <2>1 DEF Served, Firsts
  <2>2. CASE share[x] # <<>>
    <3> DEFINE y == <<share[x][1], Len(share[x])>>
    <3>1. cache'[x] = Append(cache[x], y)
      BY <1>0, <2>2 DEF Served
    <3>2. y \in Entries /\ y[1] \in Range(share[x])
      BY <1>1, <2>2 DEF Entries, Range
    <3> HIDE DEF y
    <3>3. Range(cache'[x]) = Range(cache[x]) \cup {y}
      BY <1>0, <3>1, <3>2, RangeAppend
    <3> QED BY <1>5, <3>2, <3>3 DEF Firsts
  <2> QED BY <2>1, <2>2
<1> QED BY <1>1, <1>3, <1>4, <1>5, <1>7, <1>8, <1>9, <1>10

\* The crew keeps its invariant.
LEMMA MoveCrew ==
    ASSUME IInv, NEW n \in Present, NEW ts, NEW share, Move(n, ts, share),
           n # Server => Upward(n),
           Apart(Layout(Nodes))', NEW N \in SUBSET Roots,
           Everywhere(Layout(Nodes))' = Everywhere(Layout(Nodes)) \cup N
    PROVE  CrewInv(Nodes)'
<1>0. system \in Systems /\ BossFrame(n) /\ CrewInv(Nodes) /\ n \notin Of(n)
  BY NodeKinds DEF IInv, Move
<1>1. n \in Employed => n # Server
  BY <1>0, NodeKinds
<1>2. ASSUME NEW e \in Nodes PROVE OnceEach(down'[e]) /\ OnceEach(up'[e])
  <2>1. CASE e \in Of(n)
    BY <2>1, MoveServes
  <2>2. CASE e = n
    <3>1. n # Server
      BY <1>0, <2>2, TreeType
    <3> QED BY <2>2, <3>1 DEF Upward
  <2>3. CASE e \notin Of(n) /\ e # n
    BY <1>0, <2>3 DEF BossFrame, CrewInv, Placed, Once
  <2> QED BY <2>1, <2>2, <2>3
<1>3. Results(Nodes)'
  <2>1. \A x \in Of(n) :
           /\ Range(up'[x]) \subseteq Range(up[x])
           /\ \A m \in Range(down'[x]) :
                 m \in Range(down[x]) \/ (m.type = "RESULT" => m.task \in finished /\ home[m.task] # None)
    BY MoveServes
  <2>2. n \in Employed => Range(down'[n]) \subseteq Range(down[n])
    BY <1>1 DEF Upward
  <2>3. n \in Employed => \A m \in Range(up'[n]) :
           m \in Range(up[n]) \/ (m.type = "RESULT" => m.task \in finished)
    BY <1>1 DEF Upward
  <2> QED BY <1>0, <2>1, <2>2, <2>3, BossResults
<1>4. /\ UNCHANGED <<worker, tree>>
      /\ down' \in [Nodes -> Seq(Messages)] /\ up' \in [Nodes -> Seq(Messages)]
  BY <1>0 DEF BossFrame
<1> QED BY <1>0, <1>2, <1>3, <1>4, BossKeeps

\* The whole invariant through a step of a server or manager.
LEMMA MoveKeeps ==
    ASSUME IInv, NEW n \in Present, NEW ts, NEW share, Move(n, ts, share),
           n # Server => Upward(n) /\ Edge(n)',
           Apart(Layout(Nodes))', NEW N \in SUBSET Roots,
           Everywhere(Layout(Nodes))' = Everywhere(Layout(Nodes)) \cup N,
           submitted' = submitted \cup N, done' \subseteq Roots \cap finished,
           \A y \in Nodes : \A t \in Sent(up'[y]) : \E z \in Nodes : t \in Sent(up[z]),
           Arrives'
    PROVE  IInv' /\ Born' = Born \cup N
<1>0. system \in Systems /\ BossFrame(n) /\ UNCHANGED <<tree, worker>> /\ error' = "none"
  BY DEF IInv, Move, BossFrame
<1>1. CrewInv(Nodes)'
  BY MoveCrew
<1>2. Born' = Born \cup N
  <2>1. mapped' = mapped
    BY <1>0 DEF tree
  <2> QED BY <2>1 DEF Born, Kids
<1>3. Births'
  BY <1>2 DEF IInv, Births
<1>4. Clients'
  <2>1. submitted \subseteq Roots /\ finished' = finished
    BY <1>0 DEF IInv, Clients, tree
  <2>2. submitted' \subseteq Roots /\ done' \subseteq Roots \cap finished'
    BY <2>1
  <2> QED BY <2>2 DEF Clients, Roots
<1>5. \A x \in Of(n) : Edge(x)'
  BY MoveServes
<1>6. Descends'
  <2>1. \A e \in Employed : e \in Team[n] /\ e # n => Firsts(e) \cap Range(ts) = {}
    BY DEF Move, Loose
  <2>2. \A x \in Of(n) : Sent(down'[x]) \subseteq Sent(down[x]) \cup Range(ts)
    BY MoveServes
  <2>3. \A x \in Of(n) : Firsts(x)' \subseteq Firsts(x) \cup Sent(down'[x])
    BY MoveServes
  <2>4. n \in Employed => Sent(down'[n]) \subseteq Sent(down[n])
    <3> SUFFICES ASSUME n \in Employed PROVE Sent(down'[n]) \subseteq Sent(down[n])
      OBVIOUS
    <3>1. n # Server /\ n \in Nodes
      BY <1>0, NodeKinds
    <3>2. Range(down'[n]) \subseteq Range(down[n])
      BY <3>1 DEF Upward
    <3>3. down[n] \in Seq(Messages) /\ down'[n] \in Seq(Messages)
      BY <1>0, <3>1 DEF IInv, CrewInv, CrewType, BossFrame
    <3>4. ASSUME NEW t \in Sent(down'[n]) PROVE t \in Sent(down[n])
      <4>1. PICK i \in DOMAIN down'[n] : t \in SentBy(down'[n][i])
        BY <3>3, SentType
      <4>2. down'[n][i] \in Range(down'[n])
        BY <4>1 DEF Range
      <4>3. PICK j \in DOMAIN down[n] : down[n][j] = down'[n][i]
        BY <3>2, <4>2 DEF Range
      <4> QED BY <3>3, <4>1, <4>3, SentType
    <3> QED BY <3>4
  <2>5. Apart(Layout(Nodes))' /\ Born \subseteq Born'
    BY <1>2
  <2> QED BY <1>0, <1>3, <2>1, <2>2, <2>3, <2>4, <2>5, DescendsKept
<1>7. numIdle'[n] = Total(Mine(idle, n)')
  BY DEF Move
<1> QED BY <1>0, <1>1, <1>2, <1>3, <1>4, <1>5, <1>6, <1>7, BossKeepsAll

----------------------------------------------------------------------------
(* Where the tasks are after such a step.                                  *)

\* The spots after a step of a server or manager.
LEMMA QueueLayout ==
    ASSUME UNCHANGED <<worker, tree>>
    PROVE  /\ \A e \in Nodes :
                 /\ Layout(Nodes)[<<"down", e>>] = Sent(down[e])
                 /\ Layout(Nodes)'[<<"down", e>>] = Sent(down'[e])
                 /\ Layout(Nodes)[<<"up", e>>] = Sent(up[e])
                 /\ Layout(Nodes)'[<<"up", e>>] = Sent(up'[e])
                 /\ <<"down", e>> \in Spots(Nodes) /\ <<"up", e>> \in Spots(Nodes)
           /\ \A s \in Spots(Nodes) :
                 (\A e \in Nodes : s # <<"down", e>> /\ s # <<"up", e>>) =>
                    Layout(Nodes)'[s] = Layout(Nodes)[s]
<1>1. UNCHANGED <<delayed, held, batch, finished>>
  BY DEF worker, tree
<1>2. \A e \in Nodes :
                 /\ Layout(Nodes)[<<"down", e>>] = Sent(down[e])
                 /\ Layout(Nodes)'[<<"down", e>>] = Sent(down'[e])
                 /\ Layout(Nodes)[<<"up", e>>] = Sent(up[e])
                 /\ Layout(Nodes)'[<<"up", e>>] = Sent(up'[e])
                 /\ <<"down", e>> \in Spots(Nodes) /\ <<"up", e>> \in Spots(Nodes)
  BY LayoutType, LiesAt, ZenonT(30)
<1>3. ASSUME NEW s \in Spots(Nodes), \A e \in Nodes : s # <<"down", e>> /\ s # <<"up", e>>
      PROVE  Layout(Nodes)'[s] = Layout(Nodes)[s]
  <2>1. CASE \E v \in Workers : s = <<"batch", v>> \/ s = <<"delayed", v>>
                                \/ s = <<"held", v>>
    <3>1. Lies(s)' = Lies(s)
      BY <1>1, <2>1, LiesAt DEF Batched
    <3> QED BY <3>1, LayoutType
  <2>2. CASE s = <<"over", None>>
    <3>1. Lies(s)' = Lies(s)
      BY <1>1, <2>2, LiesAt
    <3> QED BY <3>1, LayoutType
  <2> QED BY <1>3, <2>1, <2>2, LayoutType
<1> QED BY <1>2, <1>3

\* The tasks ts go from one spot to the employees of n, and G to the spot aux.
DealsAndGoes(D, E, ts, share, from, aux, G) ==
    /\ E \subseteq D /\ from \in Spots(D) /\ aux \in Spots(D) /\ from # aux
    /\ \A e \in E : from # <<"down", e>> /\ aux # <<"down", e>>
    /\ Range(ts) \cap G = {} /\ Range(ts) \cup G \subseteq Layout(D)[from]
    /\ Layout(D)'[from] = Layout(D)[from] \ (Range(ts) \cup G)
    /\ Layout(D)'[aux] = Layout(D)[aux] \cup G
    /\ \A e \in E : Layout(D)'[<<"down", e>>] = Layout(D)[<<"down", e>>] \cup Range(share[e])
    /\ \A s \in Spots(D) \ {from, aux} :
          (\A e \in E : s # <<"down", e>>) => Layout(D)'[s] = Layout(D)[s]

\* When tasks are dealt and others go elsewhere, each still lies in one place, and none
\* is lost.
LEMMA DealtAndGone ==
    ASSUME NEW D, NEW E \in SUBSET D, NEW ts, NEW share, Dealt(ts, share, E),
           Apart(Layout(D)), NEW from, NEW aux, NEW G,
           DealsAndGoes(D, E, ts, share, from, aux, G)
    PROVE  Apart(Layout(D))' /\ Everywhere(Layout(D))' = Everywhere(Layout(D))
<1> USE DEF DealsAndGoes
<1>0. PICK to : Toward(D, E, ts, share, to)
  BY TowardExists
<1>1. /\ DOMAIN to = Spots(D) /\ Apart(to)
      /\ \A e \in E : <<"down", e>> \in Spots(D) /\ to[<<"down", e>>] = Range(share[e])
      /\ \A s \in Spots(D) : (\A e \in E : s # <<"down", e>>) => to[s] = {}
      /\ UNION {to[s] : s \in Spots(D)} = Range(ts)
  BY <1>0 DEF Toward
<1> DEFINE C == Layout(D)
           Z == Layout(D)'
           B == [s \in Spots(D) |-> IF s = from THEN C[s] \ G ELSE IF s = aux THEN C[s] \cup G ELSE C[s]]
<1>2. DOMAIN C = Spots(D) /\ DOMAIN Z = Spots(D) /\ DOMAIN B = Spots(D)
  BY LayoutType
<1>3. Apart(B) /\ Everywhere(B) = Everywhere(C)
  <2>1. OneShift(Spots(D), C, B, from, aux, G)
    BY <1>2 DEF OneShift
  <2> HIDE DEF B, C
  <2> QED BY <2>1, ShiftToOne
<1>4. ASSUME NEW s \in Spots(D), s # from
      PROVE  Z[s] = B[s] \cup to[s]
  <2>1. CASE \E e \in E : s = <<"down", e>>
    <3>1. PICK e \in E : s = <<"down", e>>
      BY <2>1
    <3>2. B[s] = C[s]
      BY <1>4, <3>1
    <3> QED BY <1>1, <3>1, <3>2
  <2>2. CASE s = aux
    <3>1. B[s] = C[s] \cup G /\ Z[s] = C[s] \cup G
      BY <1>4, <2>2
    <3> QED BY <1>1, <2>2, <3>1
  <2>3. CASE s # aux /\ ~\E e \in E : s = <<"down", e>>
    <3>1. Z[s] = C[s] /\ to[s] = {} /\ B[s] = C[s]
      BY <1>1, <1>4, <2>3
    <3> QED BY <3>1
  <2> QED BY <2>1, <2>2, <2>3
<1>5. to[from] = {} /\ Range(ts) \subseteq B[from] /\ Z[from] = B[from] \ Range(ts)
  BY <1>1
<1> HIDE DEF B, C, Z
<1>6. Shift(B, Z, from, to)
  BY <1>1, <1>2, <1>4, <1>5 DEF Shift
<1>7. Apart(Z) /\ Everywhere(Z) = Everywhere(B)
  BY <1>2, <1>3, <1>6, ShiftApart
<1> QED BY <1>3, <1>7 DEF C, Z, Apart, Everywhere

\* The step takes the tasks ts and G from the spot from; G goes up.
Leaves(n, ts, from, G) ==
    /\ Range(ts) \cap G = {} /\ Range(ts) \cup G \subseteq Lies(from)
    /\ Lies(from)' = Lies(from) \ (Range(ts) \cup G)
    /\ n = Server => G = {}
    /\ n # Server => Sent(up'[n]) = Sent(up[n]) \cup G
    /\ \A x \in Of(n) : <<"up", x>> # from => Sent(up'[x]) = Sent(up[x])
    /\ n # Server /\ <<"down", n>> # from => Sent(down'[n]) = Sent(down[n])

\* After such a step of n each task still lies in one place, and none is lost.
LEMMA MovePlaced ==
    ASSUME IInv, NEW n \in Present, NEW ts, NEW share, Move(n, ts, share),
           NEW z, NEW from, NEW G,
           \/ z \in Of(n) /\ from = <<"up", z>>
           \/ z = n /\ n # Server /\ from = <<"down", n>>,
           Leaves(n, ts, from, G)
    PROVE  Apart(Layout(Nodes))' /\ Everywhere(Layout(Nodes))' = Everywhere(Layout(Nodes))
<1>0. /\ system \in Systems /\ BossFrame(n) /\ UNCHANGED <<worker, tree>>
      /\ Dealt(ts, share, Of(n)) /\ Of(n) \in SUBSET Nodes /\ n \notin Of(n)
      /\ Apart(Layout(Nodes)) /\ (n # Server => n \in Nodes)
  BY NodeKinds, TreeType DEF IInv, CrewInv, Placed, Move, BossFrame
<1> DEFINE aux == IF n = Server THEN <<"over", None>> ELSE <<"up", n>>
<1>1. from \in Spots(Nodes) /\ aux \in Spots(Nodes) /\ from # aux
  <2>1. <<"over", None>> \in Spots(Nodes) /\ \A e \in Nodes : <<"up", e>> \in Spots(Nodes) /\ <<"down", e>> \in Spots(Nodes)
    BY LayoutType
  <2>2. CASE z \in Of(n) /\ from = <<"up", z>>
    <3>1. z # n /\ z \in Nodes
      BY <1>0, <2>2
    <3>2. from # <<"over", None>> /\ from # <<"up", n>>
      BY <2>2, <3>1
    <3> QED BY <1>0, <2>1, <2>2, <3>1, <3>2
  <2>3. CASE z = n /\ n # Server /\ from = <<"down", n>>
    <3>1. from # <<"over", None>> /\ from # <<"up", n>>
      BY <2>3
    <3> QED BY <1>0, <2>1, <2>3, <3>1
  <2> QED BY <2>2, <2>3
<1>2. \A e \in Of(n) : from # <<"down", e>> /\ aux # <<"down", e>>
  BY <1>0
<1>3. Layout(Nodes)[from] = Lies(from) /\ Layout(Nodes)'[from] = Lies(from)'
  BY <1>1, LayoutType
<1>4. Layout(Nodes)'[aux] = Layout(Nodes)[aux] \cup G
  <2>1. CASE n = Server
    <3>1. Layout(Nodes)'[aux] = Layout(Nodes)[aux] /\ G = {}
      BY <1>0, <1>1, <2>1, QueueLayout DEF Leaves
    <3> QED BY <3>1
  <2>2. CASE n # Server
    BY <1>0, <2>2, QueueLayout DEF Leaves
  <2> QED BY <2>1, <2>2
<1>5. \A e \in Of(n) : Layout(Nodes)'[<<"down", e>>] = Layout(Nodes)[<<"down", e>>] \cup Range(share[e])
  <2> SUFFICES ASSUME NEW e \in Of(n)
               PROVE  Layout(Nodes)'[<<"down", e>>] = Layout(Nodes)[<<"down", e>>] \cup Range(share[e])
    OBVIOUS
  <2>1. Sent(down'[e]) = Sent(down[e]) \cup Range(share[e])
    BY MoveServes, SMTT(30)
  <2> QED BY <1>0, <2>1, QueueLayout
<1>6. ASSUME NEW s \in Spots(Nodes) \ {from, aux}, \A e \in Of(n) : s # <<"down", e>>
      PROVE  Layout(Nodes)'[s] = Layout(Nodes)[s]
  <2>1. CASE \E x \in Nodes : s = <<"down", x>>
    <3>1. PICK x \in Nodes : s = <<"down", x>>
      BY <2>1
    <3>2. x \notin Of(n)
      BY <1>6, <3>1
    <3>3. Sent(down'[x]) = Sent(down[x])
      <4>1. CASE x = n
        <5>1. n # Server /\ <<"down", n>> # from
          BY <1>0, <1>6, <3>1, <4>1, TreeType
        <5> QED BY <4>1, <5>1 DEF Leaves
      <4>2. CASE x # n
        BY <1>0, <3>2, <4>2 DEF BossFrame
      <4> QED BY <4>1, <4>2
    <3> QED BY <1>0, <3>1, <3>3, QueueLayout, ZenonT(30)
  <2>2. CASE \E x \in Nodes : s = <<"up", x>>
    <3>1. PICK x \in Nodes : s = <<"up", x>>
      BY <2>2
    <3>2. x # n
      <4> SUFFICES ASSUME x = n PROVE FALSE
        OBVIOUS
      <4>1. n # Server
        BY <1>0, TreeType
      <4> QED BY <1>6, <3>1, <4>1
    <3>3. Sent(up'[x]) = Sent(up[x])
      <4>1. CASE x \in Of(n)
        BY <1>6, <3>1, <4>1 DEF Leaves
      <4>2. CASE x \notin Of(n)
        BY <1>0, <3>2, <4>2 DEF BossFrame
      <4> QED BY <4>1, <4>2
    <3> QED BY <1>0, <3>1, <3>3, QueueLayout
  <2>3. CASE \A x \in Nodes : s # <<"down", x>> /\ s # <<"up", x>>
    BY <1>0, <2>3, QueueLayout
  <2> QED BY <2>1, <2>2, <2>3
<1>7. /\ Range(ts) \cap G = {} /\ Range(ts) \cup G \subseteq Layout(Nodes)[from]
      /\ Layout(Nodes)'[from] = Layout(Nodes)[from] \ (Range(ts) \cup G)
  BY <1>3 DEF Leaves
<1>8. Of(n) \in SUBSET Nodes
  BY <1>0
<1> HIDE DEF aux
<1>9. Apart(Layout(Nodes))' /\ Everywhere(Layout(Nodes))' = Everywhere(Layout(Nodes))
  <2>1. DealsAndGoes(Nodes, Of(n), ts, share, from, aux, G)
    BY <1>1, <1>2, <1>4, <1>5, <1>6, <1>7, <1>8 DEF DealsAndGoes
  <2> QED BY <1>0, <1>8, <2>1, DealtAndGone
<1> QED BY <1>9

----------------------------------------------------------------------------
(* A manager as its boss sees it.                                          *)

\* What the frame leaves of a manager's own entry with its boss.
LEMMA OwnFrame ==
    ASSUME IInv, NEW n \in Present \ {Server}, BossFrame(n)
    PROVE  /\ system \in Systems /\ n \in Employed /\ n \in Nodes /\ n \notin Workers /\ n \notin Of(n)
           /\ numTasks'[n] = numTasks[n] /\ idle'[n] = idle[n] /\ cache'[n] = cache[n]
           /\ Team'[n] = Team[n] /\ Size'[n] = Size[n] /\ home' = home /\ finished' = finished
           /\ Edge(n) /\ numTasks[n] \in Int /\ idle[n] \in Nat /\ cache[n] \in Seq(Entries)
           /\ up[n] \in Seq(Messages) /\ down[n] \in Seq(Messages)
           /\ up'[n] \in Seq(Messages) /\ down'[n] \in Seq(Messages)
           /\ OnceEach(up[n]) /\ OnceEach(down[n])
           /\ Within(n) = Total(Mine(numTasks, n)) + announced[n]
           /\ Within(n)' = Total(Mine(numTasks, n)') + announced'[n]
           /\ Within(n) \in Int /\ Within(n)' \in Int
           /\ Total(Mine(numTasks, n)) \in Int /\ announced[n] \in Int
           /\ numIdle[n] \in Nat /\ last[n] \in Nat /\ numIdle'[n] \in Nat /\ last'[n] \in Nat
<1>1. /\ system \in Systems /\ n \in Employed /\ n \in Nodes /\ n \notin Workers /\ n \notin Of(n)
      /\ UNCHANGED system
  BY NodeKinds, TreeType DEF IInv, BossFrame
<1>2. /\ numTasks'[n] = numTasks[n] /\ idle'[n] = idle[n] /\ cache'[n] = cache[n]
      /\ home' = home /\ finished' = finished
  BY <1>1 DEF BossFrame, tree
<1>3. Team'[n] = Team[n] /\ Size'[n] = Size[n] /\ system' \in Systems /\ n \in Present'
      /\ Employed' = Employed /\ Present' = Present /\ Of(n)' = Of(n)
  BY <1>1, TreeSame
<1>4. /\ Edge(n) /\ numTasks[n] \in Int /\ idle[n] \in Nat /\ cache[n] \in Seq(Entries)
      /\ up[n] \in Seq(Messages) /\ down[n] \in Seq(Messages)
      /\ up'[n] \in Seq(Messages) /\ down'[n] \in Seq(Messages)
      /\ OnceEach(up[n]) /\ OnceEach(down[n])
      /\ numIdle[n] \in Nat /\ last[n] \in Nat /\ numIdle'[n] \in Nat /\ last'[n] \in Nat
      /\ announced[n] \in Int /\ announced'[n] \in Int
  BY <1>1, <1>3 DEF IInv, BossType, CrewInv, CrewType, BossFrame, Placed, Once
<1>5. /\ Within(n) = Total(Mine(numTasks, n)) + announced[n]
      /\ Within(n)' = Total(Mine(numTasks, n)') + announced'[n]
  BY <1>1 DEF Within
<1>6. /\ IsFiniteSet(Of(n)) /\ Mine(numTasks, n) \in [Of(n) -> Int]
      /\ Total(Mine(numTasks, n)) \in Int
  BY <1>1, MineTotal DEF IInv
<1>7. Mine(numTasks, n)' \in [Of(n) -> Int]
  <2>1. Of(n) \subseteq Employed /\ numTasks' \in [Employed -> Int]
    BY <1>1, <1>3, NodeKinds DEF BossFrame, BossType
  <2> QED BY <1>3, <2>1 DEF Mine
<1>8. Total(Mine(numTasks, n)') \in Int
  <2> DEFINE f == Mine(numTasks, n)'
  <2>1. f \in [Of(n) -> Int]
    BY <1>7
  <2> HIDE DEF f
  <2>2. Total(f) \in Int
    BY <1>6, <2>1, TotalSums
  <2> QED BY <2>2 DEF f
<1>9. Within(n) \in Int /\ Within(n)' \in Int
  <2> DEFINE a == Total(Mine(numTasks, n))
             b == Total(Mine(numTasks, n)')
             c == announced[n]
             d == announced'[n]
  <2>1. a \in Int /\ b \in Int /\ c \in Int /\ d \in Int /\ Within(n) = a + c /\ Within(n)' = b + d
    BY <1>4, <1>5, <1>6, <1>8
  <2> HIDE DEF a, b, c, d
  <2> QED BY <2>1
<1> QED BY <1>1, <1>2, <1>3, <1>4, <1>5, <1>6, <1>9

\* What a manager may say to its boss.
Says1(n, m) ==
    /\ m.type = "RESULT" => m.completed_by \in Team[n] \cap Workers /\ m.task \in finished
    /\ m.type = "WAITING" => m.receipt = read[n] /\ m.idle <= Size[n]

\* Having said msgs, and read at most a message that is no batch, it is right
\* with its boss, if what the boss will count is.
SpeaksUp(n, msgs) ==
    /\ msgs \in Seq(Messages) /\ up'[n] = up[n] \o msgs
    /\ \/ down'[n] = down[n]
       \/ down[n] # <<>> /\ Head(down[n]).type # "SUBMIT_BATCH" /\ down'[n] = Tail(down[n])
    /\ read'[n] = read[n]
    /\ \A i \in DOMAIN msgs : Says1(n, msgs[i])
    /\ View(cache[n], up'[n], idle[n], read[n], numIdle'[n], last'[n])
    /\ Total(Mine(numTasks, n)') + announced'[n]
         = Total(Mine(numTasks, n)) + announced[n] + OwedIn(msgs)
    /\ OnceEach(msgs) /\ Sent(up[n]) \cap Sent(msgs) = {}

\* A manager that speaks so keeps the edge to its boss.
LEMMA SpeaksEdge ==
    ASSUME IInv, NEW n \in Present \ {Server}, BossFrame(n), NEW msgs, SpeaksUp(n, msgs)
    PROVE  /\ Edge(n)' /\ Upward(n)
           /\ Sent(down'[n]) = Sent(down[n]) /\ Sent(up'[n]) = Sent(up[n]) \cup Sent(msgs)
<1>0. /\ system \in Systems /\ n \in Employed /\ n \in Nodes /\ n \notin Workers /\ n \notin Of(n)
      /\ numTasks'[n] = numTasks[n] /\ idle'[n] = idle[n] /\ cache'[n] = cache[n]
      /\ Team'[n] = Team[n] /\ Size'[n] = Size[n] /\ home' = home /\ finished' = finished
      /\ Edge(n) /\ numTasks[n] \in Int /\ idle[n] \in Nat /\ cache[n] \in Seq(Entries)
      /\ up[n] \in Seq(Messages) /\ down[n] \in Seq(Messages)
      /\ up'[n] \in Seq(Messages) /\ down'[n] \in Seq(Messages)
      /\ OnceEach(up[n]) /\ OnceEach(down[n])
      /\ Within(n) = Total(Mine(numTasks, n)) + announced[n]
      /\ Within(n)' = Total(Mine(numTasks, n)') + announced'[n]
      /\ Within(n) \in Int /\ Within(n)' \in Int
      /\ Total(Mine(numTasks, n)) \in Int /\ announced[n] \in Int
      /\ numIdle[n] \in Nat /\ last[n] \in Nat /\ numIdle'[n] \in Nat /\ last'[n] \in Nat
  BY OwnFrame
<1>1. msgs \in Seq(Messages) /\ up'[n] = up[n] \o msgs
  BY <1>0 DEF SpeaksUp
<1>2. /\ Sent(down'[n]) = Sent(down[n]) /\ Range(down'[n]) \subseteq Range(down[n])
      /\ OnceEach(down'[n]) /\ Unread(down'[n]) = Unread(down[n])
  <2>1. CASE down'[n] = down[n]
    BY <1>0, <2>1
  <2>2. CASE down[n] # <<>> /\ Head(down[n]).type # "SUBMIT_BATCH" /\ down'[n] = Tail(down[n])
    <3>1. SentBy(Head(down[n])) = {}
      BY <1>0, <2>2 DEF SentBy
    <3>2. /\ Sent(down[n]) = SentBy(Head(down[n])) \cup Sent(Tail(down[n]))
          /\ OnceEach(Tail(down[n]))
      BY <1>0, <2>2, SentTail
    <3>3. Range(Tail(down[n])) \subseteq Range(down[n])
      BY <1>0, <2>2, RangeTail
    <3>4. Unread(Tail(down[n])) = Unread(down[n])
      BY <1>0, <2>2, UnreadSame
    <3> QED BY <1>0, <2>2, <3>1, <3>2, <3>3, <3>4
  <2> QED BY <1>0, <2>1, <2>2 DEF SpeaksUp
<1>3. /\ Sent(up'[n]) = Sent(up[n]) \cup Sent(msgs) /\ OnceEach(up'[n])
  <2>1. OnceEach(msgs) /\ Sent(up[n]) \cap Sent(msgs) = {}
    BY <1>0 DEF SpeaksUp
  <2> QED BY <1>0, <1>1, <2>1, SentConcat, SMTT(30)
<1>4. \A m \in Range(up'[n]) : m \in Range(up[n]) \/ Says1(n, m)
  <2> SUFFICES ASSUME NEW m \in Range(up'[n]) PROVE m \in Range(up[n]) \/ Says1(n, m)
    BY <1>0
  <2>1. Range(up'[n]) = Range(up[n]) \cup Range(msgs)
    <3>1. \A a, b \in Seq(Messages) : Range(a \o b) = Range(a) \cup Range(b)
      BY <1>0, RangeConcat
    <3> QED BY <1>0, <1>1, <3>1
  <2>2. \A l \in Range(msgs) : Says1(n, l)
    BY <1>0 DEF SpeaksUp, Range
  <2> QED BY <1>0, <2>1, <2>2
<1>5. Cached(n)'
  <2>1. Marks(cache[n], up[n], down[n], read[n], FALSE)
    BY <1>0 DEF Edge, Cached, ReadBy, Busy
  <2>2. \A i \in DOMAIN msgs : msgs[i].type = "WAITING" => ~FALSE /\ msgs[i].receipt = read[n]
    BY <1>0 DEF SpeaksUp, Says1
  <2>3. Marks(cache[n], up[n] \o msgs, down[n], read[n], FALSE)
    BY <1>0, <1>1, <2>1, <2>2, MarksSpeak
  <2>4. Marks(cache[n], up'[n], down'[n], read[n], FALSE)
    BY <1>0, <1>1, <1>2, <2>3, MarksSame
  <2>5. read'[n] = read[n]
    BY <1>0 DEF SpeaksUp
  <2> QED BY <1>0, <2>4, <2>5 DEF Cached, ReadBy, Busy
<1>6. Distinct(cache'[n]) /\ Weighed(cache'[n], down'[n]) /\ idle'[n] <= Size'[n]
  BY <1>0, <1>2 DEF Edge, Weighed
<1>7. Account(n)'
  <2>1. InHand(n)' = InHand(n)
    BY <1>0, <1>2 DEF InHand
  <2>2. OwedIn(up'[n]) = OwedIn(up[n]) + OwedIn(msgs) /\ OwedIn(up[n]) \in Int /\ OwedIn(msgs) \in Int
    <3>1. OwedIn(up[n] \o msgs) = OwedIn(up[n]) + OwedIn(msgs)
      BY <1>0, <1>1, OwedConcat
    <3>2. OwedIn(up[n]) \in Int /\ OwedIn(msgs) \in Int
      BY <1>0, <1>1, OwedConcat
    <3> QED BY <1>0, <1>1, <3>1, <3>2
  <2>3. IsFiniteSet(InHand(n)) /\ numTasks[n] + OwedIn(up[n]) = Cardinality(InHand(n)) + Within(n)
    BY <1>0 DEF Edge, Account
  <2>4. Cardinality(InHand(n)) \in Nat
    BY <1>0, <2>3, FS_CardinalityType
  <2>5. Within(n)' = Within(n) + OwedIn(msgs)
    BY <1>0 DEF SpeaksUp
  <2>6. numTasks[n] + (OwedIn(up[n]) + OwedIn(msgs)) = Cardinality(InHand(n)) + (Within(n) + OwedIn(msgs))
    <3> DEFINE a == OwedIn(up[n])
               b == OwedIn(msgs)
               c == Cardinality(InHand(n))
    <3>1. a \in Int /\ b \in Int /\ c \in Int /\ numTasks[n] + a = c + Within(n)
      BY <1>0, <2>2, <2>3, <2>4
    <3> HIDE DEF a, b, c
    <3>2. numTasks[n] \in Int /\ Within(n) \in Int
      BY <1>0
    <3>3. numTasks[n] + (a + b) = c + (Within(n) + b)
      BY <3>1, <3>2
    <3> QED BY <3>3 DEF a, b, c
  <2>7. IsFiniteSet(InHand(n)') /\ numTasks'[n] + OwedIn(up'[n]) = Cardinality(InHand(n)') + Within(n)'
    BY <1>0, <2>1, <2>2, <2>3, <2>5, <2>6
  <2> QED BY <1>0, <2>7 DEF Account
<1>8. IdleView(n)'
  BY <1>0 DEF SpeaksUp, IdleView
<1>9. Routed(n)'
  <2>1. \A m \in Range(down'[n]) : DownRoute(n, m)'
    BY <1>0, <1>2 DEF Edge, Routed, DownRoute
  <2>2. \A m \in Range(up'[n]) : UpRoute(n, m)'
    BY <1>0, <1>4 DEF Edge, Routed, UpRoute, Says1
  <2> QED BY <1>0, <2>1, <2>2 DEF Routed
<1>10. Edge(n)'
  BY <1>0, <1>5, <1>6, <1>7, <1>8, <1>9 DEF Edge
<1>11. Upward(n)
  BY <1>0, <1>2, <1>3, <1>4 DEF Upward, Says1
<1> QED BY <1>0, <1>2, <1>3, <1>10, <1>11

\* Having read a batch and dealt all its tasks, it is right with its boss.
LEMMA ReadsEdge ==
    ASSUME IInv, NEW n \in Present \ {Server}, BossFrame(n),
           down[n] # <<>>, Head(down[n]).type = "SUBMIT_BATCH", down'[n] = Tail(down[n]),
           up'[n] = up[n], read'[n] = Head(down[n]).tasks[1], last'[n] = last[n],
           announced'[n] = announced[n],
           Total(Mine(numTasks, n)') = Total(Mine(numTasks, n)) + Len(Head(down[n]).tasks),
           numIdle'[n] >= numIdle[n] - Len(Head(down[n]).tasks)
    PROVE  Edge(n)' /\ Upward(n)
<1>0. /\ system \in Systems /\ n \in Employed /\ n \in Nodes /\ n \notin Workers /\ n \notin Of(n)
      /\ numTasks'[n] = numTasks[n] /\ idle'[n] = idle[n] /\ cache'[n] = cache[n]
      /\ Team'[n] = Team[n] /\ Size'[n] = Size[n] /\ home' = home /\ finished' = finished
      /\ Edge(n) /\ numTasks[n] \in Int /\ idle[n] \in Nat /\ cache[n] \in Seq(Entries)
      /\ up[n] \in Seq(Messages) /\ down[n] \in Seq(Messages)
      /\ up'[n] \in Seq(Messages) /\ down'[n] \in Seq(Messages)
      /\ OnceEach(up[n]) /\ OnceEach(down[n])
      /\ Within(n) = Total(Mine(numTasks, n)) + announced[n]
      /\ Within(n)' = Total(Mine(numTasks, n)') + announced'[n]
      /\ Within(n) \in Int /\ Within(n)' \in Int
      /\ Total(Mine(numTasks, n)) \in Int /\ announced[n] \in Int
      /\ numIdle[n] \in Nat /\ last[n] \in Nat /\ numIdle'[n] \in Nat /\ last'[n] \in Nat
  BY OwnFrame
<1> DEFINE ts == Head(down[n]).tasks
<1>1. /\ Head(down[n]) \in Messages /\ ts \in Seq(Tasks) /\ ts # <<>> /\ NoRepeat(ts)
      /\ SentBy(Head(down[n])) = Range(ts) /\ Len(ts) \in Nat
      /\ Sent(down[n]) = Range(ts) \cup Sent(down'[n]) /\ Range(ts) \cap Sent(down'[n]) = {}
      /\ OnceEach(down'[n])
  <2>1. /\ Head(down[n]) \in Messages
        /\ Sent(down[n]) = SentBy(Head(down[n])) \cup Sent(Tail(down[n]))
        /\ OnceEach(Tail(down[n])) /\ SentBy(Head(down[n])) \cap Sent(Tail(down[n])) = {}
        /\ NoRepeat(ts)
    BY <1>0, SentTail
  <2>2. ts \in Seq(Tasks) /\ ts # <<>> /\ SentBy(Head(down[n])) = Range(ts)
    BY <1>0, <2>1, Fields DEF SentBy
  <2>3. Len(ts) \in Nat
    BY <2>2
  <2> QED BY <2>1, <2>2, <2>3
<1>2. Range(down'[n]) \subseteq Range(down[n]) /\ Head(down[n]) \in Range(down[n])
  <2>1. Range(Tail(down[n])) \subseteq Range(down[n])
    BY <1>0, RangeTail
  <2>2. Head(down[n]) = down[n][1] /\ 1 \in DOMAIN down[n]
    BY <1>0
  <2> QED BY <1>0, <2>1, <2>2 DEF Range
<1>3. Marks(cache[n], up[n], down[n], read[n], FALSE) /\ Distinct(cache[n])
  BY <1>0 DEF Edge, Cached, ReadBy, Busy
<1>4. Cached(n)'
  <2>1. Marks(cache[n], up[n], Tail(down[n]), ts[1], TRUE)
    BY <1>0, <1>3, MarksRead
  <2>2. Marks(cache[n], up[n], Tail(down[n]), ts[1], FALSE)
    BY <1>0, <2>1, MarksFree
  <2> QED BY <1>0, <2>2 DEF Cached, ReadBy, Busy
<1>5. Distinct(cache'[n]) /\ Weighed(cache'[n], down'[n]) /\ idle'[n] <= Size'[n]
  BY <1>0, <1>2 DEF Edge, Weighed
<1>6. Account(n)'
  <2> DEFINE A == Range(ts)
             B == Sent(down'[n])
  <2>1. InHand(n) = A \cup B /\ InHand(n)' = B
    BY <1>0, <1>1 DEF InHand
  <2>2. IsFiniteSet(InHand(n)) /\ numTasks[n] + OwedIn(up[n]) = Cardinality(InHand(n)) + Within(n)
    BY <1>0 DEF Edge, Account
  <2>3. IsFiniteSet(A) /\ IsFiniteSet(B) /\ Cardinality(A) = Len(ts) /\ A \cap B = {}
    <3>1. IsFiniteSet(A) /\ Cardinality(A) = Len(ts)
      BY <1>0, <1>1, RangeCardinality
    <3>2. B \subseteq InHand(n)
      BY <1>0, <2>1
    <3> QED BY <1>0, <1>1, <2>2, <3>1, <3>2, FS_Subset
  <2>4. Cardinality(A \cap B) = 0
    BY <1>0, <2>3, FS_EmptySet
  <2>5. Within(n)' = Within(n) + Len(ts)
    <3> DEFINE a == Total(Mine(numTasks, n))
               b == Total(Mine(numTasks, n)')
               c == announced[n]
    <3>1. /\ a \in Int /\ c \in Int /\ b = a + Len(ts) /\ announced'[n] = c
          /\ Within(n) = a + c /\ Within(n)' = b + announced'[n]
      BY <1>0
    <3> HIDE DEF a, b, c, ts
    <3> QED BY <1>0, <1>1, <3>1
  <2>6. OwedIn(up[n]) \in Int
    BY <1>0, OwedConcat
  <2> HIDE DEF A, B
  <2>7. Cardinality(A \cup B) = Cardinality(A) + Cardinality(B) - Cardinality(A \cap B)
    BY <1>0, <2>3, FS_Union
  <2>8. Cardinality(B) \in Nat /\ Len(ts) \in Nat
    BY <1>0, <1>1, <2>3, FS_CardinalityType
  <2>9. numTasks[n] + OwedIn(up[n]) = Cardinality(B) + Len(ts) + Within(n)
    BY <1>0, <2>1, <2>2, <2>3, <2>4, <2>7, <2>8
  <2>10. numTasks'[n] + OwedIn(up'[n]) = Cardinality(InHand(n)') + Within(n)'
    <3> DEFINE a == OwedIn(up[n])
               b == Cardinality(B)
               c == numTasks[n]
               d == Within(n)
    <3>1. /\ a \in Int /\ b \in Int /\ c \in Int /\ d \in Int /\ Len(ts) \in Int
          /\ c + a = b + Len(ts) + d
      BY <1>0, <2>6, <2>8, <2>9
    <3>2. /\ numTasks'[n] = c /\ up'[n] = up[n] /\ OwedIn(up'[n]) = a
          /\ Cardinality(InHand(n)') = b /\ Within(n)' = d + Len(ts)
      BY <1>0, <2>1, <2>5
    <3> HIDE DEF a, b, c, d, ts
    <3>3. c + a = b + (d + Len(ts))
      BY <3>1
    <3> QED BY <3>2, <3>3
  <2> QED BY <1>0, <2>1, <2>3, <2>10 DEF Account
<1>7. IdleView(n)'
  <2>1. View(cache[n], up[n], idle[n], read[n], numIdle[n], last[n])
    BY <1>0 DEF Edge, IdleView
  <2>2. \A y \in Range(cache[n]) : y[1] = ts[1] => y[2] = Len(ts)
    <3>1. Weighed(cache[n], down[n])
      BY <1>0 DEF Edge
    <3>2. \A y \in Range(cache[n]), m \in Range(down[n]) :
             m.type = "SUBMIT_BATCH" /\ y[1] = m.tasks[1] => y[2] = Len(m.tasks)
      BY <1>0, <3>1 DEF Weighed
    <3> QED BY <1>0, <1>2, <3>2
  <2>4. numIdle'[n] \in Int /\ numIdle[n] \in Int /\ last[n] \in Int /\ idle[n] \in Nat
    BY <1>0, SMTT(30)
  <2>3. View(cache[n], up[n], idle[n], ts[1], numIdle'[n], last[n])
    BY <1>0, <1>3, <2>1, <2>2, <2>4, ViewRead
  <2> QED BY <1>0, <2>3 DEF IdleView
<1>8. Routed(n)'
  BY <1>0, <1>2 DEF Edge, Routed, DownRoute, UpRoute
<1>9. Edge(n)'
  BY <1>0, <1>4, <1>5, <1>6, <1>7, <1>8 DEF Edge
<1>10. Upward(n)
  BY <1>0, <1>1, <1>2 DEF Upward
<1> QED BY <1>0, <1>9, <1>10

----------------------------------------------------------------------------
(* Messages that are handled.                                              *)

\* A node takes a message of an employee.
LEMMA Hears ==
    ASSUME IInv, NEW e \in Employed, NEW n, n = Boss(e), up[e] # <<>>
    PROVE  LET m == Head(up[e]) IN
           /\ n \in Present /\ e \in Of(n) /\ e \in Nodes /\ e # n
           /\ n # Server => n \in Managers /\ n \in Nodes /\ n \in Employed /\ n \in Present \ {Server}
           /\ n \in Managers => n # Server
           /\ up[e] \in Seq(Messages) /\ m \in Messages /\ Tail(up[e]) \in Seq(Messages)
           /\ UpRoute(e, m)
           /\ Sent(up[e]) = SentBy(m) \cup Sent(Tail(up[e])) /\ SentBy(m) \cap Sent(Tail(up[e])) = {}
           /\ m.type = "SUBMIT_BATCH" =>
                 m.tasks \in Seq(Tasks) /\ m.tasks # <<>> /\ NoRepeat(m.tasks) /\ SentBy(m) = Range(m.tasks)
           /\ m.type = "RESULT" => m.task \in finished /\ m.task \in Tasks
           /\ OwedIn(up[e]) = Owes(m) + OwedIn(Tail(up[e]))
           /\ OwedIn(up[e]) \in Int /\ Owes(m) \in Int /\ OwedIn(Tail(up[e])) \in Int
<1> DEFINE m == Head(up[e])
<1>1. /\ n \in Present /\ e \in Of(n) /\ e \in Nodes /\ e # n
      /\ n # Server => n \in Managers /\ n \in Nodes /\ n \in Employed /\ n \in Present \ {Server}
      /\ n \in Managers => n # Server
  BY NodeKinds, TreeType, NodesAssumption DEF IInv, Nodes
<1>2. up[e] \in Seq(Messages) /\ OnceEach(up[e]) /\ Edge(e) /\ Results(Nodes)
  BY <1>1 DEF IInv, CrewInv, CrewType, Placed, Once
<1>3. /\ m \in Messages /\ Tail(up[e]) \in Seq(Messages)
      /\ Sent(up[e]) = SentBy(m) \cup Sent(Tail(up[e])) /\ SentBy(m) \cap Sent(Tail(up[e])) = {}
      /\ m.type = "SUBMIT_BATCH" => NoRepeat(m.tasks)
  BY <1>2, SentTail
<1>4. m \in Range(up[e])
  BY <1>2 DEF Range
<1>5. UpRoute(e, m) /\ (m.type = "RESULT" => m.task \in finished)
  BY <1>1, <1>2, <1>4 DEF Edge, Routed, Results
<1>6. /\ m.type = "SUBMIT_BATCH" => m.tasks \in Seq(Tasks) /\ m.tasks # <<>> /\ SentBy(m) = Range(m.tasks)
      /\ m.type = "RESULT" => m.task \in Tasks
  BY <1>3, Fields DEF SentBy
<1>7. /\ OwedIn(up[e]) = Owes(m) + OwedIn(Tail(up[e]))
      /\ OwedIn(up[e]) \in Int /\ Owes(m) \in Int /\ OwedIn(Tail(up[e])) \in Int
  BY <1>2, <1>3, OwedTail, OwedConcat, OwedType
<1> HIDE DEF m
<1> QED BY <1>1, <1>2, <1>3, <1>5, <1>6, <1>7 DEF m

\* A result is counted with the employee that sent it.
LEMMA CompletedBy ==
    ASSUME IInv, NEW n \in Present, NEW e \in Of(n), NEW result,
           result.completed_by \in Team[e] \cap Workers, CountCompleted(n, result)
    PROVE  numTasks' = [x \in Employed |-> IF x = e THEN numTasks[x] - 1 ELSE numTasks[x]]
<1> DEFINE by == result.completed_by
<1>1. /\ system \in Systems /\ Connected /\ n \in Bosses /\ e \in Employed /\ n \notin Workers
      /\ Boss(e) = n
  BY NodeKinds, TreeType DEF IInv
<1>2. by \in Team[n] /\ by \in Employed
  BY <1>1, TeamOfBoss
<1>3. is_my_worker(n, by) /\ Responsible(n, by) \in Of(n) /\ by \in Team[Responsible(n, by)]
  BY <1>1, <1>2, RoutesRight
<1>4. Responsible(n, by) = e
  BY <1>1, <1>3, TeamsApart
<1> QED BY <1>3, <1>4 DEF CountCompleted

\* A result that has a home below n is sent there.
LEMMA SentDown ==
    ASSUME IInv, NEW n \in Present, NEW result, home[result.task] \in Team[n] \cap Workers,
           home[result.task] \in Employed, NEW q, SendResultDown(n, result, q)
    PROVE  /\ \E x \in Of(n) : /\ down' = [q EXCEPT ![x] = Append(q[x], result)]
                               /\ home[result.task] \in Team[x] \cap Workers
           /\ error' = error
<1> DEFINE dest == home[result.task]
           x == Responsible(n, dest)
<1>1. system \in Systems /\ Connected
  BY DEF IInv
<1>2. is_my_worker(n, dest) /\ x \in Of(n) /\ dest \in Team[x]
  BY <1>1, RoutesRight
<1>3. down' = [q EXCEPT ![x] = Append(q[x], result)] /\ error' = error
  BY <1>2 DEF SendResultDown
<1> QED BY <1>2, <1>3

\* The total after one count has changed.
LEMMA OneCount ==
    ASSUME IInv, UNCHANGED system, NEW n \in Present, NEW e \in Of(n), NEW k \in Int,
           numTasks' \in [Employed -> Int], numTasks'[e] = numTasks[e] + k,
           \A x \in Of(n) \ {e} : numTasks'[x] = numTasks[x]
    PROVE  /\ Total(Mine(numTasks, n)) \in Int
           /\ Total(Mine(numTasks, n)') = Total(Mine(numTasks, n)) + k
<1> DEFINE f == Mine(numTasks, n)
           g == Mine(numTasks, n)'
<1>1. /\ system \in Systems /\ BossType /\ Of(n) \subseteq Employed /\ IsFiniteSet(Of(n)) /\ Of(n)' = Of(n)
      /\ f \in [Of(n) -> Int] /\ Total(f) \in Int
  BY NodeKinds, MineTotal, TreeSame DEF IInv
<1>2. g \in [Of(n) -> Int]
  BY <1>1 DEF Mine
<1>3. (\A x \in Of(n) \ {e} : f[x] = g[x]) /\ g[e] = f[e] + k /\ f[e] \in Int
  BY <1>1 DEF Mine
<1> HIDE DEF f, g
<1>4. Total(g) = Total(f) - f[e] + g[e]
  BY <1>1, <1>2, <1>3, TotalChange
<1>5. Total(g) = Total(f) + k
  BY <1>1, <1>3, <1>4
<1> QED BY <1>1, <1>5 DEF f, g

\* Nothing is dealt.
NoShare(n) == [x \in Of(n) |-> <<>>]

\* To deal nothing is a way to deal.
LEMMA NothingDealt ==
    /\ \A n : Dealt(<<>>, NoShare(n), Of(n)) /\ Loose(n, Range(<<>>))
    /\ Range(<<>>) = {} /\ <<>> \in Seq(Tasks)
<1>1. Range(<<>>) = {} /\ NoRepeat(<<>>) /\ <<>> \in Seq(Tasks)
  BY RangeType
<1> QED BY <1>1 DEF Dealt, NoShare, Loose

\* An employee in a step that deals nothing.
Waits(x) ==
    /\ Listened(x) /\ Sent(up'[x]) = Sent(up[x])
    /\ \/ down'[x] = down[x]
       \/ \E m \in Messages : /\ m.type = "RESULT" /\ down'[x] = Append(down[x], m)
                              /\ m.task \in finished /\ home[m.task] \in Team[x] \cap Workers
    /\ cache'[x] = cache[x] /\ idle'[x] = idle[x]
    /\ numTasks'[x] + OwedIn(up'[x]) = numTasks[x] + OwedIn(up[x])

\* A step that deals nothing is a move that deals no task.
LEMMA QuietMove ==
    ASSUME IInv, NEW n \in Present, BossFrame(n), \A x \in Of(n) : Waits(x),
           numIdle'[n] = numIdle[n], error' = "none"
    PROVE  Move(n, <<>>, NoShare(n)) /\ \A x \in Of(n) : Sent(down'[x]) = Sent(down[x])
<1>1. /\ system \in Systems /\ Of(n) \subseteq Employed /\ Of(n)' = Of(n) /\ BossType
      /\ \A x \in Of(n) : x \in Nodes
  BY NodeKinds, TreeSame DEF IInv, BossFrame
<1>2. ASSUME NEW x \in Of(n) PROVE Served(x, <<>>) /\ NoShare(n)[x] = <<>>
  <2>1. NoShare(n)[x] = <<>> /\ Len(<<>>) = 0
    BY DEF NoShare
  <2>2. idle[x] \in Nat /\ numTasks[x] \in Int /\ up[x] \in Seq(Messages)
    BY <1>1 DEF BossType, IInv, CrewInv, CrewType
  <2>3. OwedIn(up[x]) \in Int
    BY <2>2, OwedConcat
  <2>4. idle'[x] = Capped(idle[x] - 0, 0, idle[x])
    BY <2>2 DEF Waits, Capped
  <2>5. numTasks'[x] + OwedIn(up'[x]) = numTasks[x] + OwedIn(up[x]) + 0
    BY <2>2, <2>3 DEF Waits
  <2>6. \/ down'[x] = Given(down[x], <<>>)
        \/ \E m \in Messages : /\ m.type = "RESULT" /\ down'[x] = Append(down[x], m)
                               /\ m.task \in finished /\ home[m.task] \in Team[x] \cap Workers
    BY DEF Waits, Given
  <2>7. Listened(x) /\ cache'[x] = cache[x]
    BY DEF Waits
  <2> QED BY <2>1, <2>4, <2>5, <2>6, <2>7 DEF Served
<1>3. Mine(idle, n)' = Mine(idle, n)
  BY <1>1 DEF Mine, Waits
<1>4. numIdle'[n] = Total(Mine(idle, n)')
  BY <1>3 DEF IInv, IdleSums
<1>5. Move(n, <<>>, NoShare(n))
  BY <1>2, <1>4, NothingDealt DEF Move
<1>6. \A x \in Of(n) : Sent(down'[x]) = Sent(down[x])
  <2>1. \A x \in Of(n) : Sent(down'[x]) = Sent(down[x]) \cup Range(NoShare(n)[x])
    BY <1>5, MoveServes
  <2> QED BY <1>2, <2>1, NothingDealt
<1> QED BY <1>5, <1>6

\* The whole invariant through a step that deals nothing.
LEMMA QuietKeeps ==
    ASSUME IInv, NEW n \in Present, BossFrame(n), \A x \in Of(n) : Waits(x),
           numIdle'[n] = numIdle[n], error' = "none",
           NEW msgs, n # Server => SpeaksUp(n, msgs) /\ Sent(msgs) = {},
           submitted' = submitted, done' \subseteq Roots \cap finished, Arrives'
    PROVE  IInv' /\ Born' = Born
<1>0. /\ system \in Systems /\ UNCHANGED <<worker, tree>> /\ n \notin Of(n)
      /\ Apart(Layout(Nodes))
  BY NodeKinds DEF IInv, BossFrame, CrewInv, Placed
<1>1. Move(n, <<>>, NoShare(n)) /\ \A x \in Of(n) : Sent(down'[x]) = Sent(down[x])
  BY QuietMove
<1>2. n # Server => /\ Edge(n)' /\ Upward(n)
                    /\ Sent(down'[n]) = Sent(down[n]) /\ Sent(up'[n]) = Sent(up[n])
  <2> SUFFICES ASSUME n # Server
               PROVE  /\ Edge(n)' /\ Upward(n)
                      /\ Sent(down'[n]) = Sent(down[n]) /\ Sent(up'[n]) = Sent(up[n])
    OBVIOUS
  <2>1. n \in Present \ {Server}
    OBVIOUS
  <2> QED BY <2>1, SpeaksEdge
<1>3. ASSUME NEW e \in Nodes PROVE Sent(down'[e]) = Sent(down[e]) /\ Sent(up'[e]) = Sent(up[e])
  <2>1. CASE e \in Of(n)
    BY <1>1, <2>1 DEF Waits
  <2>2. CASE e = n
    <3>1. n # Server
      BY <1>0, <2>2, TreeType
    <3> QED BY <1>2, <2>2, <3>1
  <2>3. CASE e \notin Of(n) /\ e # n
    BY <2>3 DEF BossFrame
  <2> QED BY <2>1, <2>2, <2>3
<1>4. /\ Apart(Layout(Nodes))' /\ {} \in SUBSET Roots
      /\ Everywhere(Layout(Nodes))' = Everywhere(Layout(Nodes)) \cup {}
  BY <1>0, <1>3, StillPlaced
<1>5. \A y \in Nodes : \A t \in Sent(up'[y]) : \E z \in Nodes : t \in Sent(up[z])
  BY <1>3
<1>6. submitted' = submitted \cup {}
  OBVIOUS
<1>7. IInv' /\ Born' = Born \cup {}
  BY <1>1, <1>2, <1>4, <1>5, <1>6, MoveKeeps
<1> QED BY <1>7

\* A manager that says msgs, no idle count among them, and learns nothing of
\* its boss's.
LEMMA SaysQuiet ==
    ASSUME IInv, NEW n \in Present \ {Server}, BossFrame(n),
           numIdle'[n] = numIdle[n], last'[n] = last[n], read'[n] = read[n], announced'[n] = announced[n],
           NEW msgs \in Seq(Messages), up'[n] = up[n] \o msgs,
           \/ down'[n] = down[n]
           \/ down[n] # <<>> /\ Head(down[n]).type # "SUBMIT_BATCH" /\ down'[n] = Tail(down[n]),
           \A i \in DOMAIN msgs :
              /\ msgs[i].type # "WAITING"
              /\ msgs[i].type = "RESULT" => /\ msgs[i].completed_by \in Team[n] \cap Workers
                                            /\ msgs[i].task \in finished,
           Total(Mine(numTasks, n)') = Total(Mine(numTasks, n)) + OwedIn(msgs),
           OnceEach(msgs), Sent(up[n]) \cap Sent(msgs) = {}
    PROVE  SpeaksUp(n, msgs)
<1>1. /\ up[n] \in Seq(Messages) /\ Edge(n) /\ n \notin Workers
      /\ Total(Mine(numTasks, n)) \in Int /\ announced[n] \in Int
  BY OwnFrame
<1>2. View(cache[n], up'[n], idle[n], read[n], numIdle'[n], last'[n])
  <2>1. View(cache[n], up[n], idle[n], read[n], numIdle[n], last[n])
    BY <1>1 DEF Edge, IdleView
  <2>2. Reports(msgs) = {}
    BY DEF Reports
  <2>3. View(cache[n], up[n] \o msgs, idle[n], read[n], numIdle[n], last[n])
    BY <1>1, <2>1, <2>2, ViewQuiet
  <2> QED BY <2>3
<1>3. \A i \in DOMAIN msgs : Says1(n, msgs[i])
  BY DEF Says1
<1>4. Total(Mine(numTasks, n)') + announced'[n]
         = Total(Mine(numTasks, n)) + announced[n] + OwedIn(msgs)
  <2> DEFINE a == Total(Mine(numTasks, n))
             b == Total(Mine(numTasks, n)')
             c == OwedIn(msgs)
             d == announced[n]
  <2>1. a \in Int /\ c \in Int /\ d \in Int /\ b = a + c /\ announced'[n] = d
    BY <1>1, OwedConcat
  <2> HIDE DEF a, b, c, d
  <2>2. b + announced'[n] = a + d + c
    BY <2>1
  <2> QED BY <2>2 DEF a, b, c, d
<1> QED BY <1>2, <1>3, <1>4 DEF SpeaksUp

----------------------------------------------------------------------------
(* Steps that deal nothing.                                                *)

\* A result that is taken from a queue is passed on, or has come to the client.
Passed(t) == t \in Roots \cap done' \/ Underway(t)'

\* The first message of q is passed on, if it is a result.
PassesOn(q) == \A m \in Messages : m = Head(q) /\ m.type = "RESULT" => Passed(m.task)

\* A step of a boss that drops no message but those it passes on loses no result.
LEMMA MoveArrives ==
    ASSUME IInv, NEW n \in Present, BossFrame(n), done \subseteq done',
           \A x \in Of(n) : Range(down[x]) \subseteq Range(down'[x]),
           \A x \in Of(n) : \/ up'[x] = up[x]
                            \/ /\ up[x] # <<>> /\ up'[x] = Tail(up[x])
                               /\ PassesOn(up[x]),
           n # Server => Range(up[n]) \subseteq Range(up'[n]),
           n # Server => \/ down'[n] = down[n]
                         \/ /\ down[n] # <<>> /\ down'[n] = Tail(down[n])
                            /\ PassesOn(down[n])
    PROVE  Arrives'
<1>0. system \in Systems /\ UNCHANGED tree /\ n \notin Of(n) /\ Of(n) \subseteq Nodes
  BY NodeKinds, TreeType DEF IInv, BossFrame
<1>1. ASSUME NEW t, NEW e \in Nodes, NEW m \in Range(up[e]) \cup Range(down[e]),
             m.type = "RESULT", m.task = t
      PROVE  m \in Range(up'[e]) \cup Range(down'[e]) \/ Passed(t)
  <2>0. up[e] \in Seq(Messages) /\ down[e] \in Seq(Messages)
    BY DEF IInv, CrewInv, CrewType
  <2>1. \A q \in Seq(Messages) : q # <<>> => Range(q) = Range(Tail(q)) \cup {Head(q)}
    BY RangeTail
  <2>5. \A q : m = Head(q) /\ PassesOn(q) => Passed(t)
    <3>1. m \in Messages
      BY <2>0, RangeType
    <3> QED BY <3>1, <1>1 DEF PassesOn
  <2>2. CASE e \in Of(n)
    <3>1. Range(down[e]) \subseteq Range(down'[e])
      BY <2>2
    <3>2. CASE up'[e] = up[e]
      BY <1>1, <3>1, <3>2
    <3>3. CASE up[e] # <<>> /\ up'[e] = Tail(up[e])
      <4>1. Range(up[e]) = Range(up'[e]) \cup {Head(up[e])}
        BY <2>0, <2>1, <3>3
      <4>2. up'[e] = up[e] \/ PassesOn(up[e])
        BY <2>2
      <4> QED BY <1>1, <2>5, <3>1, <4>1, <4>2
    <3> QED BY <2>2, <3>2, <3>3
  <2>3. CASE e = n
    <3>1. n # Server
      BY <1>0, <2>3, TreeType
    <3>2. Range(up[e]) \subseteq Range(up'[e])
      BY <2>3, <3>1
    <3>3. CASE down'[e] = down[e]
      BY <1>1, <3>2, <3>3
    <3>4. CASE down[e] # <<>> /\ down'[e] = Tail(down[e])
      <4>1. Range(down[e]) = Range(down'[e]) \cup {Head(down[e])}
        BY <2>0, <2>1, <3>4
      <4>2. down'[e] = down[e] \/ PassesOn(down[e])
        BY <2>3, <3>1
      <4> QED BY <1>1, <2>5, <3>2, <4>1, <4>2
    <3> QED BY <2>3, <3>1, <3>3, <3>4
  <2>4. CASE e \notin Of(n) /\ e # n
    BY <1>1, <2>4 DEF BossFrame
  <2> QED BY <2>2, <2>3, <2>4
<1>2. ASSUME NEW t \in finished, Underway(t) PROVE Passed(t)
  <2>1. PICK e \in Nodes : \E m \in Range(up[e]) \cup Range(down[e]) : m.type = "RESULT" /\ m.task = t
    BY <1>2 DEF Underway
  <2>2. PICK m \in Range(up[e]) \cup Range(down[e]) : m.type = "RESULT" /\ m.task = t
    BY <2>1
  <2>3. m \in Range(up'[e]) \cup Range(down'[e]) => Underway(t)'
    BY <2>2 DEF Underway
  <2>4. Underway(t)' => Passed(t)
    BY DEF Passed
  <2> QED BY <1>1, <2>2, <2>3, <2>4
<1>3. \A t \in finished : Underway(t) => Underway(t)' \/ t \in Roots \cap done'
  BY <1>2 DEF Passed
<1> QED BY <1>0, <1>3, ArrivesKept

\* Who does not take part waits.
LEMMA StandsStill ==
    ASSUME IInv, NEW n \in Present, NEW x \in Of(n), up'[x] = up[x], cache'[x] = cache[x],
           idle'[x] = idle[x], numTasks'[x] = numTasks[x],
           \/ down'[x] = down[x]
           \/ \E m \in Messages : /\ m.type = "RESULT" /\ down'[x] = Append(down[x], m)
                                  /\ m.task \in finished /\ home[m.task] \in Team[x] \cap Workers
    PROVE  Waits(x)
BY DEF Waits, Listened

\* Nor does one whose message, neither a batch nor an idle count, is counted.
LEMMA IsCounted ==
    ASSUME IInv, NEW e \in Employed, up[e] # <<>>, up'[e] = Tail(up[e]),
           Head(up[e]).type \notin {"WAITING", "SUBMIT_BATCH"},
           cache'[e] = cache[e], idle'[e] = idle[e], numTasks'[e] = numTasks[e] + Owes(Head(up[e])),
           \/ down'[e] = down[e]
           \/ \E m \in Messages : /\ m.type = "RESULT" /\ down'[e] = Append(down[e], m)
                                  /\ m.task \in finished /\ home[m.task] \in Team[e] \cap Workers
    PROVE  Waits(e)
<1>1. /\ Sent(up[e]) = SentBy(Head(up[e])) \cup Sent(Tail(up[e]))
      /\ OwedIn(up[e]) = Owes(Head(up[e])) + OwedIn(Tail(up[e]))
      /\ OwedIn(up[e]) \in Int /\ Owes(Head(up[e])) \in Int /\ OwedIn(Tail(up[e])) \in Int
  BY Hears
<1>2. SentBy(Head(up[e])) = {}
  BY DEF SentBy
<1>3. numTasks[e] \in Int
  BY DEF IInv, BossType
<1>4. numTasks'[e] + OwedIn(up'[e]) = numTasks[e] + OwedIn(up[e])
  BY <1>1, <1>3
<1> QED BY <1>1, <1>2, <1>4 DEF Waits, Listened

\* The change of the task count an UPDATE brings.
LEMMA ServerUpdateKeeps ==
    ASSUME IInv, NEW e \in Employed, ServerUpdate(e)
    PROVE  IInv' /\ Born' = Born
<1> DEFINE n == Server
           m == Head(up[e])
<1>1. /\ error = "none" /\ up[e] # <<>> /\ m.type = "UPDATE" /\ Boss(e) = n
      /\ up' = [up EXCEPT ![e] = Tail(up[e])]
      /\ numTasks' = [numTasks EXCEPT ![e] = numTasks[e] + m.n]
      /\ UNCHANGED <<system, idle, cache, numIdle, last, read, error, submitted, done, announced,
                     down, worker, tree>>
  BY DEF ServerUpdate, FromBelow, Taken
<1>2. /\ n \in Present /\ e \in Of(n) /\ e \in Nodes /\ m \in Messages /\ Tail(up[e]) \in Seq(Messages)
      /\ up \in [Nodes -> Seq(Messages)] /\ down \in [Nodes -> Seq(Messages)] /\ BossType
      /\ system \in Systems /\ Of(n) \subseteq Employed /\ Of(n) \subseteq Nodes
      /\ error = "none" /\ submitted \subseteq Roots /\ done \subseteq Roots \cap finished
  BY <1>1, Hears, NodeKinds, TreeType DEF IInv, CrewInv, CrewType, Clients
<1>3. m.n \in Int /\ Owes(m) = m.n
  BY <1>1, <1>2, Fields DEF Owes
<1>4. BossFrame(n)
  <2>1. Employed' = Employed /\ Present' = Present
    BY <1>1, TreeSame
  <2>2. BossType'
    BY <1>1, <1>2, <1>3, <2>1 DEF BossType
  <2>3. up' \in [Nodes -> Seq(Messages)]
    BY <1>1, <1>2
  <2> QED BY <1>1, <1>2, <2>2, <2>3 DEF BossFrame
<1>5. ASSUME NEW x \in Of(n) PROVE Waits(x)
  <2>1. CASE x = e
    <3>1. numTasks'[e] = numTasks[e] + Owes(m) /\ up'[e] = Tail(up[e])
      BY <1>1, <1>2, <1>3 DEF BossType
    <3> QED BY <1>1, <2>1, <3>1, IsCounted
  <2>2. CASE x # e
    <3>1. numTasks'[x] = numTasks[x] /\ up'[x] = up[x]
      BY <1>1, <1>2, <2>2 DEF BossType
    <3> QED BY <1>1, <1>2, <3>1, StandsStill
  <2> QED BY <2>1, <2>2
<1>6. Arrives'
  <2>1. \A x \in Of(n) : \/ up'[x] = up[x]
                         \/ /\ up[x] # <<>> /\ up'[x] = Tail(up[x])
                            /\ PassesOn(up[x])
    BY <1>1, <1>2 DEF PassesOn
  <2>2. \A x \in Of(n) : Range(down[x]) \subseteq Range(down'[x])
    BY <1>1
  <2> QED BY <1>1, <1>2, <1>4, <2>1, <2>2, MoveArrives
<1> QED BY <1>1, <1>2, <1>4, <1>5, <1>6, QuietKeeps

\* A task that is over and has no home is a client's.
LEMMA HomelessRoot ==
    ASSUME IInv, NEW t \in finished, home[t] = None
    PROVE  t \in Roots
<1>0. CrewInv(Nodes) /\ t \in Tasks
  BY DEF IInv, CrewInv, CrewType
<1> SUFFICES ASSUME t \notin Roots PROVE FALSE
  OBVIOUS
<1>1. Parent(t) \in Tasks /\ t \in Kids(Parent(t))
  BY <1>0, KidsType
<1>2. Parent(t) \notin mapped
  BY <1>0, <1>1 DEF CrewInv, Homes
<1>3. Kids(Parent(t)) \cap Everywhere(Layout(Nodes)) = {}
  BY <1>0, <1>1, <1>2 DEF CrewInv, Tree
<1>4. t \in Everywhere(Layout(Nodes))
  <2>1. /\ <<"over", None>> \in Spots(Nodes) /\ Layout(Nodes)[<<"over", None>>] = finished
        /\ DOMAIN Layout(Nodes) = Spots(Nodes)
    BY LayoutType, LiesAt
  <2> QED BY <2>1 DEF Everywhere
<1> QED BY <1>1, <1>3, <1>4

\* A task that has a home has it with a worker of the hierarchy.
LEMMA HomeIn ==
    ASSUME IInv, NEW t \in Tasks, home[t] # None
    PROVE  home[t] \in Workers /\ home[t] \in Employed
BY DEF IInv, Homed

\* The result that comes to a server goes down to its home, or to the client.
LEMMA ServerResultKeeps ==
    ASSUME IInv, NEW e \in Employed, ServerResult(e)
    PROVE  /\ IInv' /\ Born' = Born
           /\ done' = done \/ \E t \in Roots \cap finished : done' = done \cup {t}
<1> DEFINE n == Server
           m == Head(up[e])
<1>1. /\ error = "none" /\ up[e] # <<>> /\ m.type = "RESULT" /\ Boss(e) = n
      /\ up' = [up EXCEPT ![e] = Tail(up[e])]
      /\ CountCompleted(n, m)
      /\ IF home[m.task] = None
         THEN done' = done \cup {m.task} /\ UNCHANGED <<down, error>>
         ELSE SendResultDown(n, m, down) /\ UNCHANGED done
      /\ UNCHANGED <<system, idle, cache, numIdle, last, read, submitted, announced, worker, tree>>
  BY DEF ServerResult, FromBelow, Taken
<1>2. /\ n \in Present /\ e \in Of(n) /\ e \in Nodes /\ m \in Messages /\ Tail(up[e]) \in Seq(Messages)
      /\ up \in [Nodes -> Seq(Messages)] /\ down \in [Nodes -> Seq(Messages)] /\ BossType
      /\ system \in Systems /\ Of(n) \subseteq Employed /\ Of(n) \subseteq Nodes
      /\ error = "none" /\ submitted \subseteq Roots /\ done \subseteq Roots \cap finished
      /\ UpRoute(e, m) /\ m.task \in finished /\ m.task \in Tasks
  BY <1>1, Hears, NodeKinds, TreeType DEF IInv, CrewInv, CrewType, Clients
<1>3. numTasks' = [x \in Employed |-> IF x = e THEN numTasks[x] - 1 ELSE numTasks[x]] /\ Owes(m) = -1
  <2>1. m.completed_by \in Team[e] \cap Workers
    BY <1>1, <1>2 DEF UpRoute
  <2> QED BY <1>1, <1>2, <2>1, CompletedBy DEF Owes
<1>4. \/ down' = down /\ done' = done \cup {m.task} /\ m.task \in Roots
      \/ /\ done' = done
         /\ \E y \in Of(n) : /\ down' = [down EXCEPT ![y] = Append(down[y], m)]
                             /\ home[m.task] \in Team[y] \cap Workers
  <2>1. CASE home[m.task] = None
    BY <1>1, <1>2, <2>1, HomelessRoot
  <2>2. CASE home[m.task] # None
    <3>1. home[m.task] \in Workers /\ home[m.task] \in Employed
      BY <1>2, <2>2, HomeIn
    <3>2. home[m.task] \in Team[n]
      BY <1>2, <3>1, TeamServer
    <3> QED BY <1>1, <1>2, <2>2, <3>1, <3>2, SentDown
  <2> QED BY <2>1, <2>2
<1>5. error' = error
  <2>1. CASE home[m.task] = None
    BY <1>1, <2>1
  <2>2. CASE home[m.task] # None
    <3>1. home[m.task] \in Workers /\ home[m.task] \in Employed
      BY <1>2, <2>2, HomeIn
    <3>2. home[m.task] \in Team[n]
      BY <1>2, <3>1, TeamServer
    <3> QED BY <1>1, <1>2, <2>2, <3>1, <3>2, SentDown
  <2> QED BY <2>1, <2>2
<1>6. /\ down' \in [Nodes -> Seq(Messages)]
      /\ \A x \in Nodes : \/ down'[x] = down[x]
                          \/ /\ x \in Of(n) /\ down'[x] = Append(down[x], m)
                             /\ home[m.task] \in Team[x] \cap Workers
  <2>1. CASE down' = down
    BY <1>2, <2>1
  <2>2. CASE \E y \in Of(n) : /\ down' = [down EXCEPT ![y] = Append(down[y], m)]
                              /\ home[m.task] \in Team[y] \cap Workers
    <3>1. PICK y \in Of(n) : /\ down' = [down EXCEPT ![y] = Append(down[y], m)]
                             /\ home[m.task] \in Team[y] \cap Workers
      BY <2>2
    <3>2. y \in Nodes /\ down[y] \in Seq(Messages) /\ Append(down[y], m) \in Seq(Messages)
      BY <1>2
    <3>3. down' \in [Nodes -> Seq(Messages)]
      BY <1>2, <3>1, <3>2
    <3>4. \A x \in Nodes : down'[x] = IF x = y THEN Append(down[y], m) ELSE down[x]
      BY <1>2, <3>1
    <3> QED BY <3>1, <3>3, <3>4
  <2> QED BY <1>4, <2>1, <2>2
<1>7. BossFrame(n)
  <2>1. Employed' = Employed /\ Present' = Present
    BY <1>1, TreeSame
  <2>2. BossType'
    BY <1>1, <1>2, <1>3, <2>1, SMTT(30) DEF BossType
  <2>3. up' \in [Nodes -> Seq(Messages)]
    BY <1>1, <1>2
  <2>4. \A x \in Nodes \ (Of(n) \cup {n}) : down'[x] = down[x] /\ up'[x] = up[x]
    BY <1>1, <1>2, <1>6
  <2>5. \A x \in Employed \ Of(n) : numTasks'[x] = numTasks[x]
    BY <1>2, <1>3
  <2> QED BY <1>1, <1>2, <1>6, <2>2, <2>3, <2>4, <2>5 DEF BossFrame
<1>8. ASSUME NEW x \in Of(n) PROVE Waits(x)
  <2>0. \/ down'[x] = down[x]
        \/ \E l \in Messages : /\ l.type = "RESULT" /\ down'[x] = Append(down[x], l)
                               /\ l.task \in finished /\ home[l.task] \in Team[x] \cap Workers
    BY <1>1, <1>2, <1>6
  <2>1. CASE x = e
    <3>1. numTasks'[e] = numTasks[e] + Owes(m) /\ up'[e] = Tail(up[e])
      BY <1>1, <1>2, <1>3 DEF BossType
    <3> QED BY <1>1, <2>0, <2>1, <3>1, IsCounted
  <2>2. CASE x # e
    <3>1. numTasks'[x] = numTasks[x] /\ up'[x] = up[x]
      BY <1>1, <1>2, <1>3, <2>2
    <3> QED BY <1>1, <1>2, <2>0, <3>1, StandsStill
  <2> QED BY <2>1, <2>2
<1>9. \A t : t = m.task => Passed(t)
  <2> SUFFICES ASSUME NEW t, t = m.task PROVE Passed(t)
    OBVIOUS
  <2>1. CASE done' = done \cup {m.task} /\ m.task \in Roots
    BY <1>2, <2>1 DEF Passed
  <2>2. CASE \E y \in Of(n) : down' = [down EXCEPT ![y] = Append(down[y], m)]
    <3>1. PICK y \in Of(n) : down' = [down EXCEPT ![y] = Append(down[y], m)]
      BY <2>2
    <3>2. down'[y] = Append(down[y], m) /\ down[y] \in Seq(Messages) /\ y \in Nodes
      BY <1>2, <3>1
    <3>3. PICK l : l = m
      OBVIOUS
    <3>4. l \in Range(down'[y]) /\ l.type = "RESULT" /\ l.task = t
      BY <1>1, <1>2, <3>2, <3>3, RangeAppend
    <3>5. Underway(t)'
      BY <3>2, <3>4 DEF Underway
    <3> QED BY <3>5 DEF Passed
  <2> QED BY <1>4, <2>1, <2>2
<1>10. Arrives'
  <2>1. \A x \in Of(n) : \/ up'[x] = up[x]
                         \/ /\ up[x] # <<>> /\ up'[x] = Tail(up[x])
                            /\ PassesOn(up[x])
    BY <1>1, <1>2, <1>9 DEF PassesOn
  <2>2. ASSUME NEW x \in Of(n) PROVE Range(down[x]) \subseteq Range(down'[x])
    <3>1. x \in Nodes /\ down[x] \in Seq(Messages)
      BY <1>2
    <3>2. Range(Append(down[x], m)) = Range(down[x]) \cup {m}
      BY <1>2, <3>1, RangeAppend
    <3> QED BY <1>6, <3>1, <3>2
  <2>3. done \subseteq done'
    BY <1>4
  <2> QED BY <1>2, <1>7, <2>1, <2>2, <2>3, MoveArrives
<1>11. done' \subseteq Roots \cap finished
  BY <1>2, <1>4
<1>12. IInv' /\ Born' = Born
  BY <1>1, <1>2, <1>5, <1>7, <1>8, <1>10, <1>11, QuietKeeps
<1> QED BY <1>2, <1>4, <1>12

----------------------------------------------------------------------------
(* A manager that handles a message from below, neither batch nor report.  *)

\* A result that goes down to an employee of n, on its way home.
GoesDown(n, x, q) ==
    \E l \in Messages : /\ l.type = "RESULT" /\ down'[x] = Append(q[x], l)
                        /\ l.task \in finished /\ home[l.task] \in Team[x] \cap Workers

\* What it tells its boss owes what it has been told.
Relays(n, e, msgs) ==
    /\ msgs \in Seq(Messages) /\ Sent(msgs) = {} /\ OnceEach(msgs)
    /\ OwedIn(msgs) = Owes(Head(up[e]))
    /\ \A i \in DOMAIN msgs :
          /\ msgs[i].type # "WAITING"
          /\ msgs[i].type = "RESULT" => /\ msgs[i].completed_by \in Team[n] \cap Workers
                                        /\ msgs[i].task \in finished
    /\ up' = [up EXCEPT ![e] = Tail(up[e]), ![n] = up[n] \o msgs]
    /\ numTasks' = [x \in Employed |-> IF x = e THEN numTasks[e] + Owes(Head(up[e])) ELSE numTasks[x]]
    /\ down' \in [Nodes -> Seq(Messages)]
    /\ \A x \in Nodes : down'[x] = down[x] \/ (x \in Of(n) /\ GoesDown(n, x, down))
    /\ UNCHANGED <<system, idle, cache, numIdle, last, read, error, submitted, done, announced,
                   worker, tree>>
    /\ PassesOn(up[e])

\* The invariant through such a step.
LEMMA RelayKeeps ==
    ASSUME IInv, NEW e \in Employed, NEW n \in Managers, n = Boss(e), up[e] # <<>>,
           Head(up[e]).type \notin {"WAITING", "SUBMIT_BATCH"}, NEW msgs, Relays(n, e, msgs)
    PROVE  IInv' /\ Born' = Born
<1>1. /\ n \in Present /\ e \in Of(n) /\ e \in Nodes /\ Tail(up[e]) \in Seq(Messages)
      /\ Head(up[e]) \in Messages
      /\ n # Server /\ n \in Nodes /\ n \in Employed /\ n \in Present \ {Server} /\ e # n
      /\ up \in [Nodes -> Seq(Messages)] /\ down \in [Nodes -> Seq(Messages)] /\ BossType
      /\ system \in Systems /\ Of(n) \subseteq Employed /\ Of(n) \subseteq Nodes /\ n \notin Of(n)
      /\ error = "none" /\ done \subseteq Roots \cap finished /\ msgs \in Seq(Messages)
      /\ Owes(Head(up[e])) \in Int
  <2>1. up[e] # <<>> /\ n = Boss(e) /\ n \in Managers
    OBVIOUS
  <2>2. system \in Systems
    BY DEF IInv
  <2>3. n \notin Workers
    BY NodesAssumption
  <2> QED BY <2>1, <2>2, <2>3, Hears, NodeKinds, TreeType DEF IInv, CrewInv, CrewType, Clients, Relays
<1>2. /\ up'[e] = Tail(up[e]) /\ up'[n] = up[n] \o msgs
      /\ \A x \in Nodes \ {e, n} : up'[x] = up[x]
      /\ up' \in [Nodes -> Seq(Messages)]
  <2>1. up[n] \o msgs \in Seq(Messages)
    BY <1>1
  <2>2. up' = [up EXCEPT ![e] = Tail(up[e]), ![n] = up[n] \o msgs]
    BY DEF Relays
  <2> HIDE DEF Relays
  <2> QED BY <1>1, <2>1, <2>2
<1>3. /\ numTasks'[e] = numTasks[e] + Owes(Head(up[e]))
      /\ \A x \in Employed \ {e} : numTasks'[x] = numTasks[x]
      /\ numTasks' \in [Employed -> Int]
  BY <1>1 DEF Relays, BossType
<1>4. BossFrame(n)
  <2>1. Employed' = Employed /\ Present' = Present
    BY TreeSame DEF Relays
  <2>2. BossType'
    BY <1>1, <1>3, <2>1 DEF BossType, Relays
  <2> QED BY <1>1, <1>2, <1>3, <2>2 DEF BossFrame, Relays
<1>5. ASSUME NEW x \in Of(n) PROVE Waits(x)
  <2>0. \/ down'[x] = down[x]
        \/ \E l \in Messages : /\ l.type = "RESULT" /\ down'[x] = Append(down[x], l)
                               /\ l.task \in finished /\ home[l.task] \in Team[x] \cap Workers
    BY <1>1 DEF Relays, GoesDown
  <2>1. cache'[x] = cache[x] /\ idle'[x] = idle[x]
    BY DEF Relays
  <2>2. CASE x = e
    BY <1>2, <1>3, <2>0, <2>1, <2>2, IsCounted
  <2>3. CASE x # e
    BY <1>1, <1>2, <1>3, <2>0, <2>1, <2>3, StandsStill
  <2> QED BY <2>2, <2>3
<1>6. SpeaksUp(n, msgs)
  <2>1. Total(Mine(numTasks, n)') = Total(Mine(numTasks, n)) + OwedIn(msgs)
    <3>1. OwedIn(msgs) = Owes(Head(up[e])) /\ UNCHANGED system
      BY DEF Relays
    <3> HIDE DEF Relays
    <3>2. \A x \in Of(n) \ {e} : numTasks'[x] = numTasks[x]
      BY <1>1, <1>3
    <3> QED BY <1>1, <1>3, <3>1, <3>2, OneCount
  <2>2. down'[n] = down[n]
    BY <1>1 DEF Relays
  <2>3. Sent(up[n]) \cap Sent(msgs) = {} /\ OnceEach(msgs)
    BY DEF Relays
  <2>4. /\ numIdle'[n] = numIdle[n] /\ last'[n] = last[n] /\ read'[n] = read[n]
        /\ announced'[n] = announced[n]
        /\ \A i \in DOMAIN msgs :
              /\ msgs[i].type # "WAITING"
              /\ msgs[i].type = "RESULT" => /\ msgs[i].completed_by \in Team[n] \cap Workers
                                            /\ msgs[i].task \in finished
    BY DEF Relays
  <2> QED BY <1>1, <1>2, <1>4, <2>1, <2>2, <2>3, <2>4, SaysQuiet
<1>7. Arrives'
  <2>1. \A x \in Of(n) : up'[x] = up[x] \/ (up[x] # <<>> /\ up'[x] = Tail(up[x]) /\ PassesOn(up[x]))
    BY <1>1, <1>2 DEF Relays
  <2>2. ASSUME NEW x \in Of(n) PROVE Range(down[x]) \subseteq Range(down'[x])
    <3>1. x \in Nodes /\ down[x] \in Seq(Messages)
      BY <1>1
    <3>2. CASE down'[x] = down[x]
      BY <3>2
    <3>3. CASE GoesDown(n, x, down)
      <4>1. PICK l \in Messages : down'[x] = Append(down[x], l)
        BY <3>3 DEF GoesDown
      <4> QED BY <3>1, <4>1, RangeAppend
    <3> QED BY <3>1, <3>2, <3>3 DEF Relays
  <2>3. Range(up[n]) \subseteq Range(up'[n])
    <3>1. \A a, b \in Seq(Messages) : Range(a) \subseteq Range(a \o b)
      BY RangeConcat
    <3> QED BY <1>1, <1>2, <3>1
  <2>4. down'[n] = down[n] /\ done' = done
    BY <1>1 DEF Relays
  <2> QED BY <1>1, <1>4, <2>1, <2>2, <2>3, <2>4, MoveArrives
<1>8. /\ numIdle'[n] = numIdle[n] /\ error' = "none" /\ Sent(msgs) = {} /\ submitted' = submitted
      /\ done' \subseteq Roots \cap finished
  BY <1>1 DEF Relays, tree
<1> QED BY <1>1, <1>4, <1>5, <1>6, <1>7, <1>8, QuietKeeps

\* What the other messages are that a manager relays.
LEMMA SayingOne ==
    ASSUME NEW m \in Messages, m.type \notin {"SUBMIT_BATCH", "WAITING"}
    PROVE  /\ <<m>> \in Seq(Messages) /\ Sent(<<m>>) = {} /\ OnceEach(<<m>>)
           /\ OwedIn(<<m>>) = Owes(m)
           /\ \A i \in DOMAIN <<m>> : <<m>>[i] = m
<1>1. SentBy(m) = {}
  BY DEF SentBy
<1> QED BY <1>1, SentFew, OwedTail

\* The change of a task count goes on.
LEMMA ManagerUpdateKeeps ==
    ASSUME IInv, NEW n \in Managers, NEW e \in Employed, ManagerUpdate(n, e)
    PROVE  IInv' /\ Born' = Born
<1> DEFINE m == Head(up[e])
<1>1. up[e] # <<>> /\ m.type = "UPDATE" /\ n = Boss(e)
  BY DEF ManagerUpdate, FromBelow
<1>2. m \in Messages /\ e # n /\ e \in Nodes /\ n \in Nodes /\ e \in Of(n) /\ n \in Present
  BY <1>1, Hears, NodesAssumption, NodeKinds DEF IInv, Nodes
<1>3. up \in [Nodes -> Seq(Messages)] /\ down \in [Nodes -> Seq(Messages)] /\ numTasks \in [Employed -> Int]
  BY DEF IInv, CrewInv, CrewType, BossType
<1>4. Owes(m) = m.n
  BY <1>1 DEF Owes
<1>5. \A a \in Seq(Messages), l \in Messages : Append(a, l) = a \o <<l>>
  OBVIOUS
<1>6. Relays(n, e, <<m>>)
  <2>1. up' = [up EXCEPT ![e] = Tail(up[e]), ![n] = up[n] \o <<m>>]
    <3>1. up' = [[up EXCEPT ![e] = Tail(up[e])] EXCEPT ![n] = Append(up[n], m)]
      BY <1>2, <1>3 DEF ManagerUpdate, Taken
    <3>2. Append(up[n], m) = up[n] \o <<m>>
      BY <1>2, <1>3, <1>5
    <3> HIDE DEF m
    <3> QED BY <1>2, <1>3, <3>1, <3>2
  <2>2. numTasks' = [x \in Employed |-> IF x = e THEN numTasks[e] + Owes(m) ELSE numTasks[x]]
    BY <1>3, <1>4 DEF ManagerUpdate
  <2>3. PassesOn(up[e])
    BY <1>1 DEF PassesOn
  <2>4. /\ <<m>> \in Seq(Messages) /\ Sent(<<m>>) = {} /\ OnceEach(<<m>>)
        /\ OwedIn(<<m>>) = Owes(m)
        /\ \A i \in DOMAIN <<m>> : <<m>>[i].type # "WAITING" /\ <<m>>[i].type # "RESULT"
    BY <1>1, <1>2, SayingOne
  <2>5. /\ UNCHANGED <<system, idle, cache, numIdle, last, read, error, submitted, done, announced,
                       down, worker, tree>>
    BY DEF ManagerUpdate
  <2> HIDE DEF m
  <2> QED BY <1>3, <2>1, <2>2, <2>3, <2>4, <2>5 DEF Relays, m
<1> QED BY <1>1, <1>6, RelayKeeps

\* A backlog report goes no further.
LEMMA ManagerBacklogKeeps ==
    ASSUME IInv, NEW n \in Managers, NEW e \in Employed, ManagerBacklog(n, e)
    PROVE  IInv' /\ Born' = Born
<1> DEFINE m == Head(up[e])
<1>1. up[e] # <<>> /\ m.type = "BACKLOG" /\ n = Boss(e)
  BY DEF ManagerBacklog, FromBelow
<1>2. m \in Messages /\ e # n /\ e \in Nodes /\ n \in Nodes /\ e \in Of(n) /\ n \in Present
  BY <1>1, Hears, NodesAssumption, NodeKinds DEF IInv, Nodes
<1>3. up \in [Nodes -> Seq(Messages)] /\ down \in [Nodes -> Seq(Messages)] /\ numTasks \in [Employed -> Int]
  BY DEF IInv, CrewInv, CrewType, BossType
<1>4. Owes(m) = 0
  BY <1>1 DEF Owes
<1>5. Relays(n, e, <<>>)
  <2>0. UNCHANGED <<system, numTasks, idle, cache, numIdle, last, read, error, submitted, done, announced,
                    down, worker, tree>>
    BY DEF ManagerBacklog, above, employee
  <2>1. up' = [up EXCEPT ![e] = Tail(up[e]), ![n] = up[n] \o <<>>]
    <3>1. up' = [up EXCEPT ![e] = Tail(up[e])]
      BY <1>2, <1>3 DEF ManagerBacklog, Taken
    <3>2. \A a \in Seq(Messages) : a \o <<>> = a
      OBVIOUS
    <3>3. up[n] \o <<>> = up[n]
      BY <1>2, <1>3, <3>2
    <3> HIDE DEF m
    <3> QED BY <1>2, <1>3, <3>1, <3>3
  <2>2. numTasks' = [x \in Employed |-> IF x = e THEN numTasks[e] + Owes(m) ELSE numTasks[x]]
    BY <1>3, <1>4, <2>0
  <2>3. PassesOn(up[e])
    BY <1>1 DEF PassesOn
  <2>4. /\ <<>> \in Seq(Messages) /\ Sent(<<>>) = {} /\ OnceEach(<<>>) /\ OwedIn(<<>>) = Owes(m)
        /\ DOMAIN <<>> = {}
    BY <1>4, SentFew, OwedTail
  <2> HIDE DEF m
  <2> QED BY <1>3, <2>0, <2>1, <2>2, <2>3, <2>4 DEF Relays, m
<1> QED BY <1>1, <1>5, RelayKeeps

\* The result of a task goes down to its home, if a worker of the manager's
\* awaits it, and up otherwise.
LEMMA ManagerResultKeeps ==
    ASSUME IInv, NEW n \in Managers, NEW e \in Employed, ManagerResult(n, e)
    PROVE  IInv' /\ Born' = Born
<1> DEFINE m == Head(up[e])
<1>1. up[e] # <<>> /\ m.type = "RESULT" /\ n = Boss(e) /\ error = "none"
  BY DEF ManagerResult, FromBelow
<1>2. /\ m \in Messages /\ e # n /\ e \in Nodes /\ n \in Nodes /\ e \in Of(n) /\ n \in Present
      /\ UpRoute(e, m) /\ m.task \in finished /\ m.task \in Tasks /\ n \in Employed /\ n \in Tops
  <2>1. n \in Bosses /\ n \in Tops /\ n \in Nodes /\ n # Server
    BY NodesAssumption DEF Bosses, Tops, Nodes
  <2> QED BY <1>1, <2>1, Hears, NodeKinds DEF IInv
<1>3. up \in [Nodes -> Seq(Messages)] /\ down \in [Nodes -> Seq(Messages)] /\ numTasks \in [Employed -> Int]
  BY DEF IInv, CrewInv, CrewType, BossType
<1>4. Owes(m) = -1
  BY <1>1 DEF Owes
<1>5. m.completed_by \in Team[e] \cap Workers /\ m.completed_by \in Team[n] \cap Workers
  <2>1. Team[e] \subseteq Team[n]
    BY <1>1, <1>2, TeamOfBoss DEF IInv
  <2> QED BY <1>1, <1>2, <2>1 DEF UpRoute
<1>6. numTasks' = [x \in Employed |-> IF x = e THEN numTasks[e] + Owes(m) ELSE numTasks[x]]
  <2>1. CountCompleted(n, m)
    BY DEF ManagerResult
  <2>2. numTasks' = [x \in Employed |-> IF x = e THEN numTasks[x] - 1 ELSE numTasks[x]]
    BY <1>2, <1>5, <2>1, CompletedBy
  <2>3. numTasks[e] - 1 = numTasks[e] + Owes(m)
    BY <1>3, <1>4
  <2> HIDE DEF m
  <2> QED BY <2>2, <2>3
<1>7. UNCHANGED <<system, idle, cache, numIdle, last, read, submitted, done, announced, worker, tree>>
  BY DEF ManagerResult
<1>8. CASE is_my_worker(n, home[m.task])
  <2>1. home[m.task] \in Team[n] \cap Workers /\ home[m.task] \in Employed
    <3>1. home[m.task] # None
      BY <1>2, <1>8, RoutesRight DEF IInv
    <3>2. home[m.task] \in Workers /\ home[m.task] \in Employed
      BY <1>2, <3>1, HomeIn
    <3> QED BY <1>2, <1>8, <3>2, RoutesRight DEF IInv
  <2>2. SendResultDown(n, m, down) /\ up' = [Taken(up, e) EXCEPT ![n] = up[n] \o Completed]
    BY <1>2, <1>3, <1>8 DEF ManagerResult, Taken
  <2>3. PICK x \in Of(n) : /\ down' = [down EXCEPT ![x] = Append(down[x], m)]
                           /\ home[m.task] \in Team[x] \cap Workers
    BY <1>2, <2>1, <2>2, SentDown
  <2>4. error' = error
    BY <1>2, <2>1, <2>2, SentDown
  <2>5. x \in Nodes
    BY <1>2, NodeKinds DEF IInv
  <2>6. /\ down' \in [Nodes -> Seq(Messages)]
        /\ \A y \in Nodes : down'[y] = down[y] \/ (y \in Of(n) /\ GoesDown(n, y, down))
    <3>1. Append(down[x], m) \in Seq(Messages) /\ down'[x] = Append(down[x], m)
      BY <1>2, <1>3, <2>3, <2>5
    <3>2. GoesDown(n, x, down)
      BY <1>1, <1>2, <2>3, <3>1 DEF GoesDown
    <3> HIDE DEF m
    <3> QED BY <1>3, <2>3, <2>5, <3>1, <3>2
  <2>7. PassesOn(up[e])
    <3> SUFFICES ASSUME NEW l \in Messages, l = m PROVE Passed(l.task)
      BY DEF PassesOn
    <3>1. down'[x] = Append(down[x], l) /\ down[x] \in Seq(Messages)
      BY <1>3, <2>3, <2>5
    <3>2. l \in Range(down'[x]) /\ l.type = "RESULT"
      BY <1>1, <3>1, RangeAppend
    <3>3. Underway(l.task)'
      BY <2>5, <3>2 DEF Underway
    <3> QED BY <3>3 DEF Passed
  <2>8. /\ Completed \in Seq(Messages) /\ Sent(Completed) = {} /\ OnceEach(Completed)
        /\ OwedIn(Completed) = Owes(m)
        /\ \A i \in DOMAIN Completed : Completed[i].type # "WAITING" /\ Completed[i].type # "RESULT"
    <3>1. Update(-1) \in Messages /\ Update(-1).type = "UPDATE" /\ Update(-1).n = -1
      BY MessagesMade DEF Update
    <3>2. Owes(Update(-1)) = -1
      BY <3>1 DEF Owes
    <3> HIDE DEF m
    <3> QED BY <1>4, <3>1, <3>2, SayingOne DEF Completed
  <2>9. up' = [up EXCEPT ![e] = Tail(up[e]), ![n] = up[n] \o Completed]
    <3>1. up' = [[up EXCEPT ![e] = Tail(up[e])] EXCEPT ![n] = up[n] \o Completed]
      BY <2>2 DEF Taken
    <3> HIDE DEF m
    <3> QED BY <1>2, <1>3, <3>1
  <2>10. Relays(n, e, Completed)
    BY <1>6, <1>7, <2>4, <2>6, <2>7, <2>8, <2>9 DEF Relays
  <2> QED BY <1>1, <2>10, RelayKeeps
<1>9. CASE ~is_my_worker(n, home[m.task])
  <2>1. UNCHANGED <<down, error>> /\ up' = [Taken(up, e) EXCEPT ![n] = Append(up[n], m)]
    BY <1>2, <1>3, <1>9 DEF ManagerResult, Taken
  <2>2. up' = [up EXCEPT ![e] = Tail(up[e]), ![n] = up[n] \o <<m>>]
    <3>1. up' = [[up EXCEPT ![e] = Tail(up[e])] EXCEPT ![n] = Append(up[n], m)]
      BY <2>1 DEF Taken
    <3>2. \A a \in Seq(Messages), l \in Messages : Append(a, l) = a \o <<l>>
      OBVIOUS
    <3>3. Append(up[n], m) = up[n] \o <<m>>
      BY <1>2, <1>3, <3>2
    <3> HIDE DEF m
    <3> QED BY <1>2, <1>3, <3>1, <3>3
  <2>3. PassesOn(up[e])
    <3> SUFFICES ASSUME NEW l \in Messages, l = m PROVE Passed(l.task)
      BY DEF PassesOn
    <3>1. up'[n] = Append(up[n], l) /\ up[n] \in Seq(Messages)
      <4>1. Taken(up, e) \in [Nodes -> Seq(Messages)]
        <5>1. up[e] \in Seq(Messages) /\ up[e] # <<>>
          BY <1>1, <1>2, <1>3
        <5>2. Tail(up[e]) \in Seq(Messages)
          BY <5>1
        <5> QED BY <1>2, <1>3, <5>2 DEF Taken
      <4>2. up'[n] = Append(up[n], m)
        BY <1>2, <2>1, <4>1
      <4> QED BY <1>2, <1>3, <4>2
    <3>3. l \in Range(up'[n]) /\ l.type = "RESULT"
      BY <1>1, <3>1, RangeAppend
    <3>4. Underway(l.task)'
      BY <1>2, <3>3 DEF Underway
    <3> QED BY <3>4 DEF Passed
  <2>4. /\ <<m>> \in Seq(Messages) /\ Sent(<<m>>) = {} /\ OnceEach(<<m>>)
        /\ OwedIn(<<m>>) = Owes(m)
        /\ \A i \in DOMAIN <<m>> : <<m>>[i] = m
    BY <1>1, <1>2, SayingOne
  <2>5. Relays(n, e, <<m>>)
    <3>1. m.type # "WAITING" /\ m.completed_by \in Team[n] \cap Workers /\ m.task \in finished
      BY <1>1, <1>2, <1>5
    <3>2. m = Head(up[e])
      OBVIOUS
    <3> HIDE DEF m
    <3>3. \A i \in DOMAIN <<m>> :
             /\ <<m>>[i].type # "WAITING"
             /\ <<m>>[i].completed_by \in Team[n] \cap Workers /\ <<m>>[i].task \in finished
      BY <2>4, <3>1
    <3>4. \A i \in DOMAIN <<m>> :
             /\ <<m>>[i].type # "WAITING"
             /\ <<m>>[i].type = "RESULT" => /\ <<m>>[i].completed_by \in Team[n] \cap Workers
                                            /\ <<m>>[i].task \in finished
      BY <3>3
    <3>5. DOMAIN down = Nodes /\ down' \in [Nodes -> Seq(Messages)]
      BY <1>3, <2>1
    <3>6. \A y \in Nodes : down'[y] = down[y]
      BY <2>1
    <3>7. UNCHANGED error
      BY <2>1
    <3>8. OwedIn(<<m>>) = Owes(Head(up[e])) /\ Sent(<<m>>) = {} /\ OnceEach(<<m>>) /\ <<m>> \in Seq(Messages)
      BY <2>4, <3>2
    <3>9. numTasks' = [x \in Employed |-> IF x = e THEN numTasks[e] + Owes(Head(up[e])) ELSE numTasks[x]]
      BY <1>6, <3>2
    <3> QED BY <1>7, <2>2, <2>3, <3>4, <3>5, <3>6, <3>7, <3>8, <3>9 DEF Relays
  <2> QED BY <1>1, <2>5, RelayKeeps
<1> QED BY <1>8, <1>9

----------------------------------------------------------------------------
(* Steps that deal.                                                        *)

\* What only the node n keeps of its boss changes, if anything does.
OwnBooks(n) ==
    /\ last' \in [Present \ {Server} -> Nat] /\ read' \in [Present \ {Server} -> Tasks \cup {None}]
    /\ announced' \in [Present \ {Server} -> Int]
    /\ \A m \in Present \ {n, Server} :
          last'[m] = last[m] /\ read'[m] = read[m] /\ announced'[m] = announced[m]

\* Node n has taken at most a batch from each of its employees, and dealt ts.
Deals(n, ts, q, share) ==
    /\ DealtTo(n, ts, q, share) /\ Loose(n, Range(ts)) /\ OwnBooks(n)
    /\ q \in [Nodes -> Seq(Messages)] /\ \A x \in Nodes \ {n} : q[x] = down[x]
    /\ up' \in [Nodes -> Seq(Messages)]
    /\ \A x \in Of(n) : \/ up'[x] = up[x]
                        \/ up[x] # <<>> /\ Head(up[x]).type = "SUBMIT_BATCH" /\ up'[x] = Tail(up[x])
    /\ \A x \in Nodes \ (Of(n) \cup {n}) : up'[x] = up[x]
    /\ UNCHANGED <<system, worker, tree>> /\ error' = "none"

\* Such a step is a move.
LEMMA DealsMove ==
    ASSUME IInv, NEW n \in Present, NEW ts, NEW q, NEW share, Deals(n, ts, q, share)
    PROVE  Move(n, ts, share) /\ BossFrame(n)
<1>1. /\ system \in Systems /\ Of(n) \subseteq Employed /\ Of(n) \subseteq Nodes /\ n \notin Of(n)
      /\ BossType /\ up \in [Nodes -> Seq(Messages)] /\ down \in [Nodes -> Seq(Messages)]
  BY NodeKinds, TreeType DEF IInv, CrewInv, CrewType
<1>2. DealtTo(n, ts, q, share) /\ OwnBooks(n) /\ Loose(n, Range(ts)) /\ error' = "none"
      /\ UNCHANGED <<system, worker, tree>> /\ up' \in [Nodes -> Seq(Messages)]
  BY DEF Deals
<1>3. Employed' = Employed /\ Present' = Present
  BY <1>2, TreeSame
<1>4. BossType'
  BY <1>2, <1>3 DEF BossType, DealtTo, OwnBooks
<1>5. BossFrame(n)
  <2>1. \A x \in Nodes \ (Of(n) \cup {n}) : down'[x] = down[x] /\ up'[x] = up[x]
    BY <1>1 DEF Deals, DealtTo
  <2>2. /\ down' \in [Nodes -> Seq(Messages)]
        /\ \A x \in Employed \ Of(n) :
              numTasks'[x] = numTasks[x] /\ idle'[x] = idle[x] /\ cache'[x] = cache[x]
        /\ \A m \in Present \ {n} : numIdle'[m] = numIdle[m]
    BY <1>2 DEF DealtTo
  <2>3. \A m \in Present \ {n, Server} :
          last'[m] = last[m] /\ read'[m] = read[m] /\ announced'[m] = announced[m]
    BY <1>2 DEF OwnBooks
  <2> QED BY <1>2, <1>4, <2>1, <2>2, <2>3 DEF BossFrame
<1>6. ASSUME NEW x \in Of(n) PROVE Served(x, share[x])
  <2>1. /\ x \in Employed /\ x \in Nodes /\ x # n /\ q[x] = down[x] /\ up[x] \in Seq(Messages)
        /\ numTasks[x] \in Int /\ share[x] \in Seq(Tasks)
    BY <1>1, <1>2 DEF Deals, DealtTo, Dealt, BossType
  <2>2. CASE up'[x] = up[x]
    <3>1. OwedIn(up[x]) \in Int /\ Len(share[x]) \in Nat
      BY <2>1, OwedConcat
    <3>2. numTasks'[x] = numTasks[x] + Len(share[x])
      BY <1>2 DEF DealtTo
    <3>3. numTasks'[x] + OwedIn(up'[x]) = numTasks[x] + OwedIn(up[x]) + Len(share[x])
      BY <2>1, <2>2, <3>1, <3>2
    <3> QED BY <1>2, <2>1, <2>2, <3>3 DEF Served, Listened, DealtTo
  <2>3. CASE up[x] # <<>> /\ Head(up[x]).type = "SUBMIT_BATCH" /\ up'[x] = Tail(up[x])
    <3>1. Boss(x) = n
      BY <1>1, TreeType
    <3>2. OwedIn(up[x]) = Owes(Head(up[x])) + OwedIn(Tail(up[x])) /\ OwedIn(Tail(up[x])) \in Int
          /\ OwedIn(up[x]) \in Int
      BY <2>1, <2>3, <3>1, Hears
    <3>3. Owes(Head(up[x])) = 0
      BY <2>3 DEF Owes
    <3>4. OwedIn(up'[x]) = OwedIn(up[x]) /\ Len(share[x]) \in Nat
      BY <2>1, <2>3, <3>2, <3>3
    <3>5. numTasks'[x] = numTasks[x] + Len(share[x])
      BY <1>2 DEF DealtTo
    <3>6. numTasks'[x] + OwedIn(up'[x]) = numTasks[x] + OwedIn(up[x]) + Len(share[x])
      BY <2>1, <3>2, <3>4, <3>5
    <3> QED BY <1>2, <2>1, <2>3, <3>6 DEF Served, Listened, DealtTo
  <2> QED BY <2>2, <2>3 DEF Deals
<1>7. numIdle'[n] = Total(Mine(idle, n)') /\ Dealt(ts, share, Of(n))
  BY <1>2 DEF DealtTo
<1> QED BY <1>2, <1>5, <1>6, <1>7 DEF Move

\* What node n tells its boss and reads of it: only the tasks N go up, and no
\* result is read.
Upholds(n, q, N) ==
    /\ n \in Nodes =>
          /\ Sent(up'[n]) \subseteq Sent(up[n]) \cup N /\ Range(up[n]) \subseteq Range(up'[n])
          /\ q[n] = down[n] \/ (down[n] # <<>> /\ Head(down[n]).type # "RESULT" /\ q[n] = Tail(down[n]))
    /\ \A t \in N : \E z \in Nodes : t \in Sent(up[z])
    /\ done' = done

\* It sends no task up that was not on its way, and no result goes astray.
LEMMA DealsGoOn ==
    ASSUME IInv, NEW n \in Present, NEW ts, NEW q, NEW share, Deals(n, ts, q, share),
           NEW N, Upholds(n, q, N)
    PROVE  /\ Arrives'
           /\ \A y \in Nodes : \A t \in Sent(up'[y]) : \E z \in Nodes : t \in Sent(up[z])
<1>1. Move(n, ts, share) /\ BossFrame(n)
  BY DealsMove
<1>2. /\ system \in Systems /\ Of(n) \subseteq Employed /\ Of(n) \subseteq Nodes /\ n \notin Of(n)
      /\ up \in [Nodes -> Seq(Messages)] /\ down \in [Nodes -> Seq(Messages)]
      /\ n # Server => n \in Nodes
  BY NodeKinds, TreeType DEF IInv, CrewInv, CrewType
<1>3. ASSUME NEW y \in Nodes, NEW t \in Sent(up'[y]) PROVE \E z \in Nodes : t \in Sent(up[z])
  <2>1. CASE y = n
    BY <1>3, <2>1 DEF Upholds
  <2>2. CASE y # n
    <3>1. CASE up'[y] = up[y]
      BY <1>3, <3>1
    <3>2. CASE up[y] # <<>> /\ up'[y] = Tail(up[y])
      BY <1>2, <1>3, <3>2, SentTail
    <3> QED BY <2>2, <3>1, <3>2 DEF Deals
  <2> QED BY <2>1, <2>2
<1>4. Arrives'
  <2>1. \A x \in Of(n) : up'[x] = up[x] \/ (up[x] # <<>> /\ up'[x] = Tail(up[x]) /\ PassesOn(up[x]))
    BY DEF Deals, PassesOn
  <2>2. ASSUME NEW x \in Of(n) PROVE Range(down[x]) \subseteq Range(down'[x])
    <3>1. /\ down[x] \in Seq(Messages) /\ share[x] \in Seq(Tasks) /\ down'[x] = Given(down[x], share[x])
      BY <1>2 DEF Deals, DealtTo, Dealt
    <3>2. CASE share[x] = <<>>
      BY <3>1, <3>2 DEF Given
    <3>3. CASE share[x] # <<>>
      <4>1. Batch(share[x]) \in Messages
        BY <3>1, <3>3, MessagesMade
      <4> QED BY <3>1, <3>3, <4>1, RangeAppend DEF Given
    <3> QED BY <3>2, <3>3
  <2>3. n # Server => /\ \/ down'[n] = down[n]
                         \/ down[n] # <<>> /\ down'[n] = Tail(down[n]) /\ PassesOn(down[n])
    BY <1>2 DEF Deals, DealtTo, PassesOn, Upholds
  <2>4. n # Server => Range(up[n]) \subseteq Range(up'[n])
    BY <1>2 DEF Upholds
  <2>5. done \subseteq done'
    BY DEF Upholds
  <2> QED BY <1>1, <1>2, <2>1, <2>2, <2>3, <2>4, <2>5, MoveArrives
<1> QED BY <1>3, <1>4

\* The server deals a client's task.
LEMMA SubmitRootKeeps ==
    ASSUME IInv, NEW r \in Roots, SubmitRoot(r)
    PROVE  IInv' /\ Born' = Born \cup {r} /\ r \notin Born
<1> DEFINE ts == <<r>>
           n  == Server
<1>1. /\ system \in Systems /\ n \in Present /\ n \notin Nodes /\ r \in Tasks /\ n \notin Of(n)
      /\ Of(n) \subseteq Nodes /\ BossType /\ Births /\ CrewInv(Nodes)
      /\ down \in [Nodes -> Seq(Messages)] /\ up \in [Nodes -> Seq(Messages)] /\ Clients
  BY NodeKinds, TreeType DEF IInv, CrewInv, CrewType, Roots
<1>2. /\ error = "none" /\ r \notin submitted /\ submitted' = submitted \cup {r}
      /\ ScheduleOn(n, ts, down)
      /\ UNCHANGED <<system, last, read, error, done, announced, up, worker, tree>>
  BY DEF SubmitRoot
<1>3. ts \in Seq(Tasks) /\ NoRepeat(ts) /\ Range(ts) = {r}
  BY <1>1 DEF NoRepeat, Range
<1>4. r \notin Born
  <2>1. \A p \in mapped : r \notin Kids(p)
    BY <1>1, KidsType DEF CrewInv, CrewType
  <2> QED BY <1>2, <2>1 DEF Born
<1>5. Loose(n, Range(ts))
  BY <1>3, <1>4, LooseNew
<1> HIDE DEF ts, n
<1>6. PICK share : DealtTo(n, ts, down, share)
  BY <1>1, <1>2, <1>3, ScheduleEffect
<1>7. OwnBooks(n)
  BY <1>1, <1>2 DEF OwnBooks, BossType
<1>8. Deals(n, ts, down, share)
  BY <1>1, <1>2, <1>5, <1>6, <1>7 DEF Deals
<1>9. Move(n, ts, share) /\ BossFrame(n)
  BY <1>1, <1>8, DealsMove
<1>10. Arrives' /\ \A y \in Nodes : \A t \in Sent(up'[y]) : \E z \in Nodes : t \in Sent(up[z])
  <2>1. Upholds(n, down, {})
    BY <1>1, <1>2 DEF Upholds
  <2> QED BY <1>1, <1>8, <2>1, DealsGoOn
<1>11. Apart(Layout(Nodes))' /\ Everywhere(Layout(Nodes))' = Everywhere(Layout(Nodes)) \cup {r}
  <2>1. Dealt(ts, share, Of(n)) /\ Apart(Layout(Nodes)) /\ Of(n) \in SUBSET Nodes
    BY <1>1, <1>6 DEF DealtTo, CrewInv, Placed
  <2>2. Range(ts) \cap Everywhere(Layout(Nodes)) = {}
    BY <1>1, <1>3, <1>4 DEF Births
  <2>3. \A e \in Of(n) : Layout(Nodes)'[<<"down", e>>] = Layout(Nodes)[<<"down", e>>] \cup Range(share[e])
    <3> SUFFICES ASSUME NEW e \in Of(n)
                 PROVE  Layout(Nodes)'[<<"down", e>>] = Layout(Nodes)[<<"down", e>>] \cup Range(share[e])
      OBVIOUS
    <3>0. n \in Present
      BY <1>1
    <3>1. Sent(down'[e]) = Sent(down[e]) \cup Range(share[e])
      BY <3>0, <1>9, MoveServes
    <3> QED BY <1>1, <1>2, <3>1, QueueLayout
  <2>4. ASSUME NEW s \in Spots(Nodes), \A e \in Of(n) : s # <<"down", e>>
               PROVE  Layout(Nodes)'[s] = Layout(Nodes)[s]
    <3>1. CASE \E e \in Nodes : s = <<"down", e>>
      <4>1. PICK e \in Nodes : s = <<"down", e>>
        BY <3>1
      <4>2. down'[e] = down[e]
        BY <1>1, <1>6, <2>4, <4>1 DEF DealtTo
      <4> QED BY <1>2, <4>1, <4>2, QueueLayout, ZenonT(30)
    <3>2. CASE \E e \in Nodes : s = <<"up", e>>
      <4>1. PICK e \in Nodes : s = <<"up", e>>
        BY <3>2
      <4> QED BY <1>2, <4>1, QueueLayout
    <3>3. CASE \A e \in Nodes : s # <<"down", e>> /\ s # <<"up", e>>
      BY <1>2, <3>3, QueueLayout
    <3> QED BY <3>1, <3>2, <3>3
  <2>5. \A s \in Spots(Nodes) : (\A e \in Of(n) : s # <<"down", e>>) =>
              Layout(Nodes)'[s] = Layout(Nodes)[s]
    BY <2>4
  <2>6. /\ Apart(Layout(Nodes))'
        /\ Everywhere(Layout(Nodes))' = Everywhere(Layout(Nodes)) \cup Range(ts)
    BY <2>1, <2>2, <2>3, <2>5, NewDealtPlaced
  <2> QED BY <1>3, <2>6
<1>12. IInv' /\ Born' = Born \cup {r}
  <2>1. n = Server /\ {r} \in SUBSET Roots /\ done' \subseteq Roots \cap finished
    BY <1>1, <1>2 DEF n, Clients
  <2> QED BY <1>1, <1>2, <1>9, <1>10, <1>11, <2>1, MoveKeeps
<1> QED BY <1>4, <1>12

\* The server deals the tasks a manager could not.
LEMMA ServerBatchKeeps ==
    ASSUME IInv, NEW e \in Employed, ServerBatch(e)
    PROVE  IInv' /\ Born' = Born
<1> DEFINE ts == Head(up[e]).tasks
           n  == Server
<1>1. /\ up[e] # <<>> /\ Head(up[e]).type = "SUBMIT_BATCH" /\ Boss(e) = n /\ error = "none"
      /\ up' = [up EXCEPT ![e] = Tail(up[e])] /\ ScheduleOn(n, ts, down)
      /\ UNCHANGED <<system, last, read, error, submitted, done, announced, worker, tree>>
  BY DEF ServerBatch, FromBelow, Taken
<1>2. /\ system \in Systems /\ n \in Present /\ n \notin Nodes /\ n \notin Of(n) /\ e \in Of(n)
      /\ e \in Nodes /\ Of(n) \subseteq Nodes /\ BossType /\ CrewInv(Nodes) /\ Clients
      /\ down \in [Nodes -> Seq(Messages)] /\ up \in [Nodes -> Seq(Messages)]
      /\ Tail(up[e]) \in Seq(Messages)
      /\ ts \in Seq(Tasks) /\ ts # <<>> /\ NoRepeat(ts)
      /\ Sent(up[e]) = Range(ts) \cup Sent(Tail(up[e])) /\ Range(ts) \cap Sent(Tail(up[e])) = {}
  <2>1. n \in Present /\ n \notin Nodes
    BY TreeType DEF IInv
  <2> QED BY <1>1, <2>1, Hears, NodeKinds, TreeType DEF IInv, CrewInv, CrewType
<1> HIDE DEF ts, n
<1>3. Loose(n, Range(ts))
  BY <1>2, LooseFromUp
<1>4. PICK share : DealtTo(n, ts, down, share)
  BY <1>1, <1>2, ScheduleEffect
<1>5. OwnBooks(n)
  BY <1>1, <1>2 DEF OwnBooks, BossType
<1>6. /\ up' \in [Nodes -> Seq(Messages)] /\ up'[e] = Tail(up[e])
      /\ \A x \in Nodes \ {e} : up'[x] = up[x]
  BY <1>1, <1>2
<1>7. Deals(n, ts, down, share)
  BY <1>1, <1>2, <1>3, <1>4, <1>5, <1>6 DEF Deals
<1>8. Move(n, ts, share) /\ BossFrame(n)
  BY <1>2, <1>7, DealsMove
<1>9. Arrives' /\ \A y \in Nodes : \A t \in Sent(up'[y]) : \E z \in Nodes : t \in Sent(up[z])
  <2>1. Upholds(n, down, {})
    BY <1>1, <1>2 DEF Upholds
  <2> QED BY <1>2, <1>7, <2>1, DealsGoOn
<1>10. Apart(Layout(Nodes))' /\ Everywhere(Layout(Nodes))' = Everywhere(Layout(Nodes))
  <2> DEFINE from == <<"up", e>>
  <2>1. Lies(from) = Sent(up[e]) /\ Lies(from)' = Sent(up'[e])
    BY LiesAt
  <2>2. Range(ts) \cap {} = {} /\ Range(ts) \cup {} = Range(ts)
    OBVIOUS
  <2>3. \A x \in Of(n) : <<"up", x>> # from => Sent(up'[x]) = Sent(up[x])
    BY <1>2, <1>6
  <2>4. n = Server
    BY DEF n
  <2>5. /\ Range(ts) \cup {} \subseteq Lies(from)
        /\ Lies(from)' = Lies(from) \ (Range(ts) \cup {})
    <3>1. Sent(up'[e]) = Sent(Tail(up[e]))
      BY <1>6
    <3>2. \A A, B, C : A = B \cup C /\ B \cap C = {} => B \subseteq A /\ C = A \ B
      OBVIOUS
    <3>3. Range(ts) \subseteq Sent(up[e]) /\ Sent(up'[e]) = Sent(up[e]) \ Range(ts)
      BY <1>2, <3>1, <3>2
    <3> HIDE DEF from
    <3> QED BY <2>1, <2>2, <3>3
  <2>6. Leaves(n, ts, from, {})
    BY <2>2, <2>3, <2>4, <2>5 DEF Leaves
  <2> QED BY <1>2, <1>8, <2>6, MovePlaced
<1>11. IInv' /\ Born' = Born \cup {}
  <2>1. n = Server /\ {} \in SUBSET Roots /\ done' \subseteq Roots \cap finished /\ submitted' = submitted \cup {}
        /\ Everywhere(Layout(Nodes))' = Everywhere(Layout(Nodes)) \cup {}
    BY <1>1, <1>2, <1>10 DEF n, Clients
  <2> QED BY <1>2, <1>8, <1>9, <1>10, <2>1, MoveKeeps
<1> QED BY <1>11

----------------------------------------------------------------------------
(* What a manager reads of its boss.                                       *)

\* The manager and the message it reads.
LEMMA Obeys ==
    ASSUME IInv, NEW n \in Managers \cap Employed, down[n] # <<>>
    PROVE  LET m == Head(down[n]) IN
           /\ n \in Present \ {Server} /\ n \in Present /\ n # Server /\ n \in Nodes /\ n \notin Of(n)
           /\ n \in Tops /\ n \notin Workers
           /\ down[n] \in Seq(Messages) /\ m \in Messages /\ Tail(down[n]) \in Seq(Messages)
           /\ DownRoute(n, m) /\ m \in Range(down[n])
           /\ Sent(down[n]) = SentBy(m) \cup Sent(Tail(down[n]))
           /\ SentBy(m) \cap Sent(Tail(down[n])) = {}
           /\ m.type = "SUBMIT_BATCH" =>
                 m.tasks \in Seq(Tasks) /\ m.tasks # <<>> /\ NoRepeat(m.tasks) /\ SentBy(m) = Range(m.tasks)
           /\ m.type = "RESULT" => m.task \in finished /\ m.task \in Tasks /\ home[m.task] # None
<1> DEFINE m == Head(down[n])
<1>1. /\ n \in Present \ {Server} /\ n \in Present /\ n # Server /\ n \in Nodes /\ n \notin Of(n)
      /\ n \in Tops /\ n \notin Workers
  <2>1. n \in Nodes /\ n \in Tops /\ n \notin Workers
    BY NodesAssumption DEF Nodes, Tops, Bosses
  <2>2. n \in Present \ {Server}
    BY TreeType DEF IInv
  <2> QED BY <2>1, <2>2, NodeKinds DEF IInv
<1>2. down[n] \in Seq(Messages) /\ OnceEach(down[n])
  BY <1>1 DEF IInv, CrewInv, CrewType, Placed, Once
<1>3. /\ m \in Messages /\ Tail(down[n]) \in Seq(Messages)
      /\ Sent(down[n]) = SentBy(m) \cup Sent(Tail(down[n]))
      /\ SentBy(m) \cap Sent(Tail(down[n])) = {}
      /\ m.type = "SUBMIT_BATCH" => NoRepeat(m.tasks)
  BY <1>2, SentTail
<1>4. m \in Range(down[n])
  BY <1>2, RangeTail
<1>5. DownRoute(n, m)
  BY <1>4 DEF IInv, Edge, Routed
<1>6. m.type = "RESULT" => m.task \in finished /\ m.task \in Tasks /\ home[m.task] # None
  BY <1>1, <1>3, <1>4, Fields DEF IInv, CrewInv, Results
<1>7. m.type = "SUBMIT_BATCH" => m.tasks \in Seq(Tasks) /\ m.tasks # <<>> /\ SentBy(m) = Range(m.tasks)
  BY <1>3, Fields DEF SentBy
<1> QED BY <1>1, <1>2, <1>3, <1>4, <1>5, <1>6, <1>7

\* It passes a result on to the employee that has its home.
LEMMA ManagerReadResultKeeps ==
    ASSUME IInv, NEW n \in Managers \cap Employed, ManagerReadResult(n)
    PROVE  IInv' /\ Born' = Born
<1> DEFINE m == Head(down[n])
           q == [down EXCEPT ![n] = Tail(down[n])]
<1>1. /\ error = "none" /\ down[n] # <<>> /\ m.type = "RESULT" /\ UNCHANGED up
      /\ SendResultDown(n, m, q)
      /\ UNCHANGED <<system, numTasks, idle, cache, numIdle, last, read, submitted, done, announced, worker, tree>>
  BY DEF ManagerReadResult, FromAbove, Taken, employee
<1>2. /\ n \in Present \ {Server} /\ n \in Present /\ n # Server /\ n \in Nodes /\ n \notin Of(n)
      /\ n \in Tops /\ down[n] \in Seq(Messages) /\ m \in Messages /\ Tail(down[n]) \in Seq(Messages)
      /\ m.task \in finished /\ m.task \in Tasks /\ home[m.task] # None /\ home[m.task] \in Team[n]
  BY <1>1, Obeys DEF DownRoute
<1>3. /\ up \in [Nodes -> Seq(Messages)] /\ down \in [Nodes -> Seq(Messages)] /\ BossType
      /\ system \in Systems /\ Of(n) \subseteq Employed /\ Of(n) \subseteq Nodes
      /\ done \subseteq Roots \cap finished
  BY <1>2, NodeKinds, TreeType DEF IInv, CrewInv, CrewType, Clients
<1>4. home[m.task] \in Team[n] \cap Workers /\ home[m.task] \in Employed
  BY <1>2, HomeIn
<1>5. error' = error
  BY <1>1, <1>2, <1>4, SentDown
<1>6. PICK y \in Of(n) : /\ down' = [q EXCEPT ![y] = Append(q[y], m)]
                         /\ home[m.task] \in Team[y] \cap Workers
  BY <1>1, <1>2, <1>4, SentDown
<1>7. /\ down' \in [Nodes -> Seq(Messages)] /\ down'[n] = Tail(down[n])
      /\ down'[y] = Append(down[y], m) /\ y \in Nodes /\ y # n
      /\ \A x \in Nodes \ {n, y} : down'[x] = down[x]
  <2>1. /\ q \in [Nodes -> Seq(Messages)] /\ q[n] = Tail(down[n])
        /\ \A x \in Nodes \ {n} : q[x] = down[x]
    BY <1>2, <1>3
  <2>2. y \in Nodes /\ y # n
    BY <1>2, <1>3
  <2> HIDE DEF q, m
  <2>3. Append(q[y], m) \in Seq(Messages)
    BY <1>2, <2>1, <2>2
  <2> QED BY <1>2, <1>6, <2>1, <2>2, <2>3
<1>8. BossFrame(n)
  <2>1. Employed' = Employed /\ Present' = Present
    BY <1>1, TreeSame
  <2>2. BossType'
    BY <1>1, <1>3, <2>1 DEF BossType
  <2> QED BY <1>1, <1>3, <1>6, <1>7, <2>2 DEF BossFrame
<1>9. ASSUME NEW x \in Of(n) PROVE Waits(x)
  <2>1. \/ down'[x] = down[x]
        \/ \E l \in Messages : /\ l.type = "RESULT" /\ down'[x] = Append(down[x], l)
                               /\ l.task \in finished /\ home[l.task] \in Team[x] \cap Workers
    <3>1. CASE x = y
      BY <1>1, <1>2, <1>6, <1>7, <3>1
    <3>2. CASE x # y
      BY <1>2, <1>3, <1>7, <3>2
    <3> QED BY <3>1, <3>2
  <2> QED BY <1>1, <1>2, <2>1, StandsStill
<1>10. SpeaksUp(n, <<>>)
  <2>1. /\ <<>> \in Seq(Messages) /\ Sent(<<>>) = {} /\ OnceEach(<<>>) /\ OwedIn(<<>>) = 0
    BY SentFew, OwedTail
  <2>2. up'[n] = up[n] \o <<>>
    <3>1. \A a \in Seq(Messages) : a \o <<>> = a
      OBVIOUS
    <3> QED BY <1>1, <1>2, <1>3, <3>1
  <2>3. Total(Mine(numTasks, n)') = Total(Mine(numTasks, n)) + OwedIn(<<>>)
    <3>1. Mine(numTasks, n)' = Mine(numTasks, n)
      BY <1>1, TreeSame DEF Mine
    <3>2. Total(Mine(numTasks, n)) \in Int
      BY <1>2, <1>3, MineTotal
    <3> QED BY <2>1, <3>1, <3>2
  <2>4. down[n] # <<>> /\ Head(down[n]).type # "SUBMIT_BATCH" /\ down'[n] = Tail(down[n])
    BY <1>1, <1>7
  <2>5. \A i \in DOMAIN <<>> :
              /\ <<>>[i].type # "WAITING"
              /\ <<>>[i].type = "RESULT" => /\ <<>>[i].completed_by \in Team[n] \cap Workers
                                            /\ <<>>[i].task \in finished
    OBVIOUS
  <2>6. /\ numIdle'[n] = numIdle[n] /\ last'[n] = last[n] /\ read'[n] = read[n]
        /\ announced'[n] = announced[n] /\ Sent(up[n]) \cap Sent(<<>>) = {}
    BY <1>1, <2>1
  <2> QED BY <1>2, <1>8, <2>1, <2>2, <2>3, <2>4, <2>5, <2>6, SaysQuiet
<1>11. Arrives'
  <2>1. \A x \in Of(n) : Range(down[x]) \subseteq Range(down'[x])
    <3> SUFFICES ASSUME NEW x \in Of(n) PROVE Range(down[x]) \subseteq Range(down'[x])
      OBVIOUS
    <3>1. x \in Nodes /\ down[x] \in Seq(Messages) /\ x # n
      BY <1>2, <1>3
    <3>2. CASE x = y
      <4>1. m \in Messages /\ down'[x] = Append(down[x], m)
        BY <1>2, <1>7, <3>2
      <4> HIDE DEF m
      <4>2. Range(Append(down[x], m)) = Range(down[x]) \cup {m}
        BY <3>1, <4>1, RangeAppend
      <4> QED BY <4>1, <4>2
    <3>3. CASE x # y
      BY <1>7, <3>1, <3>3
    <3> QED BY <3>2, <3>3
  <2>2. PassesOn(down[n])
    <3> SUFFICES ASSUME NEW l \in Messages, l = m PROVE Passed(l.task)
      BY DEF PassesOn
    <3>1. down'[y] = Append(down[y], l) /\ down[y] \in Seq(Messages)
      BY <1>3, <1>7
    <3>2. l \in Range(down'[y]) /\ l.type = "RESULT"
      BY <1>1, <3>1, RangeAppend
    <3>3. Underway(l.task)'
      BY <1>7, <3>2 DEF Underway
    <3> QED BY <3>3 DEF Passed
  <2> QED BY <1>1, <1>2, <1>7, <1>8, <2>1, <2>2, MoveArrives
<1>12. numIdle'[n] = numIdle[n] /\ error' = "none" /\ submitted' = submitted /\ done' \subseteq Roots \cap finished
       /\ Sent(<<>>) = {}
  BY <1>1, <1>3, <1>5, SentFew
<1> QED BY <1>2, <1>8, <1>9, <1>10, <1>11, <1>12, QuietKeeps

\* It deals a batch.
LEMMA ManagerReadBatchKeeps ==
    ASSUME IInv, NEW n \in Managers \cap Employed, ManagerReadBatch(n)
    PROVE  IInv' /\ Born' = Born
<1> DEFINE m  == Head(down[n])
           ts == m.tasks
           q  == [down EXCEPT ![n] = Tail(down[n])]
<1>1. /\ error = "none" /\ down[n] # <<>> /\ m.type = "SUBMIT_BATCH" /\ UNCHANGED up
      /\ read' = [read EXCEPT ![n] = ts[1]] /\ ScheduleOn(n, ts, q)
      /\ UNCHANGED <<system, last, error, submitted, done, announced, worker, tree>>
  BY DEF ManagerReadBatch, FromAbove, Taken
<1>2. /\ n \in Present \ {Server} /\ n \in Present /\ n # Server /\ n \in Nodes /\ n \notin Of(n)
      /\ down[n] \in Seq(Messages) /\ Tail(down[n]) \in Seq(Messages)
      /\ ts \in Seq(Tasks) /\ ts # <<>> /\ NoRepeat(ts)
      /\ Sent(down[n]) = Range(ts) \cup Sent(Tail(down[n])) /\ Range(ts) \cap Sent(Tail(down[n])) = {}
  BY <1>1, Obeys
<1>3. /\ up \in [Nodes -> Seq(Messages)] /\ down \in [Nodes -> Seq(Messages)] /\ BossType
      /\ system \in Systems /\ Of(n) \subseteq Employed /\ Of(n) \subseteq Nodes
      /\ done \subseteq Roots \cap finished
  BY <1>2, NodeKinds, TreeType DEF IInv, CrewInv, CrewType, Clients
<1>4. /\ q \in [Nodes -> Seq(Messages)] /\ q[n] = Tail(down[n])
      /\ \A x \in Nodes \ {n} : q[x] = down[x]
  BY <1>2, <1>3
<1> HIDE DEF q
<1>5. Loose(n, Range(ts))
  BY <1>2, LooseFromDown
<1>6. PICK share : DealtTo(n, ts, q, share)
  BY <1>1, <1>2, <1>4, ScheduleEffect
<1>7. OwnBooks(n) /\ read'[n] = ts[1]
  <2>1. ts[1] \in Tasks
    BY <1>2
  <2> HIDE DEF ts
  <2> QED BY <1>1, <1>2, <1>3, <2>1 DEF OwnBooks, BossType
<1>8. Deals(n, ts, q, share)
  BY <1>1, <1>3, <1>4, <1>5, <1>6, <1>7 DEF Deals
<1>9. Move(n, ts, share) /\ BossFrame(n)
  BY <1>2, <1>8, DealsMove
<1>10. down'[n] = Tail(down[n]) /\ up'[n] = up[n]
  BY <1>1, <1>2, <1>4, <1>6 DEF DealtTo
<1>11. Edge(n)' /\ Upward(n)
  <2>1. /\ Total(Mine(numTasks, n)') = Total(Mine(numTasks, n)) + Len(ts)
        /\ numIdle'[n] >= numIdle[n] - Len(ts)
    BY <1>1, <1>2, <1>6, DealtTotals
  <2>2. last'[n] = last[n] /\ announced'[n] = announced[n]
    BY <1>1
  <2> QED BY <1>1, <1>2, <1>7, <1>9, <1>10, <2>1, <2>2, ReadsEdge
<1>12. Arrives' /\ \A y \in Nodes : \A t \in Sent(up'[y]) : \E z \in Nodes : t \in Sent(up[z])
  <2>1. Upholds(n, q, {})
    BY <1>1, <1>2, <1>4 DEF Upholds
  <2> QED BY <1>2, <1>8, <2>1, DealsGoOn
<1>13. Apart(Layout(Nodes))' /\ Everywhere(Layout(Nodes))' = Everywhere(Layout(Nodes))
  <2> DEFINE from == <<"down", n>>
  <2>1. Lies(from) = Sent(down[n]) /\ Lies(from)' = Sent(down'[n])
    BY LiesAt
  <2>2. Range(ts) \cap {} = {} /\ Range(ts) \cup {} = Range(ts)
    OBVIOUS
  <2>3. \A x \in Of(n) : Sent(up'[x]) = Sent(up[x])
    BY <1>1
  <2>4. n # Server /\ Sent(up'[n]) = Sent(up[n]) \cup {}
    BY <1>1, <1>2
  <2>5. /\ Range(ts) \cup {} \subseteq Lies(from)
        /\ Lies(from)' = Lies(from) \ (Range(ts) \cup {})
    <3>1. Sent(down'[n]) = Sent(Tail(down[n]))
      BY <1>10
    <3>2. \A A, B, C : A = B \cup C /\ B \cap C = {} => B \subseteq A /\ C = A \ B
      OBVIOUS
    <3>3. Range(ts) \subseteq Sent(down[n]) /\ Sent(down'[n]) = Sent(down[n]) \ Range(ts)
      BY <1>2, <3>1, <3>2
    <3> HIDE DEF from
    <3> QED BY <2>1, <2>2, <3>3
  <2>6. Leaves(n, ts, from, {})
    BY <2>2, <2>3, <2>4, <2>5 DEF Leaves
  <2> QED BY <1>2, <1>9, <2>6, MovePlaced
<1>14. IInv' /\ Born' = Born \cup {}
  <2>1. {} \in SUBSET Roots /\ done' \subseteq Roots \cap finished /\ submitted' = submitted \cup {}
        /\ Everywhere(Layout(Nodes))' = Everywhere(Layout(Nodes)) \cup {}
    BY <1>1, <1>3, <1>13
  <2> QED BY <1>2, <1>9, <1>11, <1>12, <1>13, <2>1, MoveKeeps
<1> QED BY <1>14

----------------------------------------------------------------------------
(* What a manager does with the tasks its employees submit.                *)

\* It deals the tasks K of a batch and tells its boss msgs.
Splits(n, e, K, share, msgs) ==
    /\ DealtTo(n, K, down, share) /\ K \in Seq(Tasks) /\ NoRepeat(K)
    /\ msgs \in Seq(Messages) /\ OnceEach(msgs)
    /\ Range(K) \cap Sent(msgs) = {} /\ Range(K) \cup Sent(msgs) = Range(Head(up[e]).tasks)
    /\ \A i \in DOMAIN msgs : msgs[i].type # "RESULT" /\ Says1(n, msgs[i])
    /\ up' = [up EXCEPT ![e] = Tail(up[e]), ![n] = up[n] \o msgs]
    /\ View(cache[n], up'[n], idle[n], read[n], numIdle'[n], last'[n])
    /\ announced'[n] + Len(K) = announced[n] + OwedIn(msgs)
    /\ OwnBooks(n) /\ error' = "none"
    /\ UNCHANGED <<system, read, submitted, done, worker, tree>>

\* The invariant through such a step.
LEMMA SplitsKeeps ==
    ASSUME IInv, NEW e \in Employed, NEW n \in Managers, n = Boss(e), up[e] # <<>>,
           Head(up[e]).type = "SUBMIT_BATCH",
           NEW K, NEW share, NEW msgs, Splits(n, e, K, share, msgs)
    PROVE  IInv' /\ Born' = Born
<1> DEFINE ts == Head(up[e]).tasks
<1>1. /\ n \in Present \ {Server} /\ n \in Present /\ n # Server /\ n \in Nodes /\ n \in Employed
      /\ e \in Of(n) /\ e \in Nodes /\ e # n
      /\ Tail(up[e]) \in Seq(Messages) /\ ts \in Seq(Tasks) /\ ts # <<>> /\ NoRepeat(ts)
      /\ Sent(up[e]) = Range(ts) \cup Sent(Tail(up[e])) /\ Range(ts) \cap Sent(Tail(up[e])) = {}
  <2>1. n # Server
    BY NodesAssumption DEF Nodes
  <2> QED BY <2>1, Hears
<1>2. /\ up \in [Nodes -> Seq(Messages)] /\ down \in [Nodes -> Seq(Messages)] /\ BossType
      /\ system \in Systems /\ Of(n) \subseteq Employed /\ Of(n) \subseteq Nodes /\ n \notin Of(n)
      /\ done \subseteq Roots \cap finished /\ Apart(Layout(Nodes))
  BY <1>1, NodeKinds, TreeType DEF IInv, CrewInv, CrewType, Clients, Placed
<1>3. /\ DealtTo(n, K, down, share) /\ K \in Seq(Tasks) /\ NoRepeat(K) /\ OwnBooks(n) /\ error' = "none"
      /\ msgs \in Seq(Messages) /\ OnceEach(msgs)
      /\ UNCHANGED <<system, read, submitted, done, worker, tree>>
      /\ Range(K) \cap Sent(msgs) = {} /\ Range(K) \cup Sent(msgs) = Range(ts)
  BY DEF Splits
<1> HIDE DEF ts
<1>4. /\ up'[e] = Tail(up[e]) /\ up'[n] = up[n] \o msgs
      /\ \A x \in Nodes \ {e, n} : up'[x] = up[x]
      /\ up' \in [Nodes -> Seq(Messages)]
  <2>1. up[n] \o msgs \in Seq(Messages)
    BY <1>1, <1>2, <1>3
  <2>2. up' = [up EXCEPT ![e] = Tail(up[e]), ![n] = up[n] \o msgs]
    BY DEF Splits
  <2> QED BY <1>1, <1>2, <2>1, <2>2
<1>5. Loose(n, Range(K))
  <2>1. Range(K) \subseteq Sent(up[e])
    BY <1>1, <1>3
  <2> QED BY <1>1, <2>1, LooseFromUp
<1>6. Deals(n, K, down, share)
  BY <1>1, <1>2, <1>3, <1>4, <1>5 DEF Deals
<1>7. Move(n, K, share) /\ BossFrame(n)
  BY <1>1, <1>6, DealsMove
<1>8. down'[n] = down[n]
  BY <1>1, <1>2, <1>3 DEF DealtTo
<1>9. SpeaksUp(n, msgs)
  <2>1. Total(Mine(numTasks, n)') + announced'[n]
         = Total(Mine(numTasks, n)) + announced[n] + OwedIn(msgs)
    <3> DEFINE a == Total(Mine(numTasks, n)')
               b == Total(Mine(numTasks, n))
               c == announced'[n]
               d == announced[n]
               o == OwedIn(msgs)
               l == Len(K)
    <3>1. a = b + l
      BY <1>1, <1>3, DealtTotals
    <3>2. c + l = d + o
      BY DEF Splits
    <3>3. b \in Int /\ d \in Int /\ o \in Int /\ l \in Nat /\ c \in Int
      <4>1. b \in Int
        BY <1>1, <1>2, MineTotal
      <4>2. d \in Int /\ c \in Int
        BY <1>1, <1>2, <1>3 DEF BossType, OwnBooks
      <4>3. o \in Int
        BY <1>3, OwedConcat
      <4>4. l \in Nat
        BY <1>3
      <4> QED BY <4>1, <4>2, <4>3, <4>4
    <3> HIDE DEF a, b, c, d, o, l
    <3>4. a + c = b + d + o
      BY <3>1, <3>2, <3>3
    <3> QED BY <3>4 DEF a, b, c, d, o
  <2>2. \A i \in DOMAIN msgs : Says1(n, msgs[i])
    BY DEF Splits
  <2>3. Sent(up[n]) \cap Sent(msgs) = {}
    <3>1. Sent(up[e]) \cap Sent(up[n]) = {}
      BY <1>1, <1>2, QueuesApartNow
    <3> QED BY <1>1, <1>3, <3>1
  <2>4. View(cache[n], up'[n], idle[n], read[n], numIdle'[n], last'[n])
    BY DEF Splits
  <2> QED BY <1>3, <1>4, <1>8, <2>1, <2>2, <2>3, <2>4 DEF SpeaksUp
<1>10. /\ Edge(n)' /\ Upward(n) /\ Sent(up'[n]) = Sent(up[n]) \cup Sent(msgs)
       /\ Sent(down'[n]) = Sent(down[n])
  BY <1>1, <1>7, <1>9, SpeaksEdge
<1>11. Arrives' /\ \A y \in Nodes : \A t \in Sent(up'[y]) : \E z \in Nodes : t \in Sent(up[z])
  <2>1. Range(up[n]) \subseteq Range(up'[n])
    <3>1. \A a, b \in Seq(Messages) : Range(a) \subseteq Range(a \o b)
      BY RangeConcat
    <3> QED BY <1>1, <1>2, <1>3, <1>4, <3>1
  <2>2. \A t \in Sent(msgs) : \E z \in Nodes : t \in Sent(up[z])
    BY <1>1, <1>3
  <2>3. Upholds(n, down, Sent(msgs))
    BY <1>3, <1>10, <2>1, <2>2 DEF Upholds
  <2>4. n \in Present
    BY <1>1
  <2> QED BY <1>6, <2>3, <2>4, DealsGoOn
<1>12. Apart(Layout(Nodes))' /\ Everywhere(Layout(Nodes))' = Everywhere(Layout(Nodes))
  <2> DEFINE from == <<"up", e>>
             G == Sent(msgs)
  <2>1. Lies(from) = Sent(up[e]) /\ Lies(from)' = Sent(up'[e])
    BY LiesAt
  <2>2. Range(K) \cap G = {} /\ Range(K) \cup G = Range(ts)
    BY <1>3
  <2>3. \A x \in Of(n) : <<"up", x>> # from => Sent(up'[x]) = Sent(up[x])
    BY <1>2, <1>4
  <2>4. n # Server /\ Sent(up'[n]) = Sent(up[n]) \cup G /\ Sent(down'[n]) = Sent(down[n])
    BY <1>1, <1>10
  <2>5. /\ Range(K) \cup G \subseteq Lies(from)
        /\ Lies(from)' = Lies(from) \ (Range(K) \cup G)
    <3>1. Sent(up'[e]) = Sent(Tail(up[e]))
      BY <1>4
    <3>2. \A A, B, C : A = B \cup C /\ B \cap C = {} => B \subseteq A /\ C = A \ B
      OBVIOUS
    <3>3. Range(ts) \subseteq Sent(up[e]) /\ Sent(up'[e]) = Sent(up[e]) \ Range(ts)
      BY <1>1, <3>1, <3>2
    <3> HIDE DEF from, G
    <3> QED BY <2>1, <2>2, <3>3
  <2> HIDE DEF G
  <2>6. Leaves(n, K, from, G)
    BY <2>2, <2>3, <2>4, <2>5 DEF Leaves
  <2> QED BY <1>1, <1>7, <2>6, MovePlaced
<1>13. IInv' /\ Born' = Born \cup {}
  <2>1. {} \in SUBSET Roots /\ done' \subseteq Roots \cap finished /\ submitted' = submitted \cup {}
        /\ Everywhere(Layout(Nodes))' = Everywhere(Layout(Nodes)) \cup {}
    BY <1>2, <1>3, <1>12
  <2> QED BY <1>1, <1>7, <1>10, <1>11, <1>12, <2>1, MoveKeeps
<1> QED BY <1>13

\* Messages that carry the tasks G and owe k.
Speech(p, G, k) ==
    p \in Seq(Messages) /\ Sent(p) = G /\ OnceEach(p) /\ OwedIn(p) = k /\ k \in Int

\* Two in a row, and those of one message.
LEMMA Speeches ==
    /\ \A p, q, G, H, k, j, M, l :
          Speech(p, G, k) /\ Speech(q, H, j) /\ G \cap H = {} /\ M = G \cup H /\ l = k + j =>
             Speech(p \o q, M, l) /\ Range(p \o q) = Range(p) \cup Range(q)
    /\ Speech(<<>>, {}, 0) /\ Range(<<>>) = {}
    /\ \A m : Range(<<m>>) = {m}
    /\ \A k \in Int : Speech(<<Update(k)>>, {}, k)
    /\ \A i \in Nat, r \in Tasks \cup {None} : Speech(<<Waiting(i, r)>>, {}, 0)
    /\ \A g \in Seq(Tasks) : g # <<>> /\ NoRepeat(g) => Speech(<<Batch(g)>>, Range(g), 0)
<1>1. ASSUME NEW p, NEW q, NEW G, NEW H, NEW k, NEW j, NEW M, NEW l,
             Speech(p, G, k), Speech(q, H, j), G \cap H = {}, M = G \cup H, l = k + j
      PROVE  Speech(p \o q, M, l) /\ Range(p \o q) = Range(p) \cup Range(q)
  <2>1. p \in Seq(Messages) /\ q \in Seq(Messages) /\ k \in Int /\ j \in Int
    BY <1>1 DEF Speech
  <2>2. /\ p \o q \in Seq(Messages) /\ Sent(p \o q) = G \cup H /\ OnceEach(p \o q)
    BY <1>1, <2>1, SentConcat DEF Speech
  <2>3. OwedIn(p \o q) = k + j
    BY <1>1, <2>1, OwedConcat DEF Speech
  <2>4. Range(p \o q) = Range(p) \cup Range(q)
    BY <2>1, RangeConcat
  <2>5. k + j \in Int
    BY <2>1
  <2> QED BY <1>1, <2>2, <2>3, <2>4, <2>5 DEF Speech
<1>2. Speech(<<>>, {}, 0) /\ Range(<<>>) = {}
  BY SentFew, OwedTail, RangeType DEF Speech
<1>3. \A m : Range(<<m>>) = {m}
  BY DEF Range
<1>4. ASSUME NEW k \in Int PROVE Speech(<<Update(k)>>, {}, k)
  <2>1. Update(k) \in Messages /\ Update(k).type = "UPDATE" /\ Update(k).n = k
    BY MessagesMade DEF Update
  <2>2. Owes(Update(k)) = k
    BY <2>1 DEF Owes
  <2> QED BY <2>1, <2>2, SayingOne DEF Speech
<1>5. ASSUME NEW i \in Nat, NEW r \in Tasks \cup {None} PROVE Speech(<<Waiting(i, r)>>, {}, 0)
  <2>1. Waiting(i, r) \in Messages /\ Waiting(i, r).type = "WAITING"
    BY MessagesMade DEF Waiting
  <2>2. Owes(Waiting(i, r)) = 0 /\ SentBy(Waiting(i, r)) = {}
    BY <2>1, Carried DEF Owes
  <2> QED BY <2>1, <2>2, SentFew, OwedTail DEF Speech
<1>6. ASSUME NEW g \in Seq(Tasks), g # <<>>, NoRepeat(g) PROVE Speech(<<Batch(g)>>, Range(g), 0)
  <2>1. Batch(g) \in Messages /\ Batch(g).type = "SUBMIT_BATCH" /\ Batch(g).tasks = g
    BY <1>6, MessagesMade DEF Batch
  <2>2. Owes(Batch(g)) = 0 /\ SentBy(Batch(g)) = Range(g)
    BY <2>1, Carried DEF Owes
  <2> QED BY <1>6, <2>1, <2>2, SentFew, OwedTail DEF Speech
<1>7. \A p, q, G, H, k, j, M, l :
         Speech(p, G, k) /\ Speech(q, H, j) /\ G \cap H = {} /\ M = G \cup H /\ l = k + j =>
            Speech(p \o q, M, l) /\ Range(p \o q) = Range(p) \cup Range(q)
  BY <1>1
<1>8. \A k \in Int : Speech(<<Update(k)>>, {}, k)
  BY <1>4
<1>9. \A i \in Nat, r \in Tasks \cup {None} : Speech(<<Waiting(i, r)>>, {}, 0)
  BY <1>5
<1>10. \A g \in Seq(Tasks) : g # <<>> /\ NoRepeat(g) => Speech(<<Batch(g)>>, Range(g), 0)
  BY <1>6
<1> QED BY <1>2, <1>3, <1>7, <1>8, <1>9, <1>10

\* The tasks that stay and those that go up.
LEMMA KeptAndGoing ==
    ASSUME NEW n, NEW k \in Nat, k = numIdle[n], NEW ts \in Seq(Tasks), NoRepeat(ts)
    PROVE  /\ Kept(n, ts) \in Seq(Tasks) /\ NoRepeat(Kept(n, ts))
           /\ Range(Kept(n, ts)) \subseteq Range(ts)
           /\ Len(Kept(n, ts)) = Capped(k, 0, Len(ts)) /\ Len(Kept(n, ts)) \in Nat
           /\ Len(ts) <= k => Range(Kept(n, ts)) = Range(ts)
           /\ Len(ts) > k => /\ Going(n, ts) \in Seq(Tasks) /\ NoRepeat(Going(n, ts))
                             /\ Going(n, ts) # <<>>
                             /\ Range(Kept(n, ts)) \cup Range(Going(n, ts)) = Range(ts)
                             /\ Range(Kept(n, ts)) \cap Range(Going(n, ts)) = {}
<1>1. Len(ts) \in Nat
  OBVIOUS
<1>2. CASE Len(ts) <= k
  <2>1. Capped(k, 0, Len(ts)) = Len(ts)
    BY <1>1, <1>2 DEF Capped
  <2>2. SubSeq(ts, 1, Len(ts)) = ts
    OBVIOUS
  <2>3. Kept(n, ts) = ts
    BY <2>1, <2>2 DEF Kept
  <2> QED BY <1>1, <1>2, <2>1, <2>3
<1>3. CASE Len(ts) > k
  <2>1. Capped(k, 0, Len(ts)) = k /\ k \in 0..Len(ts)
    BY <1>1, <1>3 DEF Capped
  <2>2. Kept(n, ts) = SubSeq(ts, 1, k) /\ Going(n, ts) = SubSeq(ts, k + 1, Len(ts))
    BY <2>1 DEF Kept, Going
  <2>3. /\ Kept(n, ts) \in Seq(Tasks) /\ Going(n, ts) \in Seq(Tasks)
        /\ Range(Kept(n, ts)) \cup Range(Going(n, ts)) = Range(ts)
        /\ NoRepeat(Kept(n, ts)) /\ NoRepeat(Going(n, ts))
        /\ Range(Kept(n, ts)) \cap Range(Going(n, ts)) = {}
    BY <2>1, <2>2, RangeCut
  <2>4. Len(SubSeq(ts, 1, k)) = k /\ Len(SubSeq(ts, k + 1, Len(ts))) = Len(ts) - k
    BY <1>1, <1>3, <2>1
  <2>5. Going(n, ts) # <<>>
    <3>1. Len(Going(n, ts)) = Len(ts) - k /\ Len(ts) - k > 0
      BY <1>1, <1>3, <2>2, <2>4
    <3>2. Len(<<>>) = 0
      OBVIOUS
    <3> QED BY <3>1, <3>2
  <2>6. Len(Kept(n, ts)) = k /\ k \in Nat
    BY <2>2, <2>4
  <2>7. ~(Len(ts) <= k)
    BY <1>1, <1>3
  <2>8. Range(Kept(n, ts)) \subseteq Range(ts)
    BY <2>3
  <2> QED BY <2>1, <2>3, <2>5, <2>6, <2>7, <2>8
<1> QED BY <1>1, <1>2, <1>3

----------------------------------------------------------------------------
(* A manager that handles a report of an employee.                         *)

\* What a manager knows of its boss's view of it.
LEMMA OwnView ==
    ASSUME IInv, NEW n \in Present \ {Server}
    PROVE  /\ View(cache[n], up[n], idle[n], read[n], numIdle[n], last[n])
           /\ After(cache[n], read[n]) \in Nat
           /\ read[n] \in Tasks \cup {None} /\ last[n] \in Nat /\ numIdle[n] \in Nat /\ announced[n] \in Int
           /\ up[n] \in Seq(Messages) /\ numIdle[n] <= Size[n] /\ Size[n] \in Nat
<1>1. /\ system \in Systems /\ n \in Employed /\ n \in Nodes /\ n \notin Workers /\ n \in Present
      /\ Edge(n) /\ BossType
  BY NodeKinds DEF IInv
<1>2. /\ cache[n] \in Seq(Entries) /\ up[n] \in Seq(Messages) /\ down[n] \in Seq(Messages)
      /\ read[n] \in Tasks \cup {None} /\ last[n] \in Nat /\ numIdle[n] \in Nat /\ announced[n] \in Int
  BY <1>1 DEF IInv, BossType, CrewInv, CrewType
<1>3. View(cache[n], up[n], idle[n], read[n], numIdle[n], last[n]) /\ Distinct(cache[n])
  BY <1>1 DEF Edge, IdleView
<1>4. Pointed(cache[n], up[n], read[n])
  <2>1. Marks(cache[n], up[n], down[n], read[n], Busy(n)) /\ Busy(n) \in BOOLEAN
    BY <1>1 DEF Edge, Cached, ReadBy, Busy
  <2> QED BY <1>2, <2>1, MarksPoint
<1>5. After(cache[n], read[n]) \in Nat
  BY <1>2, <1>3, <1>4, AfterType
<1>6. numIdle[n] <= Size[n] /\ Size[n] \in Nat
  <2>1. numIdle[n] = Total(Mine(idle, n)) /\ Mine(idle, n) \in [Of(n) -> Nat]
    BY <1>1, MineTotal DEF IInv, IdleSums
  <2>2. \A x \in Of(n) : Mine(idle, n)[x] <= Size[x]
    BY <1>1, NodeKinds DEF Mine, IInv, Edge
  <2> QED BY <1>1, <2>1, <2>2, TotalIdle
<1> QED BY <1>2, <1>3, <1>5, <1>6

\* The position of a message among others.
LEMMA Among ==
    \A q : \A i \in DOMAIN q : q[i] \in Range(q)
BY DEF Range

\* A manager tells its boss that it counts k idle workers, unless it has.
LEMMA TellsIdle ==
    ASSUME IInv, NEW n \in Present \ {Server}, NEW k \in Nat,
           NEW p \in Seq(Messages),
           k = last[n] => \A m \in Range(p) : m.type # "WAITING",
           k # last[n] => Waiting(k, read[n]) \in Range(p),
           \A m \in Range(p) : m.type = "WAITING" => m = Waiting(k, read[n])
    PROVE  View(cache[n], up[n] \o p, idle[n], read[n], k, k)
<1>1. /\ View(cache[n], up[n], idle[n], read[n], numIdle[n], last[n])
      /\ After(cache[n], read[n]) \in Nat /\ up[n] \in Seq(Messages)
      /\ last[n] \in Nat /\ numIdle[n] \in Nat
  BY OwnView
<1>2. CASE k = last[n]
  <2>1. Reports(p) = {}
    BY <1>2, Among DEF Reports
  <2>2. k >= last[n]
    BY <1>1, <1>2
  <2>3. View(cache[n], up[n], idle[n], read[n], k, k)
    BY <1>1, <2>2, ViewMore
  <2> QED BY <1>1, <2>1, <2>3, ViewQuiet
<1>3. CASE k # last[n]
  <2>1. \A i \in Reports(p) : p[i] = Waiting(k, read[n])
    BY Among DEF Reports
  <2>2. \A i \in Reports(p) : p[i].idle = k /\ p[i].receipt = read[n]
    BY <2>1 DEF Waiting
  <2>3. Reports(p) # {}
    <3>1. PICK i \in DOMAIN p : p[i] = Waiting(k, read[n])
      BY <1>3 DEF Range
    <3>2. i \in Reports(p)
      BY <3>1 DEF Reports, Waiting
    <3> QED BY <3>2
  <2> QED BY <1>1, <2>2, <2>3, ViewReport
<1> QED BY <1>2, <1>3

\* The tasks go up that the manager has no idle workers for.
Rest(n, ts) == IF Len(ts) > numIdle[n] THEN <<Batch(Going(n, ts))>> ELSE <<>>

\* What goes up carries the tasks that do not stay.
LEMMA RestGoes ==
    ASSUME NEW n, numIdle[n] \in Nat, NEW ts \in Seq(Tasks), NoRepeat(ts)
    PROVE  /\ Speech(Rest(n, ts), Sent(Rest(n, ts)), 0)
           /\ Range(Kept(n, ts)) \cap Sent(Rest(n, ts)) = {}
           /\ Range(Kept(n, ts)) \cup Sent(Rest(n, ts)) = Range(ts)
           /\ \A m \in Range(Rest(n, ts)) : m.type = "SUBMIT_BATCH"
           /\ Kept(n, ts) \in Seq(Tasks) /\ NoRepeat(Kept(n, ts)) /\ Len(Kept(n, ts)) \in Nat
<1> DEFINE k == numIdle[n]
           K == Kept(n, ts)
           g == Going(n, ts)
<1>1. /\ K \in Seq(Tasks) /\ NoRepeat(K) /\ Len(K) \in Nat
      /\ Len(ts) <= k => Range(K) = Range(ts)
      /\ Len(ts) > k => /\ g \in Seq(Tasks) /\ NoRepeat(g) /\ g # <<>>
                        /\ Range(K) \cup Range(g) = Range(ts) /\ Range(K) \cap Range(g) = {}
  BY KeptAndGoing
<1>2. CASE Len(ts) > k
  <2>1. Rest(n, ts) = <<Batch(g)>>
    BY <1>2 DEF Rest
  <2>2. Speech(<<Batch(g)>>, Range(g), 0) /\ Range(<<Batch(g)>>) = {Batch(g)}
    BY <1>1, <1>2, Speeches
  <2>3. Batch(g).type = "SUBMIT_BATCH"
    BY DEF Batch
  <2> HIDE DEF g, K
  <2>4. Sent(<<Batch(g)>>) = Range(g)
    BY <2>2 DEF Speech
  <2> QED BY <1>1, <1>2, <2>1, <2>2, <2>3, <2>4 DEF K
<1>3. CASE ~(Len(ts) > k)
  <2>1. Rest(n, ts) = <<>>
    BY <1>3 DEF Rest
  <2>2. Len(ts) <= k
    BY <1>3
  <2>3. Speech(<<>>, {}, 0) /\ Range(<<>>) = {} /\ Sent(<<>>) = {}
    BY Speeches DEF Speech
  <2> HIDE DEF g, K
  <2> QED BY <1>1, <2>1, <2>2, <2>3 DEF K
<1> QED BY <1>2, <1>3

\* With idle workers, the manager deals what it can and sends the rest up.
LEMMA SendUpSplits ==
    ASSUME IInv, NEW n \in Managers, NEW e \in Employed, SendUpOrSchedule(n, e), numIdle[n] # 0
    PROVE  \E K, share, msgs : Splits(n, e, K, share, msgs)
<1> DEFINE ts == Head(up[e]).tasks
           K  == Kept(n, ts)
           A  == <<Update(numIdle[n])>>
           B  == IdleReport(n, numIdle'[n], read[n])
           C  == Rest(n, ts)
           ms == (A \o B) \o C
<1>1. /\ up[e] # <<>> /\ Head(up[e]).type = "SUBMIT_BATCH" /\ n = Boss(e) /\ error = "none"
      /\ ScheduleOn(n, K, down)
      /\ up' = [Taken(up, e) EXCEPT ![n] = @ \o ms]
      /\ last' = [last EXCEPT ![n] = numIdle'[n]]
      /\ announced' = [announced EXCEPT ![n] = @ + numIdle[n] - Len(K)]
      /\ UNCHANGED <<system, read, error, submitted, done, worker, tree>>
  BY DEF SendUpOrSchedule, FromBelow, Rest
<1>2. /\ n \in Present \ {Server} /\ n \in Present /\ n # Server /\ n \in Nodes /\ n \in Employed
      /\ e \in Of(n) /\ e \in Nodes /\ e # n
      /\ ts \in Seq(Tasks) /\ ts # <<>> /\ NoRepeat(ts)
  <2>1. n # Server
    BY NodesAssumption DEF Nodes
  <2> QED BY <1>1, <2>1, Hears
<1>3. /\ up \in [Nodes -> Seq(Messages)] /\ down \in [Nodes -> Seq(Messages)] /\ BossType
  BY DEF IInv, CrewInv, CrewType
<1>4. /\ read[n] \in Tasks \cup {None} /\ last[n] \in Nat /\ numIdle[n] \in Nat /\ announced[n] \in Int
      /\ numIdle[n] <= Size[n] /\ Size[n] \in Nat
  BY <1>2, OwnView
<1> HIDE DEF ts
<1>5. /\ Speech(C, Sent(C), 0) /\ Range(K) \cap Sent(C) = {} /\ Range(K) \cup Sent(C) = Range(ts)
      /\ \A m \in Range(C) : m.type = "SUBMIT_BATCH"
      /\ K \in Seq(Tasks) /\ NoRepeat(K) /\ Len(K) \in Nat
  BY <1>2, <1>4, RestGoes
<1> HIDE DEF K
<1>6. PICK share : DealtTo(n, K, down, share)
  BY <1>1, <1>2, <1>3, <1>5, ScheduleEffect
<1>7. numIdle'[n] \in Nat /\ numIdle'[n] <= numIdle[n]
  BY <1>1, <1>2, <1>5, <1>6, DealtTotals
<1> DEFINE c == numIdle'[n]
<1>8. /\ Speech(B, {}, 0)
      /\ IF c = last[n] THEN Range(B) = {} ELSE Range(B) = {Waiting(c, read[n])}
  BY <1>4, <1>7, Speeches DEF IdleReport
<1>9. Speech(A, {}, numIdle[n]) /\ Range(A) = {Update(numIdle[n])}
  BY <1>4, Speeches
<1> HIDE DEF A, B, C, c
<1>10. /\ Speech(ms, Sent(C), numIdle[n])
       /\ Range(ms) = Range(A) \cup Range(B) \cup Range(C)
  <2>1. {} \cup {} = {} /\ numIdle[n] + 0 = numIdle[n] /\ {} \cap Sent(C) = {} /\ {} \cup Sent(C) = Sent(C)
        /\ {} \cap {} = {}
    BY <1>4
  <2>2. Speech(A \o B, {}, numIdle[n]) /\ Range(A \o B) = Range(A) \cup Range(B)
    BY <1>8, <1>9, <2>1, Speeches
  <2>3. PICK S, D : S = Sent(C) /\ D = A \o B
    OBVIOUS
  <2>4. Speech(D, {}, numIdle[n]) /\ Speech(C, S, 0) /\ {} \cap S = {} /\ S = {} \cup S
    BY <1>5, <2>2, <2>3
  <2>5. Speech(D \o C, S, numIdle[n]) /\ Range(D \o C) = Range(D) \cup Range(C)
    BY <2>1, <2>4, Speeches
  <2>6. Speech(ms, Sent(C), numIdle[n]) /\ Range(ms) = Range(A \o B) \cup Range(C)
    BY <2>3, <2>5
  <2> QED BY <2>2, <2>6
<1> HIDE DEF ms
<1>11. \A m \in Range(ms) : /\ m.type \in {"UPDATE", "WAITING", "SUBMIT_BATCH"}
                            /\ m.type = "WAITING" => c # last[n] /\ m = Waiting(c, read[n])
  <2>1. Update(numIdle[n]).type = "UPDATE" /\ Waiting(c, read[n]).type = "WAITING"
    BY DEF Update, Waiting
  <2> QED BY <1>5, <1>8, <1>9, <1>10, <2>1
<1>12. ms \in Seq(Messages) /\ OnceEach(ms) /\ Sent(ms) = Sent(C) /\ OwedIn(ms) = numIdle[n]
  BY <1>10 DEF Speech
<1>13. \A i \in DOMAIN ms : ms[i].type # "RESULT" /\ Says1(n, ms[i])
  <2> SUFFICES ASSUME NEW i \in DOMAIN ms PROVE ms[i].type # "RESULT" /\ Says1(n, ms[i])
    OBVIOUS
  <2>1. ms[i] \in Range(ms)
    BY Among
  <2>2. ms[i].type \in {"UPDATE", "WAITING", "SUBMIT_BATCH"}
    BY <1>11, <2>1
  <2>3. ms[i].type = "WAITING" => ms[i] = Waiting(c, read[n])
    BY <1>11, <2>1
  <2>4. Waiting(c, read[n]).idle = c /\ Waiting(c, read[n]).receipt = read[n]
    BY DEF Waiting
  <2>5. c <= Size[n]
    BY <1>4, <1>7 DEF c
  <2> QED BY <2>2, <2>3, <2>4, <2>5 DEF Says1
<1>14. /\ up' = [up EXCEPT ![e] = Tail(up[e]), ![n] = up[n] \o ms]
       /\ up'[n] = up[n] \o ms
  <2>1. Tail(up[e]) \in Seq(Messages)
    BY <1>1, <1>2, <1>3
  <2> QED BY <1>1, <1>2, <1>3, <2>1 DEF Taken
<1>15. View(cache[n], up'[n], idle[n], read[n], numIdle'[n], last'[n])
  <2>1. c \in Nat
    BY <1>7 DEF c
  <2>2. c = last[n] => \A m \in Range(ms) : m.type # "WAITING"
    BY <1>11
  <2>3. c # last[n] => Waiting(c, read[n]) \in Range(ms)
    BY <1>8, <1>10
  <2>4. \A m \in Range(ms) : m.type = "WAITING" => m = Waiting(c, read[n])
    BY <1>11
  <2>5. View(cache[n], up[n] \o ms, idle[n], read[n], c, c)
    BY <1>2, <1>12, <2>1, <2>2, <2>3, <2>4, TellsIdle
  <2>6. last'[n] = c
    BY <1>1, <1>2, <1>3 DEF c, BossType
  <2> QED BY <1>14, <2>5, <2>6 DEF c
<1>16. OwnBooks(n) /\ announced'[n] + Len(K) = announced[n] + OwedIn(ms)
  <2>1. announced'[n] = announced[n] + numIdle[n] - Len(K)
    BY <1>1, <1>2, <1>3 DEF BossType
  <2>2. announced'[n] + Len(K) = announced[n] + OwedIn(ms)
    BY <1>4, <1>5, <1>12, <2>1
  <2>3. announced[n] + numIdle[n] - Len(K) \in Int
    BY <1>4, <1>5
  <2>4. OwnBooks(n)
    BY <1>1, <1>2, <1>3, <1>7, <2>3 DEF OwnBooks, BossType
  <2> QED BY <2>2, <2>4
<1>17. Splits(n, e, K, share, ms)
  BY <1>1, <1>5, <1>6, <1>12, <1>13, <1>14, <1>15, <1>16 DEF Splits, ts
<1> QED BY <1>17

\* Without, all goes up.
LEMMA AllGoesUp ==
    ASSUME IInv, NEW n \in Managers, NEW e \in Employed, SendUpOrSchedule(n, e), numIdle[n] = 0
    PROVE  \E K, share, msgs : Splits(n, e, K, share, msgs)
<1> DEFINE ts == Head(up[e]).tasks
           C  == Rest(n, ts)
<1>1. /\ up[e] # <<>> /\ Head(up[e]).type = "SUBMIT_BATCH" /\ n = Boss(e) /\ error = "none"
      /\ up' = [Taken(up, e) EXCEPT ![n] = @ \o C]
      /\ UNCHANGED <<system, numTasks, idle, cache, numIdle, last, announced, down, read, error,
                     submitted, done, worker, tree>>
  BY DEF SendUpOrSchedule, FromBelow, Rest, employee
<1>2. /\ n \in Present \ {Server} /\ n \in Present /\ n # Server /\ n \in Nodes /\ n \in Employed
      /\ e \in Of(n) /\ e \in Nodes /\ e # n
      /\ ts \in Seq(Tasks) /\ ts # <<>> /\ NoRepeat(ts)
  <2>1. n # Server
    BY NodesAssumption DEF Nodes
  <2> QED BY <1>1, <2>1, Hears
<1>3. /\ up \in [Nodes -> Seq(Messages)] /\ down \in [Nodes -> Seq(Messages)] /\ BossType
      /\ system \in Systems /\ Of(n) \subseteq Employed /\ Of(n) \subseteq Nodes
  BY <1>2, NodeKinds, TreeType DEF IInv, CrewInv, CrewType
<1>4. /\ View(cache[n], up[n], idle[n], read[n], numIdle[n], last[n])
      /\ announced[n] \in Int /\ up[n] \in Seq(Messages)
  BY <1>2, OwnView
<1> HIDE DEF ts
<1>5. /\ Speech(C, Sent(C), 0) /\ Range(Kept(n, ts)) \cup Sent(C) = Range(ts)
      /\ \A m \in Range(C) : m.type = "SUBMIT_BATCH"
  BY <1>2, RestGoes
<1>6. Range(Kept(n, ts)) = {}
  <2>1. Len(Kept(n, ts)) = Capped(0, 0, Len(ts)) /\ Kept(n, ts) \in Seq(Tasks)
    BY <1>2, KeptAndGoing
  <2>2. Capped(0, 0, Len(ts)) = 0
    BY <1>2 DEF Capped
  <2>3. Kept(n, ts) = <<>>
    BY <2>1, <2>2
  <2> QED BY <2>3, RangeType
<1> HIDE DEF C
<1>7. DealtTo(n, <<>>, down, NoShare(n))
  <2>1. Dealt(<<>>, NoShare(n), Of(n))
    BY NothingDealt
  <2>2. ASSUME NEW x \in Of(n)
        PROVE  /\ down'[x] = Given(down[x], NoShare(n)[x])
               /\ numTasks'[x] = numTasks[x] + Len(NoShare(n)[x])
               /\ idle'[x] = Capped(idle[x] - Len(NoShare(n)[x]), 0, idle[x])
               /\ NoShare(n)[x] = <<>> /\ cache'[x] = cache[x]
    <3>1. NoShare(n)[x] = <<>> /\ Len(<<>>) = 0
      BY DEF NoShare
    <3>2. numTasks[x] \in Int /\ idle[x] \in Nat
      BY <1>3 DEF BossType
    <3>3. Capped(idle[x] - 0, 0, idle[x]) = idle[x] /\ numTasks[x] + 0 = numTasks[x]
      BY <3>2 DEF Capped
    <3>4. down'[x] = Given(down[x], <<>>)
      BY <1>1 DEF Given
    <3> QED BY <1>1, <3>1, <3>3, <3>4
  <2>3. Mine(idle, n)' = Mine(idle, n) /\ numIdle[n] = Total(Mine(idle, n))
    BY <1>1, <1>2, TreeSame DEF Mine, IInv, IdleSums
  <2>4. numIdle'[n] = Total(Mine(idle, n)')
    BY <1>1, <2>3
  <2>5. /\ down' \in [Nodes -> Seq(Messages)]
        /\ numTasks' \in [Employed -> Int] /\ idle' \in [Employed -> Nat]
        /\ cache' \in [Employed -> Seq(Entries)] /\ numIdle' \in [Present -> Nat]
    BY <1>1, <1>3 DEF BossType
  <2> QED BY <1>1, <2>1, <2>2, <2>4, <2>5 DEF DealtTo
<1>8. C \in Seq(Messages) /\ OnceEach(C) /\ OwedIn(C) = 0
  BY <1>5 DEF Speech
<1>9. \A i \in DOMAIN C : C[i].type # "RESULT" /\ Says1(n, C[i]) /\ C[i].type # "WAITING"
  BY <1>5, Among DEF Says1
<1>10. /\ up' = [up EXCEPT ![e] = Tail(up[e]), ![n] = up[n] \o C]
       /\ up'[n] = up[n] \o C
  <2>1. Tail(up[e]) \in Seq(Messages)
    BY <1>1, <1>2, <1>3
  <2> QED BY <1>1, <1>2, <1>3, <2>1 DEF Taken
<1>11. View(cache[n], up'[n], idle[n], read[n], numIdle'[n], last'[n])
  <2>1. Reports(C) = {}
    BY <1>9 DEF Reports
  <2>2. PICK nn, ll : nn = numIdle[n] /\ ll = last[n]
    OBVIOUS
  <2>3. View(cache[n], up[n] \o C, idle[n], read[n], nn, ll)
    BY <1>4, <1>8, <2>1, <2>2, ViewQuiet
  <2> QED BY <1>1, <1>10, <2>2, <2>3
<1>12. OwnBooks(n) /\ announced'[n] + Len(<<>>) = announced[n] + OwedIn(C)
  BY <1>1, <1>2, <1>3, <1>4, <1>8 DEF OwnBooks, BossType
<1>13. Range(<<>>) \cap Sent(C) = {} /\ Range(<<>>) \cup Sent(C) = Range(ts) /\ <<>> \in Seq(Tasks)
       /\ NoRepeat(<<>>)
  BY <1>5, <1>6, RangeType
<1>14. Splits(n, e, <<>>, NoShare(n), C)
  BY <1>1, <1>7, <1>8, <1>9, <1>10, <1>11, <1>12, <1>13 DEF Splits, ts
<1> QED BY <1>14

\* The invariant through send_up_or_schedule_tasks.
LEMMA SendUpKeeps ==
    ASSUME IInv, NEW n \in Managers, NEW e \in Employed, SendUpOrSchedule(n, e)
    PROVE  IInv' /\ Born' = Born
<1>1. up[e] # <<>> /\ Head(up[e]).type = "SUBMIT_BATCH" /\ n = Boss(e)
  BY DEF SendUpOrSchedule, FromBelow
<1>2. PICK K, share, msgs : Splits(n, e, K, share, msgs)
  BY SendUpSplits, AllGoesUp
<1> QED BY <1>1, <1>2, SplitsKeeps

----------------------------------------------------------------------------
(* What a server or manager makes of an idle count.                        *)

\* The cache of e is cut to x, and e counts as count idle workers.
Settles1(e, x, count) ==
    /\ x \in Seq(Entries) /\ Range(x) \subseteq Range(cache[e]) /\ Distinct(x)
    /\ Marks(x, Tail(up[e]), down[e], ReadBy(e), Busy(e))
    /\ count \in Nat /\ count <= Size[e]
    /\ IF e \in Workers THEN IdleRight(count, Tail(up[e]), down[e], receipt[e], batch[e] # None)
       ELSE View(x, Tail(up[e]), count, read[e], numIdle[e], last[e])

\* The read receipt is found, and what was sent since is taken off.
LEMMA WaitingFound ==
    ASSUME IInv, NEW e \in Employed, up[e] # <<>>, Head(up[e]).type = "WAITING"
    PROVE  /\ Found(cache[e], Head(up[e]).receipt)
           /\ Settles1(e, CutCache(cache[e], Head(up[e]).receipt), IdleNow(e))
<1> DEFINE k == Head(up[e]).receipt
           x == CutCache(cache[e], k)
           i == Head(up[e]).idle
<1>1. /\ e \in Nodes /\ Edge(e) /\ up[e] \in Seq(Messages) /\ down[e] \in Seq(Messages)
      /\ cache[e] \in Seq(Entries) /\ idle[e] \in Nat
      /\ Head(up[e]) \in Messages /\ UpRoute(e, Head(up[e])) /\ Size[e] \in Nat
      /\ Head(up[e]) \in Range(up[e]) /\ Range(Tail(up[e])) \subseteq Range(up[e])
      /\ Tail(up[e]) \in Seq(Messages)
  <2>1. e \in Nodes /\ Edge(e) /\ e \in Tops
    BY NodeKinds DEF IInv
  <2>2. Size[e] \in Nat
    BY <2>1, SizeType DEF IInv
  <2>3. up[e] \in Seq(Messages) /\ down[e] \in Seq(Messages) /\ cache[e] \in Seq(Entries) /\ idle[e] \in Nat
    BY <2>1 DEF IInv, CrewInv, CrewType, BossType
  <2> QED BY <2>1, <2>2, <2>3, Hears, RangeTail
<1>2. i \in Nat /\ i <= Size[e]
  BY <1>1, Fields DEF UpRoute
<1>3. Answered(cache[e], up[e], down[e], ReadBy(e), Busy(e))
  <2>1. Busy(e) \in BOOLEAN /\ Marks(cache[e], up[e], down[e], ReadBy(e), Busy(e))
    BY <1>1 DEF Busy, Edge, Cached
  <2> QED BY <1>1, <2>1, MarksAnsweredAll
<1>4. /\ Found(cache[e], k) /\ x \in Seq(Entries) /\ Range(x) \subseteq Range(cache[e])
      /\ Marks(x, Tail(up[e]), down[e], ReadBy(e), Busy(e))
      /\ SentSince(x, k) \in Nat
      /\ SentSince(x, k) = 0 =>
            /\ Unread(down[e]) = <<>> /\ ~Busy(e)
            /\ \A j \in DOMAIN Tail(up[e]) :
                  Tail(up[e])[j].type = "WAITING" => Tail(up[e])[j].receipt = ReadBy(e)
      /\ (\A j, l \in DOMAIN cache[e] : j # l => cache[e][j][1] # cache[e][l][1]) =>
            \A j, l \in DOMAIN x : j # l => x[j][1] # x[l][1]
  BY <1>3 DEF Answered
<1>5. Distinct(x)
  BY <1>1, <1>4 DEF Edge, Distinct
<1>6. /\ IdleNow(e) = (IF i - SentSince(x, k) > 0 THEN i - SentSince(x, k) ELSE 0)
      /\ IdleNow(e) = StillIdle(i, x, k)
  BY DEF IdleNow, StillIdle
<1>7. IdleNow(e) \in Nat /\ IdleNow(e) <= Size[e] /\ (IdleNow(e) > 0 /\ i = 1 => SentSince(x, k) = 0)
  <2> DEFINE s == SentSince(x, k)
             c == IdleNow(e)
             z == Size[e]
  <2>1. s \in Nat /\ i \in Nat /\ z \in Nat /\ i <= z /\ c = IF i - s > 0 THEN i - s ELSE 0
    BY <1>1, <1>2, <1>4, <1>6
  <2> HIDE DEF s, c, z, i
  <2>2. c \in Nat /\ c <= z /\ (c > 0 /\ i = 1 => s = 0)
    BY <2>1
  <2> QED BY <2>2 DEF s, c, z
<1>8. CASE e \in Workers
  <2>1. IdleRight(idle[e], up[e], down[e], receipt[e], batch[e] # None)
        /\ Busy(e) = (batch[e] # None) /\ ReadBy(e) = receipt[e]
    BY <1>1, <1>8 DEF Edge, IdleView, Busy, ReadBy
  <2>2. /\ i = 1 /\ \A m \in Range(Tail(up[e])) : m.type = "WAITING" => m.idle = 1
    BY <1>1, <2>1 DEF IdleRight
  <2>3. IdleNow(e) > 0 => /\ Unread(down[e]) = <<>> /\ ~(batch[e] # None)
                          /\ \A m \in Range(Tail(up[e])) : m.type = "WAITING" => m.receipt = receipt[e]
    BY <1>4, <1>7, <2>1, <2>2 DEF Range
  <2>4. IdleRight(IdleNow(e), Tail(up[e]), down[e], receipt[e], batch[e] # None)
    BY <2>2, <2>3 DEF IdleRight
  <2> HIDE DEF x, k
  <2> QED BY <1>4, <1>5, <1>7, <1>8, <2>4 DEF Settles1, x, k
<1>9. CASE e \notin Workers
  <2>1. /\ View(cache[e], up[e], idle[e], read[e], numIdle[e], last[e]) /\ ReadBy(e) = read[e]
        /\ numIdle[e] \in Nat /\ last[e] \in Nat
    BY <1>1, <1>9, NodeKinds DEF Edge, IdleView, ReadBy, IInv, BossType
  <2>2. Pointed(cache[e], up[e], read[e]) /\ Distinct(cache[e])
    <3>1. Busy(e) \in BOOLEAN
      BY DEF Busy
    <3> QED BY <1>1, <2>1, <3>1, MarksPoint DEF Edge, Cached
  <2>3. numIdle[e] \in Int /\ last[e] \in Int
    BY <2>1
  <2>4. View(x, Tail(up[e]), IdleNow(e), read[e], numIdle[e], last[e])
    BY <1>1, <1>6, <2>1, <2>2, <2>3, ViewAnswered
  <2> HIDE DEF x, k
  <2> QED BY <1>4, <1>5, <1>7, <1>9, <2>4 DEF Settles1, x, k
<1> QED BY <1>8, <1>9

\* The report of e has been handled by its boss n, which counts total and has
\* told its boss msgs.
Noted(e, n, x, count, total, msgs) ==
    /\ cache' = [cache EXCEPT ![e] = x] /\ idle' = [idle EXCEPT ![e] = count]
    /\ numIdle' = [numIdle EXCEPT ![n] = total]
    /\ total = numIdle[n] + count - idle[e] /\ error' = "none"
    /\ IF n \in Managers
       THEN /\ up' = [up EXCEPT ![e] = Tail(up[e]), ![n] = up[n] \o msgs]
            /\ last' = [last EXCEPT ![n] = total]
            /\ msgs = IdleReport(n, total, read[n])
       ELSE up' = [up EXCEPT ![e] = Tail(up[e])] /\ UNCHANGED last
    /\ UNCHANGED <<system, numTasks, read, submitted, done, announced, down, worker, tree>>

\* The total of the boss is within bounds.
LEMMA WaitingTotal ==
    ASSUME IInv, NEW e \in Employed, NEW n, n = Boss(e), NEW count \in Nat, count <= Size[e],
           NEW total, total = numIdle[n] + count - idle[e]
    PROVE  /\ total = Total([Mine(idle, n) EXCEPT ![e] = count])
           /\ total \in Nat /\ total <= Size[n] /\ Size[n] \in Nat
<1> DEFINE f == Mine(idle, n)
           g == [f EXCEPT ![e] = count]
<1>1. /\ system \in Systems /\ n \in Present /\ e \in Of(n) /\ Of(n) \subseteq Employed /\ IsFiniteSet(Of(n))
  BY TreeType, NodeKinds DEF IInv
<1>2. numIdle[n] = Total(f) /\ f \in [Of(n) -> Nat] /\ \A x \in Of(n) : f[x] = idle[x]
  BY <1>1, MineTotal DEF IInv, IdleSums, Mine
<1>3. \A x \in Of(n) : f[x] <= Size[x]
  BY <1>1, <1>2 DEF IInv, Edge
<1> HIDE DEF f
<1>4. /\ g \in [Of(n) -> Nat] /\ g[e] = count /\ \A x \in Of(n) \ {e} : f[x] = g[x]
      /\ f \in [Of(n) -> Int] /\ g \in [Of(n) -> Int]
  BY <1>1, <1>2
<1>5. \A x \in Of(n) : g[x] <= Size[x]
  BY <1>3, <1>4
<1> HIDE DEF g
<1>6. Total(g) = Total(f) - f[e] + g[e]
  BY <1>1, <1>4, TotalChange
<1>7. Total(g) <= Size[n] /\ Total(g) \in Nat /\ Size[n] \in Nat
  BY <1>1, <1>4, <1>5, TotalIdle
<1>8. total = Total(g)
  <2>1. numIdle[n] \in Nat /\ idle[e] \in Nat
    BY <1>1 DEF IInv, BossType
  <2>2. total = Total(f) + count - f[e]
    BY <1>1, <1>2
  <2>3. Total(f) \in Int /\ f[e] \in Int
    BY <1>1, <1>2, <2>1
  <2> QED BY <1>4, <1>6, <2>2, <2>3
<1> QED BY <1>7, <1>8 DEF g, f

\* What handle_waiting does.
LEMMA WaitingNoted ==
    ASSUME IInv, NEW e \in Employed, HandleWaiting(e)
    PROVE  /\ up[e] # <<>> /\ Head(up[e]).type = "WAITING"
           /\ \E x, count, total, msgs :
                 Settles1(e, x, count) /\ Noted(e, Boss(e), x, count, total, msgs)
<1> DEFINE n == Boss(e)
           r == Head(up[e]).receipt
           x == CutCache(cache[e], r)
           count == IdleNow(e)
           total == numIdle[n] + count - idle[e]
           msgs == IdleReport(n, total, read[n])
<1>1. up[e] # <<>> /\ Head(up[e]).type = "WAITING" /\ error = "none"
  BY DEF HandleWaiting, FromBelow
<1>2. Found(cache[e], r) /\ Settles1(e, x, count)
  BY <1>1, WaitingFound
<1>3. total \in Nat /\ total <= Size[n] /\ Size[n] \in Nat
  <2>1. count \in Nat /\ count <= Size[e]
    BY <1>2 DEF Settles1
  <2> HIDE DEF count, n
  <2> QED BY <2>1, WaitingTotal DEF n
<1>4. total \in 0..Size[n]
  BY <1>3
<1>5. /\ cache' = [cache EXCEPT ![e] = x] /\ idle' = [idle EXCEPT ![e] = count]
      /\ numIdle' = [numIdle EXCEPT ![n] = total] /\ error' = error
      /\ IF n \in Managers
         THEN up' = [Taken(up, e) EXCEPT ![n] = @ \o msgs] /\ last' = [last EXCEPT ![n] = total]
         ELSE up' = Taken(up, e) /\ UNCHANGED last
      /\ UNCHANGED <<system, numTasks, read, submitted, done, announced, down, worker, tree>>
  BY <1>2, <1>4 DEF HandleWaiting
<1>6. n \in Managers => up' = [up EXCEPT ![e] = Tail(up[e]), ![n] = up[n] \o msgs]
  <2>1. n \in Managers => n \in Nodes /\ n # e /\ e \in Nodes
    BY <1>1, Hears DEF Nodes
  <2>2. up \in [Nodes -> Seq(Messages)]
    BY DEF IInv, CrewInv, CrewType
  <2> HIDE DEF n, msgs
  <2> QED BY <1>5, <2>1, <2>2 DEF Taken
<1>7. Noted(e, n, x, count, total, msgs)
  <2> HIDE DEF n, x, count
  <2> QED BY <1>1, <1>5, <1>6 DEF Noted, Taken
<1> QED BY <1>1, <1>2, <1>7

----------------------------------------------------------------------------
(* The count of an employee changes, at its boss only.                     *)

\* The count changes with the boss of e only.
LEMMA NotedFrame ==
    ASSUME IInv, NEW e \in Employed, NEW n, n = Boss(e), up[e] # <<>>, Head(up[e]).type = "WAITING",
           NEW x, NEW count, NEW total, NEW msgs, Settles1(e, x, count), Noted(e, n, x, count, total, msgs)
    PROVE  /\ BossFrame(n) /\ n \in Present /\ e \in Of(n) /\ e # n /\ e \in Nodes
           /\ up'[e] = Tail(up[e]) /\ down' = down /\ cache'[e] = x /\ idle'[e] = count
           /\ \A y \in Nodes \ {e, n} : up'[y] = up[y]
           /\ numIdle'[n] = Total(Mine(idle, n)')
           /\ Sent(up'[e]) = Sent(up[e]) /\ OwedIn(up'[e]) = OwedIn(up[e])
           /\ n # Server => SpeaksUp(n, msgs) /\ Sent(msgs) = {}
<1>1. /\ system \in Systems /\ n \in Present /\ e \in Of(n) /\ e \in Nodes /\ e # n
      /\ (n # Server => n \in Managers /\ n \in Nodes /\ n \in Employed /\ n \in Present \ {Server})
      /\ (n \in Managers => n # Server)
      /\ Tail(up[e]) \in Seq(Messages)
      /\ Sent(up[e]) = SentBy(Head(up[e])) \cup Sent(Tail(up[e]))
      /\ OwedIn(up[e]) = Owes(Head(up[e])) + OwedIn(Tail(up[e])) /\ OwedIn(Tail(up[e])) \in Int
  BY Hears DEF IInv
<1>2. /\ up \in [Nodes -> Seq(Messages)] /\ down \in [Nodes -> Seq(Messages)] /\ BossType
      /\ Of(n) \subseteq Employed /\ Of(n) \subseteq Nodes
  BY <1>1, NodeKinds DEF IInv, CrewInv, CrewType
<1>3. /\ x \in Seq(Entries) /\ count \in Nat /\ count <= Size[e]
  BY DEF Settles1
<1>4. /\ cache' = [cache EXCEPT ![e] = x] /\ idle' = [idle EXCEPT ![e] = count]
      /\ numIdle' = [numIdle EXCEPT ![n] = total] /\ total = numIdle[n] + count - idle[e]
      /\ UNCHANGED <<system, numTasks, read, submitted, done, announced, down, worker, tree>>
  BY DEF Noted
<1>5. /\ total = Total([Mine(idle, n) EXCEPT ![e] = count])
      /\ total \in Nat /\ total <= Size[n] /\ Size[n] \in Nat
  BY <1>3, <1>4, WaitingTotal
<1>6. Employed' = Employed /\ Present' = Present /\ Of(n)' = Of(n)
  BY <1>4, TreeSame
<1>7. numIdle'[n] = Total(Mine(idle, n)') /\ numIdle'[n] = total
  <2>1. Mine(idle, n)' = [Mine(idle, n) EXCEPT ![e] = count]
    BY <1>1, <1>2, <1>4, <1>6 DEF Mine, BossType
  <2> QED BY <1>1, <1>2, <1>4, <1>5, <2>1 DEF BossType
<1>8. /\ n = Server => up' = [up EXCEPT ![e] = Tail(up[e])] /\ last' = last
      /\ n # Server => /\ up' = [up EXCEPT ![e] = Tail(up[e]), ![n] = up[n] \o msgs]
                       /\ last' = [last EXCEPT ![n] = total]
                       /\ msgs = IdleReport(n, total, read[n])
  BY <1>1 DEF Noted
<1>9. n # Server => /\ Speech(msgs, {}, 0)
                    /\ total = last[n] => msgs = <<>>
                    /\ total # last[n] => Range(msgs) = {Waiting(total, read[n])}
                    /\ Range(msgs) \subseteq {Waiting(total, read[n])}
  <2> SUFFICES ASSUME n # Server
               PROVE  /\ Speech(msgs, {}, 0)
                      /\ total = last[n] => msgs = <<>>
                      /\ total # last[n] => Range(msgs) = {Waiting(total, read[n])}
                      /\ Range(msgs) \subseteq {Waiting(total, read[n])}
    OBVIOUS
  <2>1. read[n] \in Tasks \cup {None}
    BY <1>1, <1>2 DEF BossType
  <2>2. CASE total = last[n]
    <3>1. msgs = <<>>
      BY <1>8, <2>2 DEF IdleReport
    <3> QED BY <2>2, <3>1, Speeches
  <2>3. CASE total # last[n]
    <3>1. msgs = <<Waiting(total, read[n])>>
      BY <1>8, <2>3 DEF IdleReport
    <3>2. Speech(<<Waiting(total, read[n])>>, {}, 0)
      BY <1>5, <2>1, Speeches
    <3>3. Range(<<Waiting(total, read[n])>>) = {Waiting(total, read[n])}
      BY Speeches
    <3> QED BY <2>3, <3>1, <3>2, <3>3
  <2> QED BY <2>2, <2>3
<1>10. n # Server => msgs \in Seq(Messages) /\ Sent(msgs) = {} /\ OnceEach(msgs) /\ OwedIn(msgs) = 0
  BY <1>9 DEF Speech
<1>11. /\ up'[e] = Tail(up[e]) /\ (\A y \in Nodes \ {e, n} : up'[y] = up[y])
       /\ up' \in [Nodes -> Seq(Messages)]
       /\ n # Server => up'[n] = up[n] \o msgs
  <2>1. CASE n = Server
    BY <1>1, <1>2, <1>8, <2>1
  <2>2. CASE n # Server
    <3>1. up[n] \o msgs \in Seq(Messages)
      BY <1>1, <1>2, <1>10, <2>2
    <3> QED BY <1>1, <1>2, <1>8, <2>2, <3>1, ZenonT(30)
  <2> QED BY <2>1, <2>2
<1>12. BossType'
  <2>1. last' \in [Present \ {Server} -> Nat]
    BY <1>1, <1>2, <1>5, <1>8 DEF BossType
  <2>2. /\ idle' \in [Employed -> Nat] /\ cache' \in [Employed -> Seq(Entries)]
        /\ numIdle' \in [Present -> Nat]
    BY <1>2, <1>3, <1>4, <1>5 DEF BossType
  <2> QED BY <1>2, <1>4, <1>6, <2>1, <2>2 DEF BossType
<1>13. BossFrame(n)
  <2>1. \A y \in Employed \ Of(n) :
           numTasks'[y] = numTasks[y] /\ idle'[y] = idle[y] /\ cache'[y] = cache[y]
    BY <1>1, <1>2, <1>4 DEF BossType
  <2>2. \A m \in Present \ {n} : numIdle'[m] = numIdle[m]
    BY <1>2, <1>4 DEF BossType
  <2>3. \A m \in Present \ {n, Server} : last'[m] = last[m] /\ read'[m] = read[m] /\ announced'[m] = announced[m]
    BY <1>2, <1>4, <1>8 DEF BossType
  <2>4. \A y \in Nodes \ (Of(n) \cup {n}) : down'[y] = down[y] /\ up'[y] = up[y]
    BY <1>1, <1>4, <1>11
  <2> QED BY <1>2, <1>4, <1>11, <1>12, <2>1, <2>2, <2>3, <2>4 DEF BossFrame
<1>14. SentBy(Head(up[e])) = {} /\ Owes(Head(up[e])) = 0
  BY DEF SentBy, Owes
<1>15. Sent(up'[e]) = Sent(up[e]) /\ OwedIn(up'[e]) = OwedIn(up[e])
  BY <1>1, <1>11, <1>14
<1>16. n # Server => SpeaksUp(n, msgs)
  <2> SUFFICES ASSUME n # Server PROVE SpeaksUp(n, msgs)
    OBVIOUS
  <2>1. n \in Present \ {Server}
    BY <1>1
  <2>2. View(cache[n], up[n] \o msgs, idle[n], read[n], total, total)
    <3>1. total # last[n] => Waiting(total, read[n]) \in Range(msgs)
      BY <1>9
    <3>2. total = last[n] => \A m \in Range(msgs) : m.type # "WAITING"
      BY <1>9, Speeches
    <3>3. \A m \in Range(msgs) : m.type = "WAITING" => m = Waiting(total, read[n])
      BY <1>9
    <3> QED BY <1>5, <1>10, <2>1, <3>1, <3>2, <3>3, TellsIdle
  <2>3. last'[n] = total
    BY <1>1, <1>2, <1>8 DEF BossType
  <2>4. View(cache[n], up'[n], idle[n], read[n], numIdle'[n], last'[n])
    BY <1>7, <1>11, <2>2, <2>3
  <2>5. Total(Mine(numTasks, n)') + announced'[n] = Total(Mine(numTasks, n)) + announced[n] + OwedIn(msgs)
    <3>1. Mine(numTasks, n)' = Mine(numTasks, n)
      BY <1>4, <1>6 DEF Mine
    <3>2. Total(Mine(numTasks, n)) \in Int /\ announced[n] \in Int
      BY <1>1, <1>2, <2>1, MineTotal DEF BossType
    <3> QED BY <1>4, <1>10, <3>1, <3>2
  <2>6. \A i \in DOMAIN msgs : Says1(n, msgs[i])
    <3> SUFFICES ASSUME NEW i \in DOMAIN msgs PROVE Says1(n, msgs[i])
      OBVIOUS
    <3>1. msgs[i] = Waiting(total, read[n])
      BY <1>9, Among
    <3> QED BY <1>5, <3>1 DEF Says1, Waiting
  <2> QED BY <1>4, <1>10, <1>11, <2>4, <2>5, <2>6 DEF SpeaksUp
<1> QED BY <1>1, <1>2, <1>4, <1>7, <1>10, <1>11, <1>13, <1>15, <1>16 DEF BossType

\* All is right between the boss and the one that has reported.
LEMMA NotedEdge ==
    ASSUME IInv, NEW e \in Employed, NEW n, n = Boss(e), up[e] # <<>>, Head(up[e]).type = "WAITING",
           NEW x, NEW count, NEW total, NEW msgs, Settles1(e, x, count), Noted(e, n, x, count, total, msgs)
    PROVE  Edge(e)' /\ Firsts(e)' \subseteq Firsts(e)
<1>1. /\ BossFrame(n) /\ n \in Present /\ e \in Of(n) /\ e # n /\ e \in Nodes
      /\ up'[e] = Tail(up[e]) /\ down' = down /\ cache'[e] = x /\ idle'[e] = count
      /\ OwedIn(up'[e]) = OwedIn(up[e])
  BY NotedFrame
<1>2. /\ Within(e)' = Within(e) /\ ReadBy(e)' = ReadBy(e) /\ Busy(e)' = Busy(e)
      /\ e \notin Workers => numIdle'[e] = numIdle[e] /\ last'[e] = last[e] /\ read'[e] = read[e]
      /\ e \in Workers => batch'[e] = batch[e] /\ receipt'[e] = receipt[e]
      /\ Team'[e] = Team[e] /\ Size'[e] = Size[e]
  BY <1>1, FrameInside DEF IInv
<1>3. /\ x \in Seq(Entries) /\ Range(x) \subseteq Range(cache[e]) /\ Distinct(x)
      /\ Marks(x, Tail(up[e]), down[e], ReadBy(e), Busy(e))
      /\ count \in Nat /\ count <= Size[e]
      /\ IF e \in Workers THEN IdleRight(count, Tail(up[e]), down[e], receipt[e], batch[e] # None)
         ELSE View(x, Tail(up[e]), count, read[e], numIdle[e], last[e])
  BY DEF Settles1
<1>4. Edge(e) /\ up[e] \in Seq(Messages) /\ numTasks' = numTasks /\ home' = home
      /\ UNCHANGED <<delayed, held, batch>>
  BY <1>1 DEF IInv, CrewInv, CrewType, Noted, tree, worker
<1>5. Cached(e)' /\ Distinct(cache'[e]) /\ Weighed(cache'[e], down'[e])
  <2>1. Marks(cache'[e], up'[e], down'[e], ReadBy(e)', Busy(e)')
    BY <1>1, <1>2, <1>3
  <2> QED BY <1>1, <1>3, <1>4, <2>1 DEF Cached, Edge, Weighed
<1>6. Account(e)'
  <2>1. InHand(e)' = InHand(e)
    BY <1>1, <1>4 DEF InHand, Assigned
  <2> QED BY <1>1, <1>2, <1>4, <2>1 DEF Account, Edge
<1>7. IdleView(e)' /\ idle'[e] <= Size'[e]
  BY <1>1, <1>2, <1>3 DEF IdleView
<1>8. Routed(e)'
  <2>1. Range(up'[e]) \subseteq Range(up[e])
    BY <1>1, <1>4, RangeTail
  <2> QED BY <1>1, <1>2, <1>4, <2>1 DEF Edge, Routed, UpRoute, DownRoute
<1>9. Firsts(e)' \subseteq Firsts(e)
  BY <1>1, <1>3 DEF Firsts
<1> QED BY <1>5, <1>6, <1>7, <1>8, <1>9 DEF Edge

\* The invariant through handle_waiting.
LEMMA HandleWaitingKeeps ==
    ASSUME IInv, NEW e \in Employed, HandleWaiting(e)
    PROVE  IInv' /\ Born' = Born
<1> PICK n : n = Boss(e)
  OBVIOUS
<1>1. up[e] # <<>> /\ Head(up[e]).type = "WAITING"
  BY WaitingNoted
<1>2. PICK x, count, total, msgs : Settles1(e, x, count) /\ Noted(e, n, x, count, total, msgs)
  BY WaitingNoted
<1>3. /\ BossFrame(n) /\ n \in Present /\ e \in Of(n) /\ e # n /\ e \in Nodes
      /\ up'[e] = Tail(up[e]) /\ down' = down
      /\ \A y \in Nodes \ {e, n} : up'[y] = up[y]
      /\ numIdle'[n] = Total(Mine(idle, n)')
      /\ Sent(up'[e]) = Sent(up[e])
      /\ n # Server => SpeaksUp(n, msgs) /\ Sent(msgs) = {}
  BY <1>1, <1>2, NotedFrame
<1>4. Edge(e)' /\ Firsts(e)' \subseteq Firsts(e)
  BY <1>1, <1>2, NotedEdge
<1>5. /\ system \in Systems /\ CrewInv(Nodes) /\ UNCHANGED <<worker, tree>>
      /\ Of(n) \subseteq Employed /\ Of(n) \subseteq Nodes /\ n \notin Of(n)
      /\ Apart(Layout(Nodes)) /\ Born = Everywhere(Layout(Nodes))
      /\ up \in [Nodes -> Seq(Messages)] /\ down \in [Nodes -> Seq(Messages)]
      /\ down' \in [Nodes -> Seq(Messages)] /\ up' \in [Nodes -> Seq(Messages)]
      /\ Once(Nodes)
  BY <1>3, NodeKinds DEF IInv, BossFrame, CrewInv, CrewType, Placed, Births
<1>6. /\ error' = "none" /\ submitted' = submitted /\ done' = done /\ numTasks' = numTasks
      /\ \A y \in Of(n) \ {e} : cache'[y] = cache[y] /\ idle'[y] = idle[y]
  BY <1>2, <1>3, <1>5 DEF Noted, IInv, BossType
<1>7. n # Server => /\ Edge(n)' /\ Upward(n) /\ Sent(up'[n]) = Sent(up[n])
                    /\ n \in Nodes /\ up'[n] = up[n] \o msgs /\ msgs \in Seq(Messages)
  <2> SUFFICES ASSUME n # Server
               PROVE  /\ Edge(n)' /\ Upward(n) /\ Sent(up'[n]) = Sent(up[n])
                      /\ n \in Nodes /\ up'[n] = up[n] \o msgs /\ msgs \in Seq(Messages)
    OBVIOUS
  <2>1. n \in Present \ {Server}
    BY <1>3
  <2>2. n \in Nodes
    BY <1>5, <2>1, NodeKinds
  <2>3. SpeaksUp(n, msgs) /\ Sent(msgs) = {}
    BY <1>3
  <2>4. up'[n] = up[n] \o msgs /\ msgs \in Seq(Messages)
    BY <2>3 DEF SpeaksUp
  <2>5. Edge(n)' /\ Upward(n) /\ Sent(up'[n]) = Sent(up[n]) \cup Sent(msgs)
    BY <1>3, <2>1, <2>3, SpeaksEdge
  <2> QED BY <2>2, <2>3, <2>4, <2>5
<1>8. ASSUME NEW y \in Of(n), y # e PROVE Edge(y)' /\ Firsts(y)' = Firsts(y)
  <2>1. up'[y] = up[y] /\ y # n /\ numTasks'[y] = numTasks[y] /\ idle[y] \in Nat /\ numTasks[y] \in Int
        /\ cache'[y] = cache[y] /\ idle'[y] = idle[y]
    BY <1>3, <1>5, <1>6, <1>8 DEF IInv, BossType
  <2>2. OwedIn(up[y]) \in Int
    BY <1>5, OwedConcat
  <2>3. Served(y, <<>>)
    <3>1. Len(<<>>) = 0 /\ Capped(idle[y] - 0, 0, idle[y]) = idle[y]
      BY <2>1 DEF Capped
    <3>2. numTasks'[y] + OwedIn(up'[y]) = numTasks[y] + OwedIn(up[y]) + 0
      BY <2>1, <2>2
    <3>3. down'[y] = Given(down[y], <<>>) /\ Listened(y)
      BY <1>3, <2>1 DEF Given, Listened
    <3> QED BY <2>1, <3>1, <3>2, <3>3 DEF Served
  <2>4. <<>> \in Seq(Tasks) /\ Range(<<>>) = {} /\ NoRepeat(<<>>)
    BY NothingDealt DEF Dealt, NoRepeat
  <2>5. Edge(y)'
    BY <1>3, <2>3, <2>4, ServedEdge
  <2> QED BY <2>1, <2>5 DEF Firsts
<1>9. \A y \in Of(n) : Edge(y)' /\ Firsts(y)' \subseteq Firsts(y)
  BY <1>4, <1>8
<1>10. ASSUME NEW y \in Nodes PROVE Sent(down'[y]) = Sent(down[y]) /\ Sent(up'[y]) = Sent(up[y])
  <2>1. CASE y = n
    <3>1. n # Server
      BY <1>5, <2>1, TreeType
    <3> QED BY <1>3, <1>7, <2>1, <3>1
  <2> QED BY <1>3, <2>1
<1>11. /\ Apart(Layout(Nodes))' /\ {} \in SUBSET Roots
       /\ Everywhere(Layout(Nodes))' = Everywhere(Layout(Nodes)) \cup {}
  BY <1>5, <1>10, StillPlaced
<1>12. Born' = Born
  BY <1>5, <1>6 DEF Born, Kids, tree
<1>13. Births' /\ Clients'
  BY <1>5, <1>6, <1>11, <1>12 DEF Births, Clients, IInv, Roots, tree
<1>14. Descends'
  <2>1. \A y \in Employed : y \in Team[n] /\ y # n => Firsts(y) \cap {} = {}
    OBVIOUS
  <2>2. \A y \in Of(n) : Sent(down'[y]) \subseteq Sent(down[y]) \cup {}
    BY <1>3
  <2>3. \A y \in Nodes : \A t \in Sent(up'[y]) : \E z \in Nodes : t \in Sent(up[z])
    BY <1>10
  <2>4. \A y \in Of(n) : Firsts(y)' \subseteq Firsts(y) \cup Sent(down'[y])
    BY <1>9
  <2>5. n \in Employed => Sent(down'[n]) \subseteq Sent(down[n])
    BY <1>3
  <2> QED BY <1>3, <1>11, <1>12, <1>13, <2>1, <2>2, <2>3, <2>4, <2>5, DescendsKept
<1>15. Range(up'[e]) \subseteq Range(up[e]) /\ OnceEach(up'[e])
  BY <1>1, <1>3, <1>5, RangeTail, SentTail DEF Once
<1>16. CrewInv(Nodes)'
  <2>1. \A y \in Nodes : OnceEach(down'[y]) /\ OnceEach(up'[y])
    <3> SUFFICES ASSUME NEW y \in Nodes PROVE OnceEach(up'[y])
      BY <1>3, <1>5 DEF Once
    <3>1. CASE y = n
      <4>1. n # Server
        BY <1>5, <3>1, TreeType
      <4> QED BY <1>7, <3>1, <4>1 DEF Upward
    <3> QED BY <1>3, <1>5, <1>15, <3>1 DEF Once
  <2>2. Results(Nodes)'
    <3>1. \A y \in Of(n) :
             /\ Range(up'[y]) \subseteq Range(up[y])
             /\ \A m \in Range(down'[y]) :
                   m \in Range(down[y]) \/ (m.type = "RESULT" => m.task \in finished /\ home[m.task] # None)
      BY <1>3, <1>5, <1>15
    <3>2. n \in Employed => n # Server
      BY <1>5, NodeKinds
    <3>3. n \in Employed => Range(down'[n]) \subseteq Range(down[n])
      BY <1>3
    <3>4. n \in Employed => \A m \in Range(up'[n]) :
             m \in Range(up[n]) \/ (m.type = "RESULT" => m.task \in finished)
      BY <1>7, <3>2 DEF Upward
    <3> QED BY <1>3, <3>1, <3>3, <3>4, BossResults
  <2> QED BY <1>5, <1>11, <2>1, <2>2, BossKeeps
<1>17. Arrives'
  <2>1. \A y \in Of(n) : \/ up'[y] = up[y]
                         \/ up[y] # <<>> /\ up'[y] = Tail(up[y]) /\ PassesOn(up[y])
    <3>1. PassesOn(up[e])
      BY <1>1 DEF PassesOn
    <3> QED BY <1>1, <1>3, <1>5, <3>1
  <2>2. n # Server => Range(up[n]) \subseteq Range(up'[n])
    <3>1. \A a, b \in Seq(Messages) : Range(a) \subseteq Range(a \o b)
      BY RangeConcat
    <3> QED BY <1>5, <1>7, <3>1
  <2>3. done \subseteq done' /\ \A y \in Of(n) : Range(down[y]) \subseteq Range(down'[y])
    BY <1>3, <1>6
  <2>4. n # Server => \/ down'[n] = down[n]
                      \/ down[n] # <<>> /\ down'[n] = Tail(down[n]) /\ PassesOn(down[n])
    BY <1>3
  <2> QED BY <1>3, <2>1, <2>2, <2>3, <2>4, MoveArrives
<1>18. \A y \in Of(n) : Edge(y)'
  BY <1>9
<1>19. n # Server => Edge(n)'
  BY <1>7
<1>20. IInv'
  BY <1>3, <1>6, <1>13, <1>14, <1>16, <1>17, <1>18, <1>19, BossKeepsAll
<1> QED BY <1>12, <1>20

----------------------------------------------------------------------------
(* A step of a worker.                                                     *)

\* The messages a worker sends: no task is handed back here.
Told(w, m) ==
    \/ m.type \in {"BACKLOG", "UPDATE"}
    \/ m.type = "WAITING" /\ m.idle = 1
    \/ \E t \in Tasks : m = Result(t, w)
    \/ \E t \in Tasks \ mapped : m = Batch(Children[t])

\* The worker sends one message at most.
Tells(w) ==
    \/ up' = up
    \/ \E m \in Messages : Told(w, m) /\ up' = [up EXCEPT ![w] = Append(up[w], m)]

\* It takes one message at most.
Takes(w) ==
    \/ down' = down
    \/ down[w] # <<>> /\ down' = [down EXCEPT ![w] = Tail(down[w])]

\* Who is at home stays there; new children get a home.
Settled(w) ==
    /\ \A t \in Tasks : home[t] # None => home'[t] = home[t]
    /\ \A t \in Tasks : home'[t] # home[t] => home'[t] = w
    /\ finished \subseteq finished'

\* Worker v does nothing.
Sleeps(v) ==
    /\ ready'[v] = ready[v] /\ delayed'[v] = delayed[v] /\ held'[v] = held[v]
    /\ batch'[v] = batch[v]

\* What every step of a worker has in common.
WorkerFrame(w) ==
    /\ Tells(w) /\ Takes(w) /\ Settled(w)
    /\ \A v \in Workers \ Employed : Sleeps(v)

\* Nothing is said.
LEMMA TellsNothing ==
    ASSUME CrewType(Nodes), NEW w \in Workers, NEW msgs,
           msgs = <<>> \/ \E m \in Messages : Told(w, m) /\ msgs = <<m>>, Send(w, msgs)
    PROVE  Tells(w)
<1>1. w \in Nodes /\ up \in [Nodes -> Seq(Messages)] /\ up' = [up EXCEPT ![w] = up[w] \o msgs]
  BY DEF CrewType, Nodes, Send
<1>2. CASE msgs = <<>>
  <2>1. up[w] \o msgs = up[w]
    BY <1>1, <1>2
  <2> QED BY <1>1, <2>1 DEF Tells
<1>3. CASE \E m \in Messages : Told(w, m) /\ msgs = <<m>>
  <2>1. PICK m \in Messages : Told(w, m) /\ msgs = <<m>>
    BY <1>3
  <2>2. up[w] \o msgs = Append(up[w], m)
    BY <1>1, <2>1
  <2> QED BY <1>1, <2>1, <2>2 DEF Tells
<1> QED BY <1>2, <1>3

\* A worker whose backlog changes may report it.
LEMMA TellsBacklog ==
    ASSUME CrewType(Nodes), NEW w \in Workers, NEW ts \in Seq(Tasks), SetDelayed(w, ts, <<>>)
    PROVE  Tells(w)
<1>1. /\ Report(w, ts) = <<>> \/ Report(w, ts) = <<Backlog(Len(ts))>>
      /\ Len(ts) \in Int /\ Len(ts) \in Nat
  BY DEF Report
<1>2. Backlog(Len(ts)) \in Messages /\ Told(w, Backlog(Len(ts)))
  BY <1>1, MessagesMade DEF Told, Backlog
<1>3. <<>> \o Report(w, ts) = Report(w, ts)
  BY <1>1
<1>4. Send(w, Report(w, ts))
  BY <1>3 DEF SetDelayed
<1> QED BY <1>1, <1>2, <1>4, TellsNothing

\* What is above a worker does not reclaim.
LEMMA NoReclaim ==
    ASSUME IInv, NEW w \in Workers \cap Employed, down[w] # <<>>
    PROVE  Head(down[w]) \in Range(down[w]) /\ Head(down[w]).type \in {"SUBMIT_BATCH", "RESULT"}
<1>1. w \in Nodes /\ down[w] \in Seq(Messages) /\ Routed(w)
  BY DEF IInv, CrewInv, CrewType, Nodes, Edge
<1>2. Head(down[w]) \in Range(down[w])
  BY <1>1, RangeTail
<1> QED BY <1>1, <1>2 DEF Routed, DownRoute

\* Any step of a worker keeps to the frame.
LEMMA WorkerFramed ==
    ASSUME IInv, NEW w \in Workers \cap Employed, WorkerStep(w), UNCHANGED above
    PROVE  WorkerFrame(w)
<1>1. /\ w \in Workers /\ w \in Nodes /\ w \in Workers \cap Nodes /\ CrewInv(Nodes)
      /\ CrewType(Nodes)
      /\ \A v \in Workers \ Employed : v # w /\ v \in Nodes
  BY DEF IInv, CrewInv, Nodes
<1>2. up' = up => Tells(w)
  BY DEF Tells
<1>3. UNCHANGED tree => Settled(w)
  BY DEF tree, Settled
<1>4. ~ReadReclaim(w)
  BY NoReclaim DEF ReadReclaim, Read
<1>5. CASE ReadBatch(w)
  <2>1. Takes(w) /\ UNCHANGED up /\ UNCHANGED tree
    BY <1>1, <1>5, ReadBatchEffect DEF Takes
  <2>2. \A v \in Workers \ Employed : Sleeps(v)
    BY <1>1, <1>5 DEF ReadBatch, Sleeps, CrewType
  <2> QED BY <1>2, <1>3, <2>1, <2>2 DEF WorkerFrame
<1>6. CASE DelayRest(w)
  <2>1. Takes(w) /\ UNCHANGED tree
    BY <1>6 DEF DelayRest, Takes
  <2>2. \A v \in Workers \ Employed : Sleeps(v)
    BY <1>1, <1>6 DEF DelayRest, SetDelayed, Sleeps, CrewType
  <2>3. batch[w] \in Seq(Tasks) /\ delayed[w] \in Seq(Tasks)
    BY <1>1, <1>6 DEF DelayRest, CrewType
  <2>4. delayed[w] \o batch[w] \in Seq(Tasks)
    BY <2>3
  <2>5. Tells(w)
    BY <1>1, <1>6, <2>4, TellsBacklog DEF DelayRest
  <2> QED BY <1>3, <2>1, <2>2, <2>5 DEF WorkerFrame
<1>7. CASE ReadResult(w)
  <2> DEFINE t == Head(down[w]).task
  <2>1. t \in Tasks /\ home[t] \in Workers /\ Parent(t) \in Tasks
    <3>1. /\ Head(down[w]) \in Range(down[w]) /\ Head(down[w]) \in Messages
          /\ Head(down[w]).type = "RESULT"
      <4>1. down[w] \in Seq(Messages) /\ down[w] # <<>> /\ Head(down[w]).type = "RESULT"
        BY <1>1, <1>7 DEF ReadResult, Read, CrewType
      <4> QED BY <4>1, RangeTail
    <3>2. t \in Tasks /\ home[t] # None
      BY <1>1, <3>1, Fields DEF CrewInv, Results
    <3>3. t \notin Roots
      BY <1>1, <3>2 DEF CrewInv, Homes
    <3> QED BY <1>1, <3>2, <3>3, KidsType DEF CrewType
  <2>2. home[t] \in Employed
    BY <2>1, NoneAssumption DEF IInv, Homed
  <2>3. Takes(w) /\ UNCHANGED <<up, home, finished, held, delayed, batch>>
    BY <1>1, <1>7, <2>1, ReadResultEffect DEF Takes
  <2>4. \A v \in Workers \ Employed : ready'[v] = ready[v]
    <3>1. ready' = [ready EXCEPT ![home[t]] = ready'[home[t]]]
      BY <1>1, <1>7 DEF ReadResult, Deposit, CrewType
    <3> QED BY <1>1, <3>1, <2>2 DEF CrewType
  <2>5. Settled(w)
    BY <2>3 DEF Settled
  <2> QED BY <1>2, <2>3, <2>4, <2>5 DEF WorkerFrame, Sleeps
<1>8. CASE Promote(w)
  <2>1. Takes(w) /\ UNCHANGED tree
    BY <1>8 DEF Promote, Takes
  <2>2. \A v \in Workers \ Employed : Sleeps(v)
    BY <1>1, <1>8 DEF Promote, SetDelayed, Sleeps, CrewType
  <2>3. Front(delayed[w]) \in Seq(Tasks)
    BY <1>1, <1>8, LastAndFront DEF Promote, CrewType
  <2>5. Tells(w)
    BY <1>1, <1>8, <2>3, TellsBacklog DEF Promote
  <2> QED BY <1>3, <2>1, <2>2, <2>5 DEF WorkerFrame
<1>9. CASE NothingDelayed(w)
  <2>1. UNCHANGED <<down, up, tree, ready, delayed, held, batch>>
    BY <1>9 DEF NothingDelayed
  <2> QED BY <1>2, <1>3, <2>1 DEF WorkerFrame, Takes, Sleeps
<1>10. CASE SendWaiting(w)
  <2>1. UNCHANGED <<down, tree, ready, delayed, held, batch>>
    BY <1>10 DEF SendWaiting
  <2>2. Waiting(1, receipt[w]) \in Messages /\ Told(w, Waiting(1, receipt[w]))
    <3>1. receipt[w] \in Tasks \cup {None} /\ 1 \in Nat
      BY <1>1 DEF CrewType
    <3> QED BY <3>1, MessagesMade DEF Told, Waiting
  <2>3. Tells(w)
    BY <1>1, <1>10, <2>2, TellsNothing DEF SendWaiting
  <2> QED BY <1>3, <2>1, <2>3 DEF WorkerFrame, Takes, Sleeps
<1>11. ASSUME NEW t \in Tasks, RunToMap(w, t) PROVE WorkerFrame(w)
  <2>1. /\ UNCHANGED <<down, delayed, held, batch, finished>>
        /\ ready' = [ready EXCEPT ![w] = Tail(ready[w])]
        /\ home' = [c \in Tasks |-> IF c \in Kids(t) THEN w ELSE home[c]]
        /\ t \notin mapped /\ Children[t] # <<>> /\ Children[t] \in Seq(Tasks)
        /\ Send(w, <<Batch(Children[t])>>)
    BY <1>11, Forest DEF RunToMap, Kids
  <2>2. \A v \in Workers \ Employed : Sleeps(v)
    BY <1>1, <2>1 DEF Sleeps, CrewType
  <2>3. Settled(w)
    <3>1. \A c \in Kids(t) : home[c] = None
      BY <1>1, <2>1 DEF CrewInv, Homes
    <3> QED BY <2>1, <3>1 DEF Settled
  <2>4. Batch(Children[t]) \in Messages /\ Told(w, Batch(Children[t]))
    BY <2>1, MessagesMade DEF Told
  <2>5. Tells(w)
    BY <1>1, <2>1, <2>4, TellsNothing
  <2> QED BY <2>1, <2>2, <2>3, <2>5 DEF WorkerFrame, Takes
<1>12. ASSUME NEW t \in Tasks, RunToEnd(w, t) PROVE WorkerFrame(w)
  <2>1. /\ UNCHANGED <<down, delayed, batch, home>> /\ finished' = finished \cup {t}
        /\ held' = [held EXCEPT ![w] = held[w] \ {t}]
        /\ ready' = [ready EXCEPT ![w] = ready'[w]]
        /\ Send(w, <<Update(-1)>>) \/ Send(w, <<Result(t, w)>>)
    BY <1>1, <1>12 DEF RunToEnd, CrewType
  <2>2. \A v \in Workers \ Employed : Sleeps(v)
    BY <1>1, <2>1 DEF Sleeps, CrewType
  <2>3. Settled(w)
    BY <2>1 DEF Settled
  <2>4. /\ Update(-1) \in Messages /\ Told(w, Update(-1))
        /\ Result(t, w) \in Messages /\ Told(w, Result(t, w))
    BY MessagesMade DEF Told, Update
  <2>5. Tells(w)
    BY <1>1, <2>1, <2>4, TellsNothing
  <2> QED BY <2>1, <2>2, <2>3, <2>5 DEF WorkerFrame, Takes
<1> QED BY <1>4, <1>5, <1>6, <1>7, <1>8, <1>9, <1>10, <1>11, <1>12 DEF WorkerStep, Incoming, Working

----------------------------------------------------------------------------
(* What is held is woken, and results stay under way.                      *)

\* Task t is ready at v, or awaits a child.
Awake(v, t) == t \in Range(ready[v]) \/ (t \in mapped /\ missing[t] # {})

\* The result of t comes to a task p that awaits it.
Comes(t, p) ==
    /\ p = Parent(t) /\ t \in Tasks /\ home[t] \in Workers /\ p \in mapped
    /\ missing' = [missing EXCEPT ![p] = missing[p] \ {t}]
    /\ missing[p] # {} => p \in held[home[t]]
    /\ missing[p] = {t} => p \in Range(ready'[home[t]])

\* A result that comes puts nobody to sleep.
LEMMA ComesWakes ==
    ASSUME IInv, NEW t, NEW p, Comes(t, p), mapped' = mapped,
           NEW v \in Workers, NEW x \in held[v], Awake(v, x),
           x \in Range(ready[v]) => x \in Range(ready'[v])
    PROVE  Awake(v, x)'
<1>1. CrewType(Nodes) /\ CrewInv(Nodes) /\ x \in Tasks /\ p \in Tasks
  BY DEF IInv, CrewInv, CrewType, Comes
<1>2. CASE x \in Range(ready[v])
  BY <1>2 DEF Awake
<1>3. CASE x \notin Range(ready[v]) /\ x # p
  BY <1>1, <1>3 DEF Awake, Comes, CrewType
<1>4. CASE x \notin Range(ready[v]) /\ x = p
  <2>1. missing[p] # {} /\ p \in held[home[t]] /\ p \in mapped
    BY <1>4 DEF Awake, Comes
  <2>2. v = home[t]
    <3>1. /\ <<"held", v>> \in Spots(Nodes) /\ <<"held", home[t]>> \in Spots(Nodes)
          /\ Lies(<<"held", v>>) = held[v] /\ Lies(<<"held", home[t]>>) = held[home[t]]
      BY LayoutType, LiesAt DEF Comes
    <3>2. \A r, s \in Spots(Nodes) : r # s => Lies(r) \cap Lies(s) = {}
      BY <1>1, LayoutType DEF CrewInv, Placed, Apart
    <3>3. <<"held", v>> = <<"held", home[t]>>
      BY <1>4, <2>1, <3>1, <3>2
    <3> QED BY <3>3
  <2>3. CASE missing[p] = {t}
    BY <1>4, <2>2, <2>3 DEF Awake, Comes
  <2>4. CASE missing[p] # {t}
    <3>1. missing'[p] = missing[p] \ {t}
      BY <1>1 DEF Comes, CrewType
    <3>2. missing'[p] # {}
      BY <2>1, <2>4, <3>1
    <3> QED BY <1>4, <2>1, <3>2 DEF Awake
  <2> QED BY <2>3, <2>4
<1> QED BY <1>2, <1>3, <1>4

\* The task whose result a worker reads, or whose parent is its own.
LEMMA ChildAtHome ==
    ASSUME IInv, NEW t \in Tasks, home[t] # None
    PROVE  /\ home[t] \in Workers \cap Employed /\ t \notin Roots /\ Parent(t) \in mapped
           /\ t \in Kids(Parent(t)) /\ Parent(t) \in Tasks
           /\ missing[Parent(t)] # {} => Parent(t) \in held[home[t]]
<1>1. home[t] \in Workers \cap Employed
  BY DEF IInv, Homed
<1>2. t \notin Roots
  BY DEF IInv, CrewInv, Homes
<1>3. Parent(t) \in Tasks /\ t \in Kids(Parent(t))
  BY <1>2, KidsType
<1>4. Parent(t) \in mapped
  BY <1>3 DEF IInv, CrewInv, Homes
<1>5. missing[Parent(t)] # {} => Parent(t) \in held[home[t]]
  BY <1>3, <1>4 DEF IInv, CrewInv, Tree
<1> QED BY <1>1, <1>2, <1>3, <1>4, <1>5

\* What a worker holds is ready, or awaits something.
LEMMA WorkerWakes ==
    ASSUME IInv, NEW w \in Workers \cap Employed, WorkerStep(w)
    PROVE  Wakes'
<1>1. /\ w \in Workers /\ w \in Workers \cap Nodes /\ CrewInv(Nodes) /\ CrewType(Nodes)
      /\ \A v \in Workers : \A x \in held[v] : Awake(v, x)
  BY DEF IInv, CrewInv, Nodes, Wakes, Awake
<1>2. SUFFICES ASSUME NEW v \in Workers, NEW x \in held'[v] PROVE Awake(v, x)'
  BY DEF Wakes, Awake
<1>3. /\ ready \in [Workers -> Seq(Tasks)] /\ held \in [Workers -> SUBSET Tasks]
      /\ missing \in [Tasks -> SUBSET Tasks]
  BY <1>1 DEF CrewType
<1>4. ~ReadReclaim(w)
  BY NoReclaim DEF ReadReclaim, Read
<1>5. CASE ReadBatch(w)
  <2>1. PICK l \in Tasks : /\ held' = [held EXCEPT ![w] = held[w] \cup {l}]
                           /\ ready' = [ready EXCEPT ![w] = Append(ready[w], l)]
                           /\ UNCHANGED tree
    <3>1. PICK ts : ts = Head(down[w]).tasks
      OBVIOUS
    <3>2. /\ ts \in Seq(Tasks) /\ ts # <<>> /\ UNCHANGED tree
          /\ held' = [held EXCEPT ![w] = held[w] \cup {Last(ts)}]
          /\ ready' = [ready EXCEPT ![w] = Append(ready[w], Last(ts))]
      BY <1>1, <1>5, <3>1, ReadBatchEffect
    <3>3. Last(ts) \in Tasks
      BY <3>2, LastAndFront
    <3> QED BY <3>2, <3>3
  <2>2. Range(Append(ready[w], l)) = Range(ready[w]) \cup {l}
    BY <1>3, RangeAppend
  <2> QED BY <1>1, <1>2, <1>3, <2>1, <2>2 DEF Awake, tree
<1>6. CASE DelayRest(w) \/ NothingDelayed(w) \/ SendWaiting(w)
  BY <1>1, <1>2, <1>6 DEF DelayRest, NothingDelayed, SendWaiting, Awake, tree
<1>7. CASE ReadResult(w)
  <2> DEFINE t == Head(down[w]).task
  <2>1. t \in Tasks /\ home[t] # None
    <3>1. down[w] \in Seq(Messages) /\ down[w] # <<>> /\ Head(down[w]).type = "RESULT"
      BY <1>1, <1>7 DEF ReadResult, Read, CrewType
    <3>2. Head(down[w]) \in Range(down[w]) /\ Head(down[w]) \in Messages
      BY <3>1, RangeTail
    <3> QED BY <1>1, <3>1, <3>2, Fields DEF CrewInv, Results
  <2>2. /\ home[t] \in Workers \cap Employed /\ Parent(t) \in mapped /\ Parent(t) \in Tasks
        /\ missing[Parent(t)] # {} => Parent(t) \in held[home[t]]
    BY <2>1, ChildAtHome, SMTT(30)
  <2>3. /\ missing' = [missing EXCEPT ![Parent(t)] = missing[Parent(t)] \ {t}]
        /\ ready' = IF missing[Parent(t)] = {t}
                    THEN [ready EXCEPT ![home[t]] = Append(ready[home[t]], Parent(t))] ELSE ready
        /\ mapped' = mapped /\ held' = held
    BY <1>1, <1>7, <2>2, ReadResultEffect
  <2> HIDE DEF t
  <2>4. Range(Append(ready[home[t]], Parent(t))) = Range(ready[home[t]]) \cup {Parent(t)}
    BY <1>3, <2>2, RangeAppend
  <2>5. \A u \in Workers : Range(ready[u]) \subseteq Range(ready'[u])
    BY <1>3, <2>2, <2>3, <2>4
  <2>6. Comes(t, Parent(t))
    BY <1>3, <2>1, <2>2, <2>3, <2>4 DEF Comes
  <2> QED BY <1>1, <1>2, <2>3, <2>5, <2>6, ComesWakes
<1>8. CASE Promote(w)
  <2>1. /\ delayed[w] \in Seq(Tasks) /\ delayed[w] # <<>> /\ ready[w] = <<>>
        /\ held' = [held EXCEPT ![w] = held[w] \cup {Last(delayed[w])}]
        /\ ready' = [ready EXCEPT ![w] = <<Last(delayed[w])>>] /\ UNCHANGED tree
    BY <1>1, <1>8, PromoteEffect
  <2>2. PICK l : l = Last(delayed[w])
    OBVIOUS
  <2>3. Range(<<l>>) = {l} /\ Range(<<>>) = {}
    BY RangeType DEF Range
  <2> QED BY <1>1, <1>2, <1>3, <2>1, <2>2, <2>3 DEF Awake, tree
<1>9. ASSUME NEW t \in Tasks, RunToMap(w, t) PROVE Awake(v, x)'
  <2>1. /\ ready[w] # <<>> /\ t = Head(ready[w]) /\ mapped' = mapped \cup {t}
        /\ missing' = [missing EXCEPT ![t] = Range(Children[t])] /\ Range(Children[t]) # {}
        /\ ready' = [ready EXCEPT ![w] = Tail(ready[w])] /\ held' = held
    BY <1>1, <1>9, RunToMapEffect
  <2>2. Range(ready[w]) = {Head(ready[w])} \cup Range(Tail(ready[w]))
    BY <1>3, <2>1, RangeTail
  <2>3. missing'[t] # {} /\ \A y \in Tasks : y # t => missing'[y] = missing[y]
    BY <1>3, <2>1
  <2>4. x \in Tasks /\ Awake(v, x)
    BY <1>1, <1>2, <1>3, <2>1
  <2>5. CASE x = t
    BY <2>1, <2>3, <2>5 DEF Awake
  <2>6. CASE x # t
    <3>1. x \in Range(ready[v]) => x \in Range(ready'[v])
      BY <1>3, <2>1, <2>2, <2>6
    <3> QED BY <2>1, <2>3, <2>4, <2>6, <3>1 DEF Awake
  <2> QED BY <2>5, <2>6
<1>10. ASSUME NEW t \in Tasks, RunToEnd(w, t) PROVE Awake(v, x)'
  <2>1. home[t] = w => Parent(t) \in Tasks
    BY ChildAtHome, NoneAssumption
  <2>2. /\ ready[w] # <<>> /\ t = Head(ready[w]) /\ mapped' = mapped
        /\ held' = [held EXCEPT ![w] = held[w] \ {t}]
        /\ missing' = IF home[t] = w
                      THEN [missing EXCEPT ![Parent(t)] = missing[Parent(t)] \ {t}] ELSE missing
        /\ ready' = [ready EXCEPT ![w] =
                       IF home[t] = w /\ missing[Parent(t)] = {t}
                       THEN Append(Tail(ready[w]), Parent(t)) ELSE Tail(ready[w])]
    BY <1>1, <1>10, <2>1, RunToEndEffect
  <2>3. PICK rest : rest = Tail(ready[w])
    OBVIOUS
  <2>4. Range(ready[w]) = {t} \cup Range(rest) /\ rest \in Seq(Tasks)
    BY <1>3, <2>2, <2>3, RangeTail
  <2>5. home[t] = w => Range(Append(rest, Parent(t))) = Range(rest) \cup {Parent(t)}
    BY <2>1, <2>4, RangeAppend
  <2>6. Range(rest) \subseteq Range(ready'[w])
    BY <1>3, <2>2, <2>3, <2>5
  <2>7. x \in held[v] /\ Awake(v, x)
    BY <1>1, <1>2, <1>3, <2>2
  <2>8. x # t
    <3>1. CASE v = w
      BY <1>1, <1>2, <1>3, <2>2, <3>1
    <3>2. CASE v # w
      BY <1>1, <2>2, <2>7, <3>2, PoppedTask
    <3> QED BY <3>1, <3>2
  <2>9. x \in Range(ready[v]) => x \in Range(ready'[v])
    <3>1. CASE v = w
      BY <2>4, <2>6, <2>8, <3>1
    <3>2. CASE v # w
      BY <1>3, <2>2, <3>2
    <3> QED BY <3>1, <3>2
  <2>10. CASE home[t] = w
    <3>1. /\ Parent(t) \in mapped /\ Parent(t) \in Tasks
          /\ missing[Parent(t)] # {} => Parent(t) \in held[home[t]]
      BY <1>1, <2>10, ChildAtHome, NoneAssumption
    <3>2. missing[Parent(t)] = {t} => Parent(t) \in Range(ready'[w])
      BY <1>3, <2>2, <2>3, <2>5, <2>10
    <3>3. missing' = [missing EXCEPT ![Parent(t)] = missing[Parent(t)] \ {t}]
      BY <2>2, <2>10
    <3>4. Comes(t, Parent(t))
      BY <2>10, <3>1, <3>2, <3>3 DEF Comes
    <3> QED BY <2>2, <2>7, <2>9, <3>4, ComesWakes
  <2>11. CASE home[t] # w
    BY <2>2, <2>7, <2>9, <2>11 DEF Awake
  <2> QED BY <2>10, <2>11
<1> QED BY <1>4, <1>5, <1>6, <1>7, <1>8, <1>9, <1>10 DEF WorkerStep, Incoming, Working

----------------------------------------------------------------------------
(* The results, and what the boss of the worker knows.                     *)

\* What a step of a worker does to the queues.
LEMMA FrameQueues ==
    ASSUME IInv, NEW w \in Workers \cap Employed, WorkerFrame(w)
    PROVE  /\ \A e \in Nodes \ {w} : up'[e] = up[e] /\ down'[e] = down[e]
           /\ up[w] \in Seq(Messages) /\ down[w] \in Seq(Messages)
           /\ \/ up'[w] = up[w]
              \/ \E m \in Messages : Told(w, m) /\ up'[w] = Append(up[w], m)
           /\ \/ down'[w] = down[w]
              \/ down[w] # <<>> /\ down'[w] = Tail(down[w])
           /\ Range(down'[w]) \subseteq Range(down[w]) /\ Sent(down'[w]) \subseteq Sent(down[w])
<1>1. /\ w \in Nodes /\ down \in [Nodes -> Seq(Messages)] /\ up \in [Nodes -> Seq(Messages)]
  BY DEF IInv, CrewInv, CrewType, Nodes
<1>2. /\ \A e \in Nodes \ {w} : up'[e] = up[e]
      /\ \/ up'[w] = up[w]
         \/ \E m \in Messages : Told(w, m) /\ up'[w] = Append(up[w], m)
  BY <1>1 DEF WorkerFrame, Tells
<1>3. /\ \A e \in Nodes \ {w} : down'[e] = down[e]
      /\ down'[w] = down[w] \/ (down[w] # <<>> /\ down'[w] = Tail(down[w]))
  BY <1>1 DEF WorkerFrame, Takes
<1>4. Range(down'[w]) \subseteq Range(down[w])
  BY <1>1, <1>3, RangeTail
<1>5. Sent(down'[w]) \subseteq Sent(down[w])
  <2>1. CASE down'[w] = down[w]
    BY <2>1
  <2>2. CASE down[w] # <<>> /\ down'[w] = Tail(down[w])
    <3>1. Sent(down[w]) = SentBy(Head(down[w])) \cup Sent(Tail(down[w]))
      BY <1>1, <2>2, SentTail
    <3> QED BY <2>2, <3>1
  <2> QED BY <1>3, <2>1, <2>2
<1> QED BY <1>1, <1>2, <1>3, <1>4, <1>5

\* Results that are not read stay under way.
LEMMA StaysUnderway ==
    ASSUME IInv, NEW w \in Workers \cap Employed, WorkerFrame(w), NEW t, Underway(t),
           \/ down'[w] = down[w]
           \/ Head(down[w]).type = "RESULT" => Head(down[w]).task # t
    PROVE  Underway(t)'
<1>0. PICK e \in Nodes : \E m \in Range(up[e]) \cup Range(down[e]) : m.type = "RESULT" /\ m.task = t
  BY DEF Underway
<1>1. PICK m \in Range(up[e]) \cup Range(down[e]) : m.type = "RESULT" /\ m.task = t
  BY <1>0
<1>2. CASE m \in Range(up[e])
  <2>1. Range(up[e]) \subseteq Range(up'[e])
    <3>1. CASE e # w
      BY <3>1, FrameQueues
    <3>2. CASE e = w
      <4>1. CASE up'[w] = up[w]
        BY <3>2, <4>1
      <4>2. CASE \E k \in Messages : up'[w] = Append(up[w], k)
        <5>1. PICK k \in Messages : up'[w] = Append(up[w], k)
          BY <4>2
        <5>2. up[w] \in Seq(Messages)
          BY FrameQueues
        <5>3. Range(Append(up[w], k)) = Range(up[w]) \cup {k}
          BY <5>2, RangeAppend
        <5> QED BY <3>2, <5>1, <5>3
      <4> QED BY <4>1, <4>2, FrameQueues
    <3> QED BY <3>1, <3>2
  <2> QED BY <1>1, <1>2, <2>1 DEF Underway
<1>3. CASE m \in Range(down[e])
  <2>1. m \in Range(down'[e])
    <3>1. CASE e # w \/ down'[w] = down[w]
      BY <1>3, <3>1, FrameQueues
    <3>2. CASE e = w /\ down'[w] # down[w]
      <4>1. /\ down[w] \in Seq(Messages) /\ down[w] # <<>> /\ down'[w] = Tail(down[w])
        BY <3>2, FrameQueues
      <4>2. Range(down[w]) = {Head(down[w])} \cup Range(Tail(down[w]))
        BY <4>1, RangeTail
      <4> QED BY <1>1, <1>3, <3>2, <4>1, <4>2
    <3> QED BY <3>1, <3>2
  <2> QED BY <1>1, <2>1 DEF Underway
<1> QED BY <1>1, <1>2, <1>3

\* The result of t is under way, or has arrived.
Arrived(t) ==
    IF t \in Roots THEN t \in done \/ Underway(t)
    ELSE t \in missing[Parent(t)] => Underway(t)

\* The result of a task that is over is under way, or has arrived.
LEMMA WorkerArrives ==
    ASSUME IInv, NEW w \in Workers \cap Employed, WorkerStep(w), UNCHANGED above
    PROVE  Arrives'
<1>1. /\ w \in Workers /\ w \in Workers \cap Nodes /\ CrewInv(Nodes) /\ CrewType(Nodes)
      /\ \A t \in finished : Arrived(t)
      /\ w \in Nodes /\ up[w] \in Seq(Messages) /\ down[w] \in Seq(Messages)
  BY DEF IInv, CrewInv, CrewType, Nodes, Arrives, Arrived
<1>2. SUFFICES ASSUME NEW x \in finished' PROVE Arrived(x)'
  BY DEF Arrives, Arrived
<1>3. done' = done /\ Roots' = Roots /\ Parent(x)' = Parent(x)
  BY DEF above, Roots, Parent
<1>4. WorkerFrame(w)
  BY WorkerFramed
<1>5. ~ReadReclaim(w)
  BY NoReclaim DEF ReadReclaim, Read
<1>6. missing \in [Tasks -> SUBSET Tasks] /\ finished \subseteq Tasks
  BY <1>1 DEF CrewType
<1>7. ASSUME x \in finished, Underway(x) => Underway(x)',
             x \notin Roots => missing'[Parent(x)] \subseteq missing[Parent(x)]
      PROVE  Arrived(x)'
  BY <1>1, <1>3, <1>7 DEF Arrived
<1>8. ASSUME UNCHANGED tree,
             down'[w] = down[w] \/ Head(down[w]).type # "RESULT"
      PROVE  Arrived(x)'
  <2>1. x \in finished /\ missing' = missing
    BY <1>2, <1>8 DEF tree
  <2>2. Underway(x) => Underway(x)'
    BY <1>4, <1>8, StaysUnderway
  <2> QED BY <1>7, <2>1, <2>2
<1>9. CASE ReadBatch(w)
  BY <1>1, <1>8, <1>9, ReadBatchEffect
<1>10. CASE DelayRest(w) \/ NothingDelayed(w) \/ SendWaiting(w) \/ Promote(w)
  BY <1>8, <1>10 DEF DelayRest, NothingDelayed, SendWaiting, Promote
<1>11. CASE ReadResult(w)
  <2> DEFINE t == Head(down[w]).task
  <2>1. t \in Tasks /\ home[t] # None /\ Head(down[w]).type = "RESULT"
    <3>1. down[w] # <<>> /\ Head(down[w]).type = "RESULT"
      BY <1>11 DEF ReadResult, Read
    <3>2. Head(down[w]) \in Range(down[w]) /\ Head(down[w]) \in Messages
      BY <1>1, <3>1, RangeTail
    <3> QED BY <1>1, <3>1, <3>2, Fields DEF CrewInv, Results
  <2>2. Parent(t) \in Tasks /\ t \notin Roots /\ home[t] \in Workers
    BY <2>1, ChildAtHome
  <2>3. missing' = [missing EXCEPT ![Parent(t)] = missing[Parent(t)] \ {t}] /\ finished' = finished
    BY <1>1, <1>11, <2>2, ReadResultEffect
  <2>4. CASE x = t
    BY <1>3, <1>6, <2>2, <2>3, <2>4 DEF Arrived
  <2>5. CASE x # t
    <3>1. Underway(x) => Underway(x)'
      BY <1>4, <2>5, StaysUnderway
    <3>2. x \notin Roots => Parent(x) \in Tasks
      BY <1>2, <1>6, <2>3, KidsType
    <3>3. x \notin Roots => missing'[Parent(x)] \subseteq missing[Parent(x)]
      BY <1>6, <2>3, <3>2
    <3> QED BY <1>2, <1>7, <2>3, <3>1, <3>3
  <2> QED BY <2>4, <2>5
<1>12. ASSUME NEW t \in Tasks, RunToMap(w, t) PROVE Arrived(x)'
  <2>1. /\ missing' = [missing EXCEPT ![t] = Range(Children[t])] /\ finished' = finished
        /\ down' = down /\ t \notin mapped
    BY <1>1, <1>12, RunToMapEffect
  <2>2. x \notin Roots => Parent(x) \in Tasks /\ x \in Kids(Parent(x))
    BY <1>2, <1>6, <2>1, KidsType
  <2>3. x \in Everywhere(Layout(Nodes))
    <3>1. <<"over", None>> \in Spots(Nodes) /\ Lies(<<"over", None>>) = finished
      BY LayoutType, LiesAt
    <3> QED BY <1>2, <2>1, <3>1, LayoutType DEF Everywhere
  <2>4. x \notin Roots => Parent(x) # t
    BY <1>1, <2>1, <2>2, <2>3 DEF CrewInv, Tree
  <2>5. Underway(x) => Underway(x)'
    BY <1>4, <2>1, StaysUnderway
  <2> QED BY <1>2, <1>6, <1>7, <2>1, <2>2, <2>4, <2>5
<1>13. ASSUME NEW t \in Tasks, RunToEnd(w, t) PROVE Arrived(x)'
  <2>1. home[t] = w => Parent(t) \in Tasks /\ t \notin Roots
    BY ChildAtHome, NoneAssumption
  <2>2. /\ finished' = finished \cup {t} /\ down' = down
        /\ missing' = IF home[t] = w
                      THEN [missing EXCEPT ![Parent(t)] = missing[Parent(t)] \ {t}] ELSE missing
    BY <1>1, <1>13, <2>1, RunToEndEffect
  <2>3. CASE x = t /\ home[t] = w
    BY <1>3, <1>6, <2>1, <2>2, <2>3 DEF Arrived
  <2>4. CASE x = t /\ home[t] # w
    <3>1. up' = [up EXCEPT ![w] = up[w] \o <<Result(t, w)>>]
      BY <1>13, <2>4 DEF RunToEnd, Send
    <3>2. Result(t, w) \in Messages
      BY <1>1, MessagesMade
    <3>3. up'[w] = Append(up[w], Result(t, w))
      <4>1. up[w] \o <<Result(t, w)>> = Append(up[w], Result(t, w))
        BY <1>1
      <4>2. up \in [Nodes -> Seq(Messages)]
        BY <1>1 DEF CrewType
      <4> QED BY <1>1, <3>1, <4>1, <4>2
    <3>4. Result(t, w) \in Range(up'[w])
      BY <1>1, <3>2, <3>3, RangeAppend
    <3>5. Result(t, w).type = "RESULT" /\ Result(t, w).task = t
      BY DEF Result
    <3>6. Underway(t)'
      BY <1>1, <3>4, <3>5 DEF Underway
    <3> QED BY <2>4, <3>6 DEF Arrived
  <2>5. CASE x # t
    <3>1. x \in finished
      BY <1>2, <2>2, <2>5
    <3>2. Underway(x) => Underway(x)'
      BY <1>4, <2>2, StaysUnderway
    <3>3. x \notin Roots => Parent(x) \in Tasks
      BY <1>6, <3>1, KidsType
    <3>4. x \notin Roots => missing'[Parent(x)] \subseteq missing[Parent(x)]
      BY <1>6, <2>1, <2>2, <3>3
    <3> QED BY <1>7, <3>1, <3>2, <3>4
  <2> QED BY <2>3, <2>4, <2>5
<1> QED BY <1>5, <1>9, <1>10, <1>11, <1>12, <1>13 DEF WorkerStep, Incoming, Working

----------------------------------------------------------------------------
(* A worker and its boss.                                                  *)

\* What a worker says goes up.
LEMMA ToldRoutes ==
    ASSUME IInv, NEW w \in Workers \cap Employed, NEW m, Told(w, m)
    PROVE  UpRoute(w, m)
<1>1. /\ w \in Tops /\ w \in Team[w] /\ Size[w] \in Nat /\ Size[w] = 1
  BY TeamEquation, SizeType DEF IInv, Tops
<1>2. CASE m.type \in {"BACKLOG", "UPDATE"}
  BY <1>2 DEF UpRoute
<1>3. CASE m.type = "WAITING" /\ m.idle = 1
  BY <1>1, <1>3 DEF UpRoute
<1>4. ASSUME NEW t \in Tasks, m = Result(t, w) PROVE UpRoute(w, m)
  <2>1. m.type = "RESULT" /\ m.completed_by = w
    BY <1>4 DEF Result
  <2> QED BY <1>1, <2>1 DEF UpRoute
<1>5. ASSUME NEW t \in Tasks, m = Batch(Children[t]) PROVE UpRoute(w, m)
  <2>1. m.type = "SUBMIT_BATCH"
    BY <1>5 DEF Batch
  <2> QED BY <2>1 DEF UpRoute
<1> QED BY <1>2, <1>3, <1>4, <1>5 DEF Told

\* Messages keep their way when homes stay.
LEMMA RoutesStay ==
    ASSUME IInv, NEW w \in Workers \cap Employed, WorkerFrame(w), UNCHANGED above,
           NEW e \in Employed
    PROVE  Routed(e)'
<1>1. /\ Routed(e) /\ e \in Nodes /\ Team'[e] = Team[e] /\ Size'[e] = Size[e]
  <2>1. UNCHANGED system
    BY DEF above
  <2> QED BY <2>1, TreeSame, NodeKinds DEF IInv, Edge
<1>2. /\ down[e] \in Seq(Messages) /\ Results(Nodes)
      /\ \A t \in Tasks : home[t] # None => home'[t] = home[t]
  BY <1>1 DEF IInv, CrewInv, CrewType, WorkerFrame, Settled
<1>3. Range(down'[e]) \subseteq Range(down[e])
  BY <1>1, FrameQueues
<1>4. ASSUME NEW m \in Range(down'[e]) PROVE DownRoute(e, m)'
  <2>1. DownRoute(e, m) /\ m \in Messages
    <3>1. Range(down[e]) \subseteq Messages
      BY <1>2, RangeType
    <3> QED BY <1>1, <1>3, <3>1, <1>4 DEF Routed
  <2>2. m.type = "RESULT" => m.task \in Tasks /\ home'[m.task] = home[m.task]
    BY <1>1, <1>2, <1>3, <1>4, <2>1, Fields DEF Results
  <2> QED BY <1>1, <2>1, <2>2 DEF DownRoute
<1>5. ASSUME NEW m \in Range(up'[e]) PROVE UpRoute(e, m)'
  <2>1. UpRoute(e, m)
    <3>1. CASE e # w \/ up'[e] = up[e]
      BY <1>1, <1>5, <3>1, FrameQueues DEF Routed
    <3>2. CASE e = w /\ \E k \in Messages : Told(w, k) /\ up'[w] = Append(up[w], k)
      <4>1. PICK k \in Messages : Told(w, k) /\ up'[w] = Append(up[w], k)
        BY <3>2
      <4>2. up[w] \in Seq(Messages)
        BY FrameQueues
      <4>3. Range(up'[w]) = Range(up[w]) \cup {k}
        BY <4>1, <4>2, RangeAppend
      <4> QED BY <1>1, <1>5, <3>2, <4>1, <4>3, ToldRoutes DEF Routed
    <3> QED BY <3>1, <3>2, FrameQueues
  <2> QED BY <1>1, <2>1 DEF UpRoute
<1> QED BY <1>4, <1>5 DEF Routed

\* What the boss of any worker keeps of it stays right.
LEMMA WorkerEdge ==
    ASSUME IInv, NEW w \in Workers \cap Employed, WorkerStep(w), UNCHANGED above,
           NEW v \in Workers \cap Employed
    PROVE  Edge(v)'
<1>1. /\ UNCHANGED <<numTasks, idle, cache>> /\ UNCHANGED system
  BY DEF above, employee
<1>2. /\ CrewInv(Nodes) /\ Workers \subseteq Nodes /\ BossType /\ Edge(v)
      /\ w \in Workers /\ v \in Workers /\ v \in Employed /\ v \in Nodes
  BY DEF IInv, Nodes
<1>3. Acts(w) /\ Settles(w) /\ CrewInv(Nodes)'
  BY <1>2, WorkerStepActs, WorkerStepKeeps
<1>4. WorkerFrame(w)
  BY WorkerFramed
<1>5. cache[v] \in Seq(Entries) /\ numTasks[v] \in Int
  BY <1>2 DEF BossType
<1>6. Cached(v)'
  <2>1. Marks(cache[v], up[v], down[v], receipt[v], batch[v] # None)
    BY <1>2 DEF Edge, Cached, ReadBy, Busy
  <2>2. Marks(cache[v], up'[v], down'[v], receipt'[v], batch'[v] # None)
    BY <1>2, <1>3, <1>5, <2>1, ActsMarks
  <2>3. ReadBy(v)' = receipt'[v] /\ Busy(v)' = (batch'[v] # None)
    BY <1>2 DEF ReadBy, Busy
  <2> QED BY <1>1, <2>2, <2>3 DEF Cached
<1>7. IdleView(v)'
  <2>1. IdleRight(idle[v], up[v], down[v], receipt[v], batch[v] # None)
    BY <1>2 DEF Edge, IdleView
  <2>2. IdleRight(idle[v], up'[v], down'[v], receipt'[v], batch'[v] # None)
    BY <1>2, <1>3, <2>1, ActsIdle
  <2> QED BY <1>1, <1>2, <2>2 DEF IdleView
<1>8. Distinct(cache'[v]) /\ Weighed(cache'[v], down'[v])
  <2>1. Range(down'[v]) \subseteq Range(down[v])
    BY <1>2, <1>4, FrameQueues
  <2> QED BY <1>1, <1>2, <2>1 DEF Edge, Weighed
<1>9. idle'[v] <= Size'[v]
  BY <1>1, <1>2, TreeSame DEF Edge
<1>10. Account(v)'
  <2>1. /\ IsFiniteSet(Assigned(v)) /\ numTasks[v] + OwedIn(up[v]) = Cardinality(Assigned(v)) + 0
    BY <1>2 DEF Edge, Account, InHand, Within
  <2>2. OwedIn(up[v]) \in Int
    <3>1. up[v] \in Seq(Messages)
      BY <1>2 DEF CrewInv, CrewType
    <3> QED BY <3>1, OwedConcat
  <2>3. IsFiniteSet(Assigned(v)') /\ numTasks[v] + OwedIn(up'[v]) = Cardinality(Assigned(v)')
    <3>1. CASE v # w
      <4>1. Assigned(v)' = Assigned(v) /\ OwedIn(up'[v]) = OwedIn(up[v])
        BY <1>2, <1>3, <3>1 DEF Settles
      <4>2. Cardinality(Assigned(v)) \in Nat
        BY <2>1, FS_CardinalityType
      <4> QED BY <2>1, <4>1, <4>2
    <3>2. CASE v = w
      <4>1. PICK X \in SUBSET Assigned(w) :
               /\ IsFiniteSet(X) /\ Assigned(w)' = Assigned(w) \ X
               /\ OwedIn(up'[w]) = OwedIn(up[w]) - Cardinality(X)
        BY <1>3 DEF Settles
      <4>2. PICK A : A = Assigned(w)
        OBVIOUS
      <4>3. IsFiniteSet(A) /\ A \cap X = X
        BY <2>1, <3>2, <4>1, <4>2
      <4>4. IsFiniteSet(A \ X) /\ Cardinality(A \ X) = Cardinality(A) - Cardinality(A \cap X)
        BY <4>1, <4>3, FS_Difference, Zenon
      <4>5. Cardinality(X) \in Nat /\ Cardinality(A) \in Nat
        BY <4>1, <4>3, FS_CardinalityType
      <4>6. PICK a, b, c, o, p : /\ a = Cardinality(A) /\ b = Cardinality(X) /\ c = numTasks[v]
                                 /\ o = OwedIn(up[v]) /\ p = OwedIn(up'[v])
        OBVIOUS
      <4>7. a \in Int /\ b \in Int /\ c \in Int /\ o \in Int /\ c + o = a + 0 /\ p = o - b
        BY <1>5, <2>1, <2>2, <3>2, <4>1, <4>2, <4>5, <4>6
      <4>8. c + p = a - b
        BY <4>7
      <4>9. Assigned(v)' = A \ X
        BY <3>2, <4>1, <4>2
      <4>10. Cardinality(Assigned(v)') = a - b
        BY <4>3, <4>4, <4>6, <4>9
      <4> QED BY <4>4, <4>6, <4>8, <4>9, <4>10
    <3> QED BY <3>1, <3>2
  <2>4. InHand(v)' = Assigned(v)' /\ Within(v)' = 0
    BY <1>2 DEF InHand, Within
  <2>5. Cardinality(Assigned(v)') \in Nat
    BY <2>3, FS_CardinalityType
  <2> QED BY <1>1, <2>3, <2>4, <2>5 DEF Account
<1>11. Routed(v)'
  BY <1>2, <1>4, RoutesStay
<1> QED BY <1>6, <1>7, <1>8, <1>9, <1>10, <1>11 DEF Edge

\* A worker's step is nothing to a manager and its boss.
LEMMA WorkerManagers ==
    ASSUME IInv, NEW w \in Workers \cap Employed, WorkerStep(w), UNCHANGED above,
           NEW e \in Employed \ Workers
    PROVE  Edge(e)'
<1>1. /\ UNCHANGED <<numTasks, idle, cache, numIdle, last, read, announced>> /\ UNCHANGED system
  BY DEF above, employee
<1>2. e \in Nodes /\ e # w /\ e \in Employed /\ e \notin Workers /\ Edge(e)
  BY NodeKinds DEF IInv
<1>3. WorkerFrame(w)
  BY WorkerFramed
<1>4. up'[e] = up[e] /\ down'[e] = down[e]
  BY <1>2, <1>3, FrameQueues
<1>5. Team'[e] = Team[e] /\ Size'[e] = Size[e] /\ Of(e)' = Of(e)
  BY <1>1, TreeSame
<1>6. Cached(e)' /\ IdleView(e)'
  BY <1>1, <1>2, <1>4 DEF Edge, Cached, ReadBy, Busy, IdleView
<1>7. Account(e)'
  BY <1>1, <1>2, <1>4, <1>5 DEF Edge, Account, InHand, Within, Mine
<1>8. Distinct(cache'[e]) /\ Weighed(cache'[e], down'[e]) /\ idle'[e] <= Size'[e]
  BY <1>1, <1>2, <1>4, <1>5 DEF Edge
<1>9. Routed(e)'
  BY <1>2, <1>3, RoutesStay
<1> QED BY <1>6, <1>7, <1>8, <1>9 DEF Edge

\* Only map makes tasks, the children of a task that has not mapped before.
LEMMA WorkerBirths ==
    ASSUME IInv, NEW w \in Workers \cap Employed, WorkerStep(w), UNCHANGED above
    PROVE  /\ Births' /\ Born \subseteq Born'
           /\ \/ mapped' = mapped /\ Born' = Born
              \/ \E t \in Tasks : mapped' = mapped \cup {t}
<1>1. /\ w \in Workers \cap Nodes /\ CrewInv(Nodes) /\ Born = Everywhere(Layout(Nodes))
      /\ submitted' = submitted
  BY DEF IInv, Nodes, Births, above
<1>2. ASSUME mapped' = mapped, Everywhere(Layout(Nodes))' = Everywhere(Layout(Nodes))
      PROVE  /\ Births' /\ Born \subseteq Born' /\ mapped' = mapped /\ Born' = Born
  <2>1. Born' = Born
    BY <1>1, <1>2 DEF Born, Kids
  <2> QED BY <1>1, <1>2, <2>1 DEF Births
<1>3. CASE ReadBatch(w) \/ DelayRest(w) \/ ReadReclaim(w)
  <2>1. mapped' = mapped
    BY <1>3 DEF ReadBatch, DelayRest, ReadReclaim, tree
  <2> QED BY <1>1, <1>2, <1>3, <2>1, ReadBatchKeeps, DelayRestKeeps, ReadReclaimKeeps
<1>4. CASE ReadResult(w)
  <2>1. mapped' = mapped
    BY <1>4 DEF ReadResult
  <2> QED BY <1>1, <1>2, <1>4, <2>1, ReadResultKeeps
<1>5. CASE Promote(w) \/ NothingDelayed(w) \/ SendWaiting(w)
  <2>1. mapped' = mapped
    BY <1>5 DEF Promote, NothingDelayed, SendWaiting, tree
  <2> QED BY <1>1, <1>2, <1>5, <2>1, PromoteKeeps, NothingDelayedKeeps, SendWaitingKeeps
<1>6. CASE \E t \in Tasks : RunToMap(w, t)
  <2>1. PICK t \in Tasks : RunToMap(w, t)
    BY <1>6
  <2>2. mapped' = mapped \cup {t}
    BY <2>1 DEF RunToMap
  <2>3. Everywhere(Layout(Nodes))' = Everywhere(Layout(Nodes)) \cup Kids(t)
    BY <1>1, <2>1, RunToMapKeeps
  <2>4. Born' = Born \cup Kids(t)
    BY <1>1, <2>2 DEF Born, Kids
  <2> QED BY <1>1, <2>2, <2>3, <2>4 DEF Births
<1>7. CASE \E t \in Tasks : RunToEnd(w, t)
  <2>1. PICK t \in Tasks : RunToEnd(w, t)
    BY <1>7
  <2>2. mapped' = mapped
    BY <2>1 DEF RunToEnd
  <2> QED BY <1>1, <1>2, <2>1, <2>2, RunToEndKeeps
<1> QED BY <1>3, <1>4, <1>5, <1>6, <1>7 DEF WorkerStep, Incoming, Working

\* What has gone down is not on its way up.
LEMMA WorkerDescends ==
    ASSUME IInv, NEW w \in Workers \cap Employed, WorkerStep(w), UNCHANGED above
    PROVE  Descends'
<1>1. UNCHANGED cache /\ UNCHANGED system
  BY DEF above, employee
<1>2. WorkerFrame(w)
  BY WorkerFramed
<1>3. /\ Employed' = Employed /\ \A e : Team'[e] = Team[e]
      /\ \A e : Firsts(e)' = Firsts(e)
  BY <1>1, TreeSame DEF Firsts
<1>4. \A x \in Nodes : Sent(down'[x]) \subseteq Sent(down[x])
  <2> TAKE x \in Nodes
  <2>1. CASE x = w
    BY <1>2, <2>1, FrameQueues
  <2>2. CASE x # w
    BY <1>2, <2>2, FrameQueues
  <2> QED BY <2>1, <2>2
<1>5. \A x \in Nodes : Sent(up'[x]) \cap Born \subseteq Sent(up[x])
  <2> TAKE x \in Nodes
  <2>1. CASE x # w \/ up'[x] = up[x]
    BY <1>2, <2>1, FrameQueues
  <2>2. CASE x = w /\ \E k \in Messages : Told(w, k) /\ up'[w] = Append(up[w], k)
    <3>1. PICK k \in Messages : Told(w, k) /\ up'[w] = Append(up[w], k)
      BY <2>2
    <3>2. up[w] \in Seq(Messages)
      BY <1>2, FrameQueues
    <3>3. Sent(up'[w]) = Sent(up[w]) \cup SentBy(k)
      BY <3>1, <3>2, SentAppend
    <3>4. SentBy(k) \cap Born = {}
      <4>1. CASE k.type \in {"BACKLOG", "UPDATE"} \/ k.type = "WAITING"
        <5>1. k.type # "SUBMIT_BATCH"
          BY <4>1
        <5> QED BY <5>1 DEF SentBy
      <4>2. CASE \E t \in Tasks : k = Result(t, w)
        BY <4>2, Carried
      <4>3. ASSUME NEW t \in Tasks \ mapped, k = Batch(Children[t]) PROVE SentBy(k) \cap Born = {}
        <5>1. SentBy(k) = Kids(t)
          BY <4>3, Carried DEF Kids
        <5> QED BY <4>3, <5>1 DEF IInv, CrewInv, Tree, Births
      <4> QED BY <3>1, <4>1, <4>2, <4>3 DEF Told
    <3> QED BY <2>2, <3>3, <3>4
  <2> QED BY <1>2, <2>1, <2>2, FrameQueues
<1>6. Born \subseteq Born'
  BY WorkerBirths
<1>7. \A e \in Employed : e \in Nodes
  BY NodeKinds DEF IInv
<1>8. Descends
  BY DEF IInv
<1>9. ASSUME NEW e \in Employed
      PROVE  /\ Firsts(e) \subseteq Born'
             /\ \A x \in Nodes : Firsts(e) \cap Sent(up'[x]) = {}
             /\ \A x \in Employed : e \in Team[x] /\ x # e => Firsts(e) \cap Sent(down'[x]) = {}
  <2>1. /\ Firsts(e) \subseteq Born
        /\ \A x \in Nodes : Firsts(e) \cap Sent(up[x]) = {}
        /\ \A x \in Employed : e \in Team[x] /\ x # e => Firsts(e) \cap Sent(down[x]) = {}
    BY <1>8 DEF Descends
  <2>2. \A x \in Nodes : Firsts(e) \cap Sent(up'[x]) = {}
    BY <1>5, <2>1
  <2> QED BY <1>4, <1>6, <1>7, <2>1, <2>2
<1> QED BY <1>3, <1>9 DEF Descends

\* The invariant through any step of a worker.
LEMMA WorkerKeeps ==
    ASSUME IInv, NEW w \in Workers \cap Employed, WorkerStep(w), UNCHANGED above
    PROVE  /\ IInv' /\ submitted' = submitted /\ done' = done
           /\ Born' = Born \/ \E t \in Tasks : mapped' = mapped \cup {t}
<1>1. /\ UNCHANGED <<numTasks, idle, cache, numIdle, last, read, announced, error>>
      /\ UNCHANGED <<system, submitted, done>>
  BY DEF above, employee
<1>2. WorkerFrame(w)
  BY WorkerFramed
<1>3. /\ Employed' = Employed /\ Present' = Present /\ Connected' = Connected
      /\ \A n : Of(n)' = Of(n)
  BY <1>1, TreeSame
<1>4. CrewInv(Nodes)'
  <2>1. w \in Workers /\ Workers \subseteq Nodes /\ CrewInv(Nodes)
    BY DEF IInv, Nodes
  <2> QED BY <2>1, WorkerStepKeeps
<1>5. system' \in Systems /\ Connected' /\ error' = "none"
  BY <1>1, <1>3 DEF IInv
<1>6. BossType' /\ IdleSums'
  BY <1>1, <1>3 DEF IInv, BossType, IdleSums, Mine
<1>7. Clients'
  <2>1. Roots' = Roots /\ finished \subseteq finished'
    BY <1>2 DEF Roots, WorkerFrame, Settled
  <2> QED BY <1>1, <2>1 DEF IInv, Clients
<1>8. Strangers'
  <2>1. \A e \in Nodes \ Employed : e # w /\ e \in Nodes
    OBVIOUS
  <2>2. \A e \in Nodes \ Employed : down'[e] = <<>> /\ up'[e] = <<>>
    BY <1>2, <2>1, FrameQueues DEF IInv, Strangers
  <2>3. \A v \in Workers \ Employed :
          ready'[v] = <<>> /\ delayed'[v] = <<>> /\ held'[v] = {} /\ batch'[v] = None
    BY <1>2 DEF WorkerFrame, Sleeps, IInv, Strangers
  <2> QED BY <1>3, <2>2, <2>3 DEF Strangers
<1>9. Homed'
  BY <1>2, <1>3 DEF WorkerFrame, Settled, IInv, Homed
<1>10. \A e \in Employed : Edge(e)'
  BY WorkerEdge, WorkerManagers
<1>11. Births' /\ (Born' = Born \/ \E t \in Tasks : mapped' = mapped \cup {t})
  BY WorkerBirths
<1>12. Descends' /\ Wakes' /\ Arrives'
  BY WorkerDescends, WorkerWakes, WorkerArrives
<1>13. \A e \in Employed' : Edge(e)'
  BY <1>3, <1>10
<1> QED BY <1>1, <1>4, <1>5, <1>6, <1>7, <1>8, <1>9, <1>11, <1>12, <1>13 DEF IInv

----------------------------------------------------------------------------
(* The beginning, and every step.                                          *)

\* Nothing has been sent, and everyone is counted as idle.
LEMMA EdgeStarts ==
    ASSUME Init, NEW e \in Employed, InHand(e) = {}
    PROVE  Edge(e)
<1>1. /\ system \in Systems /\ numTasks[e] = 0 /\ idle[e] = Size[e] /\ cache[e] = <<>>
      /\ \A n \in Present : numIdle[n] = Size[n]
      /\ \A m \in Present \ {Server} : last[m] = Size[m] /\ read[m] = None /\ announced[m] = 0
  BY DEF Init
<1>2. /\ e \in Nodes /\ e \in Tops /\ e # Server /\ (e \in Workers \/ e \in Managers)
      /\ e \notin Workers => e \in Present /\ e \in Present \ {Server}
  BY <1>1, NodeKinds
<1>3. /\ down[e] = <<>> /\ up[e] = <<>> /\ Size[e] \in Nat
      /\ e \in Workers => receipt[e] = None /\ batch[e] = None /\ Size[e] = 1
  <2>1. down[e] = <<>> /\ up[e] = <<>>
    BY <1>2 DEF Init
  <2>2. e \in Workers => receipt[e] = None /\ batch[e] = None
    BY DEF Init, CrewInit
  <2> QED BY <1>1, <1>2, <2>1, <2>2, SizeType
<1>4. ReadBy(e) = None /\ Busy(e) = FALSE
  BY <1>1, <1>2, <1>3 DEF ReadBy, Busy
<1>5. Unread(<<>>) = <<>> /\ Range(<<>>) = {} /\ DOMAIN <<>> = {}
  <2>1. DOMAIN <<>> = {}
    OBVIOUS
  <2>2. Unread(<<>>) = <<>>
    BY UnreadType, SentFew
  <2> QED BY <2>1, <2>2, RangeType
<1>6. Marks(<<>>, <<>>, <<>>, None, FALSE)
  <2>1. Len(<<>>) = 0 + Len(<<>>) /\ DOMAIN <<>> = {}
    OBVIOUS
  <2>2. <<>> \in [DOMAIN <<>> -> 0..0]
    BY <2>1
  <2>3. Marked(<<>>, <<>>, Unread(<<>>), None, 0, 0, <<>>)
    BY <1>5, <2>1, <2>2 DEF Marked, Names, Trace
  <2> QED BY <2>3 DEF Marks
<1>7. Cached(e)
  BY <1>1, <1>3, <1>4, <1>6 DEF Cached
<1>8. Distinct(cache[e]) /\ Weighed(cache[e], down[e]) /\ idle[e] <= Size[e]
  BY <1>1, <1>3, <1>5 DEF Distinct, Weighed
<1>9. Within(e) = 0
  <2>1. CASE e \in Workers
    BY <2>1 DEF Within
  <2>2. CASE e \notin Workers
    <3>1. /\ IsFiniteSet(Of(e)) /\ Of(e) \subseteq Employed /\ announced[e] = 0
      BY <1>1, <1>2, <2>2, NodeKinds, TreeType
    <3>2. Mine(numTasks, e) \in [Of(e) -> Int] /\ \A x \in Of(e) : Mine(numTasks, e)[x] = 0
      BY <3>1 DEF Mine, Init
    <3>3. Total(Mine(numTasks, e)) = Total(Mine(numTasks, e)) + Total(Mine(numTasks, e))
      BY <3>1, <3>2, TotalPlus
    <3>4. Total(Mine(numTasks, e)) \in Int
      BY <3>1, <3>2, TotalSums
    <3>5. Total(Mine(numTasks, e)) = 0
      <4>1. PICK a : a = Total(Mine(numTasks, e))
        OBVIOUS
      <4>2. a \in Int /\ a = a + a
        BY <3>3, <3>4, <4>1
      <4>3. a = 0
        BY <4>2
      <4> QED BY <4>1, <4>3
    <3> QED BY <2>2, <3>1, <3>5 DEF Within
  <2> QED BY <2>1, <2>2
<1>10. Account(e)
  <2>1. IsFiniteSet({}) /\ Cardinality({}) = 0 /\ OwedIn(<<>>) = 0
    BY FS_EmptySet, OwedTail
  <2> QED BY <1>1, <1>3, <1>9, <2>1 DEF Account
<1>11. IdleView(e)
  <2>1. CASE e \in Workers
    BY <1>3, <1>5, <2>1 DEF IdleView, IdleRight
  <2>2. CASE e \notin Workers
    <3>1. /\ numIdle[e] = Size[e] /\ last[e] = Size[e] /\ read[e] = None
      BY <1>1, <1>2, <2>2
    <3>2. After(<<>>, None) = 0
      <4>1. CutCache(<<>>, None) = <<>>
        BY DEF CutCache
      <4> QED BY <4>1, CountSentBound DEF After, SentSince
    <3>3. Reports(<<>>) = {}
      BY <1>5 DEF Reports
    <3>4. View(<<>>, <<>>, Size[e], None, Size[e], Size[e])
      BY <1>3, <1>5, <3>2, <3>3 DEF View, Promised
    <3> QED BY <1>1, <1>3, <2>2, <3>1, <3>4 DEF IdleView
  <2> QED BY <2>1, <2>2
<1>12. Routed(e)
  BY <1>3, <1>5 DEF Routed
<1> QED BY <1>7, <1>8, <1>10, <1>11, <1>12 DEF Edge

\* The invariant at the start.
LEMMA InitHolds ==
    ASSUME Init
    PROVE  IInv /\ Born = {}
<1>1. system \in Systems /\ Connected /\ error = "none"
  BY DEF Init
<1>2. CrewInv(Nodes) /\ Everywhere(Layout(Nodes)) = {} /\ \A w \in Workers : Assigned(w) = {}
  <2>1. /\ CrewInit /\ Workers \subseteq Nodes
        /\ down = [e \in Nodes |-> <<>>] /\ up = [e \in Nodes |-> <<>>]
    BY DEF Init, Nodes
  <2> QED BY <2>1, CrewStarts
<1>3. Sent(<<>>) = {} /\ Range(<<>>) = {}
  BY SentFew, RangeType
<1>4. /\ \A e \in Nodes : down[e] = <<>> /\ up[e] = <<>>
      /\ submitted = {} /\ done = {} /\ mapped = {} /\ finished = {}
      /\ \A t \in Tasks : home[t] = None
      /\ \A w \in Workers : ready[w] = <<>> /\ delayed[w] = <<>> /\ held[w] = {} /\ batch[w] = None
      /\ \A e \in Employed : cache[e] = <<>>
  BY DEF Init, CrewInit
<1>5. \A e \in Employed : e \in Nodes /\ e \in Tops
  BY <1>1, NodeKinds
<1>6. \A n \in Tops : Size[n] \in Nat
  BY <1>1, SizeType
<1>7. Present \subseteq Tops
  BY <1>1, TreeType DEF Tops
<1>8. BossType
  <2>1. <<>> \in Seq(Entries) /\ 0 \in Int
    OBVIOUS
  <2>2. Present \ {Server} \subseteq Tops
    BY <1>7
  <2>3. numTasks \in [Employed -> Int] /\ idle \in [Employed -> Nat] /\ cache \in [Employed -> Seq(Entries)]
    BY <1>5, <1>6, <2>1 DEF Init
  <2>4. numIdle \in [Present -> Nat] /\ last \in [Present \ {Server} -> Nat]
    BY <1>6, <1>7, <2>2 DEF Init
  <2>5. read \in [Present \ {Server} -> Tasks \cup {None}] /\ announced \in [Present \ {Server} -> Int]
    BY <2>1 DEF Init
  <2> QED BY <2>3, <2>4, <2>5 DEF BossType
<1>9. Born = {} /\ Births /\ Clients
  BY <1>2, <1>4 DEF Born, Births, Clients
<1>10. Strangers /\ Homed /\ Wakes /\ Arrives
  BY <1>4 DEF Strangers, Homed, Wakes, Arrives
<1>11. \A e \in Employed : InHand(e) = {}
  BY <1>2, <1>3, <1>4, <1>5 DEF InHand
<1>12. \A e \in Employed : Edge(e)
  BY <1>11, EdgeStarts
<1>13. Descends
  <2>1. \A e \in Employed : Firsts(e) = {}
    BY <1>3, <1>4 DEF Firsts
  <2> QED BY <2>1 DEF Descends
<1>14. IdleSums
  <2> SUFFICES ASSUME NEW n \in Present PROVE numIdle[n] = Total(Mine(idle, n))
    BY DEF IdleSums
  <2>1. n \in Tops /\ n \notin Workers /\ Of(n) \subseteq Employed
    BY <1>1, <1>7, NodeKinds
  <2>2. Size[n] = Total([x \in Of(n) |-> Size[x]])
    BY <1>1, <2>1, SizeType
  <2>3. Mine(idle, n) = [x \in Of(n) |-> Size[x]]
    BY <2>1 DEF Mine, Init
  <2>4. numIdle[n] = Size[n]
    BY DEF Init
  <2> QED BY <2>2, <2>3, <2>4
<1> QED BY <1>1, <1>2, <1>8, <1>9, <1>10, <1>12, <1>13, <1>14 DEF IInv

\* What a server or manager does.
BossStep ==
    \/ \E r \in Roots : SubmitRoot(r)
    \/ \E e \in Employed : Below(e)
    \/ \E m \in Managers \cap Employed : Above(m)

\* A step from below keeps the invariant.
LEMMA BelowKeeps ==
    ASSUME IInv, NEW e \in Employed, Below(e)
    PROVE  /\ IInv' /\ Born' = Born
           /\ done' = done \/ \E t \in Roots \cap finished : done' = done \cup {t}
<1>1. CASE ServerBatch(e)
  BY <1>1, ServerBatchKeeps DEF ServerBatch
<1>2. CASE ServerResult(e)
  BY <1>2, ServerResultKeeps
<1>3. CASE ServerUpdate(e)
  BY <1>3, ServerUpdateKeeps DEF ServerUpdate
<1>4. CASE HandleWaiting(e)
  BY <1>4, HandleWaitingKeeps DEF HandleWaiting
<1>5. ASSUME NEW m \in Managers, SendUpOrSchedule(m, e) PROVE IInv' /\ Born' = Born /\ done' = done
  BY <1>5, SendUpKeeps DEF SendUpOrSchedule
<1>6. ASSUME NEW m \in Managers, ManagerResult(m, e) PROVE IInv' /\ Born' = Born /\ done' = done
  BY <1>6, ManagerResultKeeps DEF ManagerResult
<1>7. ASSUME NEW m \in Managers, ManagerUpdate(m, e) PROVE IInv' /\ Born' = Born /\ done' = done
  BY <1>7, ManagerUpdateKeeps DEF ManagerUpdate
<1>8. ASSUME NEW m \in Managers, ManagerBacklog(m, e) PROVE IInv' /\ Born' = Born /\ done' = done
  BY <1>8, ManagerBacklogKeeps DEF ManagerBacklog, above
<1> QED BY <1>1, <1>2, <1>3, <1>4, <1>5, <1>6, <1>7, <1>8 DEF Below

\* The invariant when nothing changes.
LEMMA StutterHolds ==
    ASSUME IInv, UNCHANGED vars
    PROVE  IInv' /\ Born' = Born
<1>1. /\ UNCHANGED <<system, numTasks, idle, cache, numIdle, last, read, announced, error>>
      /\ UNCHANGED <<submitted, done, down, up, worker, tree>>
  BY DEF vars, above, employee
<1>2. /\ Employed' = Employed /\ Present' = Present /\ Connected' = Connected
      /\ \A n : Of(n)' = Of(n) /\ Team' = Team /\ Size' = Size
  BY <1>1, TreeSame
<1>3. UNCHANGED <<ready, delayed, held, batch, receipt, reported, phase, home, missing, mapped, finished>>
  BY <1>1 DEF worker, tree
<1>4. /\ Layout(Nodes)' = Layout(Nodes) /\ CrewInv(Nodes)'
      /\ \A w \in Workers : Assigned(w)' = Assigned(w)
  <2>1. /\ Layout(Nodes)' = Layout(Nodes) /\ Apart(Layout(Nodes))'
        /\ Everywhere(Layout(Nodes))' = Everywhere(Layout(Nodes))
    BY <1>1, StillPlaced DEF IInv, CrewInv, Placed
  <2>2. /\ down' \in [Nodes -> Seq(Messages)] /\ up' \in [Nodes -> Seq(Messages)]
        /\ {} \in SUBSET Roots
        /\ Everywhere(Layout(Nodes))' = Everywhere(Layout(Nodes)) \cup {}
        /\ \A w \in Nodes : OnceEach(down'[w]) /\ OnceEach(up'[w])
    BY <1>1, <2>1 DEF IInv, CrewInv, CrewType, Placed, Once
  <2>3. Results(Nodes)'
    BY <1>1, <1>3 DEF IInv, CrewInv, Results
  <2>4. CrewInv(Nodes)'
    BY <1>1, <2>1, <2>2, <2>3, BossKeeps DEF IInv
  <2>5. \A w \in Workers : Assigned(w)' = Assigned(w)
    BY <1>1, <1>3, AssignedLies DEF Batched
  <2> QED BY <2>1, <2>4, <2>5
<1>5. Born' = Born /\ Births' /\ Clients'
  BY <1>1, <1>3, <1>4 DEF IInv, Births, Born, Kids, Clients, Roots
<1>6. BossType' /\ IdleSums' /\ error' = "none" /\ system' \in Systems /\ Connected'
  BY <1>1, <1>2 DEF IInv, BossType, IdleSums, Mine
<1>7. Strangers' /\ Homed' /\ Wakes'
  BY <1>1, <1>2, <1>3 DEF IInv, Strangers, Homed, Wakes
<1>8. Arrives'
  BY <1>1, <1>3 DEF IInv, Arrives, Underway, Roots, Parent
<1>9. Descends'
  BY <1>1, <1>2, <1>5 DEF IInv, Descends, Firsts
<1>10. ASSUME NEW e \in Employed PROVE Edge(e)'
  <2>1. Edge(e) /\ Cached(e)' = Cached(e) /\ IdleView(e)' = IdleView(e)
    BY <1>1, <1>3 DEF IInv, Cached, ReadBy, Busy, IdleView
  <2>2. InHand(e)' = InHand(e) /\ Within(e)' = Within(e)
    BY <1>1, <1>2, <1>4 DEF InHand, Within, Mine
  <2>3. Account(e)'
    BY <1>1, <2>1, <2>2 DEF Edge, Account
  <2>4. Routed(e)'
    BY <1>1, <1>2, <1>3, <2>1 DEF Edge, Routed, UpRoute, DownRoute
  <2> QED BY <1>1, <1>2, <2>1, <2>3, <2>4 DEF Edge
<1>11. \A e \in Employed' : Edge(e)'
  BY <1>2, <1>10
<1> QED BY <1>4, <1>5, <1>6, <1>7, <1>8, <1>9, <1>11 DEF IInv

\* The inductive invariant holds: through any levels of managers, whatever the
\* interleaving of server, managers and the threads of the workers.
THEOREM IInvHolds == Spec => []IInv
<1>1. Init => IInv
  BY InitHolds
<1>2. IInv /\ [Next]_vars => IInv'
  <2> SUFFICES ASSUME IInv, [Next]_vars PROVE IInv'
    OBVIOUS
  <2>1. ASSUME NEW r \in Roots, SubmitRoot(r) PROVE IInv'
    BY <2>1, SubmitRootKeeps
  <2>2. ASSUME NEW e \in Employed, Below(e) PROVE IInv'
    BY <2>2, BelowKeeps
  <2>3. ASSUME NEW m \in Managers \cap Employed, Above(m) PROVE IInv'
    BY <2>3, ManagerReadBatchKeeps, ManagerReadResultKeeps DEF Above
  <2>4. ASSUME NEW w \in Workers \cap Employed, WorkerStep(w), UNCHANGED above PROVE IInv'
    BY <2>4, WorkerKeeps
  <2>5. CASE UNCHANGED vars
    BY <2>5, StutterHolds
  <2> QED BY <2>1, <2>2, <2>3, <2>4, <2>5 DEF Next
<1> QED BY <1>1, <1>2, PTL DEF Spec

----------------------------------------------------------------------------
(* The contract.                                                           *)

\* A task that is in a spot is in no other.
LEMMA OneSpot ==
    ASSUME IInv, NEW s \in Spots(Nodes), NEW t \in Lies(s)
    PROVE  /\ \A r \in Spots(Nodes) : t \in Lies(r) => r = s
           /\ t \in Born
           /\ t \in finished <=> s = <<"over", None>>
           /\ \A x \in Nodes : t \in Sent(up[x]) <=> s = <<"up", x>>
           /\ \A x \in Nodes : t \in Sent(down[x]) <=> s = <<"down", x>>
           /\ \A w \in Workers : t \in held[w] <=> s = <<"held", w>>
           /\ \A w \in Workers : t \in Range(delayed[w]) <=> s = <<"delayed", w>>
           /\ \A w \in Workers : t \in Batched(w) <=> s = <<"batch", w>>
<1>1. \A r \in Spots(Nodes) : t \in Lies(r) => r = s
  BY LayoutType DEF IInv, CrewInv, Placed, Apart
<1>2. t \in Born
  BY LayoutType DEF IInv, Births, Everywhere
<1>3. t \in finished <=> s = <<"over", None>>
  BY <1>1, LayoutType, LiesAt
<1>4. \A x \in Nodes : t \in Sent(up[x]) <=> s = <<"up", x>>
  <2> TAKE x \in Nodes
  <2>1. PICK r : r = <<"up", x>>
    OBVIOUS
  <2>2. r \in Spots(Nodes) /\ Lies(r) = Sent(up[x])
    BY <2>1, LayoutType, LiesAt
  <2>3. t \in Lies(r) <=> r = s
    BY <1>1, <2>2
  <2> QED BY <2>1, <2>2, <2>3
<1>5. \A x \in Nodes : t \in Sent(down[x]) <=> s = <<"down", x>>
  <2> TAKE x \in Nodes
  <2>1. PICK r : r = <<"down", x>>
    OBVIOUS
  <2>2. r \in Spots(Nodes) /\ Lies(r) = Sent(down[x])
    BY <2>1, LayoutType, LiesAt
  <2>3. t \in Lies(r) <=> r = s
    BY <1>1, <2>2
  <2> QED BY <2>1, <2>2, <2>3
<1>6. \A w \in Workers : t \in held[w] <=> s = <<"held", w>>
  <2> TAKE w \in Workers
  <2>1. PICK r : r = <<"held", w>>
    OBVIOUS
  <2>2. r \in Spots(Nodes) /\ Lies(r) = held[w]
    BY <2>1, LayoutType, LiesAt
  <2>3. t \in Lies(r) <=> r = s
    BY <1>1, <2>2
  <2> QED BY <2>1, <2>2, <2>3
<1>7. \A w \in Workers : t \in Range(delayed[w]) <=> s = <<"delayed", w>>
  <2> TAKE w \in Workers
  <2>1. PICK r : r = <<"delayed", w>>
    OBVIOUS
  <2>2. r \in Spots(Nodes) /\ Lies(r) = Range(delayed[w])
    BY <2>1, LayoutType, LiesAt
  <2>3. t \in Lies(r) <=> r = s
    BY <1>1, <2>2
  <2> QED BY <2>1, <2>2, <2>3
<1>8. \A w \in Workers : t \in Batched(w) <=> s = <<"batch", w>>
  <2> TAKE w \in Workers
  <2>1. PICK r : r = <<"batch", w>>
    OBVIOUS
  <2>2. r \in Spots(Nodes) /\ Lies(r) = Batched(w)
    BY <2>1, LayoutType, LiesAt
  <2>3. t \in Lies(r) <=> r = s
    BY <1>1, <2>2
  <2> QED BY <2>1, <2>2, <2>3
<1> QED BY <1>1, <1>2, <1>3, <1>4, <1>5, <1>6, <1>7, <1>8

\* What a worker holds is not over.
LEMMA HeldAlive ==
    ASSUME IInv, NEW w \in Workers, NEW t \in held[w]
    PROVE  t \in Born \ finished /\ t \in Tasks
<1>1. <<"held", w>> \in Spots(Nodes) /\ t \in Lies(<<"held", w>>)
  BY LayoutType, LiesAt
<1>2. t \in Born /\ t \notin finished
  BY <1>1, OneSpot
<1> QED BY <1>2 DEF IInv, CrewInv, CrewType

\* What the contract calls born is Born.
LEMMA ContractBorn ==
    /\ Born = submitted \cup UNION {Range(Children[t]) : t \in mapped}
    /\ Born' = submitted' \cup UNION {Range(Children[t]) : t \in mapped'}
    /\ Contract!Roots = Roots
    /\ \A t : Contract!Range(Children[t]) = Kids(t)
<1>1. /\ Contract!Roots = Roots
      /\ \A t : Contract!Range(Children[t]) = Kids(t)
  BY DEF Contract!Roots, Roots, Contract!Range, Range, Kids
<1> QED BY <1>1 DEF Born, Kids

\* A worker maps, ends a task, or does what the contract does not see.
LEMMA WorkerImplements ==
    ASSUME IInv, NEW w \in Workers \cap Employed, WorkerStep(w), UNCHANGED above
    PROVE  \/ \E t \in Tasks : Contract!Map(t) \/ Contract!End(t)
           \/ Born' = Born /\ finished' = finished /\ done' = done
<1>1. /\ submitted' = submitted /\ done' = done
      /\ w \in Workers \cap Nodes /\ w \in Workers /\ CrewInv(Nodes)
  BY DEF above, Nodes, IInv
<1>2. \A p \in Tasks \ mapped : Kids(p) \cap Born = {}
  BY DEF IInv, CrewInv, Tree, Births
<1>3. CASE \E t \in Tasks : RunToMap(w, t)
  <2>1. PICK t \in Tasks : RunToMap(w, t)
    BY <1>3
  <2>2. /\ t \notin mapped /\ mapped' = mapped \cup {t} /\ finished' = finished
        /\ ready[w] # <<>> /\ t = Head(ready[w])
    BY <2>1 DEF RunToMap, Pop
  <2>3. t \in Born \ finished
    BY <1>1, <2>2, PoppedTask, HeldAlive
  <2>4. Kids(t) # {}
    BY <1>1, <2>1, RunToMapEffect DEF CrewInv, Kids
  <2>5. Born' = Born \cup Kids(t)
    BY <1>1, <2>2 DEF Born, Kids
  <2>6. Contract!Map(t)
    BY <1>1, <1>2, <2>2, <2>3, <2>4, <2>5, ContractBorn DEF Contract!Map
  <2> QED BY <2>6
<1>4. CASE \E t \in Tasks : RunToEnd(w, t)
  <2>1. PICK t \in Tasks : RunToEnd(w, t)
    BY <1>4
  <2>2. t \in held[w] /\ Kids(t) \subseteq finished /\ finished' = finished \cup {t}
    BY <1>1, <2>1, RunToEndKeeps
  <2>3. mapped' = mapped
    BY <2>1 DEF RunToEnd
  <2>4. Born' = Born /\ t \in Born \ finished
    BY <1>1, <2>2, <2>3, HeldAlive DEF Born, Kids
  <2>5. Contract!End(t)
    BY <1>1, <2>2, <2>4, ContractBorn DEF Contract!End
  <2> QED BY <2>5
<1>5. CASE Incoming(w) \/ Promote(w) \/ NothingDelayed(w) \/ SendWaiting(w)
  <2>1. mapped' = mapped /\ finished' = finished
    BY <1>5 DEF Incoming, ReadBatch, DelayRest, ReadReclaim, ReadResult, Promote,
                NothingDelayed, SendWaiting, tree
  <2> QED BY <1>1, <2>1 DEF Born, Kids
<1> QED BY <1>3, <1>4, <1>5 DEF WorkerStep, Working

\* A step of a server or manager submits, answers, or does what the contract
\* does not see.
LEMMA BossImplements ==
    ASSUME IInv, BossStep
    PROVE  \/ \E t \in Tasks : Contract!Submit(t) \/ Contract!Answer(t)
           \/ Born' = Born /\ finished' = finished /\ done' = done
<1>1. CASE \E r \in Roots : SubmitRoot(r)
  <2>1. PICK r \in Roots : SubmitRoot(r)
    BY <1>1
  <2>2. r \in Roots \ Born /\ Born' = Born \cup {r} /\ r \in Tasks
    BY <2>1, SubmitRootKeeps DEF Roots
  <2>3. finished' = finished /\ done' = done
    BY <2>1 DEF SubmitRoot, tree
  <2> QED BY <2>2, <2>3, ContractBorn DEF Contract!Submit
<1>2. ASSUME NEW e \in Employed, Below(e)
      PROVE  \/ \E t \in Tasks : Contract!Answer(t)
             \/ Born' = Born /\ finished' = finished /\ done' = done
  <2>1. finished' = finished
    BY <1>2, Zenon DEF Below, ServerBatch, ServerResult, ServerUpdate, HandleWaiting, SendUpOrSchedule,
                ManagerResult, ManagerUpdate, ManagerBacklog, tree
  <2>2. Born' = Born /\ (done' = done \/ \E t \in Roots \cap finished : done' = done \cup {t})
    BY <1>2, BelowKeeps
  <2>3. ASSUME NEW t \in Roots \cap finished, t \notin done, done' = done \cup {t}
        PROVE  t \in Tasks /\ Contract!Answer(t)
    BY <2>1, <2>2, <2>3, ContractBorn DEF Contract!Answer, Roots
  <2> QED BY <2>1, <2>2, <2>3, SMTT(30)
<1>3. ASSUME NEW m \in Managers \cap Employed, Above(m)
      PROVE  Born' = Born /\ finished' = finished /\ done' = done
  <2>1. Born' = Born
    BY <1>3, ManagerReadBatchKeeps, ManagerReadResultKeeps DEF Above
  <2>2. finished' = finished /\ done' = done
    BY <1>3 DEF Above, ManagerReadBatch, ManagerReadResult, tree
  <2> QED BY <2>1, <2>2
<1> QED BY <1>1, <1>2, <1>3 DEF BossStep

\* Through any levels of managers, what the clients see is the contract of
\* Compilation: children are spawned once, a task returns once all its children
\* have, and only what has returned is answered.
THEOREM CompilesHolds == Spec => TreeCompiles
<1>1. Init => Contract!Init
  BY DEF Init, CrewInit, Contract!Init
<1>2. IInv /\ [Next]_vars
        => [Contract!Next]_<<submitted \cup UNION {Range(Children[t]) : t \in mapped}, finished, done>>
  <2> SUFFICES ASSUME IInv, [Next]_vars
               PROVE  Contract!Next \/ (Born' = Born /\ finished' = finished /\ done' = done)
    BY ContractBorn
  <2>1. CASE BossStep
    BY <2>1, BossImplements DEF Contract!Next
  <2>2. ASSUME NEW w \in Workers \cap Employed, WorkerStep(w), UNCHANGED above
        PROVE  Contract!Next \/ (Born' = Born /\ finished' = finished /\ done' = done)
    BY <2>2, WorkerImplements DEF Contract!Next
  <2>3. CASE UNCHANGED vars
    <3>1. Born' = Born
      BY <2>3, StutterHolds
    <3> QED BY <2>3, <3>1 DEF vars, above, tree
  <2> QED BY <2>1, <2>2, <2>3 DEF Next, BossStep
<1> QED BY <1>1, <1>2, IInvHolds, PTL DEF Spec, TreeCompiles, Contract!Spec

----------------------------------------------------------------------------
(* Idle counts, and the end of the work.                                   *)

\* A node's idle count is the sum over its employees, a worker counted as idle
\* has read what it was sent, and once a manager's reports have arrived its boss
\* counts no more idle workers below it than the manager itself.
THEOREM IdleHolds == Spec => []TreeIdle
<1>1. IInv => TreeIdle
  <2> SUFFICES ASSUME IInv PROVE TreeIdle
    OBVIOUS
  <2>1. \A n \in Present : numIdle[n] = Total(Mine(idle, n))
    BY DEF IInv, IdleSums
  <2>2. ASSUME NEW w \in Workers \cap Employed, idle[w] > 0
        PROVE  batch[w] = None /\ TasksOf(down[w], "SUBMIT_BATCH") = {}
    <3>1. batch[w] = None /\ Unread(down[w]) = <<>>
      BY <2>2 DEF IInv, Edge, IdleView, IdleRight
    <3>2. down[w] \in Seq(Messages)
      BY DEF IInv, CrewInv, CrewType, Nodes
    <3>3. Sent(down[w]) = {}
      BY <3>1, <3>2, UnreadType
    <3> QED BY <3>1, <3>3 DEF Sent
  <2>3. ASSUME NEW m \in Managers \cap Employed, \A i \in DOMAIN up[m] : up[m][i].type # "WAITING"
        PROVE  idle[m] <= numIdle[m]
    <3>1. m \in Employed /\ m \in Present \ {Server}
      BY TreeType DEF IInv
    <3>2. /\ View(cache[m], up[m], idle[m], read[m], numIdle[m], last[m])
          /\ After(cache[m], read[m]) \in Nat /\ numIdle[m] \in Nat /\ idle[m] \in Nat
      BY <3>1, OwnView DEF IInv, BossType
    <3>3. Reports(up[m]) = {}
      BY <2>3 DEF Reports
    <3>4. Promised(cache[m], up[m], idle[m], idle[m])
      BY <3>3 DEF Promised
    <3>5. idle[m] > 0 => idle[m] + After(cache[m], read[m]) <= numIdle[m]
      BY <3>2, <3>4 DEF View
    <3> QED BY <3>2, <3>5
  <2> QED BY <2>1, <2>2, <2>3 DEF TreeIdle
<1> QED BY <1>1, IInvHolds, PTL

\* The tasks that are held; there are finitely many.
InWork == UNION {held[w] : w \in Workers}

\* There are finitely many tasks in work.
LEMMA InWorkFinite ==
    ASSUME IInv
    PROVE  IsFiniteSet(InWork)
<1>1. ASSUME NEW w \in Workers PROVE IsFiniteSet(held[w])
  <2>1. CASE w \in Employed
    <3>1. IsFiniteSet(Assigned(w))
      BY <1>1, <2>1 DEF IInv, Edge, Account, InHand
    <3>2. held[w] \subseteq Assigned(w)
      BY AssignedLies
    <3> QED BY <3>1, <3>2, FS_Subset
  <2>2. CASE w \notin Employed
    <3>1. held[w] = {}
      BY <1>1, <2>2 DEF IInv, Strangers
    <3> QED BY <3>1, FS_EmptySet
  <2> QED BY <2>1, <2>2
<1>2. Families(Workers, held)
  <2> SUFFICES ASSUME NEW v \in Workers, NEW w \in Workers, v # w, NEW t \in held[v] \cap held[w]
               PROVE  FALSE
    BY DEF Families
  <2>1. <<"held", v>> \in Spots(Nodes) /\ t \in Lies(<<"held", v>>)
    BY LayoutType, LiesAt
  <2>2. <<"held", v>> = <<"held", w>>
    BY <2>1, OneSpot
  <2> QED BY <2>2
<1>3. IsFiniteSet(Union(Workers, held))
  BY <1>1, <1>2, SizeOfFamily, WorkersAssumption
<1> QED BY <1>3 DEF InWork, Union

\* At rest there is nothing in any queue, and every task is held or over.
LEMMA RestSpots ==
    ASSUME IInv, AtRest, ~Stuck
    PROVE  /\ Born \subseteq InWork \cup finished
           /\ \A t : ~Underway(t)
           /\ \A w \in Workers : ready[w] = <<>>
<1>1. \A e \in Nodes : down[e] = <<>> /\ up[e] = <<>>
  BY DEF AtRest, IInv, Strangers
<1>2. \A w \in Workers : ready[w] = <<>> /\ batch[w] = None /\ delayed[w] = <<>>
  <2> TAKE w \in Workers
  <2>1. CASE w \in Employed
    BY <2>1 DEF AtRest, Blocked, Stuck
  <2>2. CASE w \notin Employed
    BY <2>2 DEF IInv, Strangers
  <2> QED BY <2>1, <2>2
<1>3. Sent(<<>>) = {} /\ Range(<<>>) = {}
  BY SentFew, RangeType
<1>4. \A t : ~Underway(t)
  BY <1>1, <1>3 DEF Underway
<1>5. ASSUME NEW t \in Born PROVE t \in InWork \cup finished
  <2>1. PICK s \in Spots(Nodes) : t \in Lies(s)
    BY LayoutType DEF IInv, Births, Everywhere
  <2>2. CASE \E e \in Nodes : s = <<"down", e>> \/ s = <<"up", e>>
    BY <1>1, <1>3, <2>1, <2>2, LiesAt
  <2>3. CASE \E w \in Workers : s = <<"batch", w>> \/ s = <<"delayed", w>>
    BY <1>2, <1>3, <2>1, <2>3, LiesAt DEF Batched
  <2>4. CASE \E w \in Workers : s = <<"held", w>>
    BY <2>1, <2>4, LiesAt DEF InWork
  <2>5. CASE s = <<"over", None>>
    BY <2>1, <2>5, LiesAt
  <2> QED BY <2>2, <2>3, <2>4, <2>5, LayoutType
<1> QED BY <1>2, <1>4, <1>5

\* At rest whatever is held awaits a child that is held as well.
LEMMA RestAwaits ==
    ASSUME IInv, AtRest, ~Stuck, NEW t \in InWork
    PROVE  \E c \in InWork : c \in Kids(t)
<1>1. PICK w \in Workers : t \in held[w]
  BY DEF InWork
<1>2. t \in mapped /\ missing[t] # {} /\ t \in Tasks
  <2>1. Range(ready[w]) = {}
    BY RestSpots, RangeType
  <2> QED BY <1>1, <2>1, HeldAlive DEF IInv, Wakes
<1>3. PICK c \in missing[t] : TRUE
  BY <1>2
<1>4. c \in Kids(t) /\ c \in Tasks /\ Parent(c) = t /\ c \notin Roots
  BY <1>2, <1>3, KidsType DEF IInv, CrewInv, Tree
<1>5. c \in Born
  BY <1>2, <1>4 DEF Born
<1>6. c \notin finished
  BY <1>3, <1>4, RestSpots DEF IInv, Arrives
<1> QED BY <1>4, <1>5, <1>6, RestSpots

\* At rest nothing is held: the children that held tasks await would be as many
\* as those tasks, but no client's task is anybody's child.
LEMMA RestAnswered ==
    ASSUME IInv, AtRest, ~Stuck, NEW r \in submitted
    PROVE  r \in done
<1>1. r \in Roots /\ r \in Born
  BY DEF IInv, Clients, Born
<1>2. r \notin InWork
  <2> SUFFICES ASSUME r \in InWork PROVE FALSE
    OBVIOUS
  <2> DEFINE child == [t \in InWork |-> CHOOSE c \in InWork : c \in Kids(t)]
  <2>1. InWork \subseteq Tasks
    BY HeldAlive DEF InWork
  <2>2. \A t \in InWork : child[t] \in InWork /\ child[t] \in Kids(t)
    BY RestAwaits
  <2> HIDE DEF child
  <2>3. \A t \in InWork : child[t] # r
    BY <1>1, <2>1, <2>2, KidsType
  <2>4. \A t, u \in InWork : t # u => child[t] # child[u]
    BY <2>1, <2>2, KidsType
  <2>5. child \in [InWork -> InWork \ {r}]
    BY <2>2, <2>3 DEF child
  <2>6. /\ IsFiniteSet(InWork) /\ IsFiniteSet(InWork \ {r})
        /\ Cardinality(InWork \ {r}) = Cardinality(InWork) - 1 /\ Cardinality(InWork) \in Nat
    BY InWorkFinite, FS_RemoveElement, FS_CardinalityType
  <2>7. Cardinality(InWork \ {r}) < Cardinality(InWork)
    BY <2>6
  <2>8. \E t, u \in InWork : t # u /\ child[t] = child[u]
    BY <2>5, <2>6, <2>7, FS_PigeonHole
  <2> QED BY <2>4, <2>8
<1>3. r \in finished
  BY <1>1, <1>2, RestSpots
<1> QED BY <1>1, <1>3, RestSpots DEF IInv, Arrives

\* No handler's exception stops a server or manager, and when nothing is left
\* to do every client's task has been answered, unless a worker is stuck.
THEOREM ServesHolds == Spec => []TreeServes
<1>1. IInv => TreeServes
  <2>1. IInv => error = "none"
    BY DEF IInv
  <2>2. ASSUME IInv, AtRest, ~Stuck PROVE submitted \subseteq done
    BY <2>2, RestAnswered
  <2> QED BY <2>1, <2>2 DEF TreeServes
<1> QED BY <1>1, IInvHolds, PTL

----------------------------------------------------------------------------
(* The place of a task, and the counts.                                    *)

\* The nodes that have a task, in the three ways that the property counts.
AtWork(t)    == {w \in Workers \cap Employed : t \in Assigned(w)}
GoingDown(t) == {m \in Managers \cap Employed : t \in TasksOf(down[m], "SUBMIT_BATCH")}
GoingUp(t)   == {e \in Employed : t \in TasksOf(up[e], "SUBMIT_BATCH")}

\* A task in exactly one spot is in one place, as the property counts.
LEMMA PlacedOnce ==
    ASSUME IInv, NEW t \in Born
    PROVE  Cardinality(AtWork(t)) + Cardinality(GoingDown(t)) + Cardinality(GoingUp(t))
             + (IF t \in finished THEN 1 ELSE 0) = 1
<1>1. PICK s \in Spots(Nodes) : t \in Lies(s)
  BY LayoutType DEF IInv, Births, Everywhere
<1>2. /\ t \in finished <=> s = <<"over", None>>
      /\ \A x \in Nodes : t \in Sent(up[x]) <=> s = <<"up", x>>
      /\ \A x \in Nodes : t \in Sent(down[x]) <=> s = <<"down", x>>
      /\ \A w \in Workers : t \in held[w] <=> s = <<"held", w>>
      /\ \A w \in Workers : t \in Range(delayed[w]) <=> s = <<"delayed", w>>
      /\ \A w \in Workers : t \in Batched(w) <=> s = <<"batch", w>>
  BY <1>1, OneSpot
<1>3. /\ \A e \in Employed : e \in Nodes
      /\ Managers \cap Workers = {} /\ Managers \subseteq Nodes /\ Workers \subseteq Nodes
  BY NodeKinds, NodesAssumption DEF IInv, Nodes
<1>4. /\ AtWork(t) = {w \in Workers \cap Employed :
                        s \in {<<"down", w>>, <<"delayed", w>>, <<"held", w>>, <<"batch", w>>}}
      /\ GoingDown(t) = {m \in Managers \cap Employed : s = <<"down", m>>}
      /\ GoingUp(t) = {e \in Employed : s = <<"up", e>>}
  <2>1. \A w \in Workers : t \in Assigned(w) <=>
              s \in {<<"down", w>>, <<"delayed", w>>, <<"held", w>>, <<"batch", w>>}
    <3> TAKE w \in Workers
    <3>1. Assigned(w) = Sent(down[w]) \cup Range(delayed[w]) \cup held[w] \cup Batched(w)
      BY AssignedLies
    <3> QED BY <1>2, <1>3, <3>1
  <2>2. \A q : TasksOf(q, "SUBMIT_BATCH") = Sent(q)
    BY DEF Sent
  <2>3. GoingDown(t) = {m \in Managers \cap Employed : s = <<"down", m>>}
    BY <1>2, <1>3, <2>2 DEF GoingDown
  <2>4. GoingUp(t) = {e \in Employed : s = <<"up", e>>}
    BY <1>2, <1>3, <2>2 DEF GoingUp
  <2> QED BY <2>1, <2>3, <2>4 DEF AtWork
<1>5. Cardinality({}) = 0 /\ \A e : Cardinality({e}) = 1
  BY FS_EmptySet, FS_Singleton
<1>6. \A e \in Nodes \ Employed : Sent(down[e]) = {} /\ Sent(up[e]) = {}
  BY SentFew DEF IInv, Strangers
<1>7. \A w \in Workers \ Employed : Range(delayed[w]) = {} /\ held[w] = {} /\ Batched(w) = {}
  BY RangeType DEF IInv, Strangers, Batched
<1>8. CASE s = <<"over", None>>
  <2>1. AtWork(t) = {} /\ GoingDown(t) = {} /\ GoingUp(t) = {} /\ t \in finished
    BY <1>2, <1>4, <1>8
  <2> QED BY <1>5, <2>1
<1>9. ASSUME NEW e \in Nodes, s = <<"up", e>>
      PROVE  /\ AtWork(t) = {} /\ GoingDown(t) = {} /\ GoingUp(t) = {e} /\ t \notin finished
  <2>1. e \in Employed
    BY <1>2, <1>6, <1>9
  <2> QED BY <1>2, <1>4, <1>9, <2>1
<1>10. ASSUME NEW m \in Managers, s = <<"down", m>>
       PROVE  /\ AtWork(t) = {} /\ GoingDown(t) = {m} /\ GoingUp(t) = {} /\ t \notin finished
  <2>1. m \in Employed
    BY <1>2, <1>3, <1>6, <1>10
  <2> QED BY <1>2, <1>3, <1>4, <1>10, <2>1
<1>11. ASSUME NEW w \in Workers, s \in {<<"down", w>>, <<"delayed", w>>, <<"held", w>>, <<"batch", w>>}
       PROVE  /\ AtWork(t) = {w} /\ GoingDown(t) = {} /\ GoingUp(t) = {} /\ t \notin finished
  <2>1. w \in Employed
    BY <1>2, <1>3, <1>6, <1>7, <1>11
  <2> QED BY <1>2, <1>3, <1>4, <1>11, <2>1
<1>12. CASE \E e \in Nodes : s = <<"up", e>>
  <2>1. PICK e \in Nodes : s = <<"up", e>>
    BY <1>12
  <2>2. AtWork(t) = {} /\ GoingDown(t) = {} /\ GoingUp(t) = {e} /\ t \notin finished
    BY <1>9, <2>1
  <2> QED BY <1>5, <2>2
<1>13. CASE \E e \in Nodes : s = <<"down", e>>
  <2>1. PICK e \in Nodes : s = <<"down", e>>
    BY <1>13
  <2>2. CASE e \in Workers
    <3>1. AtWork(t) = {e} /\ GoingDown(t) = {} /\ GoingUp(t) = {} /\ t \notin finished
      BY <1>11, <2>1, <2>2
    <3>2. Cardinality(AtWork(t)) = 1 /\ Cardinality(GoingDown(t)) = 0 /\ Cardinality(GoingUp(t)) = 0
      BY <1>5, <3>1, Zenon
    <3> QED BY <3>1, <3>2
  <2>3. CASE e \in Managers
    <3>1. AtWork(t) = {} /\ GoingDown(t) = {e} /\ GoingUp(t) = {} /\ t \notin finished
      BY <1>10, <2>1, <2>3
    <3>2. Cardinality(AtWork(t)) = 0 /\ Cardinality(GoingDown(t)) = 1 /\ Cardinality(GoingUp(t)) = 0
      BY <1>5, <3>1, Zenon
    <3> QED BY <3>1, <3>2
  <2> QED BY <2>2, <2>3 DEF Nodes
<1>14. CASE \E w \in Workers : s \in {<<"delayed", w>>, <<"held", w>>, <<"batch", w>>}
  <2>1. PICK w \in Workers : s \in {<<"delayed", w>>, <<"held", w>>, <<"batch", w>>}
    BY <1>14
  <2>2. AtWork(t) = {w} /\ GoingDown(t) = {} /\ GoingUp(t) = {} /\ t \notin finished
    BY <1>11, <2>1
  <2>3. Cardinality(AtWork(t)) = 1 /\ Cardinality(GoingDown(t)) = 0 /\ Cardinality(GoingUp(t)) = 0
    BY <1>5, <2>2, Zenon
  <2> QED BY <2>2, <2>3
<1> QED BY <1>8, <1>12, <1>13, <1>14, LayoutType

\* The sum over the part in P of a team: its head, and the teams of its employees.
LEMMA SumOfTeam ==
    ASSUME system \in Systems, NEW P, NEW f \in [Employed \cap P -> Int],
           NEW n \in Employed \cap P, n \notin Workers
    PROVE  LET s == Sums(f, Employed \cap P) IN
           /\ \A e \in Employed : s[Team[e] \cap P] \in Int
           /\ s[Team[n] \cap P] = f[n] + Total([e \in Of(n) |-> s[Team[e] \cap P]])
<1>1. PICK U : U = Employed \cap P
  OBVIOUS
<1>2. PICK X : X = [e \in Of(n) |-> Team[e] \cap P]
  OBVIOUS
<1>3. /\ IsFiniteSet(U) /\ IsFiniteSet(Of(n)) /\ n \in Tops /\ Of(n) \subseteq Employed /\ n \in Bosses
      /\ Under(n) = Of(n)
  <2>1. IsFiniteSet(Nodes) /\ U \subseteq Nodes
    BY <1>1, TreeType
  <2>2. IsFiniteSet(U)
    BY <2>1, FS_Subset
  <2> QED BY <2>2, TreeType, NodeKinds DEF Under
<1>4. \A e \in Employed : Team[e] \subseteq Employed /\ Team[e] \cap P \in SUBSET U
  BY <1>1, TeamOfBoss
<1>5. X \in [Of(n) -> SUBSET U]
  BY <1>2, <1>3, <1>4
<1>6. Families(Of(n), X)
  BY <1>2, <1>3, TeamsApart DEF Families
<1>7. Team[n] = {n} \cup UNION {Team[e] : e \in Of(n)}
  BY <1>3, TeamEquation
<1>8. Team[n] \cap P = Union(Of(n), X) \cup {n}
  BY <1>2, <1>7 DEF Union
<1>9. n \notin Union(Of(n), X)
  BY <1>2, <1>3, TeamAcyclic DEF Union
<1>10. Union(Of(n), X) \in SUBSET U /\ n \in U
  BY <1>1, <1>5 DEF Union
<1>11. PICK s : s = Sums(f, U)
  OBVIOUS
<1>12. f \in [U -> Int]
  BY <1>1
<1>13. /\ s \in [SUBSET U -> Int]
       /\ \A T \in SUBSET U : \A x \in U \ T : s[T \cup {x}] = f[x] + s[T]
  <2>1. /\ Sums(f, U) \in [SUBSET U -> Int]
        /\ \A T \in SUBSET U : \A x \in U \ T : Sums(f, U)[T \cup {x}] = f[x] + Sums(f, U)[T]
    BY <1>3, <1>12, TotalSums
  <2> QED BY <1>11, <2>1
<1>14. s[Union(Of(n), X)] = Total([e \in Of(n) |-> s[X[e]]])
  BY <1>3, <1>5, <1>6, <1>11, <1>12, SumOfFamily
<1>15. [e \in Of(n) |-> s[X[e]]] = [e \in Of(n) |-> s[Team[e] \cap P]]
  BY <1>2
<1>16. s[Team[n] \cap P] = f[n] + s[Union(Of(n), X)]
  BY <1>8, <1>9, <1>10, <1>13
<1>17. \A e \in Employed : s[Team[e] \cap P] \in Int
  BY <1>4, <1>13
<1>18. s[Team[n] \cap P] = f[n] + Total([e \in Of(n) |-> s[Team[e] \cap P]])
  BY <1>14, <1>15, <1>16
<1> QED BY <1>1, <1>11, <1>17, <1>18

----------------------------------------------------------------------------
(* The accounts of the teams.                                              *)

\* What each node owes its boss, and how many tasks it has.
Debts == [e \in Employed |-> OwedIn(up[e])]
Hands == [e \in Employed |-> Cardinality(InHand(e))]

\* The accounts of one node add up over its team.
LEMMA TeamSums ==
    ASSUME IInv, NEW e \in Employed
    PROVE  /\ Debts \in [Employed -> Int] /\ Hands \in [Employed -> Int]
           /\ announced \in [Employed \cap Managers -> Int]
           /\ Owed(e) = Sums(Debts, Employed)[Team[e]]
           /\ Cardinality(Responsibility(e)) = Sums(Hands, Employed)[Team[e]]
           /\ SumOver(announced, Team[e] \cap Managers)
                = Sums(announced, Employed \cap Managers)[Team[e] \cap Managers]
<1>1. /\ IsFiniteSet(Employed) /\ IsFiniteSet(Employed \cap Managers)
      /\ Employed \subseteq Nodes /\ Team[e] \subseteq Employed
      /\ Present \ {Server} = Employed \cap Managers
  <2>1. IsFiniteSet(Nodes) /\ Employed \subseteq Nodes /\ Present \ {Server} = Managers \cap Employed
    BY TreeType DEF IInv
  <2>2. IsFiniteSet(Employed) /\ IsFiniteSet(Employed \cap Managers)
    BY <2>1, FS_Subset
  <2> QED BY <2>1, <2>2, TeamOfBoss DEF IInv
<1>2. ASSUME NEW x \in Employed
      PROVE  OwedIn(up[x]) \in Int /\ IsFiniteSet(InHand(x)) /\ Cardinality(InHand(x)) \in Int
  <2>1. up[x] \in Seq(Messages)
    BY <1>1, <1>2 DEF IInv, CrewInv, CrewType
  <2>2. IsFiniteSet(InHand(x))
    BY <1>2 DEF IInv, Edge, Account
  <2>3. Cardinality(InHand(x)) \in Nat
    BY <2>2, FS_CardinalityType
  <2> QED BY <2>1, <2>2, <2>3, OwedConcat
<1>3. Debts \in [Employed -> Int] /\ Hands \in [Employed -> Int]
  BY <1>2 DEF Debts, Hands
<1>4. announced \in [Employed \cap Managers -> Int]
  BY <1>1 DEF IInv, BossType
<1>5. Owed(e) = Sums(Debts, Employed)[Team[e]]
  <2>1. [x \in Team[e] |-> [y \in Team[e] |-> OwedIn(up[y])][x]] = [x \in Team[e] |-> Debts[x]]
    BY <1>1 DEF Debts
  <2>2. Owed(e) = Total([x \in Team[e] |-> Debts[x]])
    BY <2>1 DEF Owed, SumOver
  <2> QED BY <1>1, <1>3, <2>2, SumsPart
<1>6. SumOver(announced, Team[e] \cap Managers)
        = Sums(announced, Employed \cap Managers)[Team[e] \cap Managers]
  <2>1. Team[e] \cap Managers \in SUBSET (Employed \cap Managers)
    BY <1>1
  <2>2. Total([x \in Team[e] \cap Managers |-> announced[x]])
          = Sums(announced, Employed \cap Managers)[Team[e] \cap Managers]
    BY <1>1, <1>4, <2>1, SumsPart
  <2> QED BY <2>2 DEF SumOver
<1>7. Cardinality(Responsibility(e)) = Sums(Hands, Employed)[Team[e]]
  <2>1. PICK X : X = [x \in Team[e] |-> InHand(x)]
    OBVIOUS
  <2>2. Families(Team[e], X)
    <3> SUFFICES ASSUME NEW a \in Team[e], NEW b \in Team[e], a # b, NEW t \in InHand(a) \cap InHand(b)
                 PROVE  FALSE
      BY <2>1 DEF Families
    <3>1. \A x \in Team[e] : t \in InHand(x) =>
            \E k \in {"down", "delayed", "held", "batch"} :
               <<k, x>> \in Spots(Nodes) /\ t \in Lies(<<k, x>>)
      <4> SUFFICES ASSUME NEW x \in Team[e], t \in InHand(x)
                   PROVE  \E k \in {"down", "delayed", "held", "batch"} :
                             <<k, x>> \in Spots(Nodes) /\ t \in Lies(<<k, x>>)
        OBVIOUS
      <4>1. x \in Nodes
        BY <1>1
      <4>2. CASE x \notin Workers
        <5>1. <<"down", x>> \in Spots(Nodes) /\ t \in Lies(<<"down", x>>)
          BY <4>1, <4>2, LayoutType, LiesAt, ZenonT(30) DEF InHand
        <5> QED BY <5>1
      <4>3. CASE x \in Workers
        <5>1. /\ <<"down", x>> \in Spots(Nodes) /\ <<"batch", x>> \in Spots(Nodes)
              /\ <<"delayed", x>> \in Spots(Nodes) /\ <<"held", x>> \in Spots(Nodes)
          BY <4>1, <4>3, LayoutType
        <5>2. \/ t \in Lies(<<"down", x>>) \/ t \in Lies(<<"delayed", x>>)
              \/ t \in Lies(<<"held", x>>) \/ t \in Lies(<<"batch", x>>)
          BY <4>3, AssignedLies, LiesAt DEF InHand
        <5> QED BY <5>1, <5>2
      <4> QED BY <4>2, <4>3
    <3>2. PICK k \in {"down", "delayed", "held", "batch"} :
             <<k, a>> \in Spots(Nodes) /\ t \in Lies(<<k, a>>)
      BY <3>1
    <3>3. PICK l \in {"down", "delayed", "held", "batch"} :
             <<l, b>> \in Spots(Nodes) /\ t \in Lies(<<l, b>>)
      BY <3>1
    <3>4. <<k, a>> = <<l, b>>
      BY <3>2, <3>3, OneSpot
    <3> QED BY <3>4
  <2>3. IsFiniteSet(Team[e]) /\ \A x \in Team[e] : IsFiniteSet(X[x])
    <3>1. IsFiniteSet(Team[e])
      BY <1>1, FS_Subset
    <3> QED BY <1>1, <1>2, <2>1, <3>1
  <2>4. Cardinality(Union(Team[e], X)) = Total([x \in Team[e] |-> Cardinality(X[x])])
    BY <2>2, <2>3, SizeOfFamily
  <2>5. [x \in Team[e] |-> Cardinality(X[x])] = [x \in Team[e] |-> Hands[x]]
    BY <1>1, <2>1 DEF Hands
  <2>6. Union(Team[e], X) = Responsibility(e)
    BY <2>1 DEF Union, Responsibility, InHand, Sent
  <2>7. Total([x \in Team[e] |-> Hands[x]]) = Sums(Hands, Employed)[Team[e]]
    BY <1>1, <1>3, SumsPart
  <2> QED BY <2>4, <2>5, <2>6, <2>7
<1> QED BY <1>3, <1>4, <1>5, <1>6, <1>7

\* The account of a team: what its boss counts, what it owes, what it has, and
\* what it announced in vain.
Balanced(n) ==
    numTasks[n] + Sums(Debts, Employed)[Team[n]]
      = Sums(Hands, Employed)[Team[n]]
          + Sums(announced, Employed \cap Managers)[Team[n] \cap Managers]

\* A worker's account is that of a team of one.
LEMMA WorkerBalanced ==
    ASSUME IInv, NEW n \in Employed, n \in Workers
    PROVE  Balanced(n)
<1>1. /\ Team[n] = {n} /\ Team[n] \cap Managers = {} /\ IsFiniteSet(Employed)
      /\ IsFiniteSet(Employed \cap Managers)
  <2>1. n \in Tops /\ IsFiniteSet(Nodes) /\ Employed \subseteq Nodes
    BY NodeKinds, TreeType DEF IInv
  <2>2. IsFiniteSet(Employed) /\ IsFiniteSet(Employed \cap Managers)
    BY <2>1, FS_Subset
  <2> QED BY <2>1, <2>2, TeamType, NodesAssumption DEF IInv
<1>2. /\ Debts \in [Employed -> Int] /\ Hands \in [Employed -> Int]
      /\ announced \in [Employed \cap Managers -> Int]
  BY TeamSums
<1>3. \A f \in [Employed -> Int] : Sums(f, Employed)[{n}] = f[n]
  <2> TAKE f \in [Employed -> Int]
  <2>0. {} \in SUBSET Employed /\ n \in Employed \ {}
    OBVIOUS
  <2>1. /\ Sums(f, Employed)[{}] = 0
        /\ \A T \in SUBSET Employed : \A x \in Employed \ T :
              Sums(f, Employed)[T \cup {x}] = f[x] + Sums(f, Employed)[T]
    BY <1>1, TotalSums, Zenon
  <2>3. Sums(f, Employed)[{} \cup {n}] = f[n] + Sums(f, Employed)[{}]
    BY <2>0, <2>1, Zenon
  <2>2. f[n] \in Int /\ {} \cup {n} = {n}
    OBVIOUS
  <2> QED BY <2>1, <2>2, <2>3
<1>4. Sums(announced, Employed \cap Managers)[{}] = 0
  BY <1>1, <1>2, TotalSums
<1>5. numTasks[n] + Debts[n] = Hands[n] + 0
  BY DEF IInv, Edge, Account, Within, Debts, Hands
<1>6. Sums(Debts, Employed)[Team[n]] = Debts[n] /\ Sums(Hands, Employed)[Team[n]] = Hands[n]
  BY <1>1, <1>2, <1>3
<1> QED BY <1>1, <1>4, <1>5, <1>6 DEF Balanced

\* A manager's account is the sum of its own and those of its employees.
LEMMA ManagerBalanced ==
    ASSUME IInv, NEW n \in Employed, n \notin Workers, \A e \in Of(n) : Balanced(e)
    PROVE  Balanced(n)
<1>1. /\ system \in Systems /\ n \in Managers /\ n \in Present /\ n \in Employed \cap Managers
      /\ IsFiniteSet(Of(n)) /\ Of(n) \subseteq Employed /\ n \in Employed \cap Nodes
      /\ Employed \cap Nodes = Employed /\ Mine(numTasks, n) \in [Of(n) -> Int]
  <2>1. n \in Managers /\ n \in Present /\ Employed \subseteq Nodes
    BY NodeKinds, TreeType DEF IInv
  <2> QED BY <2>1, MineTotal DEF IInv
<1>2. /\ Debts \in [Employed -> Int] /\ Hands \in [Employed -> Int]
      /\ announced \in [Employed \cap Managers -> Int]
  BY TeamSums
<1>3. \A e \in Employed : Team[e] \cap Nodes = Team[e]
  BY <1>1, TeamOfBoss
<1> DEFINE D(e) == Sums(Debts, Employed)[Team[e]]
           H(e) == Sums(Hands, Employed)[Team[e]]
           A(e) == Sums(announced, Employed \cap Managers)[Team[e] \cap Managers]
           d == [e \in Of(n) |-> D(e)]
           h == [e \in Of(n) |-> H(e)]
           a == [e \in Of(n) |-> A(e)]
           b == [e \in Of(n) |-> D(e) + Mine(numTasks, n)[e]]
<1>4. (\A e \in Employed : D(e) \in Int) /\ D(n) = Debts[n] + Total(d)
  <2>1. /\ \A e \in Employed : Sums(Debts, Employed \cap Nodes)[Team[e] \cap Nodes] \in Int
        /\ Sums(Debts, Employed \cap Nodes)[Team[n] \cap Nodes]
             = Debts[n] + Total([e \in Of(n) |-> Sums(Debts, Employed \cap Nodes)[Team[e] \cap Nodes]])
    BY <1>1, <1>2, SumOfTeam
  <2>2. [e \in Of(n) |-> Sums(Debts, Employed)[Team[e] \cap Nodes]] = d
    BY <1>1, <1>3
  <2> QED BY <1>1, <1>3, <2>1, <2>2
<1>5. (\A e \in Employed : H(e) \in Int) /\ H(n) = Hands[n] + Total(h)
  <2>1. /\ \A e \in Employed : Sums(Hands, Employed \cap Nodes)[Team[e] \cap Nodes] \in Int
        /\ Sums(Hands, Employed \cap Nodes)[Team[n] \cap Nodes]
             = Hands[n] + Total([e \in Of(n) |-> Sums(Hands, Employed \cap Nodes)[Team[e] \cap Nodes]])
    BY <1>1, <1>2, SumOfTeam
  <2>2. [e \in Of(n) |-> Sums(Hands, Employed)[Team[e] \cap Nodes]] = h
    BY <1>1, <1>3
  <2> QED BY <1>1, <1>3, <2>1, <2>2
<1>6. (\A e \in Employed : A(e) \in Int) /\ A(n) = announced[n] + Total(a)
  BY <1>1, <1>2, SumOfTeam
<1>7. \A e \in Of(n) : numTasks[e] + D(e) = H(e) + A(e) /\ Mine(numTasks, n)[e] = numTasks[e]
                       /\ numTasks[e] \in Int
  BY <1>1 DEF Balanced, Mine, IInv, BossType
<1>8. Total(b) = Total(d) + Total(Mine(numTasks, n)) /\ Total(b) = Total(h) + Total(a)
  <2> HIDE DEF D, H, A
  <2>1. /\ d \in [Of(n) -> Int] /\ h \in [Of(n) -> Int] /\ a \in [Of(n) -> Int] /\ b \in [Of(n) -> Int]
        /\ \A e \in Of(n) : b[e] = d[e] + Mine(numTasks, n)[e] /\ b[e] = h[e] + a[e]
    BY <1>1, <1>4, <1>5, <1>6, <1>7
  <2> HIDE DEF d, h, a, b
  <2>2. Total(b) = Total(d) + Total(Mine(numTasks, n))
    BY <1>1, <2>1, TotalPlus
  <2>3. Total(b) = Total(h) + Total(a)
    BY <1>1, <2>1, TotalPlus
  <2> QED BY <2>2, <2>3
<1>9. numTasks[n] + Debts[n] = Hands[n] + (Total(Mine(numTasks, n)) + announced[n])
  BY DEF IInv, Edge, Account, Within, Debts, Hands
<1>10. /\ numTasks[n] \in Int /\ Debts[n] \in Int /\ Hands[n] \in Int /\ announced[n] \in Int
       /\ Total(Mine(numTasks, n)) \in Int
  BY <1>1, <1>2, MineTotal DEF IInv, BossType
<1>11. Total(d) \in Int /\ Total(h) \in Int /\ Total(a) \in Int
  <2>1. d \in [Of(n) -> Int] /\ h \in [Of(n) -> Int] /\ a \in [Of(n) -> Int]
    BY <1>1, <1>4, <1>5, <1>6
  <2> HIDE DEF d, h, a
  <2> QED BY <1>1, <2>1, TotalSums
<1> HIDE DEF d, h, a, b
<1>12. PICK nt, dn, hn, an, tm, td, th, ta, tb :
          /\ nt = numTasks[n] /\ dn = Debts[n] /\ hn = Hands[n] /\ an = announced[n]
          /\ tm = Total(Mine(numTasks, n)) /\ td = Total(d) /\ th = Total(h) /\ ta = Total(a)
          /\ tb = Total(b)
  OBVIOUS
<1>13. /\ nt \in Int /\ dn \in Int /\ hn \in Int /\ an \in Int /\ tm \in Int /\ td \in Int
       /\ th \in Int /\ ta \in Int /\ nt + dn = hn + (tm + an) /\ tb = td + tm /\ tb = th + ta
  BY <1>8, <1>9, <1>10, <1>11, <1>12
<1>14. nt + (dn + td) = (hn + th) + (an + ta)
  BY <1>13
<1>15. D(n) = dn + td /\ H(n) = hn + th /\ A(n) = an + ta
  BY <1>4, <1>5, <1>6, <1>12
<1> QED BY <1>12, <1>14, <1>15 DEF Balanced

\* So all accounts are in balance.
LEMMA AllBalanced ==
    ASSUME IInv, NEW e \in Employed
    PROVE  Balanced(e)
<1> DEFINE S == {x \in Employed : ~Balanced(x)}
<1>1. SUFFICES ASSUME S # {} PROVE FALSE
  OBVIOUS
<1>2. S \in SUBSET Tops
  BY NodeKinds DEF IInv
<1>3. PICK n \in S : Under(n) \cap S = {}
  BY <1>1, <1>2, BottomUp DEF IInv
<1>4. n \in Employed /\ ~Balanced(n)
  BY <1>3
<1>5. CASE n \in Workers
  BY <1>4, <1>5, WorkerBalanced
<1>6. CASE n \notin Workers
  <2>1. Of(n) \subseteq Employed /\ Under(n) = Of(n)
    BY <1>4, <1>6, NodeKinds DEF IInv, Under
  <2>2. \A x \in Of(n) : Balanced(x)
    BY <1>3, <2>1
  <2> QED BY <1>4, <1>6, <2>2, ManagerBalanced
<1> QED BY <1>5, <1>6

\* Every task is in one place, and the task count of every employee is exact once
\* the messages under way below it are counted, but for what was announced in vain.
THEOREM CountsHold == Spec => []TreeCounts
<1>1. IInv => TreeCounts
  <2> SUFFICES ASSUME IInv PROVE TreeCounts
    OBVIOUS
  <2>1. ASSUME NEW t \in Born
        PROVE  Cardinality({w \in Workers \cap Employed : t \in Assigned(w)})
                 + Cardinality({m \in Managers \cap Employed : t \in TasksOf(down[m], "SUBMIT_BATCH")})
                 + Cardinality({x \in Employed : t \in TasksOf(up[x], "SUBMIT_BATCH")})
                 + (IF t \in finished THEN 1 ELSE 0) = 1
    BY PlacedOnce DEF AtWork, GoingDown, GoingUp
  <2>2. ASSUME NEW e \in Employed
        PROVE  numTasks[e] + Owed(e)
                 = Cardinality(Responsibility(e)) + SumOver(announced, Team[e] \cap Managers)
    BY AllBalanced, TeamSums DEF Balanced
  <2>3. Born = submitted \cup UNION {Range(Children[p]) : p \in mapped}
    BY DEF Born, Kids
  <2> QED BY <2>1, <2>2, <2>3 DEF TreeCounts
<1> QED BY <1>1, IInvHolds, PTL

=============================================================================
