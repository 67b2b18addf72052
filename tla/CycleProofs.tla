----------------------------- MODULE CycleProofs -----------------------------
(***************************************************************************)
(* Proofs about the two searches for cycles.  CycleSearch, for any graph:  *)
(* what it reports is a cycle, and a graph in which it finds nothing has   *)
(* none.  DraftPreview, for any Draft: its groups are the cycles.          *)
(***************************************************************************)
EXTENDS CycleSearch, DraftPreview, WellFoundedInduction, FiniteSetTheorems, SequenceTheorems,
        TLAPS

-----------------------------------------------------------------------------
(* Reachability.                                                           *)

LEMMA SuccessorIsReached ==
  ASSUME NEW G, NEW n
  PROVE  Successors(G, n) \subseteq ReachedFrom(G, n)
BY DEF ReachedFrom, Successors

LEMMA ReachedIsTransitive ==
  ASSUME NEW G, NEW n, NEW m \in ReachedFrom(G, n)
  PROVE  ReachedFrom(G, m) \subseteq ReachedFrom(G, n)
<1> SUFFICES ASSUME NEW k \in ReachedFrom(G, m), NEW S \in SUBSET G.node,
                    Successors(G, n) \subseteq S, IsClosed(G, S)
             PROVE  k \in S
  BY DEF ReachedFrom
<1>1. m \in S
  BY DEF ReachedFrom
<1>2. Successors(G, m) \subseteq S
  BY <1>1 DEF IsClosed
<1> QED
  BY <1>2 DEF ReachedFrom

LEMMA ReachedStaysInside ==
  ASSUME NEW G, NEW n, NEW S \in SUBSET G.node, Successors(G, n) \subseteq S, IsClosed(G, S)
  PROVE  ReachedFrom(G, n) \subseteq S
BY DEF ReachedFrom

\* The least number principle, for sets.
LEMMA MinOfNaturals ==
  ASSUME NEW S \in SUBSET Nat, S # {}
  PROVE  Min(S) \in S /\ \A k \in S : Min(S) <= k
<1> DEFINE T == {0..k : k \in S}
<1>1. T # {} /\ T \subseteq FiniteSubsetsOf(Nat)
  <2>1. \A k \in S : 0..k \in SUBSET Nat /\ IsFiniteSet(0..k)
    BY FS_Interval
  <2> QED
    BY <2>1 DEF FiniteSubsetsOf
<1>2. PICK x \in T : \A y \in T : ~ (<<y, x>> \in StrictSubsetOrdering(Nat))
  <2> HIDE DEF T
  <2> QED
    BY <1>1, FS_StrictSubsetOrderingWellFounded, WFMin
<1>3. PICK k \in S : x = 0..k
  BY <1>2
<1>4. \A j \in S : k <= j
  <2> SUFFICES ASSUME NEW j \in S, ~(k <= j) PROVE FALSE
    OBVIOUS
  <2>1. k \in 0..k /\ k \notin 0..j /\ 0..j \subseteq 0..k /\ 0..k \in SUBSET Nat
    OBVIOUS
  <2>2. <<0..j, 0..k>> \in StrictSubsetOrdering(Nat)
    BY <2>1 DEF StrictSubsetOrdering
  <2> QED
    BY <1>2, <1>3, <2>2
<1> QED
  BY <1>4 DEF Min

-----------------------------------------------------------------------------
(* Sequences.                                                              *)

LEMMA Appended ==
  ASSUME NEW S, NEW s \in Seq(S), NEW x \in S
  PROVE  /\ Append(s, x) \in Seq(S) /\ Len(Append(s, x)) = Len(s) + 1
         /\ \A i \in 1..Len(s) : Append(s, x)[i] = s[i]
         /\ Append(s, x)[Len(s) + 1] = x
OBVIOUS

LEMMA Shortened ==
  ASSUME NEW S, NEW s \in Seq(S), s # <<>>
  PROVE  /\ Front(s) \in Seq(S) /\ Len(Front(s)) = Len(s) - 1 /\ Len(s) \in Nat \ {0}
         /\ \A i \in 1..Len(s) - 1 : Front(s)[i] = s[i]
         /\ Last(s) = s[Len(s)] /\ Last(s) \in S
<1>1. Len(s) \in Nat \ {0} /\ \A i \in 1..Len(s) : s[i] \in S
  OBVIOUS
<1>2. /\ Front(s) \in Seq(S) /\ Len(Front(s)) = Len(s) - 1
      /\ \A i \in 1..Len(s) - 1 : Front(s)[i] = s[i]
  <2> DEFINE l == Len(s) - 1
             f == SubSeq(s, 1, l)
  <2>1. l \in Nat /\ \A i \in 1..l : s[i] \in S
    BY <1>1
  <2> HIDE DEF l
  <2>2. f \in Seq(S) /\ Len(f) = (IF 1 <= l THEN l - 1 + 1 ELSE 0) /\ \A i \in 1..l - 1 + 1 : f[i] = s[1 + i - 1]
    BY <2>1, SubSeqProperties
  <2> HIDE DEF f
  <2>3. Len(f) = l /\ \A i \in 1..l : f[i] = s[i]
    BY <2>1, <2>2
  <2> QED
    BY <2>2, <2>3 DEF Front, f, l
<1> QED
  BY <1>1, <1>2 DEF Last

LEMMA PartOf ==
  ASSUME NEW S, NEW s \in Seq(S), NEW a \in 1..Len(s), NEW b \in a..Len(s)
  PROVE  /\ SubSeq(s, a, b) \in Seq(S) /\ Len(SubSeq(s, a, b)) = b - a + 1
         /\ \A i \in 1..b - a + 1 : SubSeq(s, a, b)[i] = s[a + i - 1]
<1>1. a \in Int /\ b \in Int /\ a <= b
  OBVIOUS
<1>2. \A i \in a..b : s[i] \in S
  OBVIOUS
<1>3. SubSeq(s, a, b) \in Seq(S) /\ Len(SubSeq(s, a, b)) = b - a + 1
  BY <1>1, <1>2
<1>4. \A i \in 1..b - a + 1 : SubSeq(s, a, b)[i] = s[a + i - 1]
  BY <1>1, <1>2
<1> QED
  BY <1>3, <1>4

-----------------------------------------------------------------------------
(* CycleSearch.                                                            *)

Black == ColourOf("black")

SearchTypeOK ==
  /\ graph \in DependencyGraphs
  /\ path \in Seq(graph.node) /\ cycle \in Seq(graph.node)
  /\ colour \in [graph.node -> {"white", "gray", "black"}]

\* The walk holds each gray node once, and no other.
WalkIsGray ==
  /\ \A i \in 1..Len(path) : colour[path[i]] = "gray"
  /\ \A n \in ColourOf("gray") : \E i \in 1..Len(path) : path[i] = n
  /\ \A i, j \in 1..Len(path) : path[i] = path[j] => i = j

WalkFollowsEdges == \A i \in 1..Len(path) - 1 : path[i + 1] \in Succ(path[i])

\* What was left is on no cycle: only what was left before it can be reached from it.
LeftForGood == \A n \in Black : Succ(n) \subseteq Black /\ ~IsOnCycle(graph, n)

\* A closed walk that meets no node twice before its end.
IsRealCycle(c) ==
  /\ Len(c) > 1 /\ c[1] = Last(c)
  /\ \A i \in 1..Len(c) - 1 : c[i + 1] \in Succ(c[i])
  /\ \A i, j \in 1..Len(c) - 1 : c[i] = c[j] => i = j

SearchInv ==
  /\ SearchTypeOK /\ WalkIsGray /\ WalkFollowsEdges /\ LeftForGood
  /\ cycle # <<>> => IsRealCycle(cycle)

LEMMA NextIsAhead ==
  ASSUME SearchTypeOK, NEW n \in graph.node, Ahead(n) # {}
  PROVE  NextOf(n) \in Succ(n) /\ NextOf(n) \in graph.node /\ colour[NextOf(n)] # "black"
<1>1. Ahead(n) \in SUBSET Nat /\ Ahead(n) \subseteq graph.node
  BY DEF Ahead, Succ, Successors, SearchTypeOK, DependencyGraphs
<1>2. NextOf(n) \in Ahead(n)
  BY <1>1, MinOfNaturals DEF NextOf
<1> QED
  BY <1>1, <1>2 DEF Ahead

\* A node that is entered is white, and follows the last one of the walk.
LEMMA EnterKeepsInv ==
  ASSUME SearchInv, NEW n \in graph.node, colour[n] = "white", Enter(n), UNCHANGED <<graph, cycle>>,
         path # <<>> => n \in Succ(Last(path))
  PROVE  SearchInv'
<1>1. /\ path' \in Seq(graph.node) /\ Len(path') = Len(path) + 1 /\ Len(path) \in Nat
      /\ \A i \in 1..Len(path) : path'[i] = path[i]
      /\ path'[Len(path) + 1] = n
  BY Appended DEF Enter, SearchInv, SearchTypeOK
<1>2. /\ colour' \in [graph.node -> {"white", "gray", "black"}]
      /\ colour'[n] = "gray" /\ \A m \in graph.node : m # n => colour'[m] = colour[m]
  BY DEF Enter, SearchInv, SearchTypeOK
<1>3. \A i \in 1..Len(path) : path[i] \in graph.node /\ path[i] # n /\ colour[path[i]] = "gray"
  BY DEF SearchInv, SearchTypeOK, WalkIsGray
<1>4. SearchTypeOK'
  BY <1>1, <1>2 DEF SearchInv, SearchTypeOK
<1>5. WalkIsGray'
  <2>1. \A i \in 1..Len(path') : colour'[path'[i]] = "gray"
    BY <1>1, <1>2, <1>3
  <2>2. ASSUME NEW m \in graph.node, colour'[m] = "gray"
        PROVE  \E i \in 1..Len(path') : path'[i] = m
    <3>1. CASE m = n
      BY <1>1, <3>1
    <3>2. CASE m # n
      <4>1. PICK i \in 1..Len(path) : path[i] = m
        BY <1>2, <2>2, <3>2 DEF SearchInv, WalkIsGray, ColourOf
      <4> QED
        BY <1>1, <4>1
    <3> QED
      BY <3>1, <3>2
  <2>3. \A i, j \in 1..Len(path) : path[i] = path[j] => i = j
    BY DEF SearchInv, WalkIsGray
  <2>4. \A i, j \in 1..Len(path') : path'[i] = path'[j] => i = j
    BY <1>1, <1>3, <2>3
  <2> QED
    BY <2>1, <2>2, <2>4 DEF WalkIsGray, ColourOf
<1>6. WalkFollowsEdges'
  <2> SUFFICES ASSUME NEW i \in 1..Len(path') - 1 PROVE path'[i + 1] \in Succ(path'[i])
    BY DEF WalkFollowsEdges, Succ
  <2>1. CASE i = Len(path)
    BY <1>1, <2>1 DEF Last
  <2>2. CASE i # Len(path)
    BY <1>1, <2>2 DEF SearchInv, WalkFollowsEdges
  <2> QED
    BY <2>1, <2>2
<1>7. LeftForGood'
  <2>1. Black' = Black
    BY <1>2 DEF Black, ColourOf
  <2> QED
    BY <2>1 DEF SearchInv, LeftForGood, Succ
<1> QED
  BY <1>4, <1>5, <1>6, <1>7 DEF SearchInv, IsRealCycle, Succ

LEMMA BacktrackKeepsInv ==
  ASSUME SearchInv, Backtrack
  PROVE  SearchInv'
<1> DEFINE n == Last(path)
           k == Len(path)
<1>1. /\ n \in graph.node /\ k \in Nat \ {0} /\ n = path[k]
      /\ path' \in Seq(graph.node) /\ Len(path') = k - 1 /\ \A i \in 1..k - 1 : path'[i] = path[i]
  BY Shortened DEF Backtrack, SearchInv, SearchTypeOK
<1>2. /\ graph' = graph /\ cycle' = cycle
      /\ colour' \in [graph.node -> {"white", "gray", "black"}]
      /\ colour'[n] = "black" /\ \A m \in graph.node : m # n => colour'[m] = colour[m]
  BY <1>1 DEF Backtrack, SearchInv, SearchTypeOK
<1>3. \A i \in 1..k : path[i] \in graph.node /\ colour[path[i]] = "gray" /\ (i # k => path[i] # n)
  BY <1>1 DEF SearchInv, SearchTypeOK, WalkIsGray
<1> HIDE DEF n, k
<1>4. SearchTypeOK'
  BY <1>1, <1>2 DEF SearchInv, SearchTypeOK
<1>5. WalkIsGray'
  <2>1. ASSUME NEW i \in 1..Len(path')
        PROVE  colour'[path'[i]] = "gray"
    <3>1. i \in 1..k /\ i # k /\ path'[i] = path[i]
      BY <1>1
    <3>2. path[i] \in graph.node /\ colour[path[i]] = "gray" /\ path[i] # n
      BY <1>3, <3>1
    <3> QED
      BY <1>2, <3>1, <3>2
  <2>2. ASSUME NEW m \in graph.node, colour'[m] = "gray"
        PROVE  \E i \in 1..Len(path') : path'[i] = m
    <3>1. m # n
      BY <1>2, <2>2
    <3>2. PICK i \in 1..k : path[i] = m
      BY <1>2, <2>2, <3>1 DEF SearchInv, WalkIsGray, ColourOf, k
    <3> QED
      BY <1>1, <3>1, <3>2
  <2>3. \A i, j \in 1..k : path[i] = path[j] => i = j
    BY DEF SearchInv, WalkIsGray, k
  <2>4. \A i, j \in 1..Len(path') : path'[i] = path'[j] => i = j
    BY <1>1, <2>3
  <2> QED
    BY <1>2, <2>1, <2>2, <2>4 DEF WalkIsGray, ColourOf
<1>6. WalkFollowsEdges'
  <2> SUFFICES ASSUME NEW i \in 1..Len(path') - 1 PROVE path'[i + 1] \in Succ(path'[i])
    BY <1>2 DEF WalkFollowsEdges, Succ
  <2>1. i \in 1..k - 1 /\ i + 1 \in 1..k - 1
    BY <1>1
  <2>2. path[i + 1] \in Succ(path[i])
    BY <2>1 DEF SearchInv, WalkFollowsEdges, k
  <2> QED
    BY <1>1, <2>1, <2>2
<1>7. LeftForGood'
  <2>1. Black' = Black \cup {n}
    BY <1>1, <1>2 DEF Black, ColourOf
  <2>2. Succ(n) \subseteq Black
    BY DEF Backtrack, Ahead, Black, ColourOf, Succ, Successors, n
  <2>3. IsClosed(graph, Black) /\ Black \in SUBSET graph.node
    BY DEF SearchInv, LeftForGood, IsClosed, Succ, Black, ColourOf
  <2>4. n \notin Black
    BY <1>1, <1>3 DEF Black, ColourOf
  <2>5. ~IsOnCycle(graph, n)
    BY <2>2, <2>3, <2>4, ReachedStaysInside DEF IsOnCycle, Succ
  <2> QED
    BY <1>2, <2>1, <2>2, <2>5 DEF SearchInv, LeftForGood, Succ
<1> QED
  BY <1>2, <1>4, <1>5, <1>6, <1>7 DEF SearchInv, IsRealCycle, Succ

\* The part of the walk from m on, and m again.
LEMMA WalkClosed ==
  ASSUME SearchInv, NEW m \in graph.node, colour[m] = "gray", path # <<>>, m \in Succ(Last(path))
  PROVE  WalkFrom(m) \in Seq(graph.node) /\ IsRealCycle(WalkFrom(m))
<1> DEFINE k == Len(path)
           I == {i \in 1..k : path[i] = m}
           a == Max({1, SelectInSeq(path, LAMBDA n : n = m)})
           s == SubSeq(path, a, k)
           c == Append(s, m)
<1>1. k \in Nat \ {0} /\ Last(path) = path[k] /\ \A i \in 1..k : path[i] \in graph.node
  BY DEF Last, SearchInv, SearchTypeOK
<1>2. I # {} /\ I \in SUBSET Nat
  BY DEF SearchInv, WalkIsGray, ColourOf
<1>3. Min(I) \in I
  BY <1>2, MinOfNaturals
<1>4. SelectInSeq(path, LAMBDA n : n = m) = Min(I)
  BY <1>2 DEF SelectInSeq
<1>5. a \in 1..k /\ path[a] = m
  <2> DEFINE b == Min(I)
  <2>1. b \in 1..k /\ path[b] = m
    BY <1>3
  <2> HIDE DEF b
  <2>2. Max({1, b}) = b
    BY <2>1 DEF Max
  <2>3. a = b
    BY <1>4, <2>2 DEF b
  <2> QED
    BY <2>1, <2>3
<1> HIDE DEF k, a
<1>6. /\ s \in Seq(graph.node) /\ Len(s) = k - a + 1
      /\ \A i \in 1..k - a + 1 : s[i] = path[a + i - 1]
  <2>1. path \in Seq(graph.node) /\ a \in 1..Len(path) /\ k \in a..Len(path)
    BY <1>1, <1>5 DEF SearchInv, SearchTypeOK, k
  <2> QED
    BY <2>1, PartOf
<1> HIDE DEF s
<1>7. /\ c \in Seq(graph.node) /\ Len(c) = k - a + 2
      /\ \A i \in 1..k - a + 1 : c[i] = path[a + i - 1]
      /\ c[k - a + 2] = m
  <2>1. /\ c \in Seq(graph.node) /\ Len(c) = Len(s) + 1
        /\ \A i \in 1..Len(s) : c[i] = s[i]
        /\ c[Len(s) + 1] = m
    BY <1>6, Appended
  <2> QED
    BY <1>1, <1>5, <1>6, <2>1
<1> HIDE DEF c
<1>8. Len(c) > 1 /\ c[1] = Last(c)
  BY <1>1, <1>5, <1>7 DEF Last
<1>9. ASSUME NEW i \in 1..Len(c) - 1
      PROVE  c[i + 1] \in Succ(c[i])
  <2>1. CASE i = k - a + 1
    BY <1>1, <1>5, <1>7, <2>1
  <2>2. CASE i # k - a + 1
    <3>1. a + i - 1 \in 1..k - 1 /\ i \in 1..k - a + 1 /\ i + 1 \in 1..k - a + 1
          /\ a + (i + 1) - 1 = (a + i - 1) + 1
      BY <1>1, <1>5, <1>7, <2>2
    <3>2. path[(a + i - 1) + 1] \in Succ(path[a + i - 1])
      BY <3>1 DEF SearchInv, WalkFollowsEdges, k
    <3> QED
      BY <1>7, <3>1, <3>2
  <2> QED
    BY <2>1, <2>2
<1>10. ASSUME NEW i \in 1..Len(c) - 1, NEW j \in 1..Len(c) - 1, c[i] = c[j]
       PROVE  i = j
  <2>1. a + i - 1 \in 1..k /\ a + j - 1 \in 1..k /\ path[a + i - 1] = path[a + j - 1]
    BY <1>1, <1>5, <1>7, <1>10
  <2>2. a + i - 1 = a + j - 1
    BY <2>1 DEF SearchInv, WalkIsGray, k
  <2> QED
    BY <1>5, <2>2
<1> QED
  BY <1>7, <1>8, <1>9, <1>10 DEF WalkFrom, IsRealCycle, c, s, a, k

LEMMA SearchInvNext ==
  ASSUME SearchInv, [SearchNext]_searchVars
  PROVE  SearchInv'
<1>1. CASE Begin
  <2>1. graph' \in DependencyGraphs /\ path' = <<>> /\ cycle' = <<>>
        /\ colour' = [n \in graph'.node |-> "white"]
    BY <1>1 DEF Begin
  <2>2. SearchTypeOK'
    BY <2>1 DEF SearchTypeOK
  <2>3. WalkIsGray' /\ WalkFollowsEdges' /\ LeftForGood'
    BY <2>1 DEF WalkIsGray, WalkFollowsEdges, LeftForGood, ColourOf, Black
  <2> QED
    BY <2>1, <2>2, <2>3 DEF SearchInv
<1>2. CASE StartAtNode
  <2>1. Min(ColourOf("white")) \in ColourOf("white")
    <3>1. ColourOf("white") \in SUBSET Nat
      BY DEF ColourOf, SearchInv, SearchTypeOK, DependencyGraphs
    <3> QED
      BY <1>2, <3>1, MinOfNaturals DEF StartAtNode
  <2> QED
    BY <1>2, <2>1, EnterKeepsInv DEF StartAtNode, ColourOf
<1>3. CASE Descend
  <2>1. Last(path) \in graph.node
    BY <1>3, Shortened DEF Descend, SearchInv, SearchTypeOK
  <2>2. NextOf(Last(path)) \in Succ(Last(path)) /\ NextOf(Last(path)) \in graph.node
    BY <1>3, <2>1, NextIsAhead DEF Descend, SearchInv
  <2> QED
    BY <1>3, <2>2, EnterKeepsInv DEF Descend
<1>4. CASE Backtrack
  BY <1>4, BacktrackKeepsInv
<1>5. CASE CloseCycle
  <2>1. Last(path) \in graph.node
    BY <1>5, Shortened DEF CloseCycle, SearchInv, SearchTypeOK
  <2>2. NextOf(Last(path)) \in Succ(Last(path)) /\ NextOf(Last(path)) \in graph.node
    BY <1>5, <2>1, NextIsAhead DEF CloseCycle, SearchInv
  <2>3. cycle' \in Seq(graph.node) /\ IsRealCycle(cycle')
    BY <1>5, <2>2, WalkClosed DEF CloseCycle
  <2>4. graph' = graph /\ path' = path /\ colour' = colour
    BY <1>5 DEF CloseCycle
  <2> QED
    BY <2>3, <2>4 DEF SearchInv, SearchTypeOK, WalkIsGray, WalkFollowsEdges, LeftForGood, IsRealCycle,
                      ColourOf, Black, Succ
<1>6. CASE UNCHANGED searchVars
  BY <1>6 DEF searchVars, SearchInv, SearchTypeOK, WalkIsGray, WalkFollowsEdges, LeftForGood, IsRealCycle,
              ColourOf, Black, Succ
<1> QED
  BY <1>1, <1>2, <1>3, <1>4, <1>5, <1>6 DEF SearchNext

\* Whatever graph is searched: a cycle that is reported is one, and when nothing was found there
\* is none (graph.go Cycle).
THEOREM SearchCorrect == SearchSpec => []ReportedCycleIsReal
<1>1. SearchInit => SearchInv
  <2> SUFFICES ASSUME SearchInit PROVE SearchInv
    OBVIOUS
  <2>1. /\ graph = [node |-> {}, edge |-> {}] /\ graph.node = {} /\ graph.edge = {}
        /\ path = <<>> /\ cycle = <<>> /\ colour = <<>> /\ Len(path) = 0
    BY DEF SearchInit
  <2>2. graph \in DependencyGraphs
    BY <2>1, FS_EmptySet DEF DependencyGraphs
  <2>3. colour \in [{} -> {"white", "gray", "black"}]
    BY <2>1
  <2>4. SearchTypeOK
    BY <2>1, <2>2, <2>3 DEF SearchTypeOK
  <2> QED
    BY <2>1, <2>4 DEF SearchInv, WalkIsGray, WalkFollowsEdges, LeftForGood, ColourOf, Black
<1>2. SearchInv => ReportedCycleIsReal
  <2> SUFFICES ASSUME SearchInv PROVE ReportedCycleIsReal
    OBVIOUS
  <2>1. ASSUME NothingFound, NEW n \in graph.node
        PROVE  ~IsOnCycle(graph, n)
    <3>1. colour[n] \notin {"white", "gray"}
      BY <2>1 DEF NothingFound, ColourOf, SearchInv, WalkIsGray
    <3>2. n \in Black
      BY <3>1 DEF SearchInv, SearchTypeOK, Black, ColourOf
    <3> QED
      BY <3>2 DEF SearchInv, LeftForGood
  <2> QED
    BY <2>1 DEF ReportedCycleIsReal, SearchInv, IsRealCycle
<1> QED
  BY <1>1, <1>2, SearchInvNext, PTL DEF SearchSpec

-----------------------------------------------------------------------------
(* DraftPreview.                                                           *)

V == Ids(draft)
Seen == V \ Unvisited

\* Nodes whose group is not known yet, and those whose is.
Held == {stack[i] : i \in 1..Len(stack)}
Settled == Seen \ Held

\* The visits under way, from the root on.
Levels == 1..Len(visits)
At(i) == visits[i].node
ToDo(i) == visits[i].todo

\* The nodes that were met since level i began and before the next one did.
Since(i) == {x \in Held : index[At(i)] <= index[x] /\ (i < Len(visits) => index[x] < index[At(i + 1)])}

PreviewTypeOK ==
  /\ draft \in Drafts
  /\ index \in [V -> Nat] /\ lowlink \in [V -> Nat]
  /\ stack \in Seq(V)
  /\ visits \in Seq([node : V, todo : SUBSET V])
  /\ previewed \in BOOLEAN

\* Nodes are numbered as they are met.
NumbersAreUnique ==
  /\ \A n \in V : index[n] <= Cardinality(Seen)
  /\ \A m, n \in Seen : index[m] = index[n] => m = n

StackIsOrdered ==
  /\ \A i \in 1..Len(stack) : stack[i] \in Seen
  /\ \A i, j \in 1..Len(stack) : i < j => index[stack[i]] < index[stack[j]]

VisitsAreNested ==
  /\ \A i \in Levels : At(i) \in Held /\ ToDo(i) \subseteq Adjacent(At(i))
  /\ \A i, j \in Levels : i < j => index[At(i)] < index[At(j)]

\* Nothing is held that was not met since the root.
HeldSinceRoot == \A x \in Held : visits # <<>> /\ index[At(1)] <= index[x]

SettledIsClosed == \A n \in Settled : Adjacent(n) \subseteq Settled

\* A neighbour of a node that was met has been met, or is still to be looked at.
NeighboursAreSeen ==
  \A n \in Held : \A m \in Adjacent(n) :
    m \in Seen \/ \E i \in Levels : At(i) = n /\ m \in ToDo(i)

\* A node under visit reaches everything that was met after it and is still held.
VisitedReachesLater ==
  \A i \in Levels : \A x \in Held : index[At(i)] < index[x] => x \in ReachedFrom(DraftGraph, At(i))

\* A link leads back to a node that is held; that of a node that was left, to an older one.
LinksLead ==
  \A n \in Held :
    /\ \E m \in Held : index[m] = lowlink[n] /\ (m = n \/ m \in ReachedFrom(DraftGraph, n))
    /\ lowlink[n] <= index[n]
    /\ lowlink[n] = index[n] => \E i \in Levels : At(i) = n

\* What a level has looked at is no older than its link.
LinksAreLow ==
  \A i \in Levels : \A x \in Since(i) : \A y \in Adjacent(x) \cap Held :
    lowlink[At(i)] <= index[y] \/ (x = At(i) /\ y \in ToDo(i))

GroupsSoFar == groups = {InCycleWith(DraftGraph, n) : n \in {k \in Settled : IsOnCycle(DraftGraph, k)}}

PreviewInv ==
  /\ PreviewTypeOK
  /\ NumbersAreUnique /\ StackIsOrdered /\ VisitsAreNested /\ HeldSinceRoot
  /\ SettledIsClosed /\ NeighboursAreSeen
  /\ VisitedReachesLater /\ LinksLead /\ LinksAreLow
  /\ GroupsSoFar
  /\ previewed => visits = <<>> /\ Unvisited = {}

LEMMA NodesAreFinite ==
  ASSUME draft \in Drafts
  PROVE  V \in SUBSET Nat /\ IsFiniteSet(V)
<1> DEFINE I == 1..Len(draft)
           Image == {draft[i].id : i \in I}
           f == [i \in I |-> draft[i].id]
<1>1. draft \in Seq(DraftEntries) /\ Len(draft) \in Nat /\ \A i \in I : draft[i].id \in Nat
  <2>1. draft \in Seq(DraftEntries)
    BY DraftsAssumption
  <2>2. Len(draft) \in Nat /\ \A i \in 1..Len(draft) : draft[i] \in DraftEntries
    BY <2>1
  <2> QED
    BY <2>1, <2>2 DEF DraftEntries
<1>2. IsFiniteSet(I)
  BY <1>1, FS_Interval
<1>3. f \in Surjection(I, Image)
  BY DEF Surjection
<1>4. IsFiniteSet(Image)
  BY <1>2, <1>3, FS_Surjection
<1>5. V = Image \ {0}
  BY <1>1 DEF V, Ids, Range
<1> QED
  BY <1>1, <1>4, <1>5, FS_Subset

LEMMA NeighboursFollow ==
  ASSUME NEW n \in V
  PROVE  Adjacent(n) = Successors(DraftGraph, n) /\ Adjacent(n) \subseteq V
BY DEF Adjacent, Successors, DraftGraph, V

\* The Draft does not change while it is looked at.
LEMMA SameGraph ==
  ASSUME draft' = draft
  PROVE  V' = V /\ DraftGraph' = DraftGraph /\ \A n \in V : Adjacent(n)' = Adjacent(n)
BY DEF V, DraftGraph, DrawnEdges, DataEdges, ControlEdges, Adjacent

LEMMA Numbering ==
  ASSUME PreviewInv
  PROVE  /\ Held \subseteq Seen /\ Seen \subseteq V /\ IsFiniteSet(Seen) /\ Cardinality(Seen) \in Nat
         /\ Seen = {n \in V : index[n] # 0}
         /\ \A n \in Seen : index[n] \in Nat \ {0} /\ index[n] <= Cardinality(Seen)
         /\ \A i \in Levels : At(i) \in Held /\ At(i) \in V /\ ToDo(i) \subseteq V
<1>1. Held \subseteq Seen
  BY DEF Held, PreviewInv, StackIsOrdered
<1>2. Seen = {n \in V : index[n] # 0}
  BY DEF Seen, Unvisited, V
<1>3. IsFiniteSet(Seen) /\ Cardinality(Seen) \in Nat
  BY <1>2, NodesAreFinite, FS_Subset, FS_CardinalityType DEF PreviewInv, PreviewTypeOK
<1>4. \A n \in Seen : index[n] \in Nat \ {0} /\ index[n] <= Cardinality(Seen)
  BY <1>2 DEF PreviewInv, PreviewTypeOK, NumbersAreUnique
<1>5. \A i \in Levels : At(i) \in Held /\ At(i) \in V /\ ToDo(i) \subseteq V
  <2>1. \A i \in Levels : visits[i] \in [node : V, todo : SUBSET V]
    BY ElementOfSeq DEF Levels, PreviewInv, PreviewTypeOK
  <2>2. \A i \in Levels : At(i) \in V /\ ToDo(i) \subseteq V
    BY <2>1 DEF At, ToDo
  <2> QED
    BY <2>2 DEF PreviewInv, VisitsAreNested
<1> QED
  BY <1>1, <1>2, <1>3, <1>4, <1>5

\* A node that is opened gets the next number. The visit that led to it has looked at it.
LEMMA OpenFacts ==
  ASSUME PreviewInv, NEW n \in Unvisited, NEW open \in Seq([node : V, todo : SUBSET V]), Open(n, open),
         Len(open) = Len(visits)
  PROVE  LET now == Cardinality(Seen) + 1 IN
         /\ draft' = draft /\ groups' = groups /\ previewed' = previewed
         /\ n \in V /\ n \notin Seen /\ now \in Nat \ {0}
         /\ index' \in [V -> Nat] /\ index'[n] = now /\ \A x \in V : x # n => index'[x] = index[x]
         /\ lowlink' \in [V -> Nat] /\ lowlink'[n] = now /\ \A x \in V : x # n => lowlink'[x] = lowlink[x]
         /\ stack' \in Seq(V) /\ Len(stack') = Len(stack) + 1
         /\ \A i \in 1..Len(stack) : stack'[i] = stack[i]
         /\ stack'[Len(stack) + 1] = n
         /\ visits' \in Seq([node : V, todo : SUBSET V]) /\ Len(visits') = Len(visits) + 1
         /\ \A i \in Levels : visits'[i] = open[i]
         /\ visits'[Len(visits) + 1] = [node |-> n, todo |-> Adjacent(n)]
         /\ Seen' = Seen \cup {n} /\ Cardinality(Seen') = now
         /\ Held' = Held \cup {n} /\ Settled' = Settled
<1> DEFINE now == Cardinality(Seen) + 1
<1>1. draft' = draft /\ groups' = groups /\ previewed' = previewed
  BY DEF Open
<1>2. n \in V /\ n \notin Seen /\ now \in Nat \ {0} /\ now = Cardinality(Ids(draft) \ Unvisited) + 1
  BY Numbering DEF Seen, Unvisited, V
<1>3. index' \in [V -> Nat] /\ index'[n] = now /\ \A x \in V : x # n => index'[x] = index[x]
  BY <1>2 DEF Open, PreviewInv, PreviewTypeOK
<1>4. lowlink' \in [V -> Nat] /\ lowlink'[n] = now /\ \A x \in V : x # n => lowlink'[x] = lowlink[x]
  BY <1>2 DEF Open, PreviewInv, PreviewTypeOK
<1>5. /\ stack' \in Seq(V) /\ Len(stack') = Len(stack) + 1
      /\ \A i \in 1..Len(stack) : stack'[i] = stack[i]
      /\ stack'[Len(stack) + 1] = n
  BY <1>2, Appended DEF Open, PreviewInv, PreviewTypeOK
<1>6. /\ visits' \in Seq([node : V, todo : SUBSET V]) /\ Len(visits') = Len(visits) + 1
      /\ \A i \in Levels : visits'[i] = open[i]
      /\ visits'[Len(visits) + 1] = [node |-> n, todo |-> Adjacent(n)]
  <2> DEFINE w == [node |-> n, todo |-> Adjacent(n)]
             W == [node : V, todo : SUBSET V]
  <2>1. w \in W
    BY <1>2, NeighboursFollow
  <2>2. visits' = Append(open, w)
    BY DEF Open
  <2> HIDE DEF w, W
  <2>3. /\ visits' \in Seq(W) /\ Len(visits') = Len(open) + 1
        /\ \A i \in 1..Len(open) : visits'[i] = open[i]
        /\ visits'[Len(open) + 1] = w
    BY <2>1, <2>2, Appended DEF W
  <2> QED
    BY <2>3 DEF w, W, Levels
<1>7. Seen' = Seen \cup {n}
  <2>1. Seen' = {x \in V : index'[x] # 0}
    BY <1>1, SameGraph DEF Seen, Unvisited, V
  <2> QED
    BY <1>2, <1>3, <2>1, Numbering
<1>8. Cardinality(Seen') = now
  BY <1>2, <1>7, Numbering, FS_AddElement
<1>9. Held' = Held \cup {n}
  <2>1. Len(stack) \in Nat
    BY DEF PreviewInv, PreviewTypeOK
  <2>2. \A x : x \in Held' <=> \E i \in 1..Len(stack') : stack'[i] = x
    BY DEF Held
  <2>3. \A x : x \in Held <=> \E i \in 1..Len(stack) : stack[i] = x
    BY DEF Held
  <2>4. ASSUME NEW x \in Held' PROVE x \in Held \cup {n}
    <3>1. PICK i \in 1..Len(stack') : stack'[i] = x
      BY <2>2, <2>4
    <3>2. CASE i = Len(stack) + 1
      BY <1>5, <3>1, <3>2
    <3>3. CASE i # Len(stack) + 1
      BY <1>5, <2>1, <2>3, <3>1, <3>3
    <3> QED
      BY <3>2, <3>3
  <2>5. ASSUME NEW x \in Held \cup {n} PROVE x \in Held'
    BY <1>5, <2>1, <2>2, <2>3, <2>5
  <2> QED
    BY <2>4, <2>5
<1>10. Settled' = Settled
  BY <1>2, <1>7, <1>9, Numbering DEF Settled
<1> QED
  BY <1>1, <1>2, <1>3, <1>4, <1>5, <1>6, <1>7, <1>8, <1>9, <1>10

\* A visit is opened: at a root, or at a neighbour of the node under visit.
LEMMA OpenKeepsInv ==
  ASSUME PreviewInv, NEW n \in Unvisited, NEW open \in Seq([node : V, todo : SUBSET V]), Open(n, open),
         Len(open) = Len(visits),
         \A i \in Levels : /\ open[i].node = At(i) /\ open[i].todo \subseteq ToDo(i)
                           /\ \A m \in ToDo(i) : m = n \/ m \in open[i].todo,
         visits # <<>> => n \in Adjacent(At(Len(visits)))
  PROVE  PreviewInv'
<1> DEFINE now == Cardinality(Seen) + 1
<1>0. PICK k \in Nat : k = Len(visits)
  BY DEF PreviewInv, PreviewTypeOK
<1>1. /\ draft' = draft /\ groups' = groups /\ previewed' = previewed
      /\ n \in V /\ n \notin Seen /\ now \in Nat \ {0}
      /\ index' \in [V -> Nat] /\ index'[n] = now /\ \A x \in V : x # n => index'[x] = index[x]
      /\ lowlink' \in [V -> Nat] /\ lowlink'[n] = now /\ \A x \in V : x # n => lowlink'[x] = lowlink[x]
      /\ Seen' = Seen \cup {n} /\ Cardinality(Seen') = now
      /\ Held' = Held \cup {n} /\ Settled' = Settled
  BY OpenFacts
<1>2. /\ stack' \in Seq(V) /\ Len(stack') = Len(stack) + 1
      /\ \A i \in 1..Len(stack) : stack'[i] = stack[i]
      /\ stack'[Len(stack) + 1] = n
      /\ Len(stack) \in Nat
  <2>1. Len(stack) \in Nat
    BY DEF PreviewInv, PreviewTypeOK
  <2>2. /\ stack' \in Seq(V) /\ Len(stack') = Len(stack) + 1
        /\ \A i \in 1..Len(stack) : stack'[i] = stack[i]
        /\ stack'[Len(stack) + 1] = n
    BY OpenFacts
  <2> QED
    BY <2>1, <2>2
<1>3. /\ Levels = 1..k /\ Levels' = 1..k + 1 /\ Len(visits') = k + 1 /\ k + 1 \in Levels'
      /\ \A i \in Levels : At(i)' = At(i) /\ ToDo(i)' = open[i].todo
      /\ At(k + 1)' = n /\ ToDo(k + 1)' = Adjacent(n)
  <2>1. /\ Len(visits') = Len(visits) + 1
        /\ \A i \in Levels : visits'[i] = open[i]
        /\ visits'[Len(visits) + 1] = [node |-> n, todo |-> Adjacent(n)]
    BY OpenFacts
  <2>2. Levels = 1..k /\ Levels' = 1..k + 1 /\ Len(visits') = k + 1 /\ k + 1 \in Levels'
    BY <1>0, <2>1 DEF Levels
  <2>3. \A i \in Levels : At(i)' = At(i) /\ ToDo(i)' = open[i].todo
    BY <2>1 DEF At, ToDo
  <2>4. At(k + 1)' = n /\ ToDo(k + 1)' = Adjacent(n)
    BY <1>0, <2>1 DEF At, ToDo
  <2> QED
    BY <2>2, <2>3, <2>4
<1>4. V' = V /\ DraftGraph' = DraftGraph /\ \A x \in V : Adjacent(x)' = Adjacent(x)
  BY <1>1, SameGraph
<1>5. /\ Held \subseteq Seen /\ Seen \subseteq V
      /\ \A x \in Seen : x # n /\ index[x] \in Nat \ {0} /\ index[x] < now
      /\ \A i \in Levels : At(i) \in Held /\ At(i) \in V
  BY <1>1, Numbering
<1> HIDE DEF now
<1>6. \A x \in Held : x # n /\ x \in V /\ index'[x] = index[x] /\ index[x] < now /\ lowlink'[x] = lowlink[x]
  BY <1>1, <1>5
<1>7. PreviewTypeOK'
  <2>1. visits' \in Seq([node : V, todo : SUBSET V])
    BY OpenFacts
  <2> QED
    BY <1>1, <1>2, <1>4, <2>1 DEF PreviewInv, PreviewTypeOK
<1>8. NumbersAreUnique'
  <2>1. ASSUME NEW x \in V PROVE index'[x] <= Cardinality(Seen')
    BY <1>1, <1>5, <2>1, Numbering DEF now, PreviewInv, NumbersAreUnique
  <2>2. ASSUME NEW x \in Seen', NEW y \in Seen', index'[x] = index'[y] PROVE x = y
    <3>1. \A z \in Seen : index'[z] = index[z] /\ index[z] < now /\ index[z] \in Nat
      BY <1>1, <1>5
    <3>2. CASE x \in Seen /\ y \in Seen
      BY <2>2, <3>1, <3>2 DEF PreviewInv, NumbersAreUnique
    <3>3. CASE x = n \/ y = n
      BY <1>1, <2>2, <3>1, <3>3
    <3> QED
      BY <1>1, <3>2, <3>3
  <2> QED
    BY <1>4, <2>1, <2>2 DEF NumbersAreUnique
<1>9. StackIsOrdered'
  <2>1. \A i \in 1..Len(stack) : stack[i] \in Seen /\ stack[i] \in Held
    BY DEF PreviewInv, StackIsOrdered, Held
  <2>2. ASSUME NEW i \in 1..Len(stack') PROVE stack'[i] \in Seen'
    <3>1. CASE i = Len(stack) + 1
      BY <1>1, <1>2, <3>1
    <3>2. CASE i # Len(stack) + 1
      <4>1. i \in 1..Len(stack)
        BY <1>2, <3>2
      <4> QED
        BY <1>1, <1>2, <2>1, <4>1
    <3> QED
      BY <3>1, <3>2
  <2>3. ASSUME NEW i \in 1..Len(stack'), NEW j \in 1..Len(stack'), i < j
        PROVE  index'[stack'[i]] < index'[stack'[j]]
    <3>1. i \in 1..Len(stack) /\ stack'[i] = stack[i] /\ index'[stack'[i]] = index[stack[i]]
          /\ index[stack[i]] < now
      BY <1>2, <1>6, <2>1, <2>3
    <3>2. CASE j = Len(stack) + 1
      BY <1>1, <1>2, <3>1, <3>2
    <3>3. CASE j # Len(stack) + 1
      <4>1. j \in 1..Len(stack) /\ index'[stack'[j]] = index[stack[j]]
        BY <1>2, <1>6, <2>1, <3>3
      <4>2. index[stack[i]] < index[stack[j]]
        BY <2>3, <3>1, <4>1 DEF PreviewInv, StackIsOrdered
      <4> QED
        BY <3>1, <4>1, <4>2
    <3> QED
      BY <3>2, <3>3
  <2> QED
    BY <2>2, <2>3 DEF StackIsOrdered
<1>10. VisitsAreNested'
  <2>1. ASSUME NEW i \in Levels' PROVE At(i)' \in Held' /\ ToDo(i)' \subseteq Adjacent(At(i))'
    <3>1. CASE i = k + 1
      BY <1>1, <1>3, <1>4, <3>1 DEF At, ToDo, Adjacent, DrawnEdges, DataEdges, ControlEdges
    <3>2. CASE i # k + 1
      <4>1. i \in Levels
        BY <1>3, <3>2
      <4>2. At(i)' = At(i) /\ ToDo(i)' \subseteq ToDo(i) /\ At(i) \in Held /\ At(i) \in V
        BY <1>3, <1>5, <4>1
      <4>3. ToDo(i) \subseteq Adjacent(At(i))
        BY <4>1 DEF PreviewInv, VisitsAreNested
      <4>4. Adjacent(At(i))' = Adjacent(At(i))
        BY <1>1, <4>2 DEF Adjacent, DrawnEdges, DataEdges, ControlEdges
      <4> QED
        BY <1>1, <4>2, <4>3, <4>4
    <3> QED
      BY <3>1, <3>2
  <2>2. ASSUME NEW i \in Levels', NEW j \in Levels', i < j PROVE index'[At(i)'] < index'[At(j)']
    <3>1. i \in Levels /\ At(i)' = At(i) /\ index'[At(i)] = index[At(i)] /\ index[At(i)] < now
      BY <1>3, <1>5, <1>6, <2>2
    <3>2. CASE j = k + 1
      BY <1>1, <1>3, <3>1, <3>2
    <3>3. CASE j # k + 1
      <4>1. j \in Levels /\ At(j)' = At(j) /\ index'[At(j)] = index[At(j)]
        BY <1>3, <1>5, <1>6, <3>3
      <4> QED
        BY <2>2, <3>1, <4>1 DEF PreviewInv, VisitsAreNested
    <3> QED
      BY <3>2, <3>3
  <2> QED
    BY <2>1, <2>2 DEF VisitsAreNested
<1>11. HeldSinceRoot'
  <2> SUFFICES ASSUME NEW x \in Held' PROVE visits' # <<>> /\ index'[At(1)'] <= index'[x]
    BY DEF HeldSinceRoot
  <2>1. visits' # <<>>
    BY <1>3
  <2>2. CASE k = 0
    <3>1. Held = {}
      <4>1. visits = <<>>
        BY <1>0, <2>2, EmptySeq DEF PreviewInv, PreviewTypeOK
      <4> QED
        BY <4>1 DEF PreviewInv, HeldSinceRoot
    <3> QED
      BY <1>1, <1>3, <2>1, <2>2, <3>1
  <2>3. CASE k # 0
    <3>1. 1 \in Levels /\ At(1)' = At(1) /\ At(1) \in Held /\ index'[At(1)] = index[At(1)] /\ index[At(1)] < now
      BY <1>3, <1>5, <1>6, <2>3
    <3>2. index[At(1)] \in Nat
      BY <1>5, <3>1
    <3>3. CASE x = n
      BY <1>1, <2>1, <3>1, <3>2, <3>3
    <3>4. CASE x # n
      BY <1>1, <1>6, <2>1, <3>1, <3>4 DEF PreviewInv, HeldSinceRoot
    <3> QED
      BY <3>3, <3>4
  <2> QED
    BY <2>2, <2>3
<1>12. SettledIsClosed'
  BY <1>1, <1>4, <1>5 DEF PreviewInv, SettledIsClosed, Settled
<1>13. NeighboursAreSeen'
  <2> SUFFICES ASSUME NEW x \in Held', NEW m \in Adjacent(x)', m \notin Seen'
               PROVE  \E i \in Levels' : At(i)' = x /\ m \in ToDo(i)'
    BY DEF NeighboursAreSeen
  <2>1. CASE x = n
    BY <1>1, <1>3, <1>4, <2>1
  <2>2. CASE x # n
    <3>1. x \in Held /\ m \in Adjacent(x) /\ m \notin Seen /\ m # n
      BY <1>1, <1>4, <1>5, <2>2
    <3>2. PICK i \in Levels : At(i) = x /\ m \in ToDo(i)
      BY <3>1 DEF PreviewInv, NeighboursAreSeen
    <3> QED
      BY <1>3, <3>1, <3>2
  <2> QED
    BY <2>1, <2>2
<1>14. VisitedReachesLater'
  <2> SUFFICES ASSUME NEW i \in Levels', NEW x \in Held', index'[At(i)'] < index'[x]
               PROVE  x \in ReachedFrom(DraftGraph, At(i)')
    BY <1>4 DEF VisitedReachesLater
  <2>1. i \in Levels /\ At(i)' = At(i) /\ index'[At(i)] = index[At(i)]
    <3>1. CASE i = k + 1
      <4>1. index'[x] <= now
        BY <1>1, <1>5, <1>6
      <4>2. index'[At(i)'] = now
        BY <1>1, <1>3, <3>1
      <4>3. index'[x] \in Nat
        BY <1>1, <1>5
      <4> QED
        BY <1>1, <4>1, <4>2, <4>3
    <3>2. CASE i # k + 1
      BY <1>3, <1>5, <1>6, <3>2
    <3> QED
      BY <3>1, <3>2
  <2>2. CASE x # n
    BY <1>1, <1>6, <2>1, <2>2 DEF PreviewInv, VisitedReachesLater
  <2>3. CASE x = n
    <3>1. k \in Levels /\ At(k) \in V /\ At(k) \in Held
      BY <1>3, <1>5, <2>1
    <3>2. n \in ReachedFrom(DraftGraph, At(k))
      <4>1. n \in Adjacent(At(k))
        BY <1>0, <1>3, <2>1
      <4> QED
        BY <3>1, <4>1, NeighboursFollow, SuccessorIsReached
    <3>3. CASE i = k
      BY <2>1, <2>3, <3>2, <3>3
    <3>4. CASE i # k
      <4>1. i < k
        BY <1>3, <2>1, <3>4
      <4>2. At(k) \in ReachedFrom(DraftGraph, At(i))
        BY <2>1, <3>1, <4>1 DEF PreviewInv, VisitedReachesLater, VisitsAreNested
      <4> QED
        BY <2>1, <2>3, <3>2, <4>2, ReachedIsTransitive
    <3> QED
      BY <3>3, <3>4
  <2> QED
    BY <2>2, <2>3
<1>15. LinksLead'
  <2> SUFFICES ASSUME NEW x \in Held'
               PROVE  /\ \E m \in Held' : index'[m] = lowlink'[x] /\ (m = x \/ m \in ReachedFrom(DraftGraph, x))
                      /\ lowlink'[x] <= index'[x]
                      /\ lowlink'[x] = index'[x] => \E i \in Levels' : At(i)' = x
    BY <1>4 DEF LinksLead
  <2>1. CASE x = n
    BY <1>1, <1>3, <2>1
  <2>2. CASE x # n
    <3>1. x \in Held /\ index'[x] = index[x] /\ lowlink'[x] = lowlink[x]
      BY <1>1, <1>6, <2>2
    <3>2. PICK m \in Held : index[m] = lowlink[x] /\ (m = x \/ m \in ReachedFrom(DraftGraph, x))
      BY <3>1 DEF PreviewInv, LinksLead
    <3>3. m \in Held' /\ index'[m] = lowlink'[x]
      BY <1>1, <1>6, <3>1, <3>2
    <3>4. lowlink[x] <= index[x] /\ (lowlink[x] = index[x] => \E i \in Levels : At(i) = x)
      BY <3>1 DEF PreviewInv, LinksLead
    <3>5. (\E i \in Levels : At(i) = x) => \E i \in Levels' : At(i)' = x
      BY <1>3
    <3> QED
      BY <3>1, <3>2, <3>3, <3>4, <3>5
  <2> QED
    BY <2>1, <2>2
<1>16. LinksAreLow'
  <2> SUFFICES ASSUME NEW i \in Levels', NEW x \in Since(i)', NEW y \in (Adjacent(x) \cap Held)'
               PROVE  lowlink'[At(i)'] <= index'[y] \/ (x = At(i)' /\ y \in ToDo(i)')
    BY DEF LinksAreLow
  <2>1. x \in Held' /\ index'[At(i)'] <= index'[x] /\ (i < k + 1 => index'[x] < index'[At(i + 1)'])
    BY <1>3 DEF Since
  <2>2. CASE i = k + 1
    <3>1. x = n
      BY <1>1, <1>3, <1>5, <1>6, <2>1, <2>2
    <3> QED
      BY <1>1, <1>3, <1>4, <2>2, <3>1
  <2>3. CASE i # k + 1
    <3>1. i \in Levels /\ i < k + 1 /\ At(i)' = At(i) /\ At(i) \in Held
      BY <1>3, <1>5, <2>3
    <3>2. i < k => i + 1 \in Levels /\ At(i + 1)' = At(i + 1) /\ At(i + 1) \in Held
      BY <1>3, <1>5, <3>1
    <3>3. index'[At(i + 1)'] <= now /\ index'[At(i + 1)'] \in Nat
      <4>1. CASE i = k
        BY <1>1, <1>3, <4>1
      <4>2. CASE i # k
        <5>1. i < k
          BY <1>3, <3>1, <4>2
        <5>2. index'[At(i + 1)'] = index[At(i + 1)] /\ index[At(i + 1)] < now /\ index[At(i + 1)] \in Nat
          BY <1>5, <1>6, <3>2, <5>1
        <5> QED
          BY <1>1, <5>2
      <4> QED
        BY <4>1, <4>2
    <3>4. x # n
      <4>1. index'[x] < index'[At(i + 1)']
        BY <2>1, <3>1
      <4> HIDE DEF now
      <4> QED
        BY <1>1, <3>3, <4>1
    <3>5. x \in Held /\ x \in V /\ index'[x] = index[x] /\ index'[At(i)] = index[At(i)] /\ lowlink'[At(i)] = lowlink[At(i)]
      <4>1. x \in Held
        BY <1>1, <2>1, <3>4
      <4> QED
        BY <1>6, <3>1, <4>1
    <3>6. x \in Since(i)
      <4>1. i < k => index[x] < index[At(i + 1)]
        <5> SUFFICES ASSUME i < k PROVE index[x] < index[At(i + 1)]
          OBVIOUS
        <5>1. index'[x] < index'[At(i + 1)']
          BY <2>1, <3>1
        <5>2. index'[At(i + 1)'] = index[At(i + 1)]
          BY <1>6, <3>2
        <5> QED
          BY <3>5, <5>1, <5>2
      <4>2. index[At(i)] <= index[x]
        BY <2>1, <3>1, <3>5
      <4> QED
        BY <1>0, <3>5, <4>1, <4>2 DEF Since
    <3>7. y \in Adjacent(x)
      BY <1>4, <3>5
    <3>8. CASE y = n
      <4>1. lowlink[At(i)] <= index[At(i)] /\ index[At(i)] < now /\ index[At(i)] \in Nat /\ lowlink[At(i)] \in Nat
        BY <1>5, <1>6, <3>1 DEF PreviewInv, LinksLead, PreviewTypeOK
      <4> QED
        BY <1>1, <3>1, <3>5, <3>8, <4>1
    <3>9. CASE y # n
      <4>1. y \in Held /\ index'[y] = index[y]
        BY <1>1, <1>6, <3>9
      <4>2. lowlink[At(i)] <= index[y] \/ (x = At(i) /\ y \in ToDo(i))
        BY <3>1, <3>6, <3>7, <4>1 DEF PreviewInv, LinksAreLow
      <4>3. y \in ToDo(i) => y \in ToDo(i)'
        BY <1>3, <3>1, <3>9
      <4> QED
        BY <3>1, <3>5, <4>1, <4>2, <4>3
    <3> QED
      BY <3>8, <3>9
  <2> QED
    BY <2>2, <2>3
<1>17. GroupsSoFar'
  BY <1>1, <1>4 DEF PreviewInv, GroupsSoFar
<1>18. ~previewed'
  BY <1>1 DEF PreviewInv
<1> QED
  BY <1>7, <1>8, <1>9, <1>10, <1>11, <1>12, <1>13, <1>14, <1>15, <1>16, <1>17, <1>18 DEF PreviewInv

LEMMA TopFacts ==
  ASSUME PreviewInv, visits # <<>>
  PROVE  /\ Len(visits) \in Nat \ {0} /\ Len(visits) \in Levels
         /\ Top = visits[Len(visits)] /\ Top.node = At(Len(visits)) /\ Top.todo = ToDo(Len(visits))
         /\ Top.node \in V /\ Top.node \in Held /\ Top.todo \subseteq Adjacent(Top.node)
         /\ Top.todo \subseteq V
<1>1. Len(visits) \in Nat \ {0}
  BY EmptySeq DEF PreviewInv, PreviewTypeOK
<1>2. Len(visits) \in Levels
  BY <1>1 DEF Levels
<1>3. Top = visits[Len(visits)] /\ Top.node = At(Len(visits)) /\ Top.todo = ToDo(Len(visits))
  BY DEF Top, Last, At, ToDo
<1>4. Top.node \in V /\ Top.todo \subseteq V
  BY <1>2, <1>3, Numbering
<1>5. Top.node \in Held /\ Top.todo \subseteq Adjacent(Top.node)
  BY <1>2, <1>3 DEF PreviewInv, VisitsAreNested
<1> QED
  BY <1>1, <1>2, <1>3, <1>4, <1>5

LEMMA LookedAtFacts ==
  ASSUME PreviewInv, visits # <<>>, NEW m
  PROVE  /\ LookedAt(m) \in Seq([node : V, todo : SUBSET V]) /\ Len(LookedAt(m)) = Len(visits)
         /\ \A i \in Levels :
              /\ LookedAt(m)[i].node = At(i)
              /\ LookedAt(m)[i].todo = IF i = Len(visits) THEN ToDo(i) \ {m} ELSE ToDo(i)
<1> DEFINE k == Len(visits)
           W == [node : V, todo : SUBSET V]
           e == [visits[k] EXCEPT !.todo = @ \ {m}]
<1>1. k \in Levels /\ Levels = 1..Len(visits)
  BY TopFacts DEF Levels
<1>2. visits \in Seq(W)
  BY DEF PreviewInv, PreviewTypeOK
<1>3. visits[k] \in W
  BY <1>1, <1>2, ElementOfSeq
<1>4. e \in W /\ e.node = At(k) /\ e.todo = ToDo(k) \ {m}
  BY <1>3 DEF At, ToDo
<1>5. LookedAt(m) = [visits EXCEPT ![k] = e]
  BY DEF LookedAt
<1> HIDE DEF k, W, e
<1>6. /\ LookedAt(m) \in Seq(W) /\ Len(LookedAt(m)) = Len(visits)
      /\ \A i \in 1..Len(visits) : LookedAt(m)[i] = IF i = k THEN e ELSE visits[i]
  BY <1>1, <1>2, <1>4, <1>5, ExceptSeq
<1> QED
  BY <1>1, <1>4, <1>6 DEF At, ToDo, W, k

LEMMA VisitRootKeepsInv ==
  ASSUME PreviewInv, VisitRoot
  PROVE  PreviewInv'
<1> DEFINE n == Min(Unvisited)
<1>1. visits = <<>> /\ Open(n, visits)
  BY DEF VisitRoot
<1>2. n \in Unvisited
  <2>1. Unvisited \in SUBSET Nat
    BY NodesAreFinite DEF Unvisited, V, PreviewInv, PreviewTypeOK
  <2> QED
    BY <2>1, MinOfNaturals DEF VisitRoot
<1>3. visits \in Seq([node : V, todo : SUBSET V])
  BY DEF PreviewInv, PreviewTypeOK
<1> HIDE DEF n
<1> QED
  BY <1>1, <1>2, <1>3, OpenKeepsInv DEF At, ToDo

LEMMA VisitNeighbourKeepsInv ==
  ASSUME PreviewInv, VisitNeighbour
  PROVE  PreviewInv'
<1> DEFINE m == Min(Top.todo)
<1>1. visits # <<>> /\ Top.todo # {} /\ m \in Unvisited /\ Open(m, LookedAt(m))
  BY DEF VisitNeighbour
<1>2. m \in Adjacent(At(Len(visits)))
  <2>1. Top.todo \in SUBSET Nat
    BY <1>1, TopFacts, NodesAreFinite DEF PreviewInv, PreviewTypeOK
  <2>2. m \in Top.todo
    BY <1>1, <2>1, MinOfNaturals
  <2> QED
    BY <1>1, <2>2, TopFacts
<1> HIDE DEF m
<1>3. /\ LookedAt(m) \in Seq([node : V, todo : SUBSET V]) /\ Len(LookedAt(m)) = Len(visits)
      /\ \A i \in Levels : /\ LookedAt(m)[i].node = At(i) /\ LookedAt(m)[i].todo \subseteq ToDo(i)
                           /\ \A x \in ToDo(i) : x = m \/ x \in LookedAt(m)[i].todo
  BY <1>1, LookedAtFacts
<1> QED
  BY <1>1, <1>2, <1>3, OpenKeepsInv

\* A neighbour that was met before is looked at.
LEMMA LookBackKeepsInv ==
  ASSUME PreviewInv, LookBack
  PROVE  PreviewInv'
<1> DEFINE m == Min(Top.todo)
           t == Top.node
<1>0. PICK k \in Nat \ {0} : k = Len(visits)
  BY TopFacts DEF LookBack
<1>1. /\ visits # <<>> /\ Top.todo # {} /\ m \notin Unvisited
      /\ lowlink' = IF IsOpen(m) THEN Lowered(t, index[m]) ELSE lowlink
      /\ visits' = LookedAt(m)
      /\ draft' = draft /\ index' = index /\ stack' = stack /\ groups' = groups /\ previewed' = previewed
  BY DEF LookBack
<1>2. m \in ToDo(k) /\ m \in Adjacent(t) /\ m \in V /\ m \in Seen
  <2>1. Top.todo \in SUBSET Nat
    BY <1>1, TopFacts, NodesAreFinite DEF PreviewInv, PreviewTypeOK
  <2>2. m \in Top.todo
    BY <1>1, <2>1, MinOfNaturals
  <2> QED
    BY <1>0, <1>1, <2>2, TopFacts DEF Seen
<1>3. k \in Levels /\ t = At(k) /\ t \in V /\ t \in Held
  BY <1>0, <1>1, TopFacts
<1> HIDE DEF m, t
<1>4. /\ visits' \in Seq([node : V, todo : SUBSET V]) /\ Len(visits') = k /\ Levels' = Levels /\ Levels = 1..k
      /\ \A i \in Levels : At(i)' = At(i) /\ ToDo(i)' = IF i = k THEN ToDo(i) \ {m} ELSE ToDo(i)
  BY <1>0, <1>1, LookedAtFacts DEF Levels, At, ToDo
<1>5. V' = V /\ DraftGraph' = DraftGraph /\ \A x \in V : Adjacent(x)' = Adjacent(x)
  BY <1>1, SameGraph
<1>6. Seen' = Seen /\ Held' = Held /\ Settled' = Settled /\ Unvisited' = Unvisited
  BY <1>1, <1>5 DEF Seen, Held, Settled, Unvisited, V
<1>7. /\ Held \subseteq Seen /\ Seen \subseteq V
      /\ \A x \in Seen : index[x] \in Nat \ {0}
      /\ \A i \in Levels : At(i) \in Held /\ At(i) \in V
  BY Numbering
<1>8. /\ lowlink' \in [V -> Nat] /\ \A x \in V : x # t => lowlink'[x] = lowlink[x]
      /\ lowlink'[t] <= lowlink[t]
      /\ m \in Held => lowlink'[t] <= index[m] /\ (lowlink'[t] = lowlink[t] \/ lowlink'[t] = index[m])
      /\ m \notin Held => lowlink' = lowlink
  <2>1. IsOpen(m) <=> m \in Held
    BY DEF IsOpen, Range, Held, PreviewInv, PreviewTypeOK
  <2>2. lowlink \in [V -> Nat] /\ lowlink[t] \in Nat /\ index[m] \in Nat
    BY <1>2, <1>3 DEF PreviewInv, PreviewTypeOK
  <2>3. CASE m \in Held
    <3> DEFINE low == Min({lowlink[t], index[m]})
    <3>1. low \in {lowlink[t], index[m]} /\ low <= lowlink[t] /\ low <= index[m]
      BY <2>2, MinOfNaturals
    <3>2. lowlink' = [lowlink EXCEPT ![t] = low]
      BY <1>1, <2>1, <2>3 DEF Lowered
    <3> HIDE DEF low
    <3> QED
      BY <1>3, <2>2, <2>3, <3>1, <3>2
  <2>4. CASE m \notin Held
    BY <1>1, <2>1, <2>2, <2>4
  <2> QED
    BY <2>3, <2>4
<1>9. PreviewTypeOK'
  BY <1>1, <1>4, <1>5, <1>8 DEF PreviewInv, PreviewTypeOK
<1>10. NumbersAreUnique' /\ StackIsOrdered' /\ SettledIsClosed'
  <2>1. NumbersAreUnique'
    BY <1>1, <1>5, <1>6 DEF PreviewInv, NumbersAreUnique
  <2>2. StackIsOrdered'
    BY <1>1, <1>6 DEF PreviewInv, StackIsOrdered
  <2>3. SettledIsClosed'
    BY <1>5, <1>6, <1>7 DEF PreviewInv, SettledIsClosed, Settled
  <2> QED
    BY <2>1, <2>2, <2>3
<1>11. VisitsAreNested'
  <2>1. ASSUME NEW i \in Levels' PROVE At(i)' \in Held' /\ ToDo(i)' \subseteq Adjacent(At(i))'
    <3>1. At(i)' = At(i) /\ ToDo(i)' \subseteq ToDo(i) /\ At(i) \in V /\ i \in Levels
      BY <1>4, <1>7
    <3>2. At(i) \in Held /\ ToDo(i) \subseteq Adjacent(At(i))
      BY <3>1 DEF PreviewInv, VisitsAreNested
    <3>3. Adjacent(At(i))' = Adjacent(At(i))
      BY <1>1, <3>1 DEF Adjacent, DrawnEdges, DataEdges, ControlEdges
    <3> QED
      BY <1>6, <3>1, <3>2, <3>3
  <2>2. ASSUME NEW i \in Levels', NEW j \in Levels', i < j PROVE index'[At(i)'] < index'[At(j)']
    BY <1>1, <1>4, <2>2 DEF PreviewInv, VisitsAreNested
  <2> QED
    BY <2>1, <2>2 DEF VisitsAreNested
<1>12. HeldSinceRoot'
  <2>1. 1 \in Levels
    BY <1>4, <1>3
  <2>2. visits' # <<>>
    BY <1>4
  <2> QED
    BY <1>1, <1>4, <1>6, <2>1, <2>2 DEF PreviewInv, HeldSinceRoot
<1>13. NeighboursAreSeen'
  <2> SUFFICES ASSUME NEW x \in Held', NEW y \in Adjacent(x)', y \notin Seen'
               PROVE  \E i \in Levels' : At(i)' = x /\ y \in ToDo(i)'
    BY DEF NeighboursAreSeen
  <2>1. x \in Held /\ y \in Adjacent(x) /\ y \notin Seen /\ y # m
    BY <1>2, <1>5, <1>6, <1>7
  <2>2. PICK i \in Levels : At(i) = x /\ y \in ToDo(i)
    BY <2>1 DEF PreviewInv, NeighboursAreSeen
  <2> QED
    BY <1>4, <2>1, <2>2
<1>14. VisitedReachesLater'
  BY <1>1, <1>4, <1>5, <1>6 DEF PreviewInv, VisitedReachesLater
<1>15. LinksLead'
  <2> SUFFICES ASSUME NEW x \in Held'
               PROVE  /\ \E y \in Held' : index'[y] = lowlink'[x] /\ (y = x \/ y \in ReachedFrom(DraftGraph, x))
                      /\ lowlink'[x] <= index'[x]
                      /\ lowlink'[x] = index'[x] => \E i \in Levels' : At(i)' = x
    BY <1>5 DEF LinksLead
  <2>1. x \in Held /\ x \in V /\ index'[x] = index[x] /\ index[x] \in Nat
    BY <1>1, <1>6, <1>7
  <2>2. /\ \E y \in Held : index[y] = lowlink[x] /\ (y = x \/ y \in ReachedFrom(DraftGraph, x))
        /\ lowlink[x] <= index[x]
        /\ lowlink[x] = index[x] => \E i \in Levels : At(i) = x
    BY <2>1 DEF PreviewInv, LinksLead
  <2>3. CASE lowlink'[x] = lowlink[x]
    BY <1>1, <1>4, <1>6, <2>1, <2>2, <2>3
  <2>4. CASE lowlink'[x] # lowlink[x]
    <3>1. x = t /\ m \in Held /\ lowlink'[x] = index[m]
      BY <1>8, <2>1, <2>4
    <3>2. m \in ReachedFrom(DraftGraph, x)
      BY <1>2, <1>3, <3>1, NeighboursFollow, SuccessorIsReached
    <3>3. lowlink'[x] <= index[x]
      BY <1>8, <2>1, <2>2, <3>1 DEF PreviewInv, PreviewTypeOK
    <3>4. \E i \in Levels' : At(i)' = x
      BY <1>3, <1>4, <3>1
    <3> QED
      BY <1>1, <1>6, <3>1, <3>2, <3>3, <3>4, <2>1
  <2> QED
    BY <2>3, <2>4
<1>16. LinksAreLow'
  <2> SUFFICES ASSUME NEW i \in Levels', NEW x \in Since(i)', NEW y \in (Adjacent(x) \cap Held)'
               PROVE  lowlink'[At(i)'] <= index'[y] \/ (x = At(i)' /\ y \in ToDo(i)')
    BY DEF LinksAreLow
  <2>1. i \in Levels /\ At(i)' = At(i) /\ At(i) \in V
    BY <1>4, <1>7
  <2>2. x \in Since(i)
    <3>1. i < k => At(i + 1)' = At(i + 1)
      BY <1>4
    <3> QED
      BY <1>0, <1>1, <1>4, <1>6, <2>1, <3>1 DEF Since
  <2>3. y \in Adjacent(x) /\ y \in Held /\ index'[y] = index[y] /\ index[y] \in Nat
    BY <1>1, <1>5, <1>6, <1>7, <2>2 DEF Since
  <2>4. lowlink[At(i)] <= index[y] \/ (x = At(i) /\ y \in ToDo(i))
    BY <2>1, <2>2, <2>3 DEF PreviewInv, LinksAreLow
  <2>5. lowlink'[At(i)] <= lowlink[At(i)] /\ lowlink'[At(i)] \in Nat /\ lowlink[At(i)] \in Nat
    BY <1>8, <2>1 DEF PreviewInv, PreviewTypeOK
  <2>6. CASE lowlink[At(i)] <= index[y]
    BY <2>1, <2>3, <2>5, <2>6
  <2>7. CASE x = At(i) /\ y \in ToDo(i) /\ (i # k \/ y # m)
    BY <1>4, <2>1, <2>7
  <2>8. CASE i = k /\ y = m
    BY <1>3, <1>8, <2>1, <2>3, <2>8
  <2> QED
    BY <2>4, <2>6, <2>7, <2>8
<1>17. GroupsSoFar'
  BY <1>1, <1>5, <1>6 DEF PreviewInv, GroupsSoFar
<1>18. ~previewed'
  BY <1>1 DEF PreviewInv
<1> QED
  BY <1>9, <1>10, <1>11, <1>12, <1>13, <1>14, <1>15, <1>16, <1>17, <1>18 DEF PreviewInv

\* A visit is left.
LEMMA LeaveFacts ==
  ASSUME PreviewInv, Leave
  PROVE  /\ visits # <<>> /\ ToDo(Len(visits)) = {}
         /\ draft' = draft /\ index' = index /\ previewed' = previewed /\ Seen' = Seen
         /\ visits' \in Seq([node : V, todo : SUBSET V]) /\ Len(visits') = Len(visits) - 1
         /\ \A i \in 1..Len(visits) - 1 : At(i)' = At(i) /\ ToDo(i)' = ToDo(i)
<1>1. visits # <<>> /\ Top.todo = {} /\ visits' = Front(visits)
      /\ draft' = draft /\ index' = index /\ previewed' = previewed
  BY DEF Leave
<1>2. ToDo(Len(visits)) = {}
  BY <1>1, TopFacts
<1>3. Seen' = Seen
  BY <1>1 DEF Seen, Unvisited, V
<1>4. /\ visits' \in Seq([node : V, todo : SUBSET V]) /\ Len(visits') = Len(visits) - 1
      /\ \A i \in 1..Len(visits) - 1 : visits'[i] = visits[i]
  <2> DEFINE W == [node : V, todo : SUBSET V]
  <2>1. visits \in Seq(W)
    BY DEF PreviewInv, PreviewTypeOK
  <2> HIDE DEF W
  <2>2. visits' \in Seq(W) /\ Len(visits') = Len(visits) - 1 /\ \A i \in 1..Len(visits) - 1 : visits'[i] = visits[i]
    BY <1>1, <2>1, Shortened
  <2> QED
    BY <2>2 DEF W
<1>5. \A i \in 1..Len(visits) - 1 : At(i)' = At(i) /\ ToDo(i)' = ToDo(i)
  BY <1>4 DEF At, ToDo
<1> QED
  BY <1>1, <1>2, <1>3, <1>4, <1>5

\* The group of the node on top, when it has no neighbour left and its link is its own number.
Popped == {x \in Held : index[Top.node] <= index[x]}

LEMMA PoppedIsAGroup ==
  ASSUME PreviewInv, visits # <<>>, Top.todo = {}, lowlink[Top.node] = index[Top.node]
  PROVE  /\ Top.node \in Popped /\ Popped \subseteq Held
         /\ \A x \in Popped : Adjacent(x) \subseteq Settled \cup Popped
         /\ (Popped # {Top.node} \/ Top.node \in Adjacent(Top.node))
              => \A x \in Popped : IsOnCycle(DraftGraph, x) /\ InCycleWith(DraftGraph, x) = Popped
         /\ (Popped = {Top.node} /\ Top.node \notin Adjacent(Top.node))
              => \A x \in Popped : ~IsOnCycle(DraftGraph, x)
<1>0. PICK k \in Nat \ {0} : k = Len(visits)
  BY TopFacts
<1> DEFINE t == Top.node
<1>1. k \in Levels /\ t = At(k) /\ t \in V /\ t \in Held /\ ToDo(k) = {} /\ Levels = 1..k
  BY <1>0, TopFacts DEF Levels
<1>2. /\ Held \subseteq Seen /\ Seen \subseteq V
      /\ \A x \in Seen : index[x] \in Nat \ {0}
      /\ \A i \in Levels : At(i) \in Held /\ At(i) \in V
  BY Numbering
<1>3. Popped \subseteq Held /\ \A x \in Popped : index[t] <= index[x]
  BY DEF Popped
<1>4. t \in Popped
  BY <1>1, <1>2 DEF Popped
<1>5. lowlink[t] = index[t]
  OBVIOUS
<1> HIDE DEF t
\* Of the nodes under visit, only the one on top is in the group.
<1>6. \A i \in Levels : At(i) \in Popped => i = k
  <2> SUFFICES ASSUME NEW i \in Levels, At(i) \in Popped, i # k PROVE FALSE
    OBVIOUS
  <2>1. i < k
    BY <1>1
  <2>2. index[At(i)] < index[t]
    BY <1>1, <2>1 DEF PreviewInv, VisitsAreNested
  <2>3. index[At(i)] \in Nat /\ index[t] \in Nat
    BY <1>1, <1>2
  <2> QED
    BY <1>3, <2>2, <2>3
<1>7. \A x \in Popped : Adjacent(x) \subseteq Settled \cup Popped
  <2> SUFFICES ASSUME NEW x \in Popped, NEW y \in Adjacent(x), y \notin Settled PROVE y \in Popped
    OBVIOUS
  <2>1. x \in Held /\ x \in V
    BY <1>2, <1>3
  <2>2. y \in Seen
    <3> SUFFICES ASSUME NEW i \in Levels, At(i) = x, y \in ToDo(i) PROVE FALSE
      BY <2>1 DEF PreviewInv, NeighboursAreSeen
    <3> QED
      BY <1>1, <1>6
  <2>3. y \in Held
    BY <2>2 DEF Settled
  <2>4. x \in Since(k)
    BY <1>0, <1>1, <1>3, <2>1 DEF Since
  <2>5. lowlink[t] <= index[y]
    BY <1>1, <2>3, <2>4 DEF PreviewInv, LinksAreLow
  <2> QED
    BY <1>5, <2>3, <2>5 DEF Popped, t
<1>8. Settled \subseteq V /\ Popped \subseteq V /\ Popped \cap Settled = {}
  BY <1>2, <1>3 DEF Settled
<1>9. \A x \in V : Adjacent(x) = Successors(DraftGraph, x)
  BY NeighboursFollow
<1>10. DraftGraph.node = V
  BY DEF DraftGraph, V
<1>11. \A x \in Settled : ReachedFrom(DraftGraph, x) \subseteq Settled
  <2>1. \A x \in Settled : Successors(DraftGraph, x) \subseteq Settled
    BY <1>8, <1>9 DEF PreviewInv, SettledIsClosed
  <2> QED
    BY <1>8, <1>10, <2>1, ReachedStaysInside DEF IsClosed
<1>12. \A x \in Popped : ReachedFrom(DraftGraph, x) \subseteq Settled \cup Popped
  <2>1. \A x \in Settled \cup Popped : Successors(DraftGraph, x) \subseteq Settled \cup Popped
    BY <1>7, <1>8, <1>9 DEF PreviewInv, SettledIsClosed
  <2>2. Settled \cup Popped \in SUBSET DraftGraph.node /\ IsClosed(DraftGraph, Settled \cup Popped)
    BY <1>8, <1>10, <2>1 DEF IsClosed
  <2> QED
    BY <2>1, <2>2, ReachedStaysInside
\* Every link of the group leads on to the node on top.
<1>13. \A x \in Popped : x = t \/ t \in ReachedFrom(DraftGraph, x)
  <2> DEFINE Lost == {x \in Popped : x # t /\ t \notin ReachedFrom(DraftGraph, x)}
             Numbers == {index[x] : x \in Lost}
  <2> SUFFICES ASSUME Lost # {} PROVE FALSE
    OBVIOUS
  <2>1. Numbers \in SUBSET Nat /\ Numbers # {}
    BY <1>2, <1>3
  <2>2. PICK x \in Lost : \A z \in Lost : index[x] <= index[z]
    <3> HIDE DEF Lost
    <3>1. Min(Numbers) \in Numbers /\ \A j \in Numbers : Min(Numbers) <= j
      <4> HIDE DEF Numbers
      <4> QED
        BY <2>1, MinOfNaturals
    <3> QED
      BY <3>1
  <2>3. x \in Popped /\ x # t /\ t \notin ReachedFrom(DraftGraph, x) /\ x \in Held /\ index[x] \in Nat
    BY <1>2, <1>3
  <2>4. PICK m \in Held : index[m] = lowlink[x] /\ (m = x \/ m \in ReachedFrom(DraftGraph, x))
    BY <2>3 DEF PreviewInv, LinksLead
  <2>5. lowlink[x] # index[x]
    <3> SUFFICES ASSUME lowlink[x] = index[x] PROVE FALSE
      OBVIOUS
    <3>1. PICK i \in Levels : At(i) = x
      BY <2>3 DEF PreviewInv, LinksLead
    <3> QED
      BY <1>1, <1>6, <2>3, <3>1
  <2>6. index[m] < index[x] /\ index[m] \in Nat
    <3>1. lowlink[x] <= index[x] /\ lowlink[x] \in Nat
      BY <1>2, <2>3 DEF PreviewInv, LinksLead, PreviewTypeOK
    <3> QED
      BY <2>3, <2>4, <2>5, <3>1
  <2>7. m \in ReachedFrom(DraftGraph, x) /\ m \in Popped
    <3>1. m \in ReachedFrom(DraftGraph, x)
      BY <2>3, <2>4, <2>6
    <3>2. m \notin Settled
      BY <2>4 DEF Settled
    <3> QED
      BY <1>12, <2>3, <3>1, <3>2
  <2>8. m \notin Lost
    <3> HIDE DEF Lost
    <3> QED
      BY <2>2, <2>3, <2>6
  <2>9. m = t \/ t \in ReachedFrom(DraftGraph, m)
    BY <2>7, <2>8
  <2> QED
    BY <2>3, <2>7, <2>9, ReachedIsTransitive
<1>14. \A x \in Popped : x = t \/ x \in ReachedFrom(DraftGraph, t)
  <2> SUFFICES ASSUME NEW x \in Popped, x # t PROVE x \in ReachedFrom(DraftGraph, t)
    OBVIOUS
  <2>1. x \in Held /\ x \in Seen /\ t \in Seen /\ index[t] <= index[x]
    BY <1>1, <1>2, <1>3
  <2>2. index[t] # index[x]
    BY <2>1 DEF PreviewInv, NumbersAreUnique
  <2>3. index[t] < index[x]
    BY <1>2, <2>1, <2>2
  <2> QED
    BY <1>1, <2>1, <2>3 DEF PreviewInv, VisitedReachesLater
<1>15. \A x, y \in Popped : x # y => y \in ReachedFrom(DraftGraph, x)
  BY <1>13, <1>14, ReachedIsTransitive
<1>16. ASSUME Popped # {t} \/ t \in Adjacent(t), NEW x \in Popped
       PROVE  IsOnCycle(DraftGraph, x) /\ InCycleWith(DraftGraph, x) = Popped
  <2>1. x \in ReachedFrom(DraftGraph, x)
    <3>1. CASE Popped # {t}
      <4>1. PICK y \in Popped : y # x
        BY <1>4, <3>1
      <4> QED
        BY <1>15, <4>1, ReachedIsTransitive
    <3>2. CASE Popped = {t}
      BY <1>1, <1>9, <1>16, <3>2, SuccessorIsReached
    <3> QED
      BY <3>1, <3>2
  <2>2. Popped \subseteq InCycleWith(DraftGraph, x)
    BY <1>15, <2>1 DEF InCycleWith
  <2>3. ASSUME NEW m \in InCycleWith(DraftGraph, x) PROVE m \in Popped
    <3>1. m \in Settled \cup Popped /\ x \in ReachedFrom(DraftGraph, m)
      BY <1>12, <2>3 DEF InCycleWith
    <3>2. m \notin Settled
      BY <1>8, <1>11, <3>1
    <3> QED
      BY <3>1, <3>2
  <2> QED
    BY <2>1, <2>2, <2>3 DEF IsOnCycle
<1>17. ASSUME Popped = {t}, t \notin Adjacent(t)
       PROVE  ~IsOnCycle(DraftGraph, t)
  <2>1. Adjacent(t) \subseteq Settled
    BY <1>4, <1>7, <1>17
  <2>2. Settled \in SUBSET DraftGraph.node /\ IsClosed(DraftGraph, Settled)
    BY <1>8, <1>9, <1>10 DEF IsClosed, PreviewInv, SettledIsClosed
  <2>3. ReachedFrom(DraftGraph, t) \subseteq Settled
    BY <1>1, <1>9, <2>1, <2>2, ReachedStaysInside
  <2> QED
    BY <1>4, <1>8, <2>3 DEF IsOnCycle
<1> QED
  BY <1>3, <1>4, <1>7, <1>16, <1>17 DEF t

LEMMA LeaveOpenKeepsInv ==
  ASSUME PreviewInv, Leave, lowlink[Top.node] # index[Top.node]
  PROVE  PreviewInv'
<1>0. PICK k \in Nat \ {0} : k = Len(visits)
  BY TopFacts, LeaveFacts
<1> DEFINE t == Top.node
           p == At(k - 1)
<1>1. /\ draft' = draft /\ index' = index /\ previewed' = previewed /\ stack' = stack /\ groups' = groups
      /\ lowlink' = IF k = 1 THEN lowlink ELSE Lowered(p, lowlink[t])
  BY <1>0 DEF Leave, At
<1>2. k \in Levels /\ Levels = 1..k /\ t = At(k) /\ t \in V /\ t \in Held /\ ToDo(k) = {} /\ visits # <<>>
  BY <1>0, TopFacts, LeaveFacts DEF Levels
<1>3. /\ visits' \in Seq([node : V, todo : SUBSET V]) /\ Len(visits') = k - 1 /\ Levels' = 1..k - 1
      /\ \A i \in 1..k - 1 : At(i)' = At(i) /\ ToDo(i)' = ToDo(i)
  BY <1>0, LeaveFacts DEF Levels
<1>4. V' = V /\ DraftGraph' = DraftGraph /\ \A x \in V : Adjacent(x)' = Adjacent(x)
  BY <1>1, SameGraph
<1>5. Seen' = Seen /\ Held' = Held /\ Settled' = Settled
  BY <1>1, LeaveFacts DEF Held, Settled
<1>6. /\ Held \subseteq Seen /\ Seen \subseteq V
      /\ \A x \in Seen : index[x] \in Nat \ {0}
      /\ \A i \in Levels : At(i) \in Held /\ At(i) \in V
      /\ \A x \in V : lowlink[x] \in Nat
  BY Numbering DEF PreviewInv, PreviewTypeOK
<1>7. lowlink[t] # index[t]
  OBVIOUS
<1> HIDE DEF t
<1>8. PICK m \in Held : index[m] = lowlink[t] /\ (m = t \/ m \in ReachedFrom(DraftGraph, t))
  BY <1>2 DEF PreviewInv, LinksLead
<1>9. lowlink[t] < index[t]
  <2>1. lowlink[t] <= index[t]
    BY <1>2 DEF PreviewInv, LinksLead
  <2> QED
    BY <1>2, <1>6, <1>7, <2>1
<1>10. k - 1 \in Levels /\ k - 1 \in 1..k - 1 /\ k # 1
  <2> SUFFICES ASSUME k = 1 PROVE FALSE
    BY <1>2
  <2>1. index[t] <= index[m]
    BY <1>2 DEF PreviewInv, HeldSinceRoot
  <2>2. index[m] \in Nat /\ index[t] \in Nat /\ index[m] < index[t]
    BY <1>2, <1>6, <1>8, <1>9
  <2> QED
    BY <2>1, <2>2
<1>11. p \in Held /\ p \in V /\ index[p] < index[t] /\ p # t
  <2>1. k - 1 < k
    OBVIOUS
  <2>2. p \in Held /\ p \in V /\ index[p] < index[t]
    BY <1>2, <1>6, <1>10, <2>1 DEF PreviewInv, VisitsAreNested
  <2> QED
    BY <1>2, <1>6, <2>2
<1>12. At(k - 1)' = p
  BY <1>3, <1>10
<1> HIDE DEF p
<1>13. /\ lowlink' \in [V -> Nat] /\ \A x \in V : x # p => lowlink'[x] = lowlink[x]
       /\ lowlink'[p] <= lowlink[p] /\ lowlink'[p] <= lowlink[t]
       /\ lowlink'[p] = lowlink[p] \/ lowlink'[p] = lowlink[t]
  <2> DEFINE low == Min({lowlink[p], lowlink[t]})
  <2>1. lowlink \in [V -> Nat] /\ lowlink[p] \in Nat /\ lowlink[t] \in Nat
    BY <1>2, <1>11 DEF PreviewInv, PreviewTypeOK
  <2>2. low \in {lowlink[p], lowlink[t]} /\ low <= lowlink[p] /\ low <= lowlink[t]
    BY <2>1, MinOfNaturals
  <2>3. lowlink' = [lowlink EXCEPT ![p] = low]
    BY <1>1, <1>10 DEF Lowered
  <2> HIDE DEF low
  <2> QED
    BY <1>11, <2>1, <2>2, <2>3
<1>14. PreviewTypeOK'
  BY <1>1, <1>3, <1>4, <1>13 DEF PreviewInv, PreviewTypeOK
<1>15. NumbersAreUnique' /\ StackIsOrdered' /\ SettledIsClosed'
  <2>1. NumbersAreUnique'
    BY <1>1, <1>4, <1>5 DEF PreviewInv, NumbersAreUnique
  <2>2. StackIsOrdered'
    BY <1>1, <1>5 DEF PreviewInv, StackIsOrdered
  <2>3. SettledIsClosed'
    BY <1>4, <1>5, <1>6 DEF PreviewInv, SettledIsClosed, Settled
  <2> QED
    BY <2>1, <2>2, <2>3
<1>16. VisitsAreNested'
  <2>1. ASSUME NEW i \in Levels' PROVE At(i)' \in Held' /\ ToDo(i)' \subseteq Adjacent(At(i))'
    <3>1. At(i)' = At(i) /\ ToDo(i)' = ToDo(i) /\ i \in Levels /\ At(i) \in V
      BY <1>2, <1>3, <1>6
    <3>2. At(i) \in Held /\ ToDo(i) \subseteq Adjacent(At(i))
      BY <3>1 DEF PreviewInv, VisitsAreNested
    <3>3. Adjacent(At(i))' = Adjacent(At(i))
      BY <1>1, <3>1 DEF Adjacent, DrawnEdges, DataEdges, ControlEdges
    <3> QED
      BY <1>5, <3>1, <3>2, <3>3
  <2>2. ASSUME NEW i \in Levels', NEW j \in Levels', i < j PROVE index'[At(i)'] < index'[At(j)']
    BY <1>1, <1>2, <1>3, <2>2 DEF PreviewInv, VisitsAreNested
  <2> QED
    BY <2>1, <2>2 DEF VisitsAreNested
<1>17. HeldSinceRoot'
  <2>1. visits' # <<>> /\ At(1)' = At(1)
    BY <1>3, <1>10
  <2> QED
    BY <1>1, <1>5, <2>1 DEF PreviewInv, HeldSinceRoot
<1>18. NeighboursAreSeen'
  <2> SUFFICES ASSUME NEW x \in Held', NEW y \in Adjacent(x)', y \notin Seen'
               PROVE  \E i \in Levels' : At(i)' = x /\ y \in ToDo(i)'
    BY DEF NeighboursAreSeen
  <2>1. x \in Held /\ y \in Adjacent(x) /\ y \notin Seen
    BY <1>4, <1>5, <1>6
  <2>2. PICK i \in Levels : At(i) = x /\ y \in ToDo(i)
    BY <2>1 DEF PreviewInv, NeighboursAreSeen
  <2>3. i \in 1..k - 1
    BY <1>2, <2>2
  <2> QED
    BY <1>3, <2>2, <2>3
<1>19. VisitedReachesLater'
  BY <1>1, <1>2, <1>3, <1>4, <1>5 DEF PreviewInv, VisitedReachesLater
<1>20. LinksLead'
  <2> SUFFICES ASSUME NEW x \in Held'
               PROVE  /\ \E y \in Held' : index'[y] = lowlink'[x] /\ (y = x \/ y \in ReachedFrom(DraftGraph, x))
                      /\ lowlink'[x] <= index'[x]
                      /\ lowlink'[x] = index'[x] => \E i \in Levels' : At(i)' = x
    BY <1>4 DEF LinksLead
  <2>1. x \in Held /\ x \in V /\ index'[x] = index[x] /\ index[x] \in Nat
    BY <1>1, <1>5, <1>6
  <2>2. /\ \E y \in Held : index[y] = lowlink[x] /\ (y = x \/ y \in ReachedFrom(DraftGraph, x))
        /\ lowlink[x] <= index[x]
        /\ lowlink[x] = index[x] => \E i \in Levels : At(i) = x
    BY <2>1 DEF PreviewInv, LinksLead
  <2>3. CASE x = p
    <3>1. \E i \in Levels' : At(i)' = x
      BY <1>3, <1>10, <1>12, <2>3
    <3>2. lowlink'[x] <= index[x]
      BY <1>6, <1>13, <2>1, <2>2, <2>3
    <3>3. \E y \in Held : index[y] = lowlink'[x] /\ (y = x \/ y \in ReachedFrom(DraftGraph, x))
      <4>1. CASE lowlink'[p] = lowlink[p]
        BY <2>2, <2>3, <4>1
      <4>2. CASE lowlink'[p] = lowlink[t]
        <5>1. m # t
          BY <1>2, <1>6, <1>8, <1>9
        <5>2. t \in ReachedFrom(DraftGraph, p)
          BY <1>2, <1>10, <1>11 DEF PreviewInv, VisitedReachesLater, p
        <5>3. m \in ReachedFrom(DraftGraph, p)
          BY <1>8, <5>1, <5>2, ReachedIsTransitive
        <5> QED
          BY <1>8, <2>3, <4>2, <5>3
      <4> QED
        BY <1>13, <4>1, <4>2
    <3> QED
      BY <1>1, <1>5, <3>1, <3>2, <3>3
  <2>4. CASE x # p
    <3>1. lowlink'[x] = lowlink[x]
      BY <1>13, <2>1, <2>4
    <3>2. lowlink[x] = index[x] => \E i \in Levels' : At(i)' = x
      <4> SUFFICES ASSUME lowlink[x] = index[x] PROVE \E i \in Levels' : At(i)' = x
        OBVIOUS
      <4>1. PICK i \in Levels : At(i) = x
        BY <2>2
      <4>2. i \in 1..k - 1
        BY <1>2, <1>7, <4>1
      <4> QED
        BY <1>3, <4>1, <4>2
    <3> QED
      BY <1>1, <1>5, <2>1, <2>2, <3>1, <3>2
  <2> QED
    BY <2>3, <2>4
<1>21. LinksAreLow'
  <2> SUFFICES ASSUME NEW i \in Levels', NEW x \in Since(i)', NEW y \in (Adjacent(x) \cap Held)'
               PROVE  lowlink'[At(i)'] <= index'[y] \/ (x = At(i)' /\ y \in ToDo(i)')
    BY DEF LinksAreLow
  <2>1. i \in Levels /\ i \in 1..k - 1 /\ At(i)' = At(i) /\ ToDo(i)' = ToDo(i) /\ At(i) \in V
    BY <1>2, <1>3, <1>6
  <2>2. x \in Held /\ x \in V /\ index[At(i)] <= index[x] /\ (i < k - 1 => index[x] < index[At(i + 1)])
    <3>1. x \in Held' /\ index'[At(i)'] <= index'[x] /\ (i < Len(visits') => index'[x] < index'[At(i + 1)'])
      BY DEF Since
    <3>2. i < k - 1 => At(i + 1)' = At(i + 1)
      BY <1>3, <2>1
    <3> QED
      BY <1>1, <1>3, <1>5, <1>6, <2>1, <3>1, <3>2
  <2>3. y \in Adjacent(x) /\ y \in Held /\ index'[y] = index[y] /\ index[y] \in Nat
    BY <1>1, <1>4, <1>5, <1>6, <2>2
  <2>4. lowlink'[At(i)] <= lowlink[At(i)] /\ lowlink'[At(i)] \in Nat /\ lowlink[At(i)] \in Nat
    BY <1>6, <1>13, <2>1
  <2>5. CASE x \in Since(i)
    <3>1. lowlink[At(i)] <= index[y] \/ (x = At(i) /\ y \in ToDo(i))
      BY <2>1, <2>3, <2>5 DEF PreviewInv, LinksAreLow
    <3> QED
      BY <2>1, <2>3, <2>4, <3>1
  <2>6. CASE x \notin Since(i)
    <3>1. i = k - 1 /\ index[t] <= index[x]
      <4>1. ~(i < k => index[x] < index[At(i + 1)])
        BY <1>0, <2>2, <2>6 DEF Since
      <4>2. i = k - 1
        BY <2>1, <2>2, <4>1
      <4>3. At(i + 1) = t
        BY <1>2, <4>2
      <4> QED
        BY <1>2, <1>6, <2>2, <4>1, <4>2, <4>3
    <3>2. x \in Since(k)
      BY <1>0, <1>2, <2>2, <3>1 DEF Since
    <3>3. lowlink[t] <= index[y]
      BY <1>2, <2>3, <3>2 DEF PreviewInv, LinksAreLow
    <3>4. lowlink'[p] <= lowlink[t] /\ lowlink'[p] \in Nat /\ lowlink[t] \in Nat /\ At(i)' = p
      BY <1>2, <1>6, <1>11, <1>12, <1>13, <3>1
    <3> QED
      BY <2>3, <3>3, <3>4
  <2> QED
    BY <2>5, <2>6
<1>22. GroupsSoFar'
  BY <1>1, <1>4, <1>5 DEF PreviewInv, GroupsSoFar
<1>23. ~previewed'
  BY <1>1, <1>2 DEF PreviewInv
<1> QED
  BY <1>14, <1>15, <1>16, <1>17, <1>18, <1>19, <1>20, <1>21, <1>22, <1>23 DEF PreviewInv

\* A group is complete: it is taken off the stack.
LEMMA LeaveCompleteFacts ==
  ASSUME PreviewInv, Leave, lowlink[Top.node] = index[Top.node]
  PROVE  /\ stack' \in Seq(V) /\ Len(stack') <= Len(stack) /\ Len(stack) \in Nat /\ Len(stack') \in Nat
         /\ \A i \in 1..Len(stack') : stack'[i] = stack[i]
         /\ Held' = Held \ Popped
         /\ groups' = IF Popped # {Top.node} \/ Top.node \in Adjacent(Top.node)
                      THEN groups \cup {Popped} ELSE groups
<1> DEFINE t == Top.node
           I == {i \in 1..Len(stack) : stack[i] = t}
           at == Min(I)
           group == {stack[i] : i \in at..Len(stack)}
<1>1. visits # <<>> /\ Top.todo = {} /\ t \in V /\ t \in Held
  BY TopFacts DEF Leave
<1>2. stack \in Seq(V) /\ Len(stack) \in Nat /\ \A i \in 1..Len(stack) : stack[i] \in V /\ stack[i] \in Held
  BY DEF PreviewInv, PreviewTypeOK, Held
<1>3. I # {} /\ I \in SUBSET Nat
  BY <1>1 DEF Held
<1>4. at \in 1..Len(stack) /\ stack[at] = t
  <2> HIDE DEF I
  <2>1. at \in I
    BY <1>3, MinOfNaturals
  <2> QED
    BY <2>1 DEF I
<1>5. SelectInSeq(stack, LAMBDA m : m = t) = at
  BY <1>3 DEF SelectInSeq
<1>6. /\ stack' = SubSeq(stack, 1, at - 1)
      /\ groups' = IF Cardinality(group) > 1 \/ t \in Adjacent(t) THEN groups \cup {group} ELSE groups
  BY <1>5 DEF Leave
<1> HIDE DEF at, t
<1>7. \A i \in 1..Len(stack) : stack[i] \in Popped <=> at <= i
  <2> SUFFICES ASSUME NEW i \in 1..Len(stack) PROVE stack[i] \in Popped <=> at <= i
    OBVIOUS
  <2>1. index[stack[i]] \in Nat /\ index[t] \in Nat
    BY <1>1, <1>2 DEF PreviewInv, PreviewTypeOK
  <2>2. stack[i] \in Popped <=> index[t] <= index[stack[i]]
    BY <1>2 DEF Popped, t
  <2>3. CASE i < at
    <3>1. index[stack[i]] < index[t]
      BY <1>4, <2>3 DEF PreviewInv, StackIsOrdered
    <3> QED
      BY <1>4, <2>1, <2>2, <2>3, <3>1
  <2>4. CASE i = at
    BY <1>4, <2>1, <2>2, <2>4
  <2>5. CASE at < i
    <3>1. index[t] < index[stack[i]]
      BY <1>4, <2>5 DEF PreviewInv, StackIsOrdered
    <3> QED
      BY <1>4, <2>1, <2>2, <2>5, <3>1
  <2> QED
    BY <1>4, <2>3, <2>4, <2>5
<1>8. group = Popped
  <2>1. \A i \in at..Len(stack) : stack[i] \in Popped
    BY <1>4, <1>7
  <2>2. \A x \in Popped : \E i \in at..Len(stack) : stack[i] = x
    <3> SUFFICES ASSUME NEW x \in Popped PROVE \E i \in at..Len(stack) : stack[i] = x
      OBVIOUS
    <3>1. PICK i \in 1..Len(stack) : stack[i] = x
      BY DEF Popped, Held
    <3>2. i \in at..Len(stack)
      BY <1>4, <1>7, <3>1
    <3> QED
      BY <3>1, <3>2
  <2> QED
    BY <2>1, <2>2
<1>9. Cardinality(group) > 1 <=> Popped # {t}
  <2>1. IsFiniteSet(Popped)
    <3>1. Popped \subseteq V
      BY Numbering DEF Popped
    <3> QED
      BY <3>1, NodesAreFinite, FS_Subset DEF PreviewInv, PreviewTypeOK
  <2>2. t \in Popped
    BY <1>4, <1>7
  <2>3. Cardinality(Popped) \in Nat /\ Cardinality(Popped) # 0
    BY <2>1, <2>2, FS_CardinalityType, FS_EmptySet
  <2>4. Cardinality(Popped) = 1 <=> Popped = {t}
    BY <2>1, <2>2, FS_Singleton
  <2> HIDE DEF group
  <2> QED
    BY <1>8, <2>3, <2>4
<1>10. /\ stack' \in Seq(V) /\ Len(stack') = at - 1
       /\ \A i \in 1..at - 1 : stack'[i] = stack[i]
  <2>1. at - 1 \in Nat /\ \A i \in 1..at - 1 : stack[i] \in V
    BY <1>2, <1>4
  <2>2. CASE at = 1
    BY <1>6, <2>2
  <2>3. CASE at # 1
    <3> DEFINE b == at - 1
    <3>1. 1 \in 1..Len(stack) /\ b \in 1..Len(stack) /\ b \in Nat
      BY <1>2, <1>4, <2>3
    <3> HIDE DEF b
    <3>2. /\ SubSeq(stack, 1, b) \in Seq(V) /\ Len(SubSeq(stack, 1, b)) = b - 1 + 1
          /\ \A i \in 1..b - 1 + 1 : SubSeq(stack, 1, b)[i] = stack[1 + i - 1]
      BY <1>2, <3>1, PartOf
    <3>3. Len(SubSeq(stack, 1, b)) = b /\ \A i \in 1..b : SubSeq(stack, 1, b)[i] = stack[i]
      BY <3>1, <3>2
    <3> QED
      BY <1>6, <3>2, <3>3 DEF b
  <2> QED
    BY <2>2, <2>3
<1>11. Held' = Held \ Popped
  <2>1. ASSUME NEW x \in Held' PROVE x \in Held \ Popped
    <3>1. PICK i \in 1..Len(stack') : stack'[i] = x
      BY <2>1 DEF Held
    <3>2. i \in 1..at - 1 /\ i \in 1..Len(stack) /\ stack[i] = x /\ ~(at <= i)
      BY <1>2, <1>4, <1>10, <3>1
    <3> QED
      BY <1>2, <1>7, <3>2
  <2>2. ASSUME NEW x \in Held \ Popped PROVE x \in Held'
    <3>1. PICK i \in 1..Len(stack) : stack[i] = x
      BY DEF Held
    <3>2. i \in 1..at - 1
      BY <1>4, <1>7, <3>1, <2>2
    <3>3. i \in 1..Len(stack') /\ stack'[i] = x
      BY <1>10, <3>1, <3>2
    <3> QED
      BY <3>3 DEF Held
  <2> QED
    BY <2>1, <2>2
<1>12. Len(stack') <= Len(stack) /\ Len(stack') \in Nat
  BY <1>2, <1>4, <1>10
<1> HIDE DEF group
<1> QED
  BY <1>2, <1>6, <1>8, <1>9, <1>10, <1>11, <1>12 DEF t

LEMMA LeaveCompleteKeepsInv ==
  ASSUME PreviewInv, Leave, lowlink[Top.node] = index[Top.node]
  PROVE  PreviewInv'
<1>0. PICK k \in Nat \ {0} : k = Len(visits)
  BY TopFacts, LeaveFacts
<1> DEFINE t == Top.node
<1>1. draft' = draft /\ index' = index /\ previewed' = previewed /\ Seen' = Seen
  BY LeaveFacts
<1>2. /\ k \in Levels /\ Levels = 1..k /\ t = At(k) /\ t \in V /\ t \in Held
      /\ visits # <<>> /\ Top.todo = {} /\ ToDo(k) = {}
  BY <1>0, TopFacts, LeaveFacts DEF Levels
<1>3. /\ visits' \in Seq([node : V, todo : SUBSET V]) /\ Len(visits') = k - 1 /\ Levels' = 1..k - 1
      /\ \A i \in 1..k - 1 : At(i)' = At(i) /\ ToDo(i)' = ToDo(i)
  BY <1>0, LeaveFacts DEF Levels
<1>4. V' = V /\ DraftGraph' = DraftGraph /\ \A x \in V : Adjacent(x)' = Adjacent(x)
  BY <1>1, SameGraph
<1>5. /\ Held \subseteq Seen /\ Seen \subseteq V
      /\ \A x \in Seen : index[x] \in Nat \ {0}
      /\ \A i \in Levels : At(i) \in Held /\ At(i) \in V
      /\ \A x \in V : lowlink[x] \in Nat
  BY Numbering DEF PreviewInv, PreviewTypeOK
<1>6. /\ stack' \in Seq(V) /\ Len(stack') <= Len(stack) /\ Len(stack) \in Nat /\ Len(stack') \in Nat
      /\ \A i \in 1..Len(stack') : stack'[i] = stack[i]
      /\ Held' = Held \ Popped
      /\ groups' = IF Popped # {t} \/ t \in Adjacent(t) THEN groups \cup {Popped} ELSE groups
  BY LeaveCompleteFacts
<1>7. /\ t \in Popped /\ Popped \subseteq Held
      /\ \A x \in Popped : Adjacent(x) \subseteq Settled \cup Popped
      /\ (Popped # {t} \/ t \in Adjacent(t))
           => \A x \in Popped : IsOnCycle(DraftGraph, x) /\ InCycleWith(DraftGraph, x) = Popped
      /\ (Popped = {t} /\ t \notin Adjacent(t)) => \A x \in Popped : ~IsOnCycle(DraftGraph, x)
  BY <1>2, PoppedIsAGroup
<1>8. lowlink' = lowlink
  <2>1. CASE k = 1
    BY <1>0, <2>1 DEF Leave
  <2>2. CASE k # 1
    <3> DEFINE p == At(k - 1)
    <3>1. k - 1 \in Levels /\ k - 1 < k
      BY <1>2, <2>2
    <3>2. lowlink' = Lowered(p, lowlink[t])
      BY <1>0, <2>2 DEF Leave, At
    <3>3. p \in Held /\ p \in V /\ index[p] < index[t] /\ index[p] \in Nat /\ index[t] \in Nat
      BY <1>2, <1>5, <3>1 DEF PreviewInv, VisitsAreNested
    <3> HIDE DEF p
    <3>4. lowlink[p] <= index[p] /\ lowlink[p] \in Nat
      BY <1>5, <3>3 DEF PreviewInv, LinksLead
    <3> DEFINE low == Min({lowlink[p], lowlink[t]})
    <3>5. low \in {lowlink[p], lowlink[t]} /\ low <= lowlink[p] /\ low <= lowlink[t]
      <4>1. lowlink[t] \in Nat
        BY <1>2, <1>5
      <4> HIDE DEF t
      <4> QED
        BY <3>4, <4>1, MinOfNaturals
    <3>6. lowlink' = [lowlink EXCEPT ![p] = low]
      BY <3>2 DEF Lowered
    <3>7. lowlink \in [V -> Nat] /\ lowlink[t] = index[t]
      BY DEF PreviewInv, PreviewTypeOK
    <3> HIDE DEF low
    <3>8. low = lowlink[p]
      BY <3>3, <3>4, <3>5, <3>7
    <3> QED
      BY <3>6, <3>7, <3>8
  <2> QED
    BY <2>1, <2>2
<1> HIDE DEF t
<1>9. \A x \in Held' : x \in Held /\ x \in V /\ index[x] \in Nat /\ index[x] < index[t] /\ x # t
  BY <1>2, <1>5, <1>6, <1>7 DEF Popped, t
<1>10. \A i \in 1..k - 1 : i \in Levels /\ At(i) \in V /\ At(i) \in Held'
  <2> SUFFICES ASSUME NEW i \in 1..k - 1 PROVE i \in Levels /\ At(i) \in V /\ At(i) \in Held'
    OBVIOUS
  <2>1. i \in Levels /\ i < k
    BY <1>2
  <2>2. At(i) \in Held /\ At(i) \in V /\ index[At(i)] < index[t]
    BY <1>2, <1>5, <2>1 DEF PreviewInv, VisitsAreNested
  <2>3. index[At(i)] \in Nat /\ index[t] \in Nat
    BY <1>2, <1>5, <2>2
  <2>4. At(i) \notin Popped
    BY <2>2, <2>3 DEF Popped, t
  <2> QED
    BY <1>6, <2>1, <2>2, <2>4
\* A node that stays is under visit at a level that stays.
<1>11. \A x \in Held' : \A i \in Levels : At(i) = x => i \in 1..k - 1
  BY <1>2, <1>9
<1>12. Settled' = Settled \cup Popped /\ Popped \cap Settled = {}
  BY <1>1, <1>5, <1>6, <1>7 DEF Settled
<1>13. PreviewTypeOK'
  BY <1>1, <1>3, <1>4, <1>6, <1>8 DEF PreviewInv, PreviewTypeOK
<1>14. NumbersAreUnique' /\ StackIsOrdered'
  <2>1. NumbersAreUnique'
    BY <1>1, <1>4 DEF PreviewInv, NumbersAreUnique
  <2>2. StackIsOrdered'
    <3>1. \A i \in 1..Len(stack') : i \in 1..Len(stack)
      BY <1>6
    <3>2. \A i \in 1..Len(stack) : stack[i] \in Seen
      BY DEF PreviewInv, StackIsOrdered
    <3>3. \A i, j \in 1..Len(stack) : i < j => index[stack[i]] < index[stack[j]]
      BY DEF PreviewInv, StackIsOrdered
    <3> QED
      BY <1>1, <1>6, <3>1, <3>2, <3>3 DEF StackIsOrdered
  <2> QED
    BY <2>1, <2>2
<1>15. VisitsAreNested'
  <2>1. ASSUME NEW i \in Levels' PROVE At(i)' \in Held' /\ ToDo(i)' \subseteq Adjacent(At(i))'
    <3>1. At(i)' = At(i) /\ ToDo(i)' = ToDo(i) /\ i \in Levels /\ At(i) \in V /\ At(i) \in Held'
      BY <1>3, <1>10
    <3>2. ToDo(i) \subseteq Adjacent(At(i))
      BY <3>1 DEF PreviewInv, VisitsAreNested
    <3>3. Adjacent(At(i))' = Adjacent(At(i))
      BY <1>1, <3>1 DEF Adjacent, DrawnEdges, DataEdges, ControlEdges
    <3> QED
      BY <3>1, <3>2, <3>3
  <2>2. ASSUME NEW i \in Levels', NEW j \in Levels', i < j PROVE index'[At(i)'] < index'[At(j)']
    BY <1>1, <1>3, <1>10, <2>2 DEF PreviewInv, VisitsAreNested
  <2> QED
    BY <2>1, <2>2 DEF VisitsAreNested
<1>16. HeldSinceRoot'
  <2> SUFFICES ASSUME NEW x \in Held' PROVE visits' # <<>> /\ index'[At(1)'] <= index'[x]
    BY DEF HeldSinceRoot
  <2>1. index[At(1)] <= index[x]
    BY <1>9 DEF PreviewInv, HeldSinceRoot
  <2>2. k # 1
    <3> SUFFICES ASSUME k = 1 PROVE FALSE
      OBVIOUS
    <3>1. index[t] <= index[x] /\ index[t] \in Nat
      BY <1>2, <1>5, <2>1
    <3> QED
      BY <1>9, <3>1
  <2>3. 1 \in 1..k - 1 /\ visits' # <<>>
    BY <1>3, <2>2
  <2> QED
    BY <1>1, <1>3, <2>1, <2>3
<1>17. SettledIsClosed'
  <2>1. \A x \in Settled' : x \in V /\ Adjacent(x) \subseteq Settled'
    BY <1>5, <1>7, <1>12 DEF PreviewInv, SettledIsClosed, Settled
  <2> QED
    BY <1>4, <2>1 DEF SettledIsClosed
<1>18. NeighboursAreSeen'
  <2> SUFFICES ASSUME NEW x \in Held', NEW y \in Adjacent(x)', y \notin Seen'
               PROVE  \E i \in Levels' : At(i)' = x /\ y \in ToDo(i)'
    BY DEF NeighboursAreSeen
  <2>1. x \in Held /\ y \in Adjacent(x) /\ y \notin Seen
    BY <1>1, <1>4, <1>9
  <2>2. PICK i \in Levels : At(i) = x /\ y \in ToDo(i)
    BY <2>1 DEF PreviewInv, NeighboursAreSeen
  <2>3. i \in 1..k - 1
    BY <1>11, <2>2
  <2> QED
    BY <1>3, <2>2, <2>3
<1>19. VisitedReachesLater'
  BY <1>1, <1>3, <1>4, <1>9, <1>10 DEF PreviewInv, VisitedReachesLater
<1>20. LinksLead'
  <2> SUFFICES ASSUME NEW x \in Held'
               PROVE  /\ \E y \in Held' : index[y] = lowlink[x] /\ (y = x \/ y \in ReachedFrom(DraftGraph, x))
                      /\ lowlink[x] <= index[x]
                      /\ lowlink[x] = index[x] => \E i \in Levels' : At(i)' = x
    BY <1>1, <1>4, <1>8 DEF LinksLead
  <2>1. x \in Held /\ index[x] \in Nat /\ lowlink[x] \in Nat /\ index[x] < index[t] /\ index[t] \in Nat
    BY <1>2, <1>5, <1>9
  <2>2. /\ \E y \in Held : index[y] = lowlink[x] /\ (y = x \/ y \in ReachedFrom(DraftGraph, x))
        /\ lowlink[x] <= index[x]
        /\ lowlink[x] = index[x] => \E i \in Levels : At(i) = x
    BY <2>1 DEF PreviewInv, LinksLead
  <2>3. PICK y \in Held : index[y] = lowlink[x] /\ (y = x \/ y \in ReachedFrom(DraftGraph, x))
    BY <2>2
  <2>4. ~(index[t] <= index[y])
    BY <2>1, <2>2, <2>3
  <2>5. y \in Held'
    BY <1>6, <2>4 DEF Popped, t
  <2>6. lowlink[x] = index[x] => \E i \in Levels' : At(i)' = x
    BY <1>3, <1>11, <2>2
  <2> QED
    BY <2>2, <2>3, <2>5, <2>6
<1>21. LinksAreLow'
  <2> SUFFICES ASSUME NEW i \in Levels', NEW x \in Since(i)', NEW y \in (Adjacent(x) \cap Held)'
               PROVE  lowlink'[At(i)'] <= index'[y] \/ (x = At(i)' /\ y \in ToDo(i)')
    BY DEF LinksAreLow
  <2>1. i \in 1..k - 1 /\ i \in Levels /\ At(i)' = At(i) /\ ToDo(i)' = ToDo(i)
    BY <1>3, <1>10
  <2>2. x \in Held /\ x \in V /\ index[x] < index[t]
        /\ index[At(i)] <= index[x] /\ (i < k - 1 => index[x] < index[At(i + 1)])
    <3>1. x \in Held' /\ index'[At(i)'] <= index'[x] /\ (i < Len(visits') => index'[x] < index'[At(i + 1)'])
      BY DEF Since
    <3>2. i < k - 1 => At(i + 1)' = At(i + 1)
      BY <1>3, <2>1
    <3> QED
      BY <1>1, <1>3, <1>9, <2>1, <3>1, <3>2
  <2>3. x \in Since(i)
    <3>1. i = k - 1 => At(i + 1) = t
      BY <1>2
    <3>2. index[x] < index[At(i + 1)]
      BY <2>1, <2>2, <3>1
    <3> QED
      BY <2>2, <3>2 DEF Since
  <2>4. y \in Adjacent(x) /\ y \in Held
    BY <1>4, <1>9, <2>2
  <2> QED
    BY <1>1, <1>8, <2>1, <2>3, <2>4 DEF PreviewInv, LinksAreLow
<1>22. GroupsSoFar'
  <2> DEFINE C(S) == {InCycleWith(DraftGraph, n) : n \in {x \in S : IsOnCycle(DraftGraph, x)}}
  <2>1. groups = C(Settled)
    BY DEF PreviewInv, GroupsSoFar
  <2>2. C(Settled \cup Popped) = C(Settled) \cup C(Popped)
    OBVIOUS
  <2>3. groups' = C(Settled \cup Popped)
    <3>1. CASE Popped # {t} \/ t \in Adjacent(t)
      <4>1. C(Popped) = {Popped}
        BY <1>7, <3>1
      <4> HIDE DEF C
      <4> QED
        BY <1>6, <2>1, <2>2, <3>1, <4>1
    <3>2. CASE Popped = {t} /\ t \notin Adjacent(t)
      <4>1. C(Popped) = {}
        BY <1>7, <3>2
      <4> HIDE DEF C
      <4> QED
        BY <1>6, <2>1, <2>2, <3>2, <4>1
    <3> QED
      BY <3>1, <3>2
  <2> QED
    BY <1>4, <1>12, <2>3 DEF GroupsSoFar
<1>23. ~previewed'
  BY <1>1, <1>2 DEF PreviewInv
<1> QED
  BY <1>13, <1>14, <1>15, <1>16, <1>17, <1>18, <1>19, <1>20, <1>21, <1>22, <1>23 DEF PreviewInv

LEMMA ShowKeepsInv ==
  ASSUME PreviewInv, ShowPreview
  PROVE  PreviewInv'
<1>1. /\ draft' = draft /\ index' = index /\ lowlink' = lowlink /\ stack' = stack /\ visits' = visits
      /\ groups' = groups /\ previewed' = TRUE /\ visits = <<>> /\ Unvisited = {}
  BY DEF ShowPreview
<1>2. V' = V /\ DraftGraph' = DraftGraph /\ \A x \in V : Adjacent(x)' = Adjacent(x)
  BY <1>1, SameGraph
<1>3. Seen' = Seen /\ Held' = Held /\ Settled' = Settled /\ Unvisited' = Unvisited /\ Levels' = Levels
  BY <1>1, <1>2 DEF Seen, Held, Settled, Unvisited, Levels, V
<1>4. Levels = {}
  BY <1>1 DEF Levels
<1>5. Held = {} /\ Settled \subseteq V
  BY <1>1, Numbering DEF PreviewInv, HeldSinceRoot, Settled
<1>6. PreviewTypeOK' /\ NumbersAreUnique' /\ StackIsOrdered'
  <2>1. PreviewTypeOK'
    BY <1>1, <1>2 DEF PreviewInv, PreviewTypeOK
  <2>2. NumbersAreUnique' /\ StackIsOrdered'
    BY <1>1, <1>2, <1>3 DEF PreviewInv, NumbersAreUnique, StackIsOrdered
  <2> QED
    BY <2>1, <2>2
<1>7. /\ VisitsAreNested' /\ HeldSinceRoot' /\ NeighboursAreSeen'
      /\ VisitedReachesLater' /\ LinksLead' /\ LinksAreLow'
  BY <1>3, <1>4, <1>5
     DEF VisitsAreNested, HeldSinceRoot, NeighboursAreSeen, VisitedReachesLater, LinksLead, LinksAreLow
<1>8. SettledIsClosed' /\ GroupsSoFar'
  BY <1>1, <1>2, <1>3, <1>5 DEF PreviewInv, SettledIsClosed, GroupsSoFar
<1> QED
  BY <1>1, <1>3, <1>6, <1>7, <1>8 DEF PreviewInv

LEMMA PreviewStartsRight == PreviewInit => PreviewInv
<1> SUFFICES ASSUME PreviewInit PROVE PreviewInv
  OBVIOUS
<1>1. /\ draft \in Drafts /\ index = [n \in V |-> 0] /\ lowlink = index
      /\ stack = <<>> /\ visits = <<>> /\ groups = {} /\ previewed = FALSE
  BY DEF PreviewInit, V
<1>2. Seen = {} /\ Held = {} /\ Settled = {} /\ Levels = {}
  BY <1>1 DEF Seen, Unvisited, Held, Settled, Levels, V
<1>3. PreviewTypeOK
  BY <1>1, EmptySeq DEF PreviewTypeOK
<1>4. NumbersAreUnique
  BY <1>1, <1>2, FS_EmptySet DEF NumbersAreUnique
<1>5. StackIsOrdered
  BY <1>1 DEF StackIsOrdered
<1>6. VisitsAreNested /\ HeldSinceRoot /\ SettledIsClosed /\ NeighboursAreSeen
      /\ VisitedReachesLater /\ LinksLead /\ LinksAreLow
  BY <1>2 DEF VisitsAreNested, HeldSinceRoot, SettledIsClosed, NeighboursAreSeen,
              VisitedReachesLater, LinksLead, LinksAreLow
<1>7. GroupsSoFar
  BY <1>1, <1>2 DEF GroupsSoFar
<1> QED
  BY <1>1, <1>3, <1>4, <1>5, <1>6, <1>7 DEF PreviewInv

LEMMA PreviewStepsKeepInv ==
  ASSUME PreviewInv, [PreviewNext]_previewVars
  PROVE  PreviewInv'
<1>1. CASE Leave
  BY <1>1, LeaveOpenKeepsInv, LeaveCompleteKeepsInv
<1>2. CASE UNCHANGED previewVars
  <2>1. /\ draft' = draft /\ index' = index /\ lowlink' = lowlink /\ stack' = stack /\ visits' = visits
        /\ groups' = groups /\ previewed' = previewed
    BY <1>2 DEF previewVars
  <2>2. V' = V /\ DraftGraph' = DraftGraph /\ DrawnEdges' = DrawnEdges
    BY <2>1 DEF V, DraftGraph, DrawnEdges, DataEdges, ControlEdges
  <2>3. Seen' = Seen /\ Held' = Held /\ Settled' = Settled /\ Unvisited' = Unvisited /\ Levels' = Levels
    BY <2>1, <2>2 DEF Seen, Held, Settled, Unvisited, Levels, V
  <2>4. PreviewTypeOK' /\ NumbersAreUnique' /\ StackIsOrdered' /\ HeldSinceRoot' /\ GroupsSoFar'
    BY <2>1, <2>2, <2>3
       DEF PreviewInv, PreviewTypeOK, NumbersAreUnique, StackIsOrdered, HeldSinceRoot, At, GroupsSoFar
  <2>5. VisitsAreNested' /\ SettledIsClosed' /\ NeighboursAreSeen'
    BY <2>1, <2>2, <2>3
       DEF PreviewInv, VisitsAreNested, SettledIsClosed, NeighboursAreSeen, At, ToDo, Adjacent
  <2>6. VisitedReachesLater' /\ LinksLead'
    BY <2>1, <2>2, <2>3 DEF PreviewInv, VisitedReachesLater, LinksLead, At
  <2>7. LinksAreLow'
    BY <2>1, <2>2, <2>3 DEF PreviewInv, LinksAreLow, Since, At, ToDo, Adjacent
  <2> QED
    BY <2>1, <2>3, <2>4, <2>5, <2>6, <2>7 DEF PreviewInv
<1> QED
  BY <1>1, <1>2, VisitRootKeepsInv, VisitNeighbourKeepsInv, LookBackKeepsInv, ShowKeepsInv DEF PreviewNext

LEMMA ShownGroupsAreCycles == PreviewInv => GroupsAreCycles
<1> SUFFICES ASSUME PreviewInv, previewed
             PROVE  groups = {InCycleWith(DraftGraph, n) : n \in {k \in DraftGraph.node : IsOnCycle(DraftGraph, k)}}
  BY DEF GroupsAreCycles
<1>1. visits = <<>> /\ Unvisited = {}
  BY DEF PreviewInv
<1>2. Held = {}
  BY <1>1 DEF PreviewInv, HeldSinceRoot
<1>3. Settled = DraftGraph.node
  BY <1>1, <1>2 DEF Settled, Seen, DraftGraph, V
<1> QED
  BY <1>3 DEF PreviewInv, GroupsSoFar

\* The groups of a Preview are the cycles of the Draft, whatever Draft it is (cycleGroups).
THEOREM GroupsCorrect == PreviewSpec => []GroupsAreCycles
<1>1. PreviewInv /\ [PreviewNext]_previewVars => PreviewInv'
  BY PreviewStepsKeepInv
<1> QED
  BY <1>1, PreviewStartsRight, ShownGroupsAreCycles, PTL DEF PreviewSpec
=============================================================================
