-------------------------- MODULE ContinuityProofs --------------------------
(***************************************************************************)
(* Proofs about Continuity: the search computes the descendants of the     *)
(* changed roots, for every declaration, and every path explains.          *)
(***************************************************************************)
EXTENDS Continuity, WellFoundedInduction, TLAPS

Started == stage \in {"search", "trace", "done"}

Queued(n) == \E k \in DOMAIN queue : queue[k] = n

Followed(n) ==
    \A i \in DOMAIN input.edges :
        input.edges[i][1] = n => input.edges[i][2] \in seen

\* Everything seen descends from a root; what is seen and neither queued nor the
\* current source has had its edges followed.
SearchInv ==
    /\ stage = "validate" => source = NoNode /\ paths = [c \in {} |-> <<>>]
    /\ Started =>
          /\ Valid(input)
          /\ Roots(input) \subseteq seen
          /\ reopened = ClaimsIn(input, seen)
          /\ \A S \in SUBSET Nodes : Roots(input) \subseteq S /\ Closed(input, S) => seen \subseteq S
          /\ \A n \in seen : Queued(n) \/ n = source \/ Followed(n)
          /\ source \in seen \cup {NoNode}
          /\ \A k \in DOMAIN queue : queue[k] \in seen
    /\ stage \in {"trace", "done"} => Closed(input, seen)

\* Predecessors lie across a declared edge, roots have none; the path being traced
\* ends in a claim and follows edges, and so do the paths already traced.
WalkInv ==
    /\ Started => \A n \in seen :
          IF predecessor[n] = NoNode THEN n \in Roots(input)
          ELSE Edge(input, predecessor[n], n)
    /\ path # <<>> =>
          /\ stage = "trace"
          /\ path[Len(path)] \in reopened
          /\ \A i \in 1..Len(path) : path[i] \in seen
          /\ \A i \in 1..Len(path)-1 : Edge(input, path[i], path[i+1])
    /\ \A c \in DOMAIN paths : Explains(paths[c], c)
    /\ stage = "done" => DOMAIN paths = reopened

Inv == TypeOK /\ SearchInv /\ WalkInv

----------------------------------------------------------------------------
(* The search.                                                             *)

\* What validation and the types say of a declaration that is being searched.
LEMMA RootsAreNodes ==
    ASSUME NEW in, Declared(in)
    PROVE  Roots(in) \subseteq Nodes
BY DEF Declared, Roots

\* An edge leads from a node to a node.
LEMMA EdgeEnds ==
    ASSUME NEW in, Declared(in), NEW i \in DOMAIN in.edges
    PROVE  in.edges[i][1] \in Nodes /\ in.edges[i][2] \in Nodes
<1>1. in.edges[i] \in Nodes \X Nodes
  BY DEF Declared
<1> QED BY <1>1

LEMMA InitInv == Init => Inv
<1> SUFFICES ASSUME Init PROVE Inv
  OBVIOUS
<1>1. TypeOK
  BY InputsDeclared DEF Init, TypeOK
<1>2. SearchInv
  BY DEF Init, SearchInv, Started
<1>3. WalkInv
  BY DEF Init, WalkInv, Started
<1> QED BY <1>1, <1>2, <1>3 DEF Inv

\* Refusing leaves everything but the stage as it was.
LEMMA RefuseInv == Inv /\ Refuse => Inv'
<1> SUFFICES ASSUME Inv, Refuse PROVE Inv'
  OBVIOUS
<1> USE DEF Inv, Refuse
<1>1. TypeOK'
  BY DEF TypeOK
<1>2. SearchInv'
  BY DEF SearchInv, Started
<1>3. WalkInv'
  BY DEF WalkInv, Started, Explains
<1> QED BY <1>1, <1>2, <1>3

\* The search starts from the roots, all of them queued.
LEMMA StartInv == Inv /\ Start => Inv'
<1> SUFFICES ASSUME Inv, Start PROVE Inv'
  OBVIOUS
<1> USE DEF Inv, Start
<1>a. Declared(input) /\ Roots(input) \subseteq Nodes
  BY RootsAreNodes DEF TypeOK
<1>b. paths = [c \in {} |-> <<>>] /\ path = <<>>
  BY DEF SearchInv, WalkInv
<1>1. TypeOK'
  BY <1>a, <1>b DEF TypeOK, ClaimsIn, Declared
<1>2. SearchInv'
  <2>1. \A n \in seen' : Queued(n)'
    BY DEF Roots, Queued
  <2>2. \A k \in DOMAIN queue' : queue'[k] \in seen'
    BY DEF Roots
  <2>3. source' \in seen' \cup {NoNode}
    BY DEF SearchInv
  <2> QED BY <2>1, <2>2, <2>3, <1>b DEF SearchInv, Started
<1>3. WalkInv'
  BY <1>b DEF WalkInv, Started
<1> QED BY <1>1, <1>2, <1>3

\* A node is discovered: it is queued, its predecessor is the current source, and
\* every closed set around the roots contains it.
LEMMA DiscoverInv ==
    ASSUME NEW i \in DOMAIN input.edges, Inv, Discover(i)
    PROVE  Inv'
<1> USE DEF Inv
<1> DEFINE target == input.edges[i][2]
<1>a. /\ stage = "search" /\ stage' = "search"
      /\ input.edges[i][1] = source /\ target \notin seen
      /\ seen' = seen \cup {target}
      /\ predecessor' = [n \in seen \cup {target} |->
                            IF n \in seen THEN predecessor[n] ELSE source]
      /\ queue' = Append(queue, target)
      /\ reopened' = reopened \cup ClaimsIn(input, {target})
      /\ UNCHANGED <<input, source, path, paths>>
  BY DEF Discover, Fresh, ReachedFromSource, Enqueue
<1>b. target \in Nodes /\ source \in Nodes
  BY <1>a, EdgeEnds DEF TypeOK
<1>c. source \in seen
  BY <1>a, <1>b, NoNodeApart DEF SearchInv, Started
<1>d. Edge(input, source, target)
  <2>1. input.edges[i] \in Nodes \X Nodes
    BY DEF TypeOK, Declared
  <2> QED BY <1>a, <2>1 DEF Edge
<1>e. path = <<>>
  BY <1>a DEF WalkInv
<1>f. queue \in Seq(Nodes) /\ seen \subseteq Nodes
  BY DEF TypeOK
<1> HIDE DEF target
<1>1. TypeOK'
  <2>1. queue' \in Seq(Nodes)
    BY <1>a, <1>b, <1>f
  <2>2. predecessor' \in [seen' -> seen' \cup {NoNode}]
    BY <1>a, <1>c DEF TypeOK
  <2>3. reopened' \subseteq input'.claims /\ DOMAIN paths' \subseteq reopened'
    BY <1>a DEF TypeOK, ClaimsIn
  <2> QED BY <1>a, <1>b, <2>1, <2>2, <2>3 DEF TypeOK
<1>2. SearchInv'
  <2> USE <1>a DEF SearchInv, Started
  <2>1. Valid(input') /\ Roots(input') \subseteq seen' /\ reopened' = ClaimsIn(input', seen')
    BY DEF ClaimsIn
  <2>2. ASSUME NEW S \in SUBSET Nodes, Roots(input) \subseteq S, Closed(input, S)
        PROVE  seen' \subseteq S
    BY <2>2, <1>c DEF Closed, target
  <2>3. ASSUME NEW n \in seen' PROVE (Queued(n) \/ n = source \/ Followed(n))'
    <3>1. CASE n = target
      <4>1. queue'[Len(queue) + 1] = target /\ Len(queue) + 1 \in DOMAIN queue'
        BY <1>b, <1>f
      <4> QED BY <3>1, <4>1 DEF Queued
    <3>2. CASE Queued(n)
      <4>1. \A k \in DOMAIN queue : k \in DOMAIN queue' /\ queue'[k] = queue[k]
        BY <1>b, <1>f
      <4> QED BY <3>2, <4>1 DEF Queued
    <3>3. CASE n = source
      BY <3>3
    <3>4. CASE n # target /\ Followed(n)
      BY <3>4 DEF Followed
    <3> QED BY <3>1, <3>2, <3>3, <3>4
  <2>4. \A k \in DOMAIN queue' : queue'[k] \in seen'
    BY <1>b, <1>f
  <2> QED BY <1>c, <2>1, <2>2, <2>3, <2>4
<1>3. WalkInv'
  <2>1. ASSUME NEW n \in seen'
        PROVE  IF predecessor'[n] = NoNode THEN n \in Roots(input')
               ELSE Edge(input', predecessor'[n], n)
    BY <1>a, <1>b, <1>d, NoNodeApart DEF WalkInv, Started
  <2> QED BY <1>a, <1>e, <2>1 DEF WalkInv, Started, Explains
<1> QED BY <1>1, <1>2, <1>3

\* The source has no fresh edge left, so it is followed and the next one is taken.
LEMMA PopInv == Inv /\ Pop => Inv'
<1> SUFFICES ASSUME Inv, Pop PROVE Inv'
  OBVIOUS
<1> USE DEF Inv, Pop
<1>a. queue \in Seq(Nodes) /\ queue # <<>>
  BY DEF TypeOK
<1>b. Followed(source)
  BY DEF Followed, Exhausted, Fresh
<1>c. Head(queue) \in seen
  BY <1>a DEF SearchInv, Started
<1>1. TypeOK'
  BY <1>a, <1>c DEF TypeOK
<1>2. SearchInv'
  <2>1. ASSUME NEW n \in seen' PROVE (Queued(n) \/ n = source \/ Followed(n))'
    <3>1. CASE Queued(n)
      <4>1. PICK k \in DOMAIN queue : queue[k] = n
        BY <3>1 DEF Queued
      <4>2. CASE k = 1
        BY <1>a, <4>1, <4>2
      <4>3. CASE k # 1
        <5>1. k - 1 \in DOMAIN queue' /\ queue'[k - 1] = n
          BY <1>a, <4>1, <4>3
        <5> QED BY <5>1 DEF Queued
      <4> QED BY <4>2, <4>3
    <3>2. CASE Followed(n) \/ n = source
      BY <1>b, <3>2 DEF Followed
    <3> QED BY <3>1, <3>2 DEF SearchInv, Started
  <2>2. \A k \in DOMAIN queue' : queue'[k] \in seen'
    BY <1>a DEF SearchInv, Started
  <2> QED BY <1>c, <2>1, <2>2 DEF SearchInv, Started
<1>3. WalkInv'
  BY DEF WalkInv, Started, Explains
<1> QED BY <1>1, <1>2, <1>3

\* With nothing queued and nothing fresh, no edge leaves what was seen.
LEMMA SearchedInv == Inv /\ Searched => Inv'
<1> SUFFICES ASSUME Inv, Searched PROVE Inv'
  OBVIOUS
<1> USE DEF Inv, Searched
<1>1. TypeOK'
  BY DEF TypeOK
<1>2. SearchInv'
  <2>1. \A n \in seen : Followed(n)
    BY DEF SearchInv, Started, Queued, Followed, Exhausted, Fresh
  <2>2. Closed(input, seen)
    BY <2>1 DEF Followed, Closed
  <2> QED BY <2>2 DEF SearchInv, Started, Queued, Followed
<1>3. WalkInv'
  BY DEF WalkInv, Started, Explains
<1> QED BY <1>1, <1>2, <1>3

----------------------------------------------------------------------------
(* The walk back.                                                          *)

\* A path starts as the claim itself.
LEMMA StartPathInv ==
    ASSUME NEW c \in reopened, Inv, StartPath(c)
    PROVE  Inv'
<1> USE DEF Inv, StartPath
<1>a. c \in seen /\ c \in Nodes
  BY DEF SearchInv, Started, ClaimsIn, TypeOK
<1>b. path' = <<c>> /\ Len(path') = 1 /\ path'[1] = c
  OBVIOUS
<1>1. TypeOK'
  BY <1>a DEF TypeOK
<1>2. SearchInv'
  BY DEF SearchInv, Started, Queued, Followed
<1>3. WalkInv'
  <2>1. \A k \in 1..Len(path') : path'[k] \in seen'
    BY <1>a, <1>b
  <2>2. \A k \in 1..Len(path')-1 : Edge(input', path'[k], path'[k+1])
    BY <1>b
  <2> QED BY <1>b, <2>1, <2>2 DEF WalkInv, Started, Explains
<1> QED BY <1>1, <1>2, <1>3

\* Walking back puts a predecessor, and so an edge, before the path.
LEMMA WalkBackInv == Inv /\ WalkBack => Inv'
<1> SUFFICES ASSUME Inv, WalkBack PROVE Inv'
  OBVIOUS
<1> USE DEF Inv, WalkBack
<1> DEFINE p == predecessor[Head(path)]
<1>a. path \in Seq(Nodes) /\ path # <<>> /\ Len(path) \in Nat \ {0} /\ path[1] = Head(path)
  BY DEF TypeOK
<1>b. Head(path) \in seen
  BY <1>a DEF WalkInv
<1>c. p \in seen /\ p \in Nodes /\ Edge(input, p, Head(path))
  BY <1>b DEF TypeOK, WalkInv, Started
<1> HIDE DEF p
<1>d. path' = <<p>> \o path
  BY DEF p
<1>e. /\ path' \in Seq(Nodes) /\ Len(path') = Len(path) + 1 /\ path' # <<>>
      /\ path'[1] = p
      /\ \A k \in 1..Len(path) : path'[k+1] = path[k]
  BY <1>a, <1>c, <1>d
<1>f. UNCHANGED <<input, stage, queue, source, seen, predecessor, reopened, paths>>
  OBVIOUS
<1>1. TypeOK'
  BY <1>e DEF TypeOK
<1>2. SearchInv'
  BY DEF SearchInv, Started, Queued, Followed
<1>3. WalkInv'
  <2>1. path'[Len(path')] \in reopened'
    BY <1>a, <1>e, <1>f DEF WalkInv
  <2>2. ASSUME NEW k \in 1..Len(path') PROVE path'[k] \in seen'
    <3>1. CASE k = 1
      BY <1>c, <1>e, <1>f, <3>1
    <3>2. CASE k # 1
      <4>1. k - 1 \in 1..Len(path) /\ path'[k] = path[k - 1]
        BY <1>a, <1>e, <3>2
      <4> QED BY <1>a, <1>f, <4>1 DEF WalkInv
    <3> QED BY <3>1, <3>2
  <2>3. ASSUME NEW k \in 1..Len(path')-1 PROVE Edge(input', path'[k], path'[k+1])
    <3>1. CASE k = 1
      BY <1>a, <1>c, <1>e, <1>f, <3>1
    <3>2. CASE k # 1
      <4>1. /\ k - 1 \in 1..Len(path)-1 /\ k - 1 \in 1..Len(path) /\ k \in 1..Len(path)
            /\ path'[k] = path[k - 1] /\ path'[k+1] = path[k]
        BY <1>a, <1>e, <3>2
      <4>2. Edge(input, path[k - 1], path[(k - 1) + 1])
        BY <1>a, <4>1 DEF WalkInv
      <4>3. (k - 1) + 1 = k
        OBVIOUS
      <4> QED BY <1>f, <4>1, <4>2, <4>3
    <3> QED BY <3>1, <3>2
  <2> QED BY <1>f, <2>1, <2>2, <2>3 DEF WalkInv, Started, Explains
<1> QED BY <1>1, <1>2, <1>3

\* The walk ends at a node without predecessor, which is a root.
LEMMA EndPathInv == Inv /\ EndPath => Inv'
<1> SUFFICES ASSUME Inv, EndPath PROVE Inv'
  OBVIOUS
<1> USE DEF Inv, EndPath
<1> DEFINE c == path[Len(path)]
<1>a. path \in Seq(Nodes) /\ path # <<>> /\ Len(path) \in Nat \ {0} /\ path[1] = Head(path)
  BY DEF TypeOK
<1>b. path[1] \in seen /\ path[1] \in Roots(input)
  BY <1>a DEF WalkInv, Started
<1>c. Explains(path, c) /\ c \in reopened
  BY <1>a, <1>b DEF WalkInv, Explains
<1> HIDE DEF c
<1>d. /\ stage = "trace"
      /\ paths' = [d \in DOMAIN paths \cup {c} |-> IF d \in DOMAIN paths THEN paths[d] ELSE path]
      /\ path' = <<>>
      /\ UNCHANGED <<input, stage, queue, source, seen, predecessor, reopened>>
  BY DEF c
<1> HIDE DEF EndPath
<1>1. TypeOK'
  <2>1. DOMAIN paths' \subseteq reopened'
    BY <1>c, <1>d DEF TypeOK
  <2>2. \A d \in DOMAIN paths' : paths'[d] \in Seq(Nodes)
    BY <1>a, <1>d DEF TypeOK
  <2>3. /\ Declared(input') /\ stage' \in {"validate", "search", "trace", "done", "refused"}
        /\ queue' \in Seq(Nodes) /\ source' \in Nodes \cup {NoNode} /\ seen' \subseteq Nodes
        /\ predecessor' \in [seen' -> seen' \cup {NoNode}] /\ reopened' \subseteq input'.claims
        /\ path' \in Seq(Nodes)
    BY <1>d DEF TypeOK
  <2> QED BY <2>1, <2>2, <2>3 DEF TypeOK
<1>2. SearchInv'
  BY <1>d DEF SearchInv, Started, Queued, Followed
<1>3. WalkInv'
  <2>1. ASSUME NEW d \in DOMAIN paths' PROVE Explains(paths'[d], d)
    BY <1>c, <1>d DEF WalkInv
  <2>2. ASSUME NEW d \in DOMAIN paths' PROVE Explains(paths[d], d)'
    <3>1. input' = input /\ Explains(paths'[d], d)
      BY <1>d, <2>1
    <3> QED BY <3>1 DEF Explains
  <2>3. path' = <<>> /\ stage' # "done"
    BY <1>d
  <2> QED BY <1>d, <2>2, <2>3 DEF WalkInv, Started
<1> QED BY <1>1, <1>2, <1>3

\* The function returns when every reopened claim has its path.
LEMMA ReturnInv == Inv /\ Return => Inv'
<1> SUFFICES ASSUME Inv, Return PROVE Inv'
  OBVIOUS
<1> USE DEF Inv, Return
<1>1. TypeOK'
  BY DEF TypeOK
<1>2. SearchInv'
  BY DEF SearchInv, Started, Queued, Followed
<1>3. WalkInv'
  BY DEF WalkInv, Started, Explains
<1> QED BY <1>1, <1>2, <1>3

LEMMA StutterInv == Inv /\ UNCHANGED vars => Inv'
BY DEF Inv, vars, TypeOK, SearchInv, WalkInv, Started, Queued, Followed, Explains

\* Every step keeps the invariant.
LEMMA StepInv == Inv /\ [Next]_vars => Inv'
<1> SUFFICES ASSUME Inv, [Next]_vars PROVE Inv'
  OBVIOUS
<1>1. CASE Refuse
  BY <1>1, RefuseInv
<1>2. CASE Start
  BY <1>2, StartInv
<1>3. ASSUME NEW i \in DOMAIN input.edges, Discover(i) PROVE Inv'
  BY <1>3, DiscoverInv
<1>4. CASE Pop
  BY <1>4, PopInv
<1>5. CASE Searched
  BY <1>5, SearchedInv
<1>6. ASSUME NEW c \in reopened, StartPath(c) PROVE Inv'
  BY <1>6, StartPathInv
<1>7. CASE WalkBack
  BY <1>7, WalkBackInv
<1>8. CASE EndPath
  BY <1>8, EndPathInv
<1>9. CASE Return
  BY <1>9, ReturnInv
<1>10. CASE UNCHANGED vars
  BY <1>10, StutterInv
<1> QED BY <1>1, <1>2, <1>3, <1>4, <1>5, <1>6, <1>7, <1>8, <1>9, <1>10 DEF Next

----------------------------------------------------------------------------
(* Theorems.                                                               *)

\* The inductive invariant holds throughout every call.
THEOREM Invariance == Spec => []Inv
BY InitInv, StepInv, PTL DEF Spec

\* Every variable of analyze_continuity keeps its type.
THEOREM Typing == Spec => []TypeOK
<1>1. Inv => TypeOK
  BY DEF Inv
<1> QED BY <1>1, Invariance, PTL

\* Every path reported leads from a changed root along declared edges to its claim.
THEOREM PathsAlwaysExplain == Spec => []PathsExplain
<1>1. Inv => PathsExplain
  BY DEF Inv, WalkInv, PathsExplain, Finished
<1> QED BY <1>1, Invariance, PTL

\* When the search is over, the claims seen are those every closed set around the
\* roots contains.
LEMMA SeenIsExposed ==
    ASSUME Inv, stage \in {"trace", "done"}
    PROVE  reopened = input.claims \cap Exposed(input)
<1>1. /\ Roots(input) \subseteq seen /\ Closed(input, seen)
      /\ \A S \in SUBSET Nodes : Roots(input) \subseteq S /\ Closed(input, S) => seen \subseteq S
      /\ reopened = seen \cap input.claims
      /\ seen \subseteq Nodes
  BY DEF Inv, SearchInv, Started, ClaimsIn, TypeOK
<1>2. seen = Exposed(input)
  BY <1>1 DEF Exposed
<1> QED BY <1>1, <1>2

\* Selective reverification keeps its promise for every declaration: exactly the
\* claims that descend from a changed root are reopened.
THEOREM Implementation == Spec => ImplementsReopening
<1> USE DEF Finished, Answered
<1>1. Init => Promise!Init
  BY DEF Init, Promise!Init
<1>2. Inv /\ [Next]_vars => [Promise!Answer \/ Promise!Refuse]_<<input, Answered>>
  <2> SUFFICES ASSUME Inv, [Next]_vars
               PROVE  Promise!Answer \/ Promise!Refuse \/ UNCHANGED <<input, Answered>>
    OBVIOUS
  <2>1. CASE Refuse
    BY <2>1 DEF Refuse, Promise!Refuse, Promise!Valid, Valid
  <2>2. CASE Return
    <3>1. reopened = input.claims \cap Exposed(input) /\ Valid(input)
      BY <2>2, SeenIsExposed DEF Return, Inv, SearchInv, Started
    <3>2. Promise!Valid(input) <=> Valid(input)
      BY DEF Promise!Valid, Valid
    <3>3. Promise!Exposed(input) = Exposed(input)
      BY DEF Promise!Exposed, Exposed, Promise!Roots, Roots, Promise!Closed, Closed
    <3>4. Promise!Result(input, reopened) = Result(input, reopened)
      BY DEF Promise!Result, Result
    <3> QED BY <2>2, <3>1, <3>2, <3>3, <3>4 DEF Return, Promise!Answer
  <2>3. CASE ~Refuse /\ ~Return
    <3>1. input' = input /\ (Finished <=> Finished') /\ (stage = "refused" <=> stage' = "refused")
      BY <2>3 DEF Next, Start, Discover, Pop, Searched, StartPath, WalkBack, EndPath, vars
    <3>2. Finished => UNCHANGED reopened
      BY <2>3 DEF Next, Start, Discover, Pop, Searched, StartPath, WalkBack, EndPath, vars
    <3> QED BY <3>1, <3>2
  <2> QED BY <2>1, <2>2, <2>3
<1> QED BY <1>1, <1>2, Invariance, PTL DEF Spec, ImplementsReopening, Promise!Spec
----------------------------------------------------------------------------
(* Shortest paths.                                                         *)

\* depth counts the edges by which the search came to a node.  Nothing seen is deeper
\* than one edge below the source, the queue is in the order of depth and
\* starts no higher than the source, and no edge that was followed skips a level.
BreadthFirst(depth) ==
    /\ \A n \in seen :
          depth[n] = IF predecessor[n] = NoNode THEN 0 ELSE depth[predecessor[n]] + 1
    /\ \A n \in seen : depth[n] <= IF source = NoNode THEN 0 ELSE depth[source] + 1
    /\ \A j, k \in DOMAIN queue : j <= k => depth[queue[j]] <= depth[queue[k]]
    /\ source # NoNode => \A k \in DOMAIN queue : depth[source] <= depth[queue[k]]
    /\ \A n \in seen :
          \/ Queued(n)
          \/ n = source
          \/ \A i \in DOMAIN input.edges :
                input.edges[i][1] = n => depth[input.edges[i][2]] <= depth[n] + 1

\* A path, whole or not, has as many nodes as its end is deeper than its beginning.
PathsMeasured(depth) ==
    /\ path # <<>> => depth[path[1]] + Len(path) = depth[path[Len(path)]] + 1
    /\ \A c \in DOMAIN paths : Len(paths[c]) = depth[c] + 1

DepthInv ==
    /\ stage \notin {"trace", "done"} => path = <<>> /\ DOMAIN paths = {}
    /\ stage \in {"trace", "done"} => queue = <<>>
    /\ Started =>
          /\ \A r \in Roots(input) : predecessor[r] = NoNode
          /\ \E depth \in [seen -> Nat] : BreadthFirst(depth) /\ PathsMeasured(depth)

\* The roots are at depth 0.
LEMMA StartDepth == Inv /\ DepthInv /\ Start => DepthInv'
<1> SUFFICES ASSUME Inv, DepthInv, Start PROVE DepthInv'
  OBVIOUS
<1> DEFINE depth == [r \in Roots(input) |-> 0]
<1>1. /\ stage = "validate" /\ stage' = "search" /\ queue' = input.changed
      /\ seen' = Roots(input) /\ predecessor' = [r \in Roots(input) |-> NoNode]
      /\ UNCHANGED <<input, source, path, paths>>
      /\ source = NoNode /\ path = <<>> /\ paths = [c \in {} |-> <<>>]
  BY DEF Start, Inv, SearchInv, WalkInv, DepthInv
<1>2. depth \in [seen' -> Nat]
  BY <1>1
<1>3. \A k \in DOMAIN queue' : queue'[k] \in Roots(input)
  BY <1>1 DEF Roots
<1>4. BreadthFirst(depth)'
  <2>1. \A n \in seen' : Queued(n)'
    BY <1>1 DEF Roots, Queued
  <2> QED
    BY <1>1, <1>3, <2>1 DEF BreadthFirst
<1>5. PathsMeasured(depth)'
  BY <1>1 DEF PathsMeasured
<1> QED
  BY <1>1, <1>2, <1>4, <1>5 DEF DepthInv, Started

\* A node is discovered one level below the source, where the queue ends.
LEMMA DiscoverDepth ==
    ASSUME NEW i \in DOMAIN input.edges, Inv, DepthInv, Discover(i)
    PROVE  DepthInv'
<1> DEFINE target == input.edges[i][2]
<1>1. /\ stage = "search" /\ stage' = "search"
      /\ target \notin seen /\ seen' = seen \cup {target}
      /\ predecessor' = [n \in seen \cup {target} |->
                            IF n \in seen THEN predecessor[n] ELSE source]
      /\ queue' = Append(queue, target)
      /\ UNCHANGED <<input, source, path, paths>>
      /\ input.edges[i][1] = source
  BY DEF Discover, Fresh, ReachedFromSource, Enqueue
<1>2. target \in Nodes /\ source \in Nodes /\ source # NoNode /\ source \in seen
  BY <1>1, EdgeEnds, NoNodeApart DEF Inv, TypeOK, SearchInv, Started
<1>3. /\ queue \in Seq(Nodes) /\ seen \subseteq Nodes
      /\ predecessor \in [seen -> seen \cup {NoNode}]
      /\ path = <<>> /\ Roots(input) \subseteq seen
      /\ \A k \in DOMAIN queue : queue[k] \in seen
      /\ DOMAIN paths \subseteq seen
  BY <1>1 DEF Inv, TypeOK, SearchInv, WalkInv, Started, ClaimsIn
<1>4. PICK depth \in [seen -> Nat] : BreadthFirst(depth) /\ PathsMeasured(depth)
  BY <1>1 DEF DepthInv, Started
<1> HIDE DEF target
<1>5. PICK deeper \in [seen' -> Nat] :
             /\ \A n \in seen : deeper[n] = depth[n]
             /\ deeper[target] = depth[source] + 1
  <2> DEFINE f == [n \in seen' |-> IF n \in seen THEN depth[n] ELSE depth[source] + 1]
  <2>1. f \in [seen' -> Nat] /\ f[target] = depth[source] + 1
    BY <1>1, <1>2
  <2> QED
    BY <1>1, <2>1
<1>6. /\ Len(queue) \in Nat /\ Len(queue') = Len(queue) + 1
      /\ DOMAIN queue = 1..Len(queue) /\ DOMAIN queue' = 1..(Len(queue) + 1)
      /\ queue'[Len(queue) + 1] = target
      /\ \A k \in DOMAIN queue : queue'[k] = queue[k]
  BY <1>1, <1>2, <1>3
<1>7. BreadthFirst(deeper)'
  <2>1. ASSUME NEW n \in seen'
        PROVE  deeper[n] = IF predecessor'[n] = NoNode THEN 0 ELSE deeper[predecessor'[n]] + 1
    <3>1. CASE n = target
      BY <1>1, <1>2, <1>5, <3>1
    <3>2. CASE n \in seen
      <4>1. depth[n] = IF predecessor[n] = NoNode THEN 0 ELSE depth[predecessor[n]] + 1
        BY <1>4, <3>2 DEF BreadthFirst
      <4>2. predecessor'[n] = predecessor[n] /\ predecessor[n] \in seen \cup {NoNode}
        BY <1>1, <1>3, <3>2
      <4> QED
        BY <1>5, <3>2, <4>1, <4>2
    <3> QED
      BY <1>1, <3>1, <3>2
  <2>2. \A n \in seen' : deeper[n] <= deeper[source] + 1
    BY <1>1, <1>2, <1>4, <1>5 DEF BreadthFirst
  <2>3. ASSUME NEW j \in DOMAIN queue', NEW k \in DOMAIN queue', j <= k
        PROVE  deeper[queue'[j]] <= deeper[queue'[k]]
    <3>1. CASE k = Len(queue) + 1
      <4>1. queue'[j] \in seen'
        BY <1>1, <1>3, <1>6
      <4> QED
        BY <1>2, <1>5, <1>6, <2>2, <3>1, <4>1
    <3>2. CASE k # Len(queue) + 1
      <4>1. j \in DOMAIN queue /\ k \in DOMAIN queue
        BY <1>6, <2>3, <3>2
      <4> QED
        BY <1>3, <1>4, <1>5, <1>6, <2>3, <4>1 DEF BreadthFirst
    <3> QED
      BY <3>1, <3>2
  <2>4. ASSUME NEW k \in DOMAIN queue' PROVE deeper[source] <= deeper[queue'[k]]
    <3>1. CASE k = Len(queue) + 1
      BY <1>2, <1>4, <1>5, <1>6, <3>1
    <3>2. CASE k \in DOMAIN queue
      <4>1. depth[source] <= depth[queue[k]]
        BY <1>2, <1>4, <3>2 DEF BreadthFirst
      <4>2. queue'[k] = queue[k] /\ queue[k] \in seen
        BY <1>3, <1>6, <3>2
      <4>3. deeper[queue[k]] = depth[queue[k]] /\ deeper[source] = depth[source]
        BY <1>2, <1>5, <4>2
      <4> QED
        BY ONLY <4>1, <4>2, <4>3
    <3> QED
      BY <1>6, <3>1, <3>2
  <2>5. ASSUME NEW n \in seen', n # source, ~Queued(n)'
        PROVE  \A e \in DOMAIN input.edges :
                  input.edges[e][1] = n => deeper[input.edges[e][2]] <= deeper[n] + 1
    <3>1. n # target /\ n \in seen /\ ~Queued(n)
      <4>1. \A k \in DOMAIN queue' : queue'[k] # n
        BY <2>5 DEF Queued
      <4>2. n # target
        BY <1>6, <4>1
      <4>3. \A k \in DOMAIN queue : queue[k] # n
        BY <1>6, <4>1
      <4> QED
        BY <1>1, <2>5, <4>2, <4>3 DEF Queued
    <3>2. Followed(n)
      BY <1>1, <2>5, <3>1 DEF Inv, SearchInv, Started
    <3>3. \A e \in DOMAIN input.edges :
             input.edges[e][1] = n => depth[input.edges[e][2]] <= depth[n] + 1
      BY <1>4, <2>5, <3>1 DEF BreadthFirst
    <3> TAKE e \in DOMAIN input.edges
    <3> HAVE input.edges[e][1] = n
    <3>4. input.edges[e][2] \in seen /\ depth[input.edges[e][2]] <= depth[n] + 1
      BY <3>2, <3>3 DEF Followed
    <3> QED
      BY <1>5, <3>1, <3>4
  <2> QED
    BY <1>1, <1>2, <2>1, <2>2, <2>3, <2>4, <2>5 DEF BreadthFirst
<1>8. PathsMeasured(deeper)'
  BY <1>1, <1>3, <1>4, <1>5 DEF PathsMeasured
<1>9. \A r \in Roots(input) : predecessor'[r] = NoNode
  BY <1>1, <1>3 DEF DepthInv, Started
<1> QED
  BY <1>1, <1>5, <1>7, <1>8, <1>9 DEF DepthInv, Started

\* The first of the queue becomes the source: it is no higher than the last one, and
\* not deeper than whatever is still queued.
LEMMA PopDepth == Inv /\ DepthInv /\ Pop => DepthInv'
<1> SUFFICES ASSUME Inv, DepthInv, Pop PROVE DepthInv'
  OBVIOUS
<1>1. /\ stage = "search" /\ queue # <<>>
      /\ source' = Head(queue) /\ queue' = Tail(queue)
      /\ UNCHANGED <<input, stage, seen, predecessor, reopened, path, paths>>
  BY DEF Pop
<1>2. /\ queue \in Seq(Nodes) /\ source \in seen \cup {NoNode} /\ NoNode \notin seen
      /\ \A k \in DOMAIN queue : queue[k] \in seen
  BY <1>1, NoNodeApart DEF Inv, TypeOK, SearchInv, Started
<1>3. /\ Len(queue) \in Nat \ {0} /\ DOMAIN queue = 1..Len(queue)
      /\ DOMAIN queue' = 1..(Len(queue) - 1)
      /\ source' = queue[1] /\ source' \in seen /\ source' # NoNode
      /\ \A k \in DOMAIN queue' : k + 1 \in DOMAIN queue /\ queue'[k] = queue[k + 1]
  BY <1>1, <1>2
<1>4. PICK depth \in [seen -> Nat] : BreadthFirst(depth) /\ PathsMeasured(depth)
  BY <1>1 DEF DepthInv, Started
<1>5. BreadthFirst(depth)'
  <2>1. \A n \in seen : depth[n] <= depth[source'] + 1
    BY <1>2, <1>3, <1>4 DEF BreadthFirst
  <2>2. \A j, k \in DOMAIN queue' : j <= k => depth[queue'[j]] <= depth[queue'[k]]
    <3> SUFFICES ASSUME NEW j \in DOMAIN queue', NEW k \in DOMAIN queue', j <= k
                 PROVE  depth[queue[j + 1]] <= depth[queue[k + 1]]
      BY <1>3
    <3>1. j + 1 \in DOMAIN queue /\ k + 1 \in DOMAIN queue /\ j + 1 <= k + 1
      BY <1>3
    <3> QED
      BY <1>4, <3>1 DEF BreadthFirst
  <2>3. \A k \in DOMAIN queue' : depth[source'] <= depth[queue'[k]]
    <3> SUFFICES ASSUME NEW k \in DOMAIN queue'
                 PROVE  depth[queue[1]] <= depth[queue[k + 1]]
      BY <1>3
    <3>1. 1 \in DOMAIN queue /\ k + 1 \in DOMAIN queue /\ 1 <= k + 1
      BY <1>3
    <3> QED
      BY <1>4, <3>1 DEF BreadthFirst
  <2>4. ASSUME NEW n \in seen, ~Queued(n)', n # source'
        PROVE  \A i \in DOMAIN input.edges :
                  input.edges[i][1] = n => depth[input.edges[i][2]] <= depth[n] + 1
    <3>1. ~Queued(n)
      <4> SUFFICES ASSUME NEW k \in DOMAIN queue, queue[k] = n PROVE FALSE
        BY DEF Queued
      <4>1. k # 1
        BY <1>3, <2>4
      <4>2. k - 1 \in DOMAIN queue' /\ queue'[k - 1] = n
        BY <1>3, <4>1
      <4> QED
        BY <2>4, <4>2 DEF Queued
    <3>2. CASE n = source
      <4>1. \A i \in DOMAIN input.edges : input.edges[i][1] = n => input.edges[i][2] \in seen
        BY <3>2 DEF Pop, Exhausted, Fresh
      <4>2. \A b \in seen : depth[b] <= depth[n] + 1
        BY <1>2, <1>4, <3>2 DEF BreadthFirst
      <4> QED
        BY <4>1, <4>2
    <3>3. CASE n # source
      BY <1>4, <3>1, <3>3 DEF BreadthFirst
    <3> QED
      BY <3>2, <3>3
  <2> QED
    <3>1. \A n \in seen :
             depth[n] = IF predecessor[n] = NoNode THEN 0 ELSE depth[predecessor[n]] + 1
      BY <1>4 DEF BreadthFirst
    <3> QED
      BY <1>1, <1>3, <2>1, <2>2, <2>3, <2>4, <3>1 DEF BreadthFirst
<1>6. PathsMeasured(depth)'
  BY <1>1, <1>4 DEF PathsMeasured
<1> QED
  BY <1>1, <1>4, <1>5, <1>6 DEF DepthInv, Started

\* Steps that only trace, or change the stage, keep depths as they are.
LEMMA SameDepth ==
    ASSUME DepthInv, Started, queue = <<>>, stage' \in {"trace", "done"},
           UNCHANGED <<input, queue, source, seen, predecessor>>,
           \A depth \in [seen -> Nat] :
              BreadthFirst(depth) /\ PathsMeasured(depth) => PathsMeasured(depth)'
    PROVE  DepthInv'
<1>1. PICK depth \in [seen -> Nat] : BreadthFirst(depth) /\ PathsMeasured(depth)
  BY DEF DepthInv
<1>2. BreadthFirst(depth)'
  BY <1>1 DEF BreadthFirst, Queued
<1>3. PathsMeasured(depth)'
  BY <1>1
<1>4. \A r \in Roots(input') : predecessor'[r] = NoNode
  BY DEF DepthInv
<1> QED
  BY <1>1, <1>2, <1>3, <1>4 DEF DepthInv

LEMMA WalkBackDepth == Inv /\ DepthInv /\ WalkBack => DepthInv'
<1> SUFFICES ASSUME Inv, DepthInv, WalkBack PROVE DepthInv'
  OBVIOUS
<1> DEFINE n == Head(path)
<1>1. /\ path \in Seq(Nodes) /\ path # <<>> /\ Len(path) \in Nat \ {0} /\ n = path[1]
      /\ n \in seen /\ predecessor[n] # NoNode /\ predecessor[n] \in Nodes
      /\ predecessor[n] \in seen
      /\ path' = <<predecessor[n]>> \o path
      /\ UNCHANGED <<input, stage, queue, source, seen, predecessor, paths>>
      /\ Started /\ path[Len(path)] \in seen
  <2>1. path \in Seq(Nodes) /\ path # <<>> /\ predecessor[n] # NoNode
        /\ seen \subseteq Nodes /\ predecessor \in [seen -> seen \cup {NoNode}]
    BY DEF WalkBack, Inv, TypeOK
  <2>2. Len(path) \in Nat \ {0} /\ n = path[1]
    BY <2>1
  <2>3. \A i \in 1..Len(path) : path[i] \in seen
    BY <2>1 DEF Inv, WalkInv
  <2> QED
    BY <2>1, <2>2, <2>3 DEF WalkBack, Started
<1> HIDE DEF n
<1>2. /\ Len(path') = Len(path) + 1 /\ path'[1] = predecessor[n]
      /\ path'[Len(path')] = path[Len(path)]
  BY <1>1
<1>3. ASSUME NEW depth \in [seen -> Nat], BreadthFirst(depth), PathsMeasured(depth)
      PROVE  PathsMeasured(depth)'
  <2>1. depth[n] = depth[predecessor[n]] + 1
    BY <1>1, <1>3 DEF BreadthFirst
  <2>2. depth[n] + Len(path) = depth[path[Len(path)]] + 1
    BY <1>1, <1>3 DEF PathsMeasured
  <2>3. depth[predecessor[n]] + (Len(path) + 1) = depth[path[Len(path)]] + 1
    <3>1. PICK a \in Nat : a = depth[n]
      BY <1>1
    <3>2. PICK b \in Nat : b = depth[predecessor[n]]
      BY <1>1
    <3>3. PICK c \in Nat : c = depth[path[Len(path)]]
      BY <1>1
    <3>4. PICK l \in Nat : l = Len(path)
      BY <1>1
    <3>5. a = b + 1 /\ a + l = c + 1
      BY <2>1, <2>2, <3>1, <3>2, <3>3, <3>4
    <3>6. b + (l + 1) = c + 1
      BY <3>5
    <3> QED
      BY <3>2, <3>3, <3>4, <3>6
  <2> QED
    BY <1>1, <1>2, <1>3, <2>3 DEF PathsMeasured
<1> QED
  BY <1>1, <1>3, SameDepth DEF DepthInv, WalkBack, Started

LEMMA EndPathDepth == Inv /\ DepthInv /\ EndPath => DepthInv'
<1> SUFFICES ASSUME Inv, DepthInv, EndPath PROVE DepthInv'
  OBVIOUS
<1> DEFINE c == path[Len(path)]
<1>1. /\ path \in Seq(Nodes) /\ path # <<>> /\ Len(path) \in Nat \ {0}
      /\ path[1] \in seen /\ c \in seen /\ predecessor[path[1]] = NoNode
      /\ paths' = [d \in DOMAIN paths \cup {c} |-> IF d \in DOMAIN paths THEN paths[d] ELSE path]
      /\ path' = <<>>
      /\ UNCHANGED <<input, stage, queue, source, seen, predecessor>>
      /\ Started
  <2>1. path \in Seq(Nodes) /\ path # <<>>
    BY DEF EndPath, Inv, TypeOK
  <2>2. Len(path) \in Nat \ {0} /\ Head(path) = path[1]
    BY <2>1
  <2>3. \A i \in 1..Len(path) : path[i] \in seen
    BY <2>1 DEF Inv, WalkInv
  <2> QED
    BY <2>1, <2>2, <2>3 DEF EndPath, Started
<1>2. ASSUME NEW depth \in [seen -> Nat], BreadthFirst(depth), PathsMeasured(depth)
      PROVE  PathsMeasured(depth)'
  <2>1. depth[path[1]] = 0
    BY <1>1, <1>2 DEF BreadthFirst
  <2>2. depth[path[1]] + Len(path) = depth[c] + 1
    BY <1>1, <1>2 DEF PathsMeasured
  <2>3. Len(path) = depth[c] + 1
    BY <1>1, <2>1, <2>2
  <2> HIDE DEF c
  <2>4. \A d \in DOMAIN paths' : Len(paths'[d]) = depth[d] + 1
    BY <1>1, <1>2, <2>3 DEF PathsMeasured
  <2> QED
    BY <1>1, <2>4 DEF PathsMeasured
<1> QED
  BY <1>1, <1>2, SameDepth DEF DepthInv, EndPath, Started

\* Every step of the search keeps to breadth-first order.
LEMMA StepDepth == Inv /\ DepthInv /\ [Next]_vars => DepthInv'
<1> SUFFICES ASSUME Inv, DepthInv, [Next]_vars PROVE DepthInv'
  OBVIOUS
<1>1. CASE Refuse
  BY <1>1 DEF Refuse, DepthInv, Started
<1>2. CASE Start
  BY <1>2, StartDepth
<1>3. ASSUME NEW i \in DOMAIN input.edges, Discover(i) PROVE DepthInv'
  BY <1>3, DiscoverDepth
<1>4. CASE Pop
  BY <1>4, PopDepth
<1>5. CASE Searched
  BY <1>5, SameDepth DEF Searched, Started, PathsMeasured
<1>6. ASSUME NEW c \in reopened, StartPath(c) PROVE DepthInv'
  <2>1. c \in seen /\ path' = <<c>> /\ Len(path') = 1 /\ path'[1] = c
    BY <1>6 DEF StartPath, Inv, SearchInv, Started, ClaimsIn
  <2>2. \A depth \in [seen -> Nat] : PathsMeasured(depth) => PathsMeasured(depth)'
    BY <1>6, <2>1 DEF StartPath, PathsMeasured
  <2> QED
    BY <1>6, <2>2, SameDepth DEF DepthInv, StartPath, Started
<1>7. CASE WalkBack
  BY <1>7, WalkBackDepth
<1>8. CASE EndPath
  BY <1>8, EndPathDepth
<1>9. CASE Return
  BY <1>9, SameDepth DEF DepthInv, Return, Started, PathsMeasured
<1>10. CASE UNCHANGED vars
  BY <1>10 DEF vars, DepthInv, Started, BreadthFirst, PathsMeasured, Queued
<1> QED
  BY <1>1, <1>2, <1>3, <1>4, <1>5, <1>6, <1>7, <1>8, <1>9, <1>10 DEF Next

\* The least number stands in for induction along a path.
LEMMA Least ==
    ASSUME NEW T \in SUBSET Nat, T # {}
    PROVE  \E x \in T : \A y \in T : x <= y
<1>1. PICK x \in T : \A y \in T : ~(<<y, x>> \in OpToRel(<, Nat))
  BY NatLessThanWellFounded, WFMin
<1>2. \A y \in T : ~(y < x)
  BY <1>1, Zenon DEF OpToRel
<1> QED
  BY <1>2

\* When the search is over, the k-th node of any path from a root is at most k - 1 deep.
LEMMA PathsDeepen ==
    ASSUME Inv, DepthInv, stage \in {"trace", "done"},
           NEW depth \in [seen -> Nat], BreadthFirst(depth),
           NEW n \in Nat \ {0}, NEW p \in [1..n -> Nodes], p[1] \in Roots(input),
           \A k \in 1..n-1 : Edge(input, p[k], p[k+1])
    PROVE  p[n] \in seen /\ depth[p[n]] <= n - 1
<1> DEFINE Late == {k \in 1..n : ~(p[k] \in seen /\ depth[p[k]] <= k - 1)}
<1> SUFFICES ASSUME Late # {} PROVE FALSE
  <2>1. n \in 1..n
    OBVIOUS
  <2> QED
    BY <2>1
<1>1. PICK k \in Late : \A j \in Late : k <= j
  <2>1. Late \in SUBSET Nat
    OBVIOUS
  <2> HIDE DEF Late
  <2> QED
    BY <2>1, Least
<1>2. Started /\ Closed(input, seen) /\ queue = <<>> /\ Roots(input) \subseteq seen
  BY DEF DepthInv, Inv, SearchInv, Started
<1>3. k # 1
  BY <1>2 DEF DepthInv, BreadthFirst
<1>4. k - 1 \in 1..n-1 /\ p[k - 1] \in seen /\ depth[p[k - 1]] <= k - 2
  BY <1>1, <1>3
<1>5. Edge(input, p[k - 1], p[(k - 1) + 1])
  BY <1>4
<1>6. PICK i \in DOMAIN input.edges : input.edges[i] = <<p[k - 1], p[k]>>
  BY <1>5 DEF Edge
<1>7. p[k] \in seen
  <2>1. input.edges[i][1] = p[k - 1] /\ input.edges[i][2] = p[k]
    BY <1>6
  <2>2. \A e \in DOMAIN input.edges : input.edges[e][1] \in seen => input.edges[e][2] \in seen
    BY <1>2 DEF Closed
  <2> HIDE DEF Late
  <2> QED
    BY ONLY <1>4, <1>6, <2>1, <2>2
<1>8. depth[p[k]] <= depth[p[k - 1]] + 1
  <2>1. CASE p[k - 1] = source
    <3>1. source # NoNode
      BY <1>4, <2>1, NoNodeApart DEF Inv, TypeOK
    <3> QED
      BY <1>4, <1>7, <2>1, <3>1 DEF BreadthFirst
  <2>2. CASE p[k - 1] # source
    <3>1. ~Queued(p[k - 1])
      BY <1>2 DEF Queued
    <3>2. input.edges[i][1] = p[k - 1] /\ input.edges[i][2] = p[k]
      BY <1>6
    <3> QED
      BY <1>4, <2>2, <3>1, <3>2 DEF BreadthFirst
  <2> QED
    BY <2>1, <2>2
<1> QED
  BY <1>1, <1>4, <1>7, <1>8

\* The path reported for a reopened claim has as few edges as any declared path from
\* a changed root to it.
THEOREM PathsAreShortest == Spec => []ShortestPaths
<1>1. Init => DepthInv
  BY DEF Init, DepthInv, Started
<1>2. Inv /\ DepthInv => ShortestPaths
  <2> SUFFICES ASSUME Inv, DepthInv, NEW c \in DOMAIN paths, NEW n \in 1..Len(paths[c]) - 1,
                      NEW p \in [1..n -> Nodes], Explains(p, c)
               PROVE  FALSE
    BY DEF ShortestPaths
  <2>1. c \in reopened /\ paths[c] \in Seq(Nodes)
    BY DEF Inv, TypeOK
  <2>2. n \in Nat \ {0} /\ Len(p) = n /\ Len(paths[c]) \in Nat /\ n < Len(paths[c])
    BY <2>1
  <2>3. stage \in {"trace", "done"}
    BY DEF DepthInv
  <2>4. PICK depth \in [seen -> Nat] : BreadthFirst(depth) /\ PathsMeasured(depth)
    BY <2>3 DEF DepthInv, Started
  <2>5. p[1] \in Roots(input) /\ p[n] = c /\ \A k \in 1..n-1 : Edge(input, p[k], p[k+1])
    BY <2>2 DEF Explains
  <2>6. p[n] \in seen /\ depth[p[n]] <= n - 1
    BY <2>2, <2>3, <2>4, <2>5, PathsDeepen
  <2> QED
    BY <2>2, <2>4, <2>5, <2>6 DEF PathsMeasured
<1> QED
  BY <1>1, <1>2, StepDepth, Invariance, PTL DEF Spec
=============================================================================
