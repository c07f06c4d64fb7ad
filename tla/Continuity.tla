----------------------------- MODULE Continuity -----------------------------
(***************************************************************************)
(* analyze_continuity (openline_lite/continuity.py): a breadth-first       *)
(* search from the changed roots that remembers who reached whom, then a   *)
(* walk back from every reopened claim.  Edges whose target was seen       *)
(* before are passed over without a step.                                  *)
(***************************************************************************)
EXTENDS ReopeningInput

CONSTANTS NoNode,  \* None
          Pending, \* no answer yet
          Refused  \* ValueError

ASSUME NoNodeApart == NoNode \notin Nodes

VARIABLES input,       \* the declaration
          stage,       \* how far the function has come
          queue,       \* seen, and its edges not yet followed
          source,      \* the node whose edges are being followed
          seen,
          predecessor,
          reopened,
          path,        \* the walk back from one claim, in the order it is reported
          paths

vars == <<input, stage, queue, source, seen, predecessor, reopened, path, paths>>

TypeOK ==
    /\ Declared(input)
    /\ stage \in {"validate", "search", "trace", "done", "refused"}
    /\ queue \in Seq(Nodes)
    /\ source \in Nodes \cup {NoNode}
    /\ seen \subseteq Nodes
    /\ predecessor \in [seen -> seen \cup {NoNode}]
    /\ reopened \subseteq input.claims
    /\ path \in Seq(Nodes)
    /\ DOMAIN paths \subseteq reopened
    /\ \A c \in DOMAIN paths : paths[c] \in Seq(Nodes)

Init ==
    /\ input \in Inputs
    /\ stage = "validate"
    /\ queue = <<>>
    /\ source = NoNode
    /\ seen = {}
    /\ predecessor = [n \in {} |-> NoNode]
    /\ reopened = {}
    /\ path = <<>>
    /\ paths = [c \in {} |-> <<>>]

Refuse ==
    /\ stage = "validate"
    /\ ~Valid(input)
    /\ stage' = "refused"
    /\ UNCHANGED <<input, queue, source, seen, predecessor, reopened, path, paths>>

\* A deviation: a changed root that is itself a claim is not reopened.
StartBelow ==
    /\ stage = "validate"
    /\ Valid(input)
    /\ stage' = "search"
    /\ queue' = input.changed
    /\ seen' = Roots(input)
    /\ predecessor' = [r \in Roots(input) |-> NoNode]
    /\ reopened' = {}
    /\ UNCHANGED <<input, source, path, paths>>

Start ==
    /\ stage = "validate"
    /\ Valid(input)
    /\ stage' = "search"
    /\ queue' = input.changed
    /\ seen' = Roots(input)
    /\ predecessor' = [r \in Roots(input) |-> NoNode]
    /\ reopened' = ClaimsIn(input, Roots(input))
    /\ UNCHANGED <<input, source, path, paths>>

\* Edge i leads from the current source to a node not seen yet.
Fresh(i) == input.edges[i][1] = source /\ input.edges[i][2] \notin seen

Exhausted == \A i \in DOMAIN input.edges : ~Fresh(i)

\* A deviation: the node that is next in the queue is taken for who reached target.
ReachedFromFront(target) ==
    [n \in seen \cup {target} |->
        IF n \in seen THEN predecessor[n]
        ELSE IF queue = <<>> THEN source ELSE Head(queue)]

\* predecessor[target] = source
ReachedFromSource(target) ==
    [n \in seen \cup {target} |-> IF n \in seen THEN predecessor[n] ELSE source]

\* A deviation: a stack in place of the queue.
Push(q, target) == <<target>> \o q

Enqueue(q, target) == Append(q, target)

\* The first fresh edge in list order.
Discover(i) ==
    LET target == input.edges[i][2] IN
    /\ stage = "search"
    /\ Fresh(i)
    /\ \A j \in 1..i-1 : ~Fresh(j)
    /\ seen' = seen \cup {target}
    /\ predecessor' = ReachedFromSource(target)
    /\ queue' = Enqueue(queue, target)
    /\ reopened' = reopened \cup ClaimsIn(input, {target})
    /\ UNCHANGED <<input, stage, source, path, paths>>

\* A deviation: the front of the queue is read and stays there.
Peek ==
    /\ stage = "search"
    /\ Exhausted
    /\ queue # <<>>
    /\ source' = Head(queue)
    /\ UNCHANGED <<input, stage, queue, seen, predecessor, reopened, path, paths>>

Pop ==
    /\ stage = "search"
    /\ Exhausted
    /\ queue # <<>>
    /\ source' = Head(queue)
    /\ queue' = Tail(queue)
    /\ UNCHANGED <<input, stage, seen, predecessor, reopened, path, paths>>

Searched ==
    /\ stage = "search"
    /\ Exhausted
    /\ queue = <<>>
    /\ stage' = "trace"
    /\ UNCHANGED <<input, queue, source, seen, predecessor, reopened, path, paths>>

\* The claims are traced one after the other; each path stands for itself.
StartPath(c) ==
    /\ stage = "trace"
    /\ path = <<>>
    /\ c \in reopened \ DOMAIN paths
    /\ path' = <<c>>
    /\ UNCHANGED <<input, stage, queue, source, seen, predecessor, reopened, paths>>

WalkBack ==
    /\ stage = "trace"
    /\ path # <<>>
    /\ predecessor[Head(path)] # NoNode
    /\ path' = <<predecessor[Head(path)]>> \o path
    /\ UNCHANGED <<input, stage, queue, source, seen, predecessor, reopened, paths>>

EndPath ==
    /\ stage = "trace"
    /\ path # <<>>
    /\ predecessor[Head(path)] = NoNode
    /\ paths' = [c \in DOMAIN paths \cup {path[Len(path)]} |->
                    IF c \in DOMAIN paths THEN paths[c] ELSE path]
    /\ path' = <<>>
    /\ UNCHANGED <<input, stage, queue, source, seen, predecessor, reopened>>

Return ==
    /\ stage = "trace"
    /\ path = <<>>
    /\ DOMAIN paths = reopened
    /\ stage' = "done"
    /\ UNCHANGED <<input, queue, source, seen, predecessor, reopened, path, paths>>

Next ==
    \/ Refuse
    \/ Start
    \/ \E i \in DOMAIN input.edges : Discover(i)
    \/ Pop
    \/ Searched
    \/ \E c \in reopened : StartPath(c)
    \/ WalkBack
    \/ EndPath
    \/ Return

\* One call, which the interpreter runs to its end.
Spec == Init /\ [][Next]_vars /\ WF_vars(Next)

----------------------------------------------------------------------------
(* Properties.                                                             *)

Finished == stage = "done"

\* What the caller has seen of the call.
Answered ==
    IF Finished THEN Result(input, reopened)
    ELSE IF stage = "refused" THEN Refused ELSE Pending

Promise == INSTANCE Reopening WITH answer <- Answered

\* The search reopens exactly the claims that descend from a changed root, whatever
\* cycles, duplicate edges and intermediate nodes the declaration has, withholds
\* the evidence of the required ones, and refuses what does not validate.
ImplementsReopening == Promise!Spec

\* Every reported path is an explanation: it starts at a changed root, follows
\* declared edges and ends in the reopened claim it is reported for.
Explains(p, c) ==
    /\ p # <<>>
    /\ p[1] \in Roots(input)
    /\ p[Len(p)] = c
    /\ \A i \in 1..Len(p)-1 : Edge(input, p[i], p[i+1])

PathsExplain ==
    Finished => DOMAIN paths = reopened /\ \A c \in reopened : Explains(paths[c], c)

\* No declared path from a changed root to a claim is shorter than the one reported.
ShortestPaths ==
    \A c \in DOMAIN paths : \A n \in 1..Len(paths[c]) - 1 :
        \A p \in [1..n -> Nodes] : ~Explains(p, c)

\* The call returns, whatever cycles the declaration has.
Terminates == <>(stage \in {"done", "refused"})
=============================================================================
