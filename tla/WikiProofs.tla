------------------------------ MODULE WikiProofs ------------------------------
(***************************************************************************)
(* Proofs about Wiki for all processes, pages, sources and declarations,   *)
(* and any number of edits and commands.                                   *)
(***************************************************************************)
EXTENDS Wiki, WellFoundedInduction, TLAPS

----------------------------------------------------------------------------
(* Operators.                                                              *)

LEMMA FirstIn ==
    ASSUME NEW S \in SUBSET Nat, S # {}
    PROVE  First(S) \in S
<1>1. PICK x \in S : \A y \in S : ~(<<y, x>> \in OpToRel(<, Nat))
  BY NatLessThanWellFounded, WFMin
<1>2. \A y \in S : ~(y < x)
  BY <1>1, Zenon DEF OpToRel
<1>3. \E z \in S : \A y \in S : z <= y
  BY <1>2
<1> QED
  BY <1>3 DEF First

LEMMA ExtendValues ==
    ASSUME NEW f, NEW x, NEW v
    PROVE  /\ DOMAIN Extend(f, x, v) = DOMAIN f \cup {x}
           /\ \A y \in DOMAIN f : y # x => Extend(f, x, v)[y] = f[y]
           /\ Extend(f, x, v)[x] = v
BY DEF Extend

\* Partial functions: what Extend makes of one is one.
LEMMA ExtendTyped ==
    ASSUME NEW X, NEW V, NEW f \in UNION {[Q -> V] : Q \in SUBSET X}, NEW x \in X, NEW v \in V
    PROVE  Extend(f, x, v) \in UNION {[Q -> V] : Q \in SUBSET X}
<1>1. PICK Q \in SUBSET X : f \in [Q -> V]
  OBVIOUS
<1>2. Q \cup {x} \in SUBSET X
  OBVIOUS
<1>3. Extend(f, x, v) \in [Q \cup {x} -> V]
  BY <1>1 DEF Extend
<1> QED
  BY <1>2, <1>3

LEMMA EmptyFunction ==
    ASSUME NEW X, NEW V
    PROVE  /\ <<>> \in UNION {[Q -> V] : Q \in SUBSET X}
           /\ \A f \in UNION {[Q -> V] : Q \in SUBSET X} : DOMAIN f = {} <=> f = <<>>
<1>1. DOMAIN <<>> = {}
  OBVIOUS
<1>2. <<>> \in [{} -> V]
  OBVIOUS
<1>3. \A f \in [{} -> V] : f = <<>>
  BY <1>1, <1>2
<1> QED
  BY <1>1, <1>2, <1>3

----------------------------------------------------------------------------
(* The invariant.                                                          *)

Scanning == {"scan", "scan page", "scan sources", "read source", "scanned"}
Watching == Scanning \cup {"record page", "record sources", "sidecar open"}
OnPage == {"scan page", "scan sources", "read source"}
OnSources == {"scan sources", "read source"}

\* Held, of a job j that saw h.
Saw(j, q, r, h) ==
    /\ <<<<"wiki", q>>, r.page>> \in h
    /\ \A s \in DOMAIN r.sources : <<<<j.dir, s>>, r.sources[s]>> \in h

\* The standings reached, and what each RETAIN rests on.
Founded(j, h) ==
    /\ DOMAIN j.used = DOMAIN j.found
    /\ \A q \in DOMAIN j.found : j.found[q] = "RETAIN" =>
          /\ j.used[q] \in Record /\ j.used[q].complete /\ j.used[q].sources # <<>>
          /\ Saw(j, q, j.used[q], h)

\* A process at c with job j that saw h.
Local(c, j, h) ==
    /\ c = "idle" => j = None
    /\ c # "idle" => j \in Job /\ Founded(j, h)
    /\ c \in {"record page", "record sources", "sidecar open"} \cup OnPage => j.page \in Pages
    /\ c \in {"record sources", "sidecar open"} =>
          j.record \in Record /\ Saw(j, j.page, j.record, h)
    /\ c = "record page" => j.todo = j.declared
    /\ c \in {"record sources", "sidecar open"} => j.declared = DOMAIN j.record.sources \cup j.todo
    /\ c = "sidecar open" => j.todo = {}
    /\ c \in OnPage => j.record \in Record
    /\ c \in OnSources =>
          /\ j.record.complete /\ j.record.sources # <<>>
          /\ <<<<"wiki", j.page>>, j.record.page>> \in h
          /\ \/ j.changed
             \/ \A s \in DOMAIN j.record.sources \ j.todo :
                   <<<<j.dir, s>>, j.record.sources[s]>> \in h
    /\ c = "read source" => j.todo # {}
    /\ c = "scanned" => j.rest = {}

\* StandingOf, of pages, sources and sidecars given.
StandingIn(dir, q, pages, sources, side) ==
    LET r == side[q] IN
    IF r \in {Absent, Torn} THEN "UNDETERMINED"
    ELSE IF r.page # pages[q] \/ ~r.complete \/ r.sources = <<>> THEN "UNDETERMINED"
    ELSE IF \A s \in DOMAIN r.sources : sources[<<dir, s>>] = r.sources[s]
    THEN "RETAIN" ELSE "REOPEN"

Present(pages) == {q \in Pages : pages[q] # Absent}

\* A scan nobody disturbed: standings so far are exact, and on the page in hand
\* changed says whether a source read so far differs.
ExactIn(c, j, pages, sources, side) ==
    LET done == (Present(pages) \ j.rest) \ (IF c \in OnPage THEN {j.page} ELSE {})
    IN c \in Scanning =>
        /\ j.rest \subseteq Present(pages)
        /\ DOMAIN j.found = done
        /\ \A q \in done : j.found[q] = StandingIn(j.dir, q, pages, sources, side)
        /\ c \in {"scan", "scan page"} => ~j.changed
        /\ c \in OnPage =>
              /\ j.page \in Present(pages) \ j.rest
              /\ side[j.page] \notin {Absent, Torn} /\ side[j.page] = j.record
        /\ c \in OnSources =>
              /\ pages[j.page] = j.record.page
              /\ j.todo \subseteq DOMAIN j.record.sources
              /\ j.changed <=> \E s \in DOMAIN j.record.sources \ j.todo :
                                  sources[<<j.dir, s>>] # j.record.sources[s]

Exact(c, j) == ExactIn(c, j, pageFile, sourceFile, sidecar)

LocalInv == \A p \in Procs : Local(pc[p], job[p], held[p])
TreeSeen == \A p \in Procs : pc[p] \in Watching => Tree \subseteq held[p]
ExactInv == \A p \in Procs : quiet[p] => Exact(pc[p], job[p])

IInv == TypeOK /\ LocalInv /\ TreeSeen /\ ExactInv

\* A process may see more.
LEMMA LocalGrows ==
    ASSUME NEW c, NEW j, NEW h, NEW g, h \subseteq g, Local(c, j, h)
    PROVE  Local(c, j, g)
BY DEF Local, Founded, Saw

LEMMA InitInv == Init => IInv
<1> SUFFICES ASSUME Init PROVE IInv
  OBVIOUS
<1>1. TypeOK
  BY WikiConstants DEF Init, TypeOK, Points, File
<1>2. LocalInv /\ TreeSeen /\ ExactInv
  BY DEF Init, LocalInv, Local, TreeSeen, ExactInv, Watching, Scanning, OnPage, OnSources
<1> QED
  BY <1>1, <1>2 DEF IInv

LEMMA TreeTyped ==
    ASSUME TypeOK
    PROVE  /\ Tree \subseteq Paths \X File
           /\ \A q \in Pages : <<<<"wiki", q>>, pageFile[q]>> \in Tree
           /\ \A d \in Dirs, s \in Sources : <<<<d, s>>, sourceFile[<<d, s>>]>> \in Tree
<1>1. \A q \in Pages : <<<<"wiki", q>>, pageFile[q]>> \in Paths \X File
  BY DEF TypeOK, Paths
<1>2. \A f \in Dirs \X Sources : <<f, sourceFile[f]>> \in Paths \X File
  BY DEF TypeOK, Paths
<1> QED
  BY <1>1, <1>2 DEF Tree

\* One process takes a step, and neither page nor source changes.
LEMMA ProcessStep ==
    ASSUME IInv, NEW p \in Procs, NEW c \in Points, NEW j \in Job \cup {None},
           NEW h \in SUBSET (Paths \X File),
           pc' = [pc EXCEPT ![p] = c], job' = [job EXCEPT ![p] = j],
           held' = [held EXCEPT ![p] = h], UNCHANGED tree,
           Local(c, j, h), c \in Watching => Tree \subseteq h
    PROVE  /\ pc' \in [Procs -> Points] /\ job' \in [Procs -> Job \cup {None}]
           /\ held' \in [Procs -> SUBSET (Paths \X File)]
           /\ LocalInv' /\ TreeSeen'
<1>1. /\ pc \in [Procs -> Points] /\ job \in [Procs -> Job \cup {None}]
      /\ held \in [Procs -> SUBSET (Paths \X File)]
  BY DEF IInv, TypeOK
<1>2. /\ pc' \in [Procs -> Points] /\ job' \in [Procs -> Job \cup {None}]
      /\ held' \in [Procs -> SUBSET (Paths \X File)]
  BY <1>1
<1>3. \A r \in Procs : /\ pc'[r] = IF r = p THEN c ELSE pc[r]
                       /\ job'[r] = IF r = p THEN j ELSE job[r]
                       /\ held'[r] = IF r = p THEN h ELSE held[r]
  BY <1>1
<1>4. \A r \in Procs : Local(pc'[r], job'[r], held'[r])
  BY <1>3 DEF IInv, LocalInv
<1>5. Tree' = Tree
  BY DEF Tree, tree
<1>6. TreeSeen'
  BY <1>3, <1>5 DEF IInv, TreeSeen
<1> QED
  BY <1>2, <1>4, <1>6 DEF LocalInv

\* The same for undisturbed scans.
LEMMA ExactStep ==
    ASSUME IInv, NEW p \in Procs, NEW c, NEW j,
           pc' = [pc EXCEPT ![p] = c], job' = [job EXCEPT ![p] = j],
           UNCHANGED <<tree, sidecar>>,
           \A r \in Procs : r # p /\ quiet'[r] => quiet[r],
           quiet'[p] => Exact(c, j)
    PROVE  ExactInv'
<1>1. pc \in [Procs -> Points] /\ job \in [Procs -> Job \cup {None}]
  BY DEF IInv, TypeOK
<1>2. \A r \in Procs : /\ pc'[r] = IF r = p THEN c ELSE pc[r]
                       /\ job'[r] = IF r = p THEN j ELSE job[r]
  BY <1>1
<1>3. ASSUME NEW r \in Procs, quiet'[r] PROVE Exact(pc[r], job[r])'
  <2>1. Exact(IF r = p THEN c ELSE pc[r], IF r = p THEN j ELSE job[r])
    BY <1>3 DEF IInv, ExactInv
  <2>2. Exact(pc'[r], job'[r])
    BY <1>2, <2>1
  <2> QED
    BY <2>2 DEF Exact, tree
<1> QED
  BY <1>3 DEF ExactInv

\* When pages, sources or sidecars change, no scan under way is undisturbed.
LEMMA Disturbed ==
    ASSUME quiet' = [r \in Procs |-> FALSE]
    PROVE  ExactInv' /\ quiet' \in [Procs -> BOOLEAN]
BY DEF ExactInv
\* A process whose job is over.
LEMMA IdleStep ==
    ASSUME IInv, NEW p \in Procs, Idle(p), UNCHANGED tree
    PROVE  /\ pc' \in [Procs -> Points] /\ job' \in [Procs -> Job \cup {None}]
           /\ held' \in [Procs -> SUBSET (Paths \X File)]
           /\ LocalInv' /\ TreeSeen'
           /\ UNCHANGED <<sidecar, quiet>> => ExactInv'
<1>1. Local("idle", None, {})
  BY DEF Local, OnPage, OnSources
<1>2. "idle" \notin Watching /\ "idle" \in Points
  BY DEF Watching, Scanning, Points
<1>3. Exact("idle", None)
  BY DEF Exact, ExactIn, Scanning
<1>4. ASSUME UNCHANGED <<sidecar, quiet>> PROVE ExactInv'
  BY <1>3, <1>4, ExactStep DEF Idle
<1>5. /\ pc' = [pc EXCEPT ![p] = "idle"] /\ job' = [job EXCEPT ![p] = None]
      /\ held' = [held EXCEPT ![p] = {}]
  BY DEF Idle
<1> QED
  BY <1>1, <1>2, <1>4, <1>5, ProcessStep

----------------------------------------------------------------------------
(* Jobs.                                                                   *)

LEMMA NewJobTyped ==
    ASSUME NEW dir \in Dirs, NEW page \in Pages \cup {None}, NEW todo \in SUBSET Sources,
           NEW rest \in SUBSET Pages, NEW complete \in BOOLEAN
    PROVE  NewJob(dir, page, todo, rest, complete) \in Job
<1>1. <<>> \in UNION {[Q -> Standings] : Q \in SUBSET Pages}
  <2>1. <<>> \in [{} -> Standings] /\ {} \in SUBSET Pages
    OBVIOUS
  <2> QED
    BY <2>1
<1>2. <<>> \in UNION {[Q -> Record \cup {None}] : Q \in SUBSET Pages}
  <2>1. <<>> \in [{} -> Record \cup {None}] /\ {} \in SUBSET Pages
    OBVIOUS
  <2> QED
    BY <2>1
<1> QED
  BY <1>1, <1>2 DEF NewJob, Job

LEMMA NewJobFounded ==
    ASSUME NEW dir, NEW page, NEW todo, NEW rest, NEW complete, NEW h
    PROVE  Founded(NewJob(dir, page, todo, rest, complete), h)
<1>1. DOMAIN <<>> = {}
  OBVIOUS
<1> QED
  BY <1>1 DEF NewJob, Founded

LEMMA StandTyped ==
    ASSUME NEW j \in Job, j.page \in Pages, NEW standing \in Standings
    PROVE  /\ Stand(j, standing) \in Job
           /\ Stand(j, standing).dir = j.dir /\ Stand(j, standing).rest = j.rest
           /\ Stand(j, standing).changed = FALSE
           /\ Stand(j, standing).found = Extend(j.found, j.page, standing)
           /\ Stand(j, standing).used = Extend(j.used, j.page, j.record)
<1>1. Extend(j.found, j.page, standing) \in UNION {[Q -> Standings] : Q \in SUBSET Pages}
  BY ExtendTyped DEF Job
<1>2. Extend(j.used, j.page, j.record)
          \in UNION {[Q -> Record \cup {None}] : Q \in SUBSET Pages}
  BY ExtendTyped, ZenonT(60) DEF Job
<1> HIDE DEF Extend
<1> QED
  BY <1>1, <1>2 DEF Stand, Job

LEMMA StandFounded ==
    ASSUME NEW j \in Job, j.page \in Pages, NEW standing \in Standings, NEW h, Founded(j, h),
           standing = "RETAIN" =>
              /\ j.record \in Record /\ j.record.complete /\ j.record.sources # <<>>
              /\ Saw(j, j.page, j.record, h)
    PROVE  Founded(Stand(j, standing), h)
<1> DEFINE k == Stand(j, standing)
<1>1. /\ k.dir = j.dir
      /\ k.found = Extend(j.found, j.page, standing)
      /\ k.used = Extend(j.used, j.page, j.record)
  BY StandTyped
<1>2. /\ DOMAIN k.found = DOMAIN j.found \cup {j.page}
      /\ DOMAIN k.used = DOMAIN j.used \cup {j.page}
      /\ k.found[j.page] = standing /\ k.used[j.page] = j.record
      /\ \A q \in DOMAIN j.found : q # j.page => k.found[q] = j.found[q]
      /\ \A q \in DOMAIN j.used : q # j.page => k.used[q] = j.used[q]
  <2> HIDE DEF k
  <2>1. /\ DOMAIN k.found = DOMAIN j.found \cup {j.page} /\ k.found[j.page] = standing
        /\ \A q \in DOMAIN j.found : q # j.page => k.found[q] = j.found[q]
    BY <1>1 DEF Extend
  <2>2. /\ DOMAIN k.used = DOMAIN j.used \cup {j.page} /\ k.used[j.page] = j.record
        /\ \A q \in DOMAIN j.used : q # j.page => k.used[q] = j.used[q]
    BY <1>1 DEF Extend
  <2> QED
    BY <2>1, <2>2
<1> HIDE DEF k
<1>3. DOMAIN k.used = DOMAIN k.found
  BY <1>2 DEF Founded
<1>4. ASSUME NEW q \in DOMAIN k.found, k.found[q] = "RETAIN"
      PROVE  /\ k.used[q] \in Record /\ k.used[q].complete /\ k.used[q].sources # <<>>
             /\ Saw(k, q, k.used[q], h)
  <2>1. CASE q = j.page
    BY <1>1, <1>2, <1>4, <2>1 DEF Saw
  <2>2. CASE q # j.page
    BY <1>1, <1>2, <1>4, <2>2 DEF Saw, Founded
  <2> QED
    BY <2>1, <2>2
<1>5. Founded(k, h)
  BY <1>3, <1>4 DEF Founded
<1> QED
  BY <1>5 DEF k

\* A source is added to the record being made.
LEMMA RecordExtended ==
    ASSUME NEW r \in Record, NEW s \in Sources, NEW v \in Contents
    PROVE  /\ [r EXCEPT !.sources = Extend(@, s, v)] \in Record
           /\ DOMAIN [r EXCEPT !.sources = Extend(@, s, v)].sources = DOMAIN r.sources \cup {s}
           /\ \A j, q, h : Saw(j, q, r, h) /\ <<<<j.dir, s>>, v>> \in h
                 => Saw(j, q, [r EXCEPT !.sources = Extend(@, s, v)], h)
<1> DEFINE f == Extend(r.sources, s, v)
           e == [r EXCEPT !.sources = f]
<1>1. f \in UNION {[S -> Contents] : S \in SUBSET Sources}
  BY ExtendTyped DEF Record
<1>2. /\ DOMAIN f = DOMAIN r.sources \cup {s} /\ f[s] = v
      /\ \A y \in DOMAIN r.sources : y # s => f[y] = r.sources[y]
  BY DEF Extend
<1> HIDE DEF f
<1>3. e \in Record /\ e.page = r.page /\ e.sources = f
  BY <1>1 DEF Record
<1> HIDE DEF e
<1>4. ASSUME NEW j, NEW q, NEW h, Saw(j, q, r, h), <<<<j.dir, s>>, v>> \in h
      PROVE  Saw(j, q, e, h)
  <2>1. \A y \in DOMAIN r.sources : <<<<j.dir, y>>, r.sources[y]>> \in h
    BY <1>4 DEF Saw
  <2>2. ASSUME NEW y \in DOMAIN f PROVE <<<<j.dir, y>>, f[y]>> \in h
    <3>1. CASE y = s
      BY <1>2, <1>4, <3>1
    <3>2. CASE y # s
      BY <1>2, <2>1, <3>2
    <3> QED
      BY <3>1, <3>2
  <2>3. <<<<"wiki", q>>, e.page>> \in h
    BY <1>3, <1>4 DEF Saw
  <2> QED
    BY <1>3, <2>2, <2>3 DEF Saw
<1>5. DOMAIN e.sources = DOMAIN r.sources \cup {s}
  BY <1>2, <1>3
<1> QED
  BY <1>3, <1>4, <1>5 DEF e, f

\* Each source of a record is a source.
LEMMA RecordSources ==
    ASSUME NEW r \in Record
    PROVE  DOMAIN r.sources \in SUBSET Sources /\ (DOMAIN r.sources = {} <=> r.sources = <<>>)
<1> DEFINE f == r.sources
<1>1. f \in UNION {[S -> Contents] : S \in SUBSET Sources}
  BY DEF Record
<1> HIDE DEF f
<1>2. DOMAIN f \in SUBSET Sources
  BY <1>1
<1>3. DOMAIN f = {} <=> f = <<>>
  BY <1>1, EmptyFunction
<1> QED
  BY <1>2, <1>3 DEF f
----------------------------------------------------------------------------
(* Steps.                                                                  *)

\* A process goes on, and nothing anybody shares changes.
LEMMA GoOn ==
    ASSUME IInv, NEW p \in Procs, NEW c \in Points, NEW j \in Job,
           pc' = [pc EXCEPT ![p] = c], job' = [job EXCEPT ![p] = j],
           UNCHANGED <<config, tree, sidecar, edits, runs, held, quiet>>,
           Local(c, j, held[p]), c \in Watching => pc[p] \in Watching,
           Exact(pc[p], job[p]) => Exact(c, j)
    PROVE  IInv'
<1>1. held \in [Procs -> SUBSET (Paths \X File)] /\ quiet \in [Procs -> BOOLEAN]
  BY DEF IInv, TypeOK
<1>2. held' = [held EXCEPT ![p] = held[p]] /\ held[p] \in SUBSET (Paths \X File)
  BY <1>1
<1>3. c \in Watching => Tree \subseteq held[p]
  BY DEF IInv, TreeSeen
<1>4. /\ pc' \in [Procs -> Points] /\ job' \in [Procs -> Job \cup {None}]
      /\ held' \in [Procs -> SUBSET (Paths \X File)]
      /\ LocalInv' /\ TreeSeen'
  BY <1>2, <1>3, ProcessStep
<1>5. quiet'[p] => Exact(c, j)
  BY DEF IInv, ExactInv
<1>6. ExactInv'
  BY <1>5, ExactStep
<1>7. TypeOK'
  BY <1>1, <1>4 DEF IInv, TypeOK, tree
<1> QED
  BY <1>4, <1>6, <1>7 DEF IInv

\* A process ends without writing a sidecar.
LEMMA GoHome ==
    ASSUME IInv, NEW p \in Procs, Idle(p), UNCHANGED <<tree, sidecar, edits, runs, quiet>>,
           config' \in Dirs \cup {Absent, Torn}
    PROVE  IInv'
<1>1. /\ pc' \in [Procs -> Points] /\ job' \in [Procs -> Job \cup {None}]
      /\ held' \in [Procs -> SUBSET (Paths \X File)]
      /\ LocalInv' /\ TreeSeen' /\ ExactInv'
  BY IdleStep
<1>2. TypeOK'
  BY <1>1 DEF IInv, TypeOK, tree
<1> QED
  BY <1>1, <1>2 DEF IInv

LEMMA ExitInv ==
    ASSUME IInv, NEW p \in Procs, Exit(p)
    PROVE  IInv'
BY GoHome DEF Exit, IInv, TypeOK

LEMMA WriteConfigInv ==
    ASSUME IInv, NEW p \in Procs, WriteConfig(p)
    PROVE  IInv'
<1>1. Local(pc[p], job[p], held[p]) /\ pc[p] = "config open"
  BY DEF IInv, LocalInv, WriteConfig
<1>2. job[p].dir \in Dirs
  BY <1>1 DEF Local, Job
<1>3. config' \in Dirs \cup {Absent, Torn}
  BY <1>2 DEF WriteConfig
<1> QED
  BY <1>3, GoHome DEF WriteConfig

LEMMA OpenConfigInv ==
    ASSUME IInv, NEW p \in Procs, OpenConfig(p)
    PROVE  IInv'
<1> DEFINE c == "config open"
<1>1. /\ pc \in [Procs -> Points] /\ job \in [Procs -> Job \cup {None}]
      /\ held \in [Procs -> SUBSET (Paths \X File)] /\ quiet \in [Procs -> BOOLEAN]
  BY DEF IInv, TypeOK
<1>2. Local(pc[p], job[p], held[p]) /\ pc[p] = "init"
  BY DEF IInv, LocalInv, OpenConfig
<1>3. job[p] \in Job /\ Local(c, job[p], held[p])
  BY <1>2 DEF Local, OnPage, OnSources
<1>4. c \in Points /\ c \notin Watching
  BY DEF Points, Watching, Scanning
<1>5. /\ pc' = [pc EXCEPT ![p] = c] /\ job' = [job EXCEPT ![p] = job[p]]
      /\ held' = [held EXCEPT ![p] = held[p]]
      /\ UNCHANGED <<tree, sidecar, edits, runs, quiet>> /\ config' = Torn
  BY <1>1 DEF OpenConfig
<1> HIDE DEF c
<1>6. /\ pc' \in [Procs -> Points] /\ job' \in [Procs -> Job \cup {None}]
      /\ held' \in [Procs -> SUBSET (Paths \X File)]
      /\ LocalInv' /\ TreeSeen'
  BY <1>1, <1>3, <1>4, <1>5, ProcessStep
<1>7. Exact(c, job[p])
  BY DEF c, Exact, ExactIn, Scanning
<1>8. ExactInv'
  BY <1>5, <1>7, ExactStep
<1>9. TypeOK'
  BY <1>1, <1>5, <1>6 DEF IInv, TypeOK, tree
<1> QED
  BY <1>6, <1>8, <1>9 DEF IInv

LEMMA BeginInitInv ==
    ASSUME IInv, NEW p \in Procs, NEW dir \in Dirs, NEW force \in BOOLEAN,
           BeginInit(p, dir, force)
    PROVE  IInv'
<1> DEFINE c == "init"
           j == NewJob(dir, None, {}, {}, FALSE)
<1>1. /\ pc \in [Procs -> Points] /\ job \in [Procs -> Job \cup {None}]
      /\ held \in [Procs -> SUBSET (Paths \X File)] /\ quiet \in [Procs -> BOOLEAN]
  BY DEF IInv, TypeOK
<1>2. j \in Job /\ Founded(j, held[p])
  BY NewJobTyped, NewJobFounded
<1>3. /\ pc' = [pc EXCEPT ![p] = c] /\ job' = [job EXCEPT ![p] = j]
      /\ held' = [held EXCEPT ![p] = held[p]]
      /\ UNCHANGED <<config, tree, sidecar, edits, quiet>>
      /\ runs' \in 0..MaxRuns
  BY <1>1, WikiConstants DEF BeginInit, IInv, TypeOK
<1> HIDE DEF j
<1>4. Local(c, j, held[p])
  BY <1>2 DEF Local, OnPage, OnSources
<1>5. c \in Points /\ c \notin Watching
  BY DEF Points, Watching, Scanning
<1>6. Exact(c, j)
  BY DEF Exact, ExactIn, Scanning
<1> HIDE DEF c
<1>7. /\ pc' \in [Procs -> Points] /\ job' \in [Procs -> Job \cup {None}]
      /\ held' \in [Procs -> SUBSET (Paths \X File)]
      /\ LocalInv' /\ TreeSeen'
  BY <1>1, <1>2, <1>3, <1>4, <1>5, ProcessStep
<1>8. ExactInv'
  BY <1>3, <1>6, ExactStep
<1>9. TypeOK'
  BY <1>1, <1>3, <1>7 DEF IInv, TypeOK, tree
<1> QED
  BY <1>7, <1>8, <1>9 DEF IInv
\* An editor changes one file of the tree.
LEMMA SeenStep ==
    ASSUME IInv, NEW f \in Paths, NEW c \in File, Seen(f, c), UNCHANGED <<pc, job>>,
           Tree # {}, Tree' \subseteq Tree \cup {<<f, c>>}
    PROVE  /\ held' \in [Procs -> SUBSET (Paths \X File)]
           /\ quiet' \in [Procs -> BOOLEAN]
           /\ LocalInv' /\ TreeSeen' /\ ExactInv'
<1>1. held \in [Procs -> SUBSET (Paths \X File)]
  BY DEF IInv, TypeOK
<1>2. \A r \in Procs : held'[r] = IF held[r] = {} THEN {} ELSE held[r] \cup {<<f, c>>}
  BY DEF Seen
<1>3. held' \in [Procs -> SUBSET (Paths \X File)]
  BY <1>1 DEF Seen
<1>4. \A r \in Procs : Local(pc[r], job[r], held'[r])
  <2> TAKE r \in Procs
  <2>1. held[r] \subseteq held'[r]
    BY <1>2
  <2>2. Local(pc[r], job[r], held[r])
    BY DEF IInv, LocalInv
  <2> QED
    BY <2>1, <2>2, LocalGrows
<1>5. TreeSeen'
  BY <1>2 DEF IInv, TreeSeen
<1>6. ExactInv' /\ quiet' \in [Procs -> BOOLEAN]
  BY Disturbed DEF Seen
<1> QED
  BY <1>3, <1>4, <1>5, <1>6 DEF LocalInv

LEMMA EditPageInv ==
    ASSUME IInv, NEW q \in Pages, NEW c \in File, EditPage(q, c)
    PROVE  IInv'
<1>1. TypeOK
  BY DEF IInv
<1>2. pageFile' \in [Pages -> File] /\ edits' \in 0..MaxEdits
  BY <1>1, WikiConstants DEF TypeOK, EditPage
<1>3. <<"wiki", q>> \in Paths
  BY DEF Paths
<1>4. Tree # {}
  BY <1>1, TreeTyped
<1>5. \A r \in Pages : pageFile'[r] = IF r = q THEN c ELSE pageFile[r]
  BY <1>1 DEF TypeOK, EditPage
<1>6. sourceFile' = sourceFile
  BY DEF EditPage
<1>7. Tree' \subseteq Tree \cup {<<<<"wiki", q>>, c>>}
  BY <1>5, <1>6 DEF Tree
<1>8. /\ held' \in [Procs -> SUBSET (Paths \X File)] /\ quiet' \in [Procs -> BOOLEAN]
      /\ LocalInv' /\ TreeSeen' /\ ExactInv'
  BY <1>3, <1>4, <1>7, SeenStep DEF EditPage
<1>9. TypeOK'
  BY <1>1, <1>2, <1>8 DEF TypeOK, EditPage
<1> QED
  BY <1>8, <1>9 DEF IInv

LEMMA EditSourceInv ==
    ASSUME IInv, NEW f \in Dirs \X Sources, NEW c \in File, EditSource(f, c)
    PROVE  IInv'
<1>1. TypeOK
  BY DEF IInv
<1>2. sourceFile' \in [Dirs \X Sources -> File] /\ edits' \in 0..MaxEdits
  BY <1>1, WikiConstants DEF TypeOK, EditSource
<1>3. f \in Paths
  BY DEF Paths
<1>4. Tree # {}
  BY DEF Tree
<1>5. \A r \in Dirs \X Sources : sourceFile'[r] = IF r = f THEN c ELSE sourceFile[r]
  BY <1>1 DEF TypeOK, EditSource
<1>6. pageFile' = pageFile
  BY DEF EditSource
<1>7. Tree' \subseteq Tree \cup {<<f, c>>}
  BY <1>5, <1>6 DEF Tree
<1>8. /\ held' \in [Procs -> SUBSET (Paths \X File)] /\ quiet' \in [Procs -> BOOLEAN]
      /\ LocalInv' /\ TreeSeen' /\ ExactInv'
  BY <1>3, <1>4, <1>7, SeenStep DEF EditSource
<1>9. TypeOK'
  BY <1>1, <1>2, <1>8 DEF TypeOK, EditSource
<1> QED
  BY <1>8, <1>9 DEF IInv

\* A record or a scan begins: the process has seen the tree as it is.
LEMMA Starts ==
    ASSUME IInv, NEW p \in Procs, NEW c \in Points, NEW j \in Job,
           pc' = [pc EXCEPT ![p] = c], job' = [job EXCEPT ![p] = j],
           Started(p), UNCHANGED <<config, tree, sidecar, edits>>, runs' \in 0..MaxRuns,
           Local(c, j, Tree), Exact(c, j)
    PROVE  IInv'
<1>1. TypeOK
  BY DEF IInv
<1>2. Tree \in SUBSET (Paths \X File)
  BY <1>1, TreeTyped
<1>3. held' = [held EXCEPT ![p] = Tree] /\ quiet' = [quiet EXCEPT ![p] = TRUE]
  BY DEF Started
<1>4. /\ pc' \in [Procs -> Points] /\ job' \in [Procs -> Job \cup {None}]
      /\ held' \in [Procs -> SUBSET (Paths \X File)]
      /\ LocalInv' /\ TreeSeen'
  BY <1>2, <1>3, ProcessStep
<1>5. \A r \in Procs : r # p /\ quiet'[r] => quiet[r]
  BY <1>1, <1>3 DEF TypeOK
<1>6. ExactInv'
  BY <1>5, ExactStep
<1>7. TypeOK'
  BY <1>1, <1>3, <1>4 DEF TypeOK, tree
<1> QED
  BY <1>4, <1>6, <1>7 DEF IInv

LEMMA BeginRecordInv ==
    ASSUME IInv, NEW p \in Procs, NEW q \in Pages, NEW declared \in Declarations,
           BeginRecord(p, q, declared)
    PROVE  IInv'
<1> DEFINE c == "record page"
           j == NewJob(config, q, declared.sources, {}, declared.complete)
<1>1. declared.sources \in SUBSET Sources /\ declared.complete \in BOOLEAN
  BY WikiConstants
<1>2. j \in Job /\ Founded(j, Tree)
  BY <1>1, NewJobTyped, NewJobFounded DEF BeginRecord
<1>3. j.page \in Pages /\ j.todo = j.declared
  BY DEF NewJob
<1>4. /\ pc' = [pc EXCEPT ![p] = c] /\ job' = [job EXCEPT ![p] = j]
      /\ Started(p) /\ UNCHANGED <<config, tree, sidecar, edits>>
  BY DEF BeginRecord
<1> HIDE DEF j
<1>5. runs' \in 0..MaxRuns
  <2>1. runs \in 0..MaxRuns /\ MaxRuns \in Nat
    BY WikiConstants DEF IInv, TypeOK
  <2>2. runs < MaxRuns /\ runs' = runs + 1
    BY DEF BeginRecord
  <2> QED
    BY <2>1, <2>2
<1>6. Local(c, j, Tree)
  BY <1>2, <1>3 DEF Local, OnPage, OnSources
<1>7. c \in Points /\ Exact(c, j)
  BY DEF Points, Exact, ExactIn, Scanning
<1> HIDE DEF c
<1> QED
  BY <1>2, <1>4, <1>5, <1>6, <1>7, Starts

LEMMA BeginScanInv ==
    ASSUME IInv, NEW p \in Procs, BeginScan(p)
    PROVE  IInv'
<1> DEFINE c == "scan"
           j == NewJob(config, None, {}, {q \in Pages : pageFile[q] # Absent}, FALSE)
<1>1. j \in Job /\ Founded(j, Tree)
  BY NewJobTyped, NewJobFounded DEF BeginScan
<1>2. j.rest = Present(pageFile) /\ j.found = <<>> /\ j.changed = FALSE
  BY DEF NewJob, Present
<1>3. /\ pc' = [pc EXCEPT ![p] = c] /\ job' = [job EXCEPT ![p] = j]
      /\ Started(p) /\ UNCHANGED <<config, tree, sidecar, edits>>
      /\ runs' \in 0..MaxRuns
  BY DEF BeginScan, IInv, TypeOK
<1> HIDE DEF j
<1>4. Local(c, j, Tree)
  BY <1>1 DEF Local, OnPage, OnSources
<1>5. DOMAIN j.found = {}
  BY <1>2
<1>6. c \in Points /\ Exact(c, j)
  BY <1>2, <1>5 DEF Points, Exact, ExactIn, Scanning, OnPage, OnSources
<1> HIDE DEF c
<1> QED
  BY <1>1, <1>3, <1>4, <1>6, Starts
(* record.                                                                 *)

LEMMA RecordPageInv ==
    ASSUME IInv, NEW p \in Procs, RecordPage(p)
    PROVE  IInv'
<1> DEFINE q == job[p].page
           v == pageFile[q]
           r == [page |-> v, sources |-> <<>>, complete |-> job[p].complete]
           j == [job[p] EXCEPT !.record = r]
<1>1. TypeOK /\ Local("record page", job[p], held[p]) /\ pc[p] = "record page"
  BY DEF IInv, LocalInv, RecordPage
<1>2. /\ job[p] \in Job /\ Founded(job[p], held[p]) /\ q \in Pages
  BY <1>1 DEF Local
<1>3. <<<<"wiki", q>>, v>> \in held[p]
  <2>1. Tree \subseteq held[p]
    BY <1>1 DEF IInv, TreeSeen, Watching
  <2> QED
    BY <1>1, <1>2, <2>1, TreeTyped
<1>4. CASE v \notin Contents
  BY <1>1, <1>4, GoHome DEF RecordPage, TypeOK
<1>5. CASE v \in Contents
  <2>1. <<>> \in UNION {[S -> Contents] : S \in SUBSET Sources} /\ DOMAIN <<>> = {}
    BY EmptyFunction, SMTT(30)
  <2>2. r \in Record /\ r.page = v /\ r.sources = <<>>
    BY <1>2, <1>5, <2>1 DEF Job, Record
  <2>3. /\ pc' = [pc EXCEPT ![p] = "record sources"] /\ job' = [job EXCEPT ![p] = j]
        /\ UNCHANGED <<config, tree, sidecar, edits, runs, held, quiet>>
    BY <1>5 DEF RecordPage
  <2> HIDE DEF r
  <2>4. /\ j \in Job /\ j.page = q /\ j.dir = job[p].dir /\ j.record = r
        /\ j.found = job[p].found /\ j.used = job[p].used
    BY <1>2, <2>2 DEF Job
  <2> HIDE DEF j
  <2>5. Founded(j, held[p])
    BY <1>2, <2>4 DEF Founded, Saw
  <2>6. Saw(j, j.page, j.record, held[p])
    BY <1>3, <2>1, <2>2, <2>4 DEF Saw
  <2>7. Local("record sources", j, held[p])
    <3>1. j.declared = job[p].declared /\ j.todo = job[p].todo
      BY <1>2 DEF j, Job
    <3>2. job[p].todo = job[p].declared
      BY <1>1 DEF Local
    <3>3. DOMAIN r.sources = {}
      BY <2>1, <2>2
    <3> QED
      BY <1>2, <2>2, <2>4, <2>5, <2>6, <3>1, <3>2, <3>3 DEF Local, OnPage, OnSources
  <2>8. Exact("record sources", j)
    BY DEF Exact, ExactIn, Scanning
  <2> QED
    BY <1>1, <2>3, <2>4, <2>7, <2>8, GoOn DEF Points, Watching
<1> QED
  BY <1>4, <1>5

LEMMA RecordSourceInv ==
    ASSUME IInv, NEW p \in Procs, NEW s \in Sources, RecordSource(p, s)
    PROVE  IInv'
<1> DEFINE q == job[p].page
           v == sourceFile[<<job[p].dir, s>>]
           r == [job[p].record EXCEPT !.sources = Extend(@, s, v)]
           j == [job[p] EXCEPT !.todo = @ \ {s}, !.record.sources = Extend(@, s, v)]
<1>1. TypeOK /\ Local("record sources", job[p], held[p]) /\ pc[p] = "record sources"
  BY DEF IInv, LocalInv, RecordSource
<1>2. /\ job[p] \in Job /\ Founded(job[p], held[p]) /\ q \in Pages
      /\ job[p].record \in Record /\ Saw(job[p], q, job[p].record, held[p])
  BY <1>1 DEF Local
<1>3. <<<<job[p].dir, s>>, v>> \in held[p]
  <2>1. Tree \subseteq held[p]
    BY <1>1 DEF IInv, TreeSeen, Watching
  <2> QED
    BY <1>1, <1>2, <2>1, TreeTyped DEF Job
<1>4. CASE v \notin Contents
  BY <1>1, <1>4, GoHome DEF RecordSource, TypeOK
<1>5. CASE v \in Contents
  <2>1. /\ r \in Record /\ Saw(job[p], q, r, held[p])
        /\ DOMAIN r.sources = DOMAIN job[p].record.sources \cup {s}
    BY <1>2, <1>3, <1>5, RecordExtended
  <2>2. /\ job' = [job EXCEPT ![p] = j] /\ pc' = [pc EXCEPT ![p] = "record sources"]
        /\ UNCHANGED <<config, tree, sidecar, edits, runs, held, quiet>>
    <3> HIDE DEF Extend
    <3> QED
      BY <1>1, <1>5 DEF RecordSource, TypeOK
  <2>3. j = [job[p] EXCEPT !.todo = @ \ {s}, !.record = r]
    BY <1>2 DEF Job, Record
  <2> HIDE DEF j
  <2> HIDE DEF r
  <2>4. /\ j \in Job /\ j.page = q /\ j.dir = job[p].dir /\ j.record = r
        /\ j.found = job[p].found /\ j.used = job[p].used
    BY <1>2, <2>1, <2>3 DEF Job
  <2>5. Founded(j, held[p])
    BY <1>2, <2>4 DEF Founded, Saw
  <2>6. Saw(j, j.page, j.record, held[p])
    BY <2>1, <2>4 DEF Saw
  <2>7. Local("record sources", j, held[p])
    <3>1. j.declared = job[p].declared /\ j.todo = job[p].todo \ {s} /\ s \in job[p].todo
      BY <1>2, <2>1, <2>3 DEF Job, RecordSource
    <3>2. job[p].declared = DOMAIN job[p].record.sources \cup job[p].todo
      BY <1>1 DEF Local
    <3>3. j.declared = DOMAIN j.record.sources \cup j.todo
      BY <2>1, <2>4, <3>1, <3>2
    <3> QED
      BY <1>2, <2>1, <2>4, <2>5, <2>6, <3>3 DEF Local, OnPage, OnSources
  <2>8. Exact("record sources", j)
    BY DEF Exact, ExactIn, Scanning
  <2> QED
    BY <1>1, <2>2, <2>4, <2>7, <2>8, GoOn DEF Points, Watching
<1> QED
  BY <1>4, <1>5

\* A sidecar is touched: every scan is disturbed.
LEMMA OpenSidecarInv ==
    ASSUME IInv, NEW p \in Procs, OpenSidecar(p)
    PROVE  IInv'
<1> DEFINE c == "sidecar open"
<1>1. TypeOK /\ Local("record sources", job[p], held[p]) /\ pc[p] = "record sources"
  BY DEF IInv, LocalInv, OpenSidecar
<1>2. job[p] \in Job /\ Local(c, job[p], held[p])
  BY <1>1 DEF Local, OnPage, OnSources, OpenSidecar
<1>3. /\ pc' = [pc EXCEPT ![p] = c] /\ job' = [job EXCEPT ![p] = job[p]]
      /\ held' = [held EXCEPT ![p] = held[p]] /\ held[p] \in SUBSET (Paths \X File)
      /\ UNCHANGED tree
  BY <1>1 DEF OpenSidecar, TypeOK, tree
<1>4. Tree \subseteq held[p]
  BY <1>1 DEF IInv, TreeSeen, Watching
<1>5. c \in Points
  BY DEF Points
<1> HIDE DEF c
<1>6. /\ pc' \in [Procs -> Points] /\ job' \in [Procs -> Job \cup {None}]
      /\ held' \in [Procs -> SUBSET (Paths \X File)]
      /\ LocalInv' /\ TreeSeen'
  BY <1>2, <1>3, <1>4, <1>5, ProcessStep
<1>7. ExactInv' /\ quiet' \in [Procs -> BOOLEAN]
  BY Disturbed DEF OpenSidecar
<1>8. sidecar' \in [Pages -> Record \cup {Absent, Torn}]
  BY <1>1 DEF OpenSidecar, TypeOK
<1>9. TypeOK'
  BY <1>1, <1>6, <1>7, <1>8 DEF OpenSidecar, TypeOK, tree
<1> QED
  BY <1>6, <1>7, <1>9 DEF IInv

LEMMA WriteSidecarInv ==
    ASSUME IInv, NEW p \in Procs, WriteSidecar(p)
    PROVE  IInv'
<1>1. TypeOK /\ Local("sidecar open", job[p], held[p])
  BY DEF IInv, LocalInv, WriteSidecar
<1>2. job[p].record \in Record
  BY <1>1 DEF Local
<1>3. sidecar' \in [Pages -> Record \cup {Absent, Torn}]
  <2>1. PICK r \in {job[p].record, Torn} : sidecar' = [sidecar EXCEPT ![job[p].page] = r]
    BY DEF WriteSidecar
  <2> QED
    BY <1>1, <1>2, <2>1 DEF TypeOK
<1>4. Idle(p) /\ UNCHANGED tree
  BY DEF WriteSidecar, Idle, tree
<1>5. /\ pc' \in [Procs -> Points] /\ job' \in [Procs -> Job \cup {None}]
      /\ held' \in [Procs -> SUBSET (Paths \X File)]
      /\ LocalInv' /\ TreeSeen'
  BY <1>4, IdleStep
<1>6. ExactInv' /\ quiet' \in [Procs -> BOOLEAN]
  BY Disturbed DEF WriteSidecar
<1>7. TypeOK'
  BY <1>1, <1>3, <1>5, <1>6 DEF WriteSidecar, TypeOK, tree
<1> QED
  BY <1>5, <1>6, <1>7 DEF IInv
(* scan.                                                                   *)

\* What is known of a process that scans, and of the page it takes next.
LEMMA ScanFacts ==
    ASSUME IInv, NEW p \in Procs, pc[p] \in Scanning
    PROVE  /\ TypeOK /\ Local(pc[p], job[p], held[p]) /\ job[p] \in Job
           /\ Founded(job[p], held[p]) /\ Tree \subseteq held[p]
           /\ \A S \in SUBSET Pages : S # {} => First(S) \in S
           /\ \A S \in SUBSET Sources : S # {} => First(S) \in S
<1>1. TypeOK /\ Local(pc[p], job[p], held[p])
  BY DEF IInv, LocalInv
<1>2. pc[p] # "idle" /\ pc[p] \in Watching
  BY DEF Scanning, Watching
<1>3. job[p] \in Job /\ Founded(job[p], held[p])
  BY <1>1, <1>2 DEF Local
<1>4. Tree \subseteq held[p]
  BY <1>2 DEF IInv, TreeSeen
<1>5. Pages \subseteq Nat /\ Sources \subseteq Nat
  BY WikiConstants
<1>6. \A S \in SUBSET Nat : S # {} => First(S) \in S
  BY FirstIn
<1> QED
  BY <1>1, <1>3, <1>4, <1>5, <1>6

\* A page's standing is reached, and it is the page's own if nobody disturbed the scan.
LEMMA StandsExact ==
    ASSUME NEW j \in Job, j.page \in Pages, NEW standing \in Standings,
           j.rest \subseteq Present(pageFile), j.page \in Present(pageFile) \ j.rest,
           DOMAIN j.found = (Present(pageFile) \ j.rest) \ {j.page},
           \A q \in DOMAIN j.found :
              j.found[q] = StandingIn(j.dir, q, pageFile, sourceFile, sidecar),
           standing = StandingIn(j.dir, j.page, pageFile, sourceFile, sidecar)
    PROVE  Exact("scan", Stand(j, standing))
<1> DEFINE k == Stand(j, standing)
<1>1. /\ k.dir = j.dir /\ k.rest = j.rest /\ k.changed = FALSE
      /\ k.found = Extend(j.found, j.page, standing)
  BY StandTyped
<1> HIDE DEF k
<1>2. /\ DOMAIN k.found = DOMAIN j.found \cup {j.page} /\ k.found[j.page] = standing
      /\ \A q \in DOMAIN j.found : q # j.page => k.found[q] = j.found[q]
  BY <1>1 DEF Extend
<1>3. DOMAIN k.found = Present(pageFile) \ k.rest
  BY <1>1, <1>2
<1>4. \A q \in DOMAIN k.found :
         k.found[q] = StandingIn(k.dir, q, pageFile, sourceFile, sidecar)
  BY <1>1, <1>2
<1>5. Exact("scan", k)
  BY <1>1, <1>3, <1>4 DEF Exact, ExactIn, OnPage, OnSources
<1> QED
  BY <1>5 DEF k

LEMMA ScanSidecarInv ==
    ASSUME IInv, NEW p \in Procs, ScanSidecar(p)
    PROVE  IInv'
<1> DEFINE q == First(job[p].rest)
           i == [job[p] EXCEPT !.rest = @ \ {q}, !.page = q]
<1>1. pc[p] = "scan" /\ job[p].rest # {} /\ pc[p] \in Scanning
  BY DEF ScanSidecar, Scanning
<1>2. /\ TypeOK /\ job[p] \in Job /\ Founded(job[p], held[p])
      /\ q \in job[p].rest /\ job[p].rest \subseteq Pages
  BY <1>1, ScanFacts DEF Job
<1>3. /\ i \in Job /\ i.page = q /\ i.dir = job[p].dir /\ i.rest = job[p].rest \ {q}
      /\ i.found = job[p].found /\ i.used = job[p].used /\ i.changed = job[p].changed
  BY <1>2 DEF Job
<1>4. Founded(i, held[p])
  BY <1>2, <1>3 DEF Founded, Saw
<1>5. Exact(pc[p], job[p]) =>
         /\ i.rest \subseteq Present(pageFile) /\ q \in Present(pageFile) \ i.rest
         /\ DOMAIN i.found = (Present(pageFile) \ i.rest) \ {q}
         /\ \A x \in DOMAIN i.found :
               i.found[x] = StandingIn(i.dir, x, pageFile, sourceFile, sidecar)
         /\ ~i.changed
  BY <1>1, <1>2, <1>3 DEF Exact, ExactIn, OnPage, OnSources
<1>6. UNCHANGED <<config, tree, sidecar, edits, runs, held, quiet>>
  BY DEF ScanSidecar
<1>7. CASE sidecar[q] \in {Absent, Torn}
  <2> DEFINE j == Stand(i, "UNDETERMINED")
  <2>1. job' = [job EXCEPT ![p] = j] /\ pc' = [pc EXCEPT ![p] = "scan"]
    BY <1>1, <1>2, <1>7 DEF ScanSidecar, TypeOK
  <2> HIDE DEF i
  <2>2. j \in Job
    BY <1>2, <1>3, StandTyped DEF Standings
  <2>3. Founded(j, held[p])
    BY <1>2, <1>3, <1>4, StandFounded DEF Standings
  <2>4. Exact(pc[p], job[p]) => Exact("scan", j)
    <3>1. StandingIn(i.dir, q, pageFile, sourceFile, sidecar) = "UNDETERMINED"
      BY <1>7 DEF StandingIn
    <3> HIDE DEF q
    <3> QED
      BY <1>2, <1>3, <1>5, <3>1, StandsExact DEF Standings
  <2> HIDE DEF j
  <2>5. Local("scan", j, held[p])
    BY <2>2, <2>3 DEF Local, OnPage, OnSources
  <2> QED
    BY <1>1, <1>6, <2>1, <2>2, <2>4, <2>5, GoOn DEF Points, Watching, Scanning
<1>8. CASE sidecar[q] \notin {Absent, Torn}
  <2> DEFINE j == [i EXCEPT !.record = sidecar[q]]
  <2>1. job' = [job EXCEPT ![p] = j] /\ pc' = [pc EXCEPT ![p] = "scan page"]
    BY <1>8 DEF ScanSidecar
  <2> HIDE DEF i
  <2>2. sidecar[q] \in Record
    BY <1>2, <1>8 DEF TypeOK
  <2>3. /\ j \in Job /\ j.page = q /\ j.dir = i.dir /\ j.rest = i.rest
        /\ j.found = i.found /\ j.used = i.used /\ j.record = sidecar[q]
        /\ j.changed = i.changed
    BY <1>3, <2>2 DEF Job
  <2> HIDE DEF j
  <2> HIDE DEF q
  <2>4. Founded(j, held[p])
    BY <1>4, <2>3 DEF Founded, Saw
  <2>5. Local("scan page", j, held[p])
    BY <1>2, <2>2, <2>3, <2>4 DEF Local, OnPage, OnSources
  <2>6. Exact(pc[p], job[p]) => Exact("scan page", j)
    BY <1>5, <1>8, <2>3 DEF Exact, ExactIn, OnPage, OnSources
  <2> QED
    BY <1>1, <1>6, <2>1, <2>3, <2>5, <2>6, GoOn DEF Points, Watching, Scanning
<1> QED
  BY <1>7, <1>8

LEMMA EndScanInv ==
    ASSUME IInv, NEW p \in Procs, EndScan(p)
    PROVE  IInv'
<1>1. pc[p] = "scan" /\ job[p].rest = {} /\ pc[p] \in Scanning
  BY DEF EndScan, Scanning
<1>2. TypeOK /\ job[p] \in Job /\ Founded(job[p], held[p])
  BY <1>1, ScanFacts
<1>3. /\ pc' = [pc EXCEPT ![p] = "scanned"] /\ job' = [job EXCEPT ![p] = job[p]]
      /\ UNCHANGED <<config, tree, sidecar, edits, runs, held, quiet>>
  BY <1>2 DEF EndScan, TypeOK
<1>4. Local("scanned", job[p], held[p])
  BY <1>1, <1>2 DEF Local, OnPage, OnSources
<1>5. Exact(pc[p], job[p]) => Exact("scanned", job[p])
  BY <1>1 DEF Exact, ExactIn, OnPage, OnSources, Scanning
<1> QED
  BY <1>1, <1>2, <1>3, <1>4, <1>5, GoOn DEF Points, Watching, Scanning
LEMMA ScanPageInv ==
    ASSUME IInv, NEW p \in Procs, ScanPage(p)
    PROVE  IInv'
<1> DEFINE i == job[p]
           r == i.record
           v == pageFile[i.page]
<1>1. pc[p] = "scan page" /\ pc[p] \in Scanning /\ pc[p] \in OnPage
  BY DEF ScanPage, Scanning, OnPage
<1>2. /\ TypeOK /\ i \in Job /\ Founded(i, held[p]) /\ Tree \subseteq held[p]
      /\ i.page \in Pages /\ r \in Record
  BY <1>1, ScanFacts DEF Local
<1>3. <<<<"wiki", i.page>>, v>> \in held[p]
  BY <1>2, TreeTyped
<1>4. CASE v \notin Contents
  BY <1>2, <1>4, GoHome DEF ScanPage, TypeOK
<1>5. Exact(pc[p], i) =>
         /\ i.rest \subseteq Present(pageFile) /\ i.page \in Present(pageFile) \ i.rest
         /\ DOMAIN i.found = (Present(pageFile) \ i.rest) \ {i.page}
         /\ \A x \in DOMAIN i.found :
               i.found[x] = StandingIn(i.dir, x, pageFile, sourceFile, sidecar)
         /\ sidecar[i.page] \notin {Absent, Torn} /\ sidecar[i.page] = r /\ ~i.changed
  BY <1>1 DEF Exact, ExactIn
<1>6. DOMAIN r.sources \in SUBSET Sources /\ (DOMAIN r.sources = {} <=> r.sources = <<>>)
  BY <1>2, RecordSources
<1>7. CASE v \in Contents /\ BeforeSources(r, v) = "sources"
  <2> DEFINE j == [i EXCEPT !.todo = DOMAIN r.sources]
  <2>1. /\ job' = [job EXCEPT ![p] = j] /\ pc' = [pc EXCEPT ![p] = "scan sources"]
        /\ UNCHANGED <<config, tree, sidecar, edits, runs, held, quiet>>
    BY <1>7 DEF ScanPage
  <2>2. v = r.page /\ r.complete /\ r.sources # <<>>
    BY <1>6, <1>7 DEF BeforeSources
  <2>3. /\ j \in Job /\ j.page = i.page /\ j.dir = i.dir /\ j.rest = i.rest
        /\ j.found = i.found /\ j.used = i.used /\ j.record = r
        /\ j.todo = DOMAIN r.sources /\ j.changed = i.changed
    BY <1>2, <1>6 DEF Job
  <2> HIDE DEF j
  <2>4. Founded(j, held[p])
    BY <1>2, <2>3 DEF Founded, Saw
  <2>5. Local("scan sources", j, held[p])
    BY <1>2, <1>3, <2>2, <2>3, <2>4 DEF Local, OnPage, OnSources
  <2>6. ASSUME Exact(pc[p], i) PROVE Exact("scan sources", j)
    <3>1. /\ j.rest \subseteq Present(pageFile) /\ j.page \in Present(pageFile) \ j.rest
          /\ DOMAIN j.found = (Present(pageFile) \ j.rest) \ {j.page}
          /\ \A x \in DOMAIN j.found :
                j.found[x] = StandingIn(j.dir, x, pageFile, sourceFile, sidecar)
          /\ sidecar[j.page] \notin {Absent, Torn} /\ sidecar[j.page] = j.record
          /\ ~j.changed
      BY <1>5, <2>3, <2>6
    <3>2. pageFile[j.page] = j.record.page
      BY <2>2, <2>3
    <3>3. DOMAIN j.record.sources \ j.todo = {}
      BY <2>3
    <3> QED
      BY <2>3, <3>1, <3>2, <3>3 DEF Exact, ExactIn, OnPage, OnSources
  <2> QED
    BY <1>1, <2>1, <2>3, <2>5, <2>6, GoOn DEF Points, Watching, Scanning
<1>8. CASE v \in Contents /\ BeforeSources(r, v) # "sources"
  <2> DEFINE j == Stand(i, "UNDETERMINED")
  <2>1. /\ job' = [job EXCEPT ![p] = j] /\ pc' = [pc EXCEPT ![p] = "scan"]
        /\ UNCHANGED <<config, tree, sidecar, edits, runs, held, quiet>>
    BY <1>8 DEF ScanPage
  <2>2. j \in Job /\ Founded(j, held[p])
    BY <1>2, StandTyped, StandFounded DEF Standings
  <2>3. v # r.page \/ ~r.complete \/ r.sources = <<>>
    BY <1>6, <1>8 DEF BeforeSources
  <2>4. Exact(pc[p], i) => Exact("scan", j)
    <3>1. Exact(pc[p], i) =>
             StandingIn(i.dir, i.page, pageFile, sourceFile, sidecar) = "UNDETERMINED"
      BY <1>5, <2>3 DEF StandingIn
    <3> QED
      BY <1>2, <1>5, <3>1, StandsExact DEF Standings
  <2> HIDE DEF j
  <2>5. Local("scan", j, held[p])
    BY <2>2 DEF Local, OnPage, OnSources
  <2> QED
    BY <1>1, <2>1, <2>2, <2>4, <2>5, GoOn DEF Points, Watching, Scanning
<1> QED
  BY <1>4, <1>7, <1>8

LEMMA SettleInv ==
    ASSUME IInv, NEW p \in Procs, Settle(p)
    PROVE  IInv'
<1> DEFINE i == job[p]
           r == i.record
           standing == IF i.changed THEN "REOPEN" ELSE "RETAIN"
           j == Stand(i, standing)
<1>1. /\ pc[p] = "scan sources" /\ i.todo = {}
      /\ pc[p] \in Scanning /\ pc[p] \in OnPage /\ pc[p] \in OnSources
  BY DEF Settle, Scanning, OnPage, OnSources
<1>2. /\ i \in Job /\ Founded(i, held[p]) /\ i.page \in Pages /\ r \in Record
      /\ r.complete /\ r.sources # <<>> /\ <<<<"wiki", i.page>>, r.page>> \in held[p]
      /\ i.changed \/ \A s \in DOMAIN r.sources : <<<<i.dir, s>>, r.sources[s]>> \in held[p]
  BY <1>1, ScanFacts DEF Local
<1>3. Saw(i, i.page, r, held[p]) \/ i.changed
  BY <1>2 DEF Saw
<1>4. standing \in Standings /\ (standing = "RETAIN" => ~i.changed)
  BY DEF Standings
<1>5. /\ job' = [job EXCEPT ![p] = j] /\ pc' = [pc EXCEPT ![p] = "scan"]
      /\ UNCHANGED <<config, tree, sidecar, edits, runs, held, quiet>>
  BY DEF Settle
<1>6. Exact(pc[p], i) =>
         /\ i.rest \subseteq Present(pageFile) /\ i.page \in Present(pageFile) \ i.rest
         /\ DOMAIN i.found = (Present(pageFile) \ i.rest) \ {i.page}
         /\ \A x \in DOMAIN i.found :
               i.found[x] = StandingIn(i.dir, x, pageFile, sourceFile, sidecar)
         /\ sidecar[i.page] \notin {Absent, Torn} /\ sidecar[i.page] = r
         /\ pageFile[i.page] = r.page
         /\ i.changed <=> \E s \in DOMAIN r.sources : sourceFile[<<i.dir, s>>] # r.sources[s]
  BY <1>1 DEF Exact, ExactIn
<1>7. Exact(pc[p], i) =>
         standing = StandingIn(i.dir, i.page, pageFile, sourceFile, sidecar)
  <2> SUFFICES ASSUME Exact(pc[p], i)
               PROVE  standing = StandingIn(i.dir, i.page, pageFile, sourceFile, sidecar)
    OBVIOUS
  <2>1. StandingIn(i.dir, i.page, pageFile, sourceFile, sidecar) =
           IF \A s \in DOMAIN r.sources : sourceFile[<<i.dir, s>>] = r.sources[s]
           THEN "RETAIN" ELSE "REOPEN"
    <3> HIDE DEF standing
    <3>1. /\ sidecar[i.page] \notin {Absent, Torn} /\ sidecar[i.page] = r
          /\ pageFile[i.page] = r.page
      BY <1>6
    <3>2. r.complete /\ r.sources # <<>>
      BY <1>2
    <3> QED
      BY <3>1, <3>2 DEF StandingIn
  <2>2. i.changed <=> ~\A s \in DOMAIN r.sources : sourceFile[<<i.dir, s>>] = r.sources[s]
    BY <1>6
  <2> QED
    BY <2>1, <2>2
<1> HIDE DEF standing
<1>8. j \in Job /\ Founded(j, held[p])
  BY <1>2, <1>3, <1>4, StandTyped, StandFounded
<1>9. Exact(pc[p], i) => Exact("scan", j)
  BY <1>2, <1>4, <1>6, <1>7, StandsExact
<1> HIDE DEF j
<1>10. Local("scan", j, held[p])
  BY <1>8 DEF Local, OnPage, OnSources
<1> QED
  BY <1>1, <1>5, <1>8, <1>9, <1>10, GoOn DEF Points, Watching, Scanning

\* A source is settled: it was read, or it is missing.  v is what was read.
LEMMA SourceSettled ==
    ASSUME NEW i \in Job, NEW s \in i.todo, NEW j \in Job, NEW h, NEW c \in OnSources,
           Local(c, i, h),
           j.page = i.page, j.dir = i.dir, j.rest = i.rest, j.found = i.found,
           j.used = i.used, j.record = i.record, j.todo = i.todo \ {s},
           \/ j.changed = TRUE /\ (Exact(c, i) => sourceFile[<<i.dir, s>>] # i.record.sources[s])
           \/ /\ j.changed = (i.changed \/ sourceFile[<<i.dir, s>>] # i.record.sources[s])
              /\ <<<<i.dir, s>>, sourceFile[<<i.dir, s>>]>> \in h
    PROVE  /\ Local("scan sources", j, h)
           /\ Exact(c, i) => Exact("scan sources", j)
<1> DEFINE r == i.record
           v == sourceFile[<<i.dir, s>>]
<1>1. /\ Founded(i, h) /\ i.page \in Pages /\ r \in Record
      /\ r.complete /\ r.sources # <<>> /\ <<<<"wiki", i.page>>, r.page>> \in h
      /\ \/ i.changed
         \/ \A x \in DOMAIN r.sources \ i.todo : <<<<i.dir, x>>, r.sources[x]>> \in h
  BY DEF Local, OnSources, OnPage
<1>2. Founded(j, h)
  BY <1>1 DEF Founded, Saw
<1>3. \/ j.changed
      \/ \A x \in DOMAIN r.sources \ j.todo : <<<<j.dir, x>>, r.sources[x]>> \in h
  <2>1. CASE j.changed
    BY <2>1
  <2>2. CASE ~j.changed
    <3>1. ~i.changed /\ v = r.sources[s] /\ <<<<i.dir, s>>, v>> \in h
      BY <2>2
    <3> QED
      BY <1>1, <3>1
  <2> QED
    BY <2>1, <2>2
<1>4. Local("scan sources", j, h)
  BY <1>1, <1>2, <1>3 DEF Local, OnPage, OnSources
<1>5. ASSUME Exact(c, i) PROVE Exact("scan sources", j)
  <2>1. /\ i.rest \subseteq Present(pageFile) /\ i.page \in Present(pageFile) \ i.rest
        /\ DOMAIN i.found = (Present(pageFile) \ i.rest) \ {i.page}
        /\ \A x \in DOMAIN i.found :
              i.found[x] = StandingIn(i.dir, x, pageFile, sourceFile, sidecar)
        /\ sidecar[i.page] \notin {Absent, Torn} /\ sidecar[i.page] = r
        /\ pageFile[i.page] = r.page /\ i.todo \subseteq DOMAIN r.sources
        /\ i.changed <=> \E x \in DOMAIN r.sources \ i.todo :
                            sourceFile[<<i.dir, x>>] # r.sources[x]
    BY <1>5 DEF Exact, ExactIn, OnSources, OnPage, Scanning
  <2>2. j.changed <=> i.changed \/ v # r.sources[s]
    BY <1>5
  <2>3. DOMAIN r.sources \ j.todo = (DOMAIN r.sources \ i.todo) \cup {s}
    BY <2>1
  <2>4. j.changed <=> \E x \in DOMAIN r.sources \ j.todo :
                         sourceFile[<<j.dir, x>>] # r.sources[x]
    BY <2>1, <2>2, <2>3, ZenonT(60)
  <2> QED
    BY <2>1, <2>4, ZenonT(60) DEF Exact, ExactIn, OnSources, OnPage
<1> QED
  BY <1>4, <1>5
LEMMA FindSourceInv ==
    ASSUME IInv, NEW p \in Procs, FindSource(p)
    PROVE  IInv'
<1> DEFINE i == job[p]
           s == First(i.todo)
           v == sourceFile[<<i.dir, s>>]
<1>1. /\ pc[p] = "scan sources" /\ i.todo # {}
      /\ pc[p] \in Scanning /\ pc[p] \in OnSources
      /\ UNCHANGED <<config, tree, sidecar, edits, runs, held, quiet>>
  BY DEF FindSource, Scanning, OnSources
<1>2. /\ TypeOK /\ Local(pc[p], i, held[p]) /\ i \in Job /\ i.todo \in SUBSET Sources
      /\ s \in i.todo
  BY <1>1, ScanFacts DEF Job
<1>3. CASE v \in {Absent, Large}
  <2> DEFINE j == [i EXCEPT !.todo = @ \ {s}, !.changed = TRUE]
  <2>1. job' = [job EXCEPT ![p] = j] /\ pc' = [pc EXCEPT ![p] = "scan sources"]
    BY <1>1, <1>2, <1>3 DEF FindSource, TypeOK
  <2>2. /\ j \in Job /\ j.page = i.page /\ j.dir = i.dir /\ j.rest = i.rest
        /\ j.found = i.found /\ j.used = i.used /\ j.record = i.record
        /\ j.todo = i.todo \ {s} /\ j.changed = TRUE
    BY <1>2 DEF Job
  <2>3. Exact(pc[p], i) => v # i.record.sources[s]
    <3>1. i.record \in Record
      BY <1>1, <1>2 DEF Local, OnSources, OnPage
    <3>2. i.record.sources \in UNION {[S -> Contents] : S \in SUBSET Sources}
      BY <3>1 DEF Record
    <3>3. Exact(pc[p], i) => s \in DOMAIN i.record.sources
      BY <1>1, <1>2 DEF Exact, ExactIn
    <3>4. s \in DOMAIN i.record.sources => i.record.sources[s] \in Contents
      BY <3>2
    <3> QED
      BY <1>3, <3>3, <3>4, WikiConstants
  <2> HIDE DEF j
  <2>4. /\ Local("scan sources", j, held[p])
        /\ Exact(pc[p], i) => Exact("scan sources", j)
    <3> HIDE DEF s, i
    <3> QED
      BY <1>1, <1>2, <2>2, <2>3, SourceSettled
  <2> QED
    BY <1>1, <2>1, <2>2, <2>4, GoOn DEF Points, Watching, Scanning
<1>4. CASE v \notin {Absent, Large}
  <2>1. /\ job' = [job EXCEPT ![p] = i] /\ pc' = [pc EXCEPT ![p] = "read source"]
    BY <1>2, <1>4 DEF FindSource, TypeOK
  <2>2. Local("read source", i, held[p])
    BY <1>1, <1>2 DEF Local, OnPage, OnSources
  <2>3. Exact(pc[p], i) => Exact("read source", i)
    BY <1>1 DEF Exact, ExactIn, OnPage, OnSources, Scanning
  <2> QED
    BY <1>1, <1>2, <2>1, <2>2, <2>3, GoOn DEF Points, Watching, Scanning
<1> QED
  BY <1>3, <1>4

LEMMA ReadSourceInv ==
    ASSUME IInv, NEW p \in Procs, ReadSource(p)
    PROVE  IInv'
<1> DEFINE i == job[p]
           s == First(i.todo)
           v == sourceFile[<<i.dir, s>>]
<1>1. pc[p] = "read source" /\ pc[p] \in Scanning /\ pc[p] \in OnSources
  BY DEF ReadSource, Scanning, OnSources
<1>2. /\ TypeOK /\ Local(pc[p], i, held[p]) /\ i \in Job /\ i.todo \in SUBSET Sources
      /\ Tree \subseteq held[p] /\ i.dir \in Dirs
  BY <1>1, ScanFacts DEF Job
<1>3. i.todo # {} /\ s \in i.todo
  BY <1>1, <1>2, ScanFacts DEF Local
<1>4. <<<<i.dir, s>>, v>> \in held[p]
  BY <1>2, <1>3, TreeTyped
<1>5. CASE v = Absent
  BY <1>2, <1>5, GoHome DEF ReadSource, TypeOK
<1>6. CASE v # Absent
  <2> DEFINE j == [i EXCEPT !.todo = @ \ {s}, !.changed = @ \/ v # i.record.sources[s]]
  <2>1. /\ job' = [job EXCEPT ![p] = j] /\ pc' = [pc EXCEPT ![p] = "scan sources"]
        /\ UNCHANGED <<config, tree, sidecar, edits, runs, held, quiet>>
    BY <1>6 DEF ReadSource
  <2>2. /\ j \in Job /\ j.page = i.page /\ j.dir = i.dir /\ j.rest = i.rest
        /\ j.found = i.found /\ j.used = i.used /\ j.record = i.record
        /\ j.todo = i.todo \ {s} /\ j.changed = (i.changed \/ v # i.record.sources[s])
    BY <1>2 DEF Job
  <2> HIDE DEF j
  <2>3. /\ Local("scan sources", j, held[p])
        /\ Exact(pc[p], i) => Exact("scan sources", j)
    <3> HIDE DEF s, i
    <3> QED
      BY <1>1, <1>2, <1>3, <1>4, <2>2, SourceSettled
  <2> QED
    BY <1>1, <2>1, <2>2, <2>3, GoOn DEF Points, Watching, Scanning
<1> QED
  BY <1>5, <1>6

----------------------------------------------------------------------------
(* Theorems.                                                               *)

LEMMA StepInv == IInv /\ [Next]_vars => IInv'
<1> SUFFICES ASSUME IInv, [Next]_vars PROVE IInv'
  OBVIOUS
<1>1. ASSUME NEW q \in Pages, NEW c \in File, EditPage(q, c) PROVE IInv'
  BY <1>1, EditPageInv
<1>2. ASSUME NEW f \in Dirs \X Sources, NEW c \in File, EditSource(f, c) PROVE IInv'
  BY <1>2, EditSourceInv
<1>3. ASSUME NEW p \in Procs, NEW dir \in Dirs, NEW force \in BOOLEAN, BeginInit(p, dir, force)
      PROVE  IInv'
  BY <1>3, BeginInitInv
<1>4. ASSUME NEW p \in Procs, NEW q \in Pages, NEW declared \in Declarations,
             BeginRecord(p, q, declared)
      PROVE  IInv'
  BY <1>4, BeginRecordInv
<1>5. ASSUME NEW p \in Procs, NEW s \in Sources, RecordSource(p, s) PROVE IInv'
  BY <1>5, RecordSourceInv
<1>6. ASSUME NEW p \in Procs,
             \/ OpenConfig(p) \/ WriteConfig(p)
             \/ RecordPage(p) \/ OpenSidecar(p) \/ WriteSidecar(p)
      PROVE  IInv'
  BY <1>6, OpenConfigInv, WriteConfigInv, RecordPageInv, OpenSidecarInv, WriteSidecarInv
<1>7. ASSUME NEW p \in Procs,
             \/ BeginScan(p) \/ ScanSidecar(p) \/ ScanPage(p)
             \/ FindSource(p) \/ ReadSource(p) \/ Settle(p) \/ EndScan(p)
             \/ Exit(p)
      PROVE  IInv'
  BY <1>7, BeginScanInv, ScanSidecarInv, ScanPageInv, FindSourceInv, ReadSourceInv,
     SettleInv, EndScanInv, ExitInv
<1>8. CASE UNCHANGED vars
  <2>1. /\ \A p \in Procs : Local(pc[p], job[p], held[p])
        /\ \A p \in Procs : quiet[p] => Exact(pc[p], job[p])
    BY DEF IInv, LocalInv, ExactInv
  <2>2. UNCHANGED <<config, pageFile, sourceFile, sidecar, pc, job, edits, runs, held, quiet>>
    BY <1>8 DEF vars, tree
  <2>3. TypeOK'
    BY <2>2 DEF IInv, TypeOK
  <2>4. LocalInv'
    BY <2>1, <2>2 DEF LocalInv
  <2>5. TreeSeen'
    BY <2>2 DEF IInv, TreeSeen, Tree
  <2>6. ExactInv'
    BY <2>1, <2>2 DEF ExactInv, Exact
  <2> QED
    BY <2>3, <2>4, <2>5, <2>6 DEF IInv
<1> QED
  BY <1>1, <1>2, <1>3, <1>4, <1>5, <1>6, <1>7, <1>8 DEF Next

\* The invariant holds in every reachable state.
THEOREM Invariance == Spec => []IInv
<1> QED
  BY InitInv, StepInv, PTL DEF Spec

\* Typing: every variable keeps its type, whatever editors and commands do.
THEOREM Typing == Spec => []TypeOK
<1>1. IInv => TypeOK
  BY DEF IInv
<1> QED
  BY <1>1, Invariance, PTL

\* RetainedHeld: a page that a scan (wiki.py, _scan_one) retains had a readable and
\* complete record with a source, and its page and each of its sources held the recorded
\* bytes at some moment of that scan, whatever any number of editors and of other
\* commands wrote between the scan's reads.
THEOREM RetainedWasHeld == Spec => []RetainedHeld
<1>1. ASSUME IInv PROVE RetainedHeld
  <2> SUFFICES ASSUME NEW p \in Procs, job[p] # None,
                      NEW q \in DOMAIN job[p].found, job[p].found[q] = "RETAIN"
               PROVE  /\ job[p].used[q] # None /\ job[p].used[q].complete
                      /\ job[p].used[q].sources # <<>>
                      /\ Held(p, q, job[p].used[q])
    BY DEF RetainedHeld
  <2>1. Founded(job[p], held[p])
    BY <1>1 DEF IInv, LocalInv, Local
  <2> QED
    BY <2>1, RecordConstants DEF Founded, Saw, Held
<1> QED
  BY <1>1, Invariance, PTL

\* RecordObserved: the page and the sources that record_page puts in a sidecar held the
\* recorded bytes while the command ran, and the sources are all it was given; it never
\* writes what it has not read, nor leaves out what it could not read.
THEOREM RecordsAreObserved == Spec => []RecordObserved
<1>1. ASSUME IInv PROVE RecordObserved
  <2> SUFFICES ASSUME NEW p \in Procs, pc[p] = "sidecar open"
               PROVE  /\ DOMAIN job[p].record.sources = job[p].declared
                      /\ Held(p, job[p].page, job[p].record)
    BY DEF RecordObserved
  <2>1. /\ Saw(job[p], job[p].page, job[p].record, held[p])
        /\ job[p].todo = {} /\ job[p].declared = DOMAIN job[p].record.sources \cup job[p].todo
    BY <1>1 DEF IInv, LocalInv, Local
  <2> QED
    BY <2>1 DEF Saw, Held
<1> QED
  BY <1>1, Invariance, PTL

\* QuietScanExact: a scan that no edit and no record disturbed gives every page of the
\* tree, and nothing else, the standing its record, its bytes and its sources have.
THEOREM QuietScansAreExact == Spec => []QuietScanExact
<1>1. ASSUME IInv PROVE QuietScanExact
  <2> SUFFICES ASSUME NEW p \in Procs, pc[p] = "scanned", quiet[p]
               PROVE  job[p].found = [q \in {r \in Pages : pageFile[r] # Absent} |->
                                         StandingOf(job[p].dir, q)]
    BY DEF QuietScanExact
  <2>1. Local(pc[p], job[p], held[p]) /\ Exact(pc[p], job[p])
    BY <1>1 DEF IInv, LocalInv, ExactInv
  <2>2. job[p] \in Job /\ job[p].rest = {}
    BY <2>1 DEF Local
  <2>3. DOMAIN job[p].found = Present(pageFile)
    BY <2>1, <2>2 DEF Exact, ExactIn, OnPage, Scanning
  <2>4. \A q \in DOMAIN job[p].found : job[p].found[q] = StandingOf(job[p].dir, q)
    BY <2>1, <2>2 DEF Exact, ExactIn, OnPage, Scanning, StandingIn, StandingOf
  <2>5. job[p].found = [q \in DOMAIN job[p].found |-> job[p].found[q]]
    BY <2>2 DEF Job
  <2> QED
    BY <2>3, <2>4, <2>5 DEF Present
<1> QED
  BY <1>1, Invariance, PTL
=============================================================================
