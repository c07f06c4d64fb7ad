-------------------------------- MODULE Wiki --------------------------------
(***************************************************************************)
(* Living-wiki standing (openline_lite/wiki.py, wiki_cli.py): init, record *)
(* and scan as processes that read one file per step, while editors change *)
(* pages and sources, and while writes in place leave files torn.          *)
(*                                                                         *)
(* Pages and sources are numbered in the order of their names, which is    *)
(* the order a scan takes them in.  A hash is the content.  A file that is *)
(* over the size limit is Large.                                           *)
(***************************************************************************)
EXTENDS Integers, FiniteSets

CONSTANTS Procs,     \* running commands
          Pages,     \* pages of the wiki directory
          Dirs,      \* directories a configuration may name as source directory
          Sources,   \* names of sources, relative to the source directory
          Contents,  \* contents of pages and sources
          Written,   \* those of Contents the files have at first
          Declarations,  \* what record is called with: [sources, complete]
          MaxEdits,  \* bound: number of edits
          MaxRuns,   \* bound: number of init and record commands
          Large, Absent, Torn, None

ASSUME WikiConstants ==
    /\ Pages \subseteq Nat /\ Sources \subseteq Nat
    /\ IsFiniteSet(Pages) /\ IsFiniteSet(Sources)
    /\ Contents \cap {Large, Absent, Torn, None} = {}
    /\ Dirs \cap {Absent, Torn} = {}
    /\ Written \subseteq Contents
    /\ Declarations \subseteq [sources: SUBSET Sources, complete: BOOLEAN]
    /\ MaxEdits \in Nat /\ MaxRuns \in Nat

VARIABLES config,    \* the source directory config.json names
          pageFile, sourceFile, sidecar,
          pc, job,   \* the commands: control point and local variables
          edits, runs,
          held,      \* what each file a command can see held since the command began
          quiet      \* nothing changed since the command began

tree == <<pageFile, sourceFile>>
vars == <<config, tree, sidecar, pc, job, edits, runs, held, quiet>>

File == Contents \cup {Large, Absent}

\* Where files are: a page in the wiki directory, a source in one of Dirs.
Paths == ({"wiki"} \X Pages) \cup (Dirs \X Sources)

\* A readable sidecar: the recorded page, and each declared source with its bytes.
Record == [page: Contents, sources: UNION {[S -> Contents] : S \in SUBSET Sources},
           complete: BOOLEAN]

\* None is no record.
ASSUME RecordConstants == None \notin Record

Standings == {"REOPEN", "RETAIN", "UNDETERMINED"}

\* dir: source directory of the configuration in hand; page: the page being
\* recorded or scanned; declared: the sources record was called with; todo: those still
\* to read; rest: pages after this one;
\* record: the record being made or checked; changed: a source does not match;
\* found: standings reached so far; used: the records they rest on.
Job == [dir: Dirs, page: Pages \cup {None}, declared: SUBSET Sources,
        todo: SUBSET Sources, rest: SUBSET Pages, record: Record \cup {None}, complete: BOOLEAN, changed: BOOLEAN,
        found: UNION {[Q -> Standings] : Q \in SUBSET Pages},
        used: UNION {[Q -> Record \cup {None}] : Q \in SUBSET Pages}]

Points == {"idle", "init", "config open", "record page", "record sources", "sidecar open",
           "scan", "scan page", "scan sources", "read source", "scanned"}

TypeOK ==
    /\ config \in Dirs \cup {Absent, Torn}
    /\ pageFile \in [Pages -> File]
    /\ sourceFile \in [Dirs \X Sources -> File]
    /\ sidecar \in [Pages -> Record \cup {Absent, Torn}]
    /\ pc \in [Procs -> Points]
    /\ job \in [Procs -> Job \cup {None}]
    /\ edits \in 0..MaxEdits /\ runs \in 0..MaxRuns
    /\ held \in [Procs -> SUBSET (Paths \X File)]
    /\ quiet \in [Procs -> BOOLEAN]

Init ==
    /\ config \in Dirs \cup {Absent}
    /\ pageFile \in [Pages -> Written]
    /\ sourceFile \in [Dirs \X Sources -> Written]
    /\ sidecar = [q \in Pages |-> Absent]
    /\ pc = [p \in Procs |-> "idle"]
    /\ job = [p \in Procs |-> None]
    /\ edits = 0 /\ runs = 0
    /\ held = [p \in Procs |-> {}]
    /\ quiet = [p \in Procs |-> FALSE]

----------------------------------------------------------------------------
(* Operators.                                                              *)

First(S) == CHOOSE x \in S : \A y \in S : x <= y

\* What is in the tree now.
Tree == {<<<<"wiki", q>>, pageFile[q]>> : q \in Pages}
            \cup {<<f, sourceFile[f]>> : f \in Dirs \X Sources}

NewJob(dir, page, todo, rest, complete) ==
    [dir |-> dir, page |-> page, declared |-> todo, todo |-> todo, rest |-> rest,
     record |-> None, complete |-> complete, changed |-> FALSE, found |-> <<>>, used |-> <<>>]

\* A deviation: an incomplete record is as good as a complete one.
BeforeAnyway(r, content) ==
    IF content # r.page \/ DOMAIN r.sources = {} THEN "UNDETERMINED" ELSE "sources"

\* What record and page say of a page's standing before any source is read.
BeforeSources(r, content) ==
    IF content # r.page \/ ~r.complete \/ DOMAIN r.sources = {}
    THEN "UNDETERMINED" ELSE "sources"

Extend(f, x, v) == [y \in DOMAIN f \cup {x} |-> IF y = x THEN v ELSE f[y]]

\* One standing is reached; the scan goes on with the next page.
Stand(j, standing) ==
    [j EXCEPT !.found = Extend(@, j.page, standing), !.used = Extend(@, j.page, j.record),
              !.page = None, !.record = None, !.todo = {}, !.changed = FALSE]

\* Every record or scan under way sees a change of the tree.
Seen(f, c) ==
    /\ held' = [p \in Procs |-> IF held[p] = {} THEN {} ELSE held[p] \cup {<<f, c>>}]
    /\ quiet' = [p \in Procs |-> FALSE]

\* A process begins: it has seen the tree as it is.
Started(p) ==
    /\ held' = [held EXCEPT ![p] = Tree]
    /\ quiet' = [quiet EXCEPT ![p] = TRUE]

Idle(p) ==
    /\ pc' = [pc EXCEPT ![p] = "idle"]
    /\ job' = [job EXCEPT ![p] = None]
    /\ held' = [held EXCEPT ![p] = {}]

----------------------------------------------------------------------------
(* The tree.                                                               *)

EditPage(q, c) ==
    /\ edits < MaxEdits
    /\ pageFile[q] # c
    /\ pageFile' = [pageFile EXCEPT ![q] = c]
    /\ edits' = edits + 1
    /\ Seen(<<"wiki", q>>, c)
    /\ UNCHANGED <<config, sourceFile, sidecar, pc, job, runs>>

EditSource(f, c) ==
    /\ edits < MaxEdits
    /\ sourceFile[f] # c
    /\ sourceFile' = [sourceFile EXCEPT ![f] = c]
    /\ edits' = edits + 1
    /\ Seen(f, c)
    /\ UNCHANGED <<config, pageFile, sidecar, pc, job, runs>>

(* init                                                                    *)

\* init_wiki: an existing configuration, torn or not, needs --force.
BeginInit(p, dir, force) ==
    /\ pc[p] = "idle" /\ runs < MaxRuns
    /\ config = Absent \/ force
    /\ pc' = [pc EXCEPT ![p] = "init"]
    /\ job' = [job EXCEPT ![p] = NewJob(dir, None, {}, {}, FALSE)]
    /\ runs' = runs + 1
    /\ UNCHANGED <<config, tree, sidecar, edits, held, quiet>>

OpenConfig(p) ==
    /\ pc[p] = "init"
    /\ config' = Torn
    /\ pc' = [pc EXCEPT ![p] = "config open"]
    /\ UNCHANGED <<tree, sidecar, job, edits, runs, held, quiet>>

\* Over the text of another init that wrote meanwhile, the text may leave a tail of it
\* behind; over nothing, Torn is a write that is cut short.
WriteConfig(p) ==
    /\ pc[p] = "config open"
    /\ config' \in {job[p].dir, Torn}
    /\ Idle(p)
    /\ UNCHANGED <<tree, sidecar, edits, runs, quiet>>

(* record                                                                  *)

\* The command loads the configuration; complete without a source is refused.
BeginRecord(p, q, declared) ==
    /\ pc[p] = "idle" /\ runs < MaxRuns
    /\ config \in Dirs
    /\ declared.complete => declared.sources # {}
    /\ pc' = [pc EXCEPT ![p] = "record page"]
    /\ job' = [job EXCEPT ![p] = NewJob(config, q, declared.sources, {}, declared.complete)]
    /\ runs' = runs + 1
    /\ Started(p)
    /\ UNCHANGED <<config, tree, sidecar, edits>>

\* A file that cannot be read refuses the command.
RecordPage(p) ==
    LET c == pageFile[job[p].page] IN
    /\ pc[p] = "record page"
    /\ IF c \in Contents
       THEN /\ pc' = [pc EXCEPT ![p] = "record sources"]
            /\ job' = [job EXCEPT ![p].record =
                          [page |-> c, sources |-> <<>>, complete |-> job[p].complete]]
            /\ UNCHANGED held
       ELSE Idle(p)
    /\ UNCHANGED <<config, tree, sidecar, edits, runs, quiet>>

\* A deviation: what is not there is recorded too.
RecordSourceUnread(p, s) ==
    /\ pc[p] = "record sources"
    /\ s \in job[p].todo
    /\ job' = [job EXCEPT ![p].todo = @ \ {s},
                          ![p].record.sources = Extend(@, s, sourceFile[<<job[p].dir, s>>])]
    /\ UNCHANGED <<config, tree, sidecar, pc, edits, runs, held, quiet>>

\* A deviation: a source that cannot be read is left out of the record.
RecordSourceOrSkip(p, s) ==
    LET c == sourceFile[<<job[p].dir, s>>] IN
    /\ pc[p] = "record sources"
    /\ s \in job[p].todo
    /\ job' = [job EXCEPT ![p].todo = @ \ {s},
                          ![p].record.sources = IF c \in Contents THEN Extend(@, s, c) ELSE @]
    /\ UNCHANGED <<config, tree, sidecar, pc, edits, runs, held, quiet>>

\* Sources are read in the order of the arguments.
RecordSource(p, s) ==
    LET c == sourceFile[<<job[p].dir, s>>] IN
    /\ pc[p] = "record sources"
    /\ s \in job[p].todo
    /\ IF c \in Contents
       THEN /\ job' = [job EXCEPT ![p].todo = @ \ {s},
                                  ![p].record.sources = Extend(@, s, c)]
            /\ UNCHANGED <<pc, held>>
       ELSE Idle(p)
    /\ UNCHANGED <<config, tree, sidecar, edits, runs, quiet>>

\* The sidecar is truncated, whatever it held.
OpenSidecar(p) ==
    /\ pc[p] = "record sources" /\ job[p].todo = {}
    /\ pc' = [pc EXCEPT ![p] = "sidecar open"]
    /\ sidecar' = [sidecar EXCEPT ![job[p].page] = Torn]
    /\ quiet' = [r \in Procs |-> FALSE]
    /\ UNCHANGED <<config, tree, job, edits, runs, held>>

\* The text, or as with the configuration a part of it or a tail behind it.
WriteSidecar(p) ==
    LET q == job[p].page IN
    /\ pc[p] = "sidecar open"
    /\ \E r \in {job[p].record, Torn} : sidecar' = [sidecar EXCEPT ![q] = r]
    /\ pc' = [pc EXCEPT ![p] = "idle"]
    /\ job' = [job EXCEPT ![p] = None]
    /\ held' = [held EXCEPT ![p] = {}]
    /\ quiet' = [r \in Procs |-> FALSE]
    /\ UNCHANGED <<config, tree, edits, runs>>

(* scan                                                                    *)

\* scan and context load the configuration and list the pages there are.
BeginScan(p) ==
    /\ pc[p] = "idle"
    /\ config \in Dirs
    /\ pc' = [pc EXCEPT ![p] = "scan"]
    /\ job' = [job EXCEPT ![p] =
                  NewJob(config, None, {}, {q \in Pages : pageFile[q] # Absent}, FALSE)]
    /\ Started(p)
    /\ UNCHANGED <<config, tree, sidecar, edits, runs>>

\* The next page's sidecar; without a readable one the page's standing is known.
ScanSidecar(p) ==
    LET q == First(job[p].rest)
        j == [job[p] EXCEPT !.rest = @ \ {q}, !.page = q]
    IN
    /\ pc[p] = "scan" /\ job[p].rest # {}
    /\ IF sidecar[q] \in {Absent, Torn}
       THEN job' = [job EXCEPT ![p] = Stand(j, "UNDETERMINED")] /\ UNCHANGED pc
       ELSE /\ job' = [job EXCEPT ![p] = [j EXCEPT !.record = sidecar[q]]]
            /\ pc' = [pc EXCEPT ![p] = "scan page"]
    /\ UNCHANGED <<config, tree, sidecar, edits, runs, held, quiet>>

\* The page itself; one that cannot be read aborts the whole scan.
ScanPage(p) ==
    LET j == job[p]
        c == pageFile[j.page]
    IN
    /\ pc[p] = "scan page"
    /\ IF c \notin Contents
       THEN Idle(p)
       ELSE /\ IF BeforeSources(j.record, c) = "sources"
               THEN /\ job' = [job EXCEPT ![p].todo = DOMAIN j.record.sources]
                    /\ pc' = [pc EXCEPT ![p] = "scan sources"]
               ELSE /\ job' = [job EXCEPT ![p] = Stand(j, "UNDETERMINED")]
                    /\ pc' = [pc EXCEPT ![p] = "scan"]
            /\ UNCHANGED held
    /\ UNCHANGED <<config, tree, sidecar, edits, runs, quiet>>

\* A deviation: a source that is missing is passed over.
FindSourceOrSkip(p) ==
    LET s == First(job[p].todo) IN
    /\ pc[p] = "scan sources" /\ job[p].todo # {}
    /\ IF sourceFile[<<job[p].dir, s>>] \in {Absent, Large}
       THEN job' = [job EXCEPT ![p].todo = @ \ {s}] /\ UNCHANGED pc
       ELSE pc' = [pc EXCEPT ![p] = "read source"] /\ UNCHANGED job
    /\ UNCHANGED <<config, tree, sidecar, edits, runs, held, quiet>>

\* is_file and the size of the next source: missing or over the limit reopens.
FindSource(p) ==
    LET s == First(job[p].todo) IN
    /\ pc[p] = "scan sources" /\ job[p].todo # {}
    /\ IF sourceFile[<<job[p].dir, s>>] \in {Absent, Large}
       THEN job' = [job EXCEPT ![p].todo = @ \ {s}, ![p].changed = TRUE] /\ UNCHANGED pc
       ELSE pc' = [pc EXCEPT ![p] = "read source"] /\ UNCHANGED job
    /\ UNCHANGED <<config, tree, sidecar, edits, runs, held, quiet>>

\* Its bytes; one that has gone since aborts the whole scan.
ReadSource(p) ==
    LET s == First(job[p].todo)
        c == sourceFile[<<job[p].dir, s>>]
    IN
    /\ pc[p] = "read source"
    /\ IF c = Absent
       THEN Idle(p)
       ELSE /\ job' = [job EXCEPT ![p].todo = @ \ {s},
                                  ![p].changed = @ \/ c # job[p].record.sources[s]]
            /\ pc' = [pc EXCEPT ![p] = "scan sources"]
            /\ UNCHANGED held
    /\ UNCHANGED <<config, tree, sidecar, edits, runs, quiet>>

Settle(p) ==
    /\ pc[p] = "scan sources" /\ job[p].todo = {}
    /\ job' = [job EXCEPT ![p] = Stand(job[p], IF job[p].changed THEN "REOPEN" ELSE "RETAIN")]
    /\ pc' = [pc EXCEPT ![p] = "scan"]
    /\ UNCHANGED <<config, tree, sidecar, edits, runs, held, quiet>>

\* The document is put together from the standings and printed.
EndScan(p) ==
    /\ pc[p] = "scan" /\ job[p].rest = {}
    /\ pc' = [pc EXCEPT ![p] = "scanned"]
    /\ UNCHANGED <<config, tree, sidecar, job, edits, runs, held, quiet>>

\* The process ends, at once or for good.
Exit(p) ==
    /\ pc[p] # "idle"
    /\ Idle(p)
    /\ UNCHANGED <<config, tree, sidecar, edits, runs, quiet>>

Next ==
    \/ \E q \in Pages, c \in File : EditPage(q, c)
    \/ \E f \in Dirs \X Sources, c \in File : EditSource(f, c)
    \/ \E p \in Procs, dir \in Dirs, force \in BOOLEAN : BeginInit(p, dir, force)
    \/ \E p \in Procs, q \in Pages, declared \in Declarations : BeginRecord(p, q, declared)
    \/ \E p \in Procs, s \in Sources : RecordSource(p, s)
    \/ \E p \in Procs :
          \/ OpenConfig(p) \/ WriteConfig(p)
          \/ RecordPage(p) \/ OpenSidecar(p) \/ WriteSidecar(p)
          \/ BeginScan(p) \/ ScanSidecar(p) \/ ScanPage(p)
          \/ FindSource(p) \/ ReadSource(p) \/ Settle(p) \/ EndScan(p)
          \/ Exit(p)

Spec == Init /\ [][Next]_vars

----------------------------------------------------------------------------
(* Properties.                                                             *)

\* The record r was in the tree piece by piece: the page and each of its sources
\* held the recorded bytes at some moment since p began.
Held(p, q, r) ==
    /\ <<<<"wiki", q>>, r.page>> \in held[p]
    /\ \A s \in DOMAIN r.sources : <<<<job[p].dir, s>>, r.sources[s]>> \in held[p]

\* wiki.py:30: "all frozen source dependencies remain exactly as recorded AND the
\* dependency declaration was explicitly marked complete".  A page a scan retains
\* had a readable, complete record with a source, and page and sources held the
\* recorded bytes during that scan, whoever wrote what between its reads.
RetainedHeld ==
    \A p \in Procs : job[p] # None =>
        \A q \in DOMAIN job[p].found : job[p].found[q] = "RETAIN" =>
            LET r == job[p].used[q] IN
            /\ r # None /\ r.complete /\ r.sources # <<>>
            /\ Held(p, q, r)

\* wiki.py:309, "Freeze a dependency record": what record puts on disk was observed.
\* It names exactly the sources the command was given, and page and sources held
\* these bytes while the command ran: nothing is left out because it could not be read.
RecordObserved ==
    \A p \in Procs : pc[p] = "sidecar open" =>
        /\ DOMAIN job[p].record.sources = job[p].declared
        /\ Held(p, job[p].page, job[p].record)

\* The standing of a page, all at once.
StandingOf(dir, q) ==
    LET r == sidecar[q] IN
    IF r \in {Absent, Torn} THEN "UNDETERMINED"
    ELSE IF r.page # pageFile[q] \/ ~r.complete \/ r.sources = <<>> THEN "UNDETERMINED"
    ELSE IF \A s \in DOMAIN r.sources : sourceFile[<<dir, s>>] = r.sources[s]
    THEN "RETAIN" ELSE "REOPEN"

\* A scan that nobody disturbed gives every page there is the standing it has.
QuietScanExact ==
    \A p \in Procs : pc[p] = "scanned" /\ quiet[p] =>
        job[p].found = [q \in {r \in Pages : pageFile[r] # Absent} |->
                            StandingOf(job[p].dir, q)]
=============================================================================
