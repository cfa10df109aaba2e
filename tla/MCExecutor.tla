------------------------------ MODULE MCExecutor ------------------------------
(* Three evaluations of the same candidate, the next one when the caller     *)
(* gave up the last, or one of any candidate: right, stateful, mutating,     *)
(* spoiling its arguments, failing in a case or as it is loaded, exceeding a *)
(* limit and not acceptable ones, of a repository of two modules and of a    *)
(* lone function.  One caller is a stranger.                                 *)
EXTENDS Executor, TLC

CONSTANTS caller, stranger

Case(n, r) == [name |-> n, want |-> "answer", raises |-> r]
Source(form, imports) == [form |-> form, imports |-> imports, defined |-> TRUE]
Lib == Source("supported", {"math"})
Main(imports) == Source("supported", imports)

RepoTask ==
    [kind |-> "repository", entry |-> "main", editable |-> {"main"}, unchanged |-> TRUE,
     files |-> ("main" :> Main({"lib"}) @@ "lib" :> Lib),
     public |-> <<Case("p1", "none"), Case("p2", "none")>>, hidden |-> <<Case("h1", "ValueError")>>]
SourceTask ==
    [kind |-> "source", entry |-> "solution", editable |-> {"solution"}, unchanged |-> FALSE,
     files |-> [solution |-> Main({})],
     public |-> <<Case("p1", "none"), Case("p2", "none")>>, hidden |-> <<Case("h1", "none")>>]

Repo(does, keeps) ==
    [task |-> RepoTask, files |-> RepoTask.files, does |-> does, keeps |-> keeps]
Edited(m, s) ==
    [task |-> RepoTask, files |-> [RepoTask.files EXCEPT ![m] = s],
     does |-> "right", keeps |-> "nothing"]
Lone(s, does, keeps) ==
    [task |-> SourceTask, files |-> [solution |-> s], does |-> does, keeps |-> keeps]

MCSubmissions ==
    <<Repo("right", "nothing"), Repo("right", "own modules"), Repo("mutates", "nothing"),
     Repo("raises", "nothing"), Repo("exceeds", "nothing"), Repo("right", "in libraries"),
     Edited("lib", Source("supported", {})), Edited("main", Source("supported", {"main"})),
     Lone(Main({}), "right", "own modules"), Lone(Source("unsupported", {}), "right", "nothing"),
     Repo("fails to load", "nothing"), Repo("spoils", "nothing"),
     Lone(Main({}), "fails to load", "nothing"), Lone(Main({}), "spoils", "nothing")>>

Same == Len(calls) <= 1 \/ \A i \in DOMAIN calls : /\ calls[i].caller = caller /\ calls[i].sub = 2
                                                 /\ ~calls[i].hidden

MCNext == ExecutorNext /\ Same'
MCSpec == ExecutorInit /\ [][MCNext]_xvars /\ WF_xvars(Work)
===============================================================================
