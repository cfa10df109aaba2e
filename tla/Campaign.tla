------------------------------ MODULE Campaign ------------------------------
(***************************************************************************)
(* The three paid campaigns over a fixed plan: the prospective pilot       *)
(* (forgerl/bench/pilot.py), the replication with its VERIFY ablation      *)
(* (replication.py) and the GPT-4.1 reference runs (reference.py); what is *)
(* frozen before them, the scripts that run them under one lock, the       *)
(* evidence they leave and the analyses that read it.  Around them the     *)
(* source tree is edited, and the public app, the broker and other studies *)
(* spend on the same ledger.                                               *)
(***************************************************************************)
EXTENDS Sequences, FiniteSets, SequencesExt, Totals

CONSTANTS
    Procs,      \* processes of the operator
    Dirs,       \* evidence directories
    Sources,    \* contents of the source tree, each with the catalog it defines
    Images,     \* executor images
    Orders,     \* the rows each protocol plans over each catalog, shuffled by a fixed seed
    Published,  \* the catalog the reference runs are tied to, by its hash
    Cap,        \* a campaign's cap on spending
    ResearchCap, \* the ledger's caps: on research,
    LedgerCap,  \* and on all that is charged
    MaxOther,   \* what all others are charged at a time
    MaxEdits,   \* edits of the source tree
    MaxReceipts, \* fixture receipts,
    MaxDocs     \* and frozen documents, edited copies included, that are written

ASSUME CampaignAssumption ==
    /\ Cap \in Nat \ {0} /\ ResearchCap \in Nat /\ LedgerCap \in Nat
    /\ MaxOther \in Nat /\ MaxEdits \in Nat /\ MaxReceipts \in Nat /\ MaxDocs \in Nat
    /\ \A p \in {"pilot", "replication", "reference"}, s \in Sources :
          LET order == Orders[p][s.catalog]
          IN order \in Seq(Range(order)) /\ IsInjective(order)

VARIABLES
    tree,     \* the source on disk, what is committed of it, and edits so far
    receipts, \* fixture receipts
    docs,     \* frozen documents
    desk,     \* the operator's freeze in progress
    proc,     \* the processes that run campaigns
    spent,    \* the research ledger: what the campaigns were charged,
    other,    \* and what others are charged now, in each bucket
    evidence, \* the directories
    review    \* an analysis of one of them

cvars == <<tree, receipts, docs, desk, proc, spent, other, evidence, review>>

Nothing == [absent |-> TRUE]
Untouched == [freeze |-> Nothing, manifest |-> Nothing, report |-> Nothing, opened |-> FALSE,
              runs |-> <<>>, raw |-> <<>>, events |-> {}, torn |-> FALSE, broken |-> FALSE]
Unborn == [pc |-> "off", script |-> "none", doc |-> Nothing, dir |-> Nothing, image |-> Nothing,
           source |-> Nothing, edits |-> 0, edited |-> FALSE, start |-> Nothing, cap |-> 0,
           at |-> 1, held |-> Nothing, results |-> <<>>, stop |-> FALSE]

Holding(p) == proc[p].pc \notin {"off", "launched", "checked"}
Busy == \E p \in Procs : Holding(p)
Order(doc) == Orders[doc.protocol][doc.catalog]
Cells(runs) == {runs[i].cell : i \in DOMAIN runs}
MissingOf(doc, runs) == Range(Order(doc)) \ Cells(runs)
CostOf(runs) == Total([i \in DOMAIN runs |-> runs[i].cost], Len(runs))

-----------------------------------------------------------------------------
(* The ledger: integers, as SQLite keeps them.                             *)

AtLeast0(x) == IF x > 0 THEN x ELSE 0
Smaller(a, b) == IF a < b THEN a ELSE b

Now == [own |-> spent, research |-> other.research, public |-> other.public]
Research(l) == l.own + l.research
Charged(l) == l.own + l.research + l.public

\* Store.budget; CappedProvider.spent and remaining, against the budget at the start.
LedgerLeft == AtLeast0(Smaller(ResearchCap - Research(Now), LedgerCap - Charged(Now)))
Spending(from, to) == AtLeast0(Charged(to) - Charged(from))
Remaining(j) == AtLeast0(Smaller(j.cap - Spending(j.start, Now), LedgerLeft))

\* The public app, the broker's trials and research_run.py reserve and settle
\* whatever runs; a study of another script only while no campaign has the lock.
OtherSpending ==
    /\ \E b \in {"research", "public"}, n \in {-1, 1} :
          /\ other[b] + n >= 0 /\ other.research + other.public + n <= MaxOther
          /\ n = 1 => LedgerLeft > 0 \/ (b = "public" /\ Charged(Now) < LedgerCap)
          /\ other' = [other EXCEPT ![b] = @ + n]
    /\ UNCHANGED <<tree, receipts, docs, desk, proc, spent, evidence, review>>

-----------------------------------------------------------------------------
(* What a campaign is frozen from.                                         *)

EditTree ==
    /\ tree.edits < MaxEdits
    /\ \E s \in Sources \ {tree.disk} : \E new \in SUBSET {s} :  \* committed or not
          tree' = [disk |-> s, commits |-> tree.commits \cup new, edits |-> tree.edits + 1]
    /\ UNCHANGED <<receipts, docs, desk, proc, spent, other, evidence, review>>

\* By hand: its hash no longer fits.
EditDocument ==
    /\ Cardinality(docs) < MaxDocs
    /\ \E d \in docs, i \in Images :
          docs' = docs \cup {[d EXCEPT !.receipt = [@ EXCEPT !.image = i], !.sealed = FALSE]}
    /\ UNCHANGED <<tree, receipts, desk, proc, spent, other, evidence, review>>

\* verify_fixtures: every task's suites run in the executor; write_once.
VerifyFixtures ==
    /\ Cardinality(receipts) < MaxReceipts
    /\ \E i \in Images, passed \in BOOLEAN :
          receipts' = receipts \cup {[catalog |-> tree.disk.catalog, image |-> i, passed |-> passed]}
    /\ UNCHANGED <<tree, docs, desk, proc, spent, other, evidence, review>>

\* validate_fixture_receipt, against the catalog the process imported and the
\* image its environment names.
ValidReceipt(r, source, image) == r.passed /\ r.catalog = source.catalog /\ r.image = image

\* A script that freezes is started, and imports what is on disk.
StartFreeze ==
    /\ desk = Nothing
    /\ desk' = [protocol |-> "none", receipt |-> Nothing, source |-> tree.disk]
    /\ UNCHANGED <<tree, receipts, docs, proc, spent, other, evidence, review>>

\* verify_source_commit: the tree, file by file, is the commit's.
CheckCommit ==
    /\ desk # Nothing /\ desk.protocol = "none" /\ tree.disk \in tree.commits
    /\ \E i \in Images :
          \/ \E r \in receipts : /\ ValidReceipt(r, desk.source, i)
                                 /\ desk' = [desk EXCEPT !.protocol = "pilot", !.receipt = r]
          \/ \E d \in docs : /\ ValidReceipt(d.receipt, desk.source, i)
                             /\ desk' = [desk EXCEPT !.protocol = "replication",
                                                     !.receipt = d.receipt]
    /\ UNCHANGED <<tree, receipts, docs, proc, spent, other, evidence, review>>

\* The disk is read a second time for the document, the catalog is the imported one.
FreezeDocument ==
    /\ desk # Nothing /\ desk.protocol # "none" /\ Cardinality(docs) < MaxDocs
    /\ docs' = docs \cup {[protocol |-> desk.protocol, receipt |-> desk.receipt,
                           catalog |-> desk.source.catalog, source |-> tree.disk, sealed |-> TRUE]}
    /\ desk' = Nothing
    /\ UNCHANGED <<tree, receipts, proc, spent, other, evidence, review>>

\* Faulty: the source digest is not compared.
FrozenPlan(doc, source, image) ==
    /\ doc.sealed /\ doc.catalog = source.catalog /\ ValidReceipt(doc.receipt, source, image)

\* verify_freeze; verify in replication.py: the catalog is the imported one,
\* the digests are those of the files on disk when it looks.
Frozen(doc, source, image) ==
    /\ doc.sealed /\ doc.catalog = source.catalog /\ doc.source = tree.disk
    /\ ValidReceipt(doc.receipt, source, image)

\* reference_plan and source_manifest: not frozen, tied to the published
\* tasks, with the digests of the files on disk.
ReferencePlan ==
    [protocol |-> "reference", receipt |-> Nothing, catalog |-> Published,
     source |-> tree.disk, sealed |-> TRUE]

-----------------------------------------------------------------------------
(* The scripts.                                                            *)

Set(p, new) == proc' = [proc EXCEPT ![p] = new]
Keep == UNCHANGED <<tree, receipts, docs, desk>>

\* A process is started: it imports the source, and is told of an image.
Launch(p) ==
    /\ proc[p].pc = "off"
    /\ \E script \in {"pilot", "replication", "reference"}, d \in Dirs, i \in Images :
          Set(p, [Unborn EXCEPT !.pc = "launched", !.script = script, !.dir = d,
                                !.image = IF script = "reference" THEN Nothing ELSE i,
                                !.source = tree.disk, !.edits = tree.edits])
    /\ Keep /\ UNCHANGED <<spent, other, evidence, review>>

\* main, before the lock: the pilot verifies its document, the others refuse a
\* directory that is used, the reference a catalog that is not the published one.
Check(p) ==
    LET j == proc[p]
    IN /\ j.pc = "launched"
       /\ \/ /\ j.script = "pilot"
             /\ \E doc \in docs : /\ doc.protocol = "pilot" /\ Frozen(doc, j.source, j.image)
                                  /\ Set(p, [j EXCEPT !.pc = "checked", !.doc = doc])
          \/ /\ j.script # "pilot" /\ ~evidence[j.dir].opened
             /\ j.script = "reference" => j.source.catalog = Published
             /\ Set(p, [j EXCEPT !.pc = "checked"])
          \/ Set(p, Unborn)  \* refused
       /\ Keep /\ UNCHANGED <<spent, other, evidence, review>>

\* flock without waiting; a study outside this module may have the lock.
Lock(p) ==
    /\ proc[p].pc = "checked"
    /\ \/ ~Busy /\ Set(p, [proc[p] EXCEPT !.pc = "locked"])
       \/ Set(p, Unborn)
    /\ Keep /\ UNCHANGED <<spent, other, evidence, review>>

Offered(j) ==
    IF j.script = "pilot" THEN {j.doc}
    ELSE IF j.script = "replication" THEN {doc \in docs : doc.protocol = "replication"}
    ELSE {ReferencePlan}

\* The pilot verifies again, the replication for the first time; then
\* CappedProvider, which a paused or empty ledger refuses, and Writer.
Setup(p) ==
    LET j == proc[p]
    IN /\ j.pc = "locked"
       /\ \/ /\ ~evidence[j.dir].opened /\ LedgerLeft > 0
             /\ \E doc \in Offered(j) :
                  /\ j.script # "reference" => Frozen(doc, j.source, j.image)
                  /\ Set(p, [j EXCEPT !.pc = "freeze", !.doc = doc, !.start = Now,
                                      !.cap = Smaller(Cap, LedgerLeft),
                                      !.edited = tree.edits # j.edits])
             /\ evidence' = [evidence EXCEPT ![j.dir].opened = TRUE]
          \/ Set(p, Unborn) /\ UNCHANGED evidence  \* refused
       /\ Keep /\ UNCHANGED <<spent, other, review>>

Writing(p, from, to) == proc[p].pc = from /\ Set(p, [proc[p] EXCEPT !.pc = to])

WriteFreeze(p) ==
    /\ Writing(p, "freeze", "manifest")
    /\ evidence' = [evidence EXCEPT ![proc[p].dir].freeze = proc[p].doc]
    /\ Keep /\ UNCHANGED <<spent, other, review>>

\* (The ledger at the end is in no manifest, only what was charged since its start.)
Interim(j) ==
    [freeze |-> j.doc, status |-> "running", completed |-> Len(j.results), missing |-> {},
     start |-> j.start, end |-> Nothing, delta |-> Spending(j.start, Now)]

WriteManifest(p) ==
    /\ Writing(p, "manifest", "loop")
    /\ evidence' = [evidence EXCEPT ![proc[p].dir].manifest =
                       [Interim(proc[p]) EXCEPT !.delta = 0]]
    /\ Keep /\ UNCHANGED <<spent, other, review>>

\* The next row is begun while there is allowance; its events are written at
\* once.  (The replication names it in its manifest, which says nothing else new.)
Begin(p) ==
    LET j == proc[p]
    IN /\ j.pc = "loop" /\ j.at <= Len(Order(j.doc))
       /\ j.doc.protocol # "reference" => Remaining(j) > 0
       /\ Set(p, [j EXCEPT !.pc = "episode"])
       /\ evidence' = [evidence EXCEPT ![j.dir].events = @ \cup {j.at}]
       /\ Keep /\ UNCHANGED <<spent, other, review>>

\* No row is left, no allowance, or no time (of which only the replication keeps count).
LeaveLoop(p) ==
    LET j == proc[p]
        out == j.at > Len(Order(j.doc))
    IN /\ j.pc = "loop"
       /\ \/ out \/ j.doc.protocol = "replication"
          \/ j.doc.protocol = "pilot" /\ Remaining(j) = 0
       /\ Set(p, [j EXCEPT !.pc = "final", !.stop = ~out])
       /\ Keep /\ UNCHANGED <<spent, other, evidence, review>>

Run(j, status, cost) ==
    [id |-> j.at, cell |-> Order(j.doc)[j.at], status |-> status, cost |-> cost,
     source |-> j.source, edited |-> j.edited, image |-> j.image]

\* A request's preflight; before its reservation others may spend (StudyCap
\* says what that makes of the cap).
Preflight(p) ==
    /\ proc[p].pc = "episode" /\ Remaining(proc[p]) > 0
    /\ Set(p, [proc[p] EXCEPT !.pc = "cleared"])
    /\ Keep /\ UNCHANGED <<spent, other, evidence, review>>

\* What the episode's requests may come to: the ledger reserves within its
\* caps, and settles what it reserved or nothing.
Bills(j) == {0} \cup (IF j.pc = "cleared" /\ LedgerLeft > 0 THEN {1} ELSE {})

Ends(p) ==
    LET j == proc[p]
    IN /\ j.pc \in {"episode", "cleared"}
       /\ \E status \in {"completed", "failed", "budget_exhausted"}, cost \in Bills(j) :
          /\ Set(p, [j EXCEPT !.pc = "file", !.held = Run(j, status, cost)])
          /\ spent' = spent + cost
       /\ Keep /\ UNCHANGED <<other, evidence, review>>

\* The episode raises (SQLite refuses a settlement, an event's line cannot be
\* written), runs into the deadline or is cancelled; what it was charged stays
\* charged.  The reference records it, with what the episode was told it cost;
\* the pilot does not catch a cancellation.
Breaks(p) ==
    LET j == proc[p]
    IN /\ j.pc \in {"episode", "cleared"}
       /\ \E cost \in Bills(j) :
          /\ spent' = spent + cost
          /\ \/ /\ j.doc.protocol = "reference"
                /\ \E told \in 0..cost :
                      Set(p, [j EXCEPT !.pc = "file", !.stop = TRUE,
                                       !.held = Run(j, "interrupted", told)])
             \/ j.doc.protocol # "reference" /\ Set(p, [j EXCEPT !.pc = "final", !.stop = TRUE])
             \/ j.doc.protocol = "pilot" /\ Set(p, Unborn)
       /\ Keep /\ UNCHANGED <<other, evidence, review>>

FileRun(p) ==
    /\ Writing(p, "file", "index")
    /\ evidence' = [evidence EXCEPT ![proc[p].dir].runs = Append(@, proc[p].held)]
    /\ Keep /\ UNCHANGED <<spent, other, review>>

\* Faulty: runs that failed are not listed.
IndexAnswered(p) ==
    /\ Writing(p, "index", "count")
    /\ evidence' = [evidence EXCEPT ![proc[p].dir].raw =
                       IF proc[p].held.status = "failed" THEN @ ELSE Append(@, proc[p].held.id)]
    /\ Keep /\ UNCHANGED <<spent, other, review>>

ListRun(p) ==
    /\ Writing(p, "index", "count")
    /\ evidence' = [evidence EXCEPT ![proc[p].dir].raw = Append(@, proc[p].held.id)]
    /\ Keep /\ UNCHANGED <<spent, other, review>>

\* A run counts once it is indexed.  Then the manifest, but for the reference.
CountRun(p) ==
    LET j == [proc[p] EXCEPT !.results = Append(@, proc[p].held), !.at = @ + 1]
        stop == j.stop \/ j.held.status = "budget_exhausted"
    IN /\ j.pc = "count"
       /\ Set(p, [j EXCEPT !.pc = IF stop THEN "final" ELSE "loop", !.stop = stop])
       /\ evidence' = [evidence EXCEPT ![j.dir].manifest =
                          IF j.doc.protocol = "reference" THEN @ ELSE Interim(j)]
       /\ Keep /\ UNCHANGED <<spent, other, review>>

\* A write fails, an index line perhaps only at its fsync.  The reference ends here.
WriteFails(p) ==
    LET j == proc[p]
    IN /\ j.pc \in {"file", "index", "count"}
       /\ Set(p, IF j.doc.protocol = "reference" THEN Unborn
                 ELSE [j EXCEPT !.pc = "final", !.stop = TRUE,
                                !.results = IF j.pc = "count" THEN Append(@, j.held) ELSE @])
       /\ \E raw \in IF j.pc = "index" THEN {evidence[j.dir].raw, Append(evidence[j.dir].raw, j.held.id)}
                     ELSE {evidence[j.dir].raw} :
             evidence' = [evidence EXCEPT ![j.dir].raw = raw, ![j.dir].broken = TRUE]
       /\ Keep /\ UNCHANGED <<spent, other, review>>

\* Pilot and replication look at coverage alone; the reference also at why it stopped.
Status(j) ==
    IF MissingOf(j.doc, j.results) = {} /\ (j.doc.protocol = "reference" => ~j.stop)
    THEN "complete" ELSE "incomplete"

Final(j) == [Interim(j) EXCEPT !.status = Status(j), !.end = Now,
                                  !.missing = MissingOf(j.doc, j.results)]

\* reference.json precedes the last manifest.
Report(p) ==
    /\ proc[p].doc # Nothing /\ proc[p].doc.protocol = "reference"
    /\ Writing(p, "final", "close")
    /\ evidence' = [evidence EXCEPT ![proc[p].dir].report =
                       [status |-> Status(proc[p]), runs |-> proc[p].results]]
    /\ Keep /\ UNCHANGED <<spent, other, review>>

Conclude(p) ==
    LET j == proc[p]
    IN /\ j.pc = "close" \/ (j.pc = "final" /\ j.doc.protocol # "reference")
       /\ Set(p, Unborn)
       /\ evidence' = [evidence EXCEPT ![j.dir].manifest = Final(j)]
       /\ Keep /\ UNCHANGED <<spent, other, review>>

\* Killed; the kernel drops the lock, a request under way keeps its reservation.
Killed(p) ==
    LET j == proc[p]
    IN /\ Holding(p)
       /\ Set(p, Unborn)
       /\ \E torn \in IF j.pc = "index" THEN BOOLEAN ELSE {FALSE} :
             evidence' = [evidence EXCEPT ![j.dir].torn = @ \/ torn]
       /\ \E cost \in Bills(j) : spent' = spent + cost
       /\ Keep /\ UNCHANGED <<other, review>>

-----------------------------------------------------------------------------
(* The analyses.                                                           *)

Success(r) == r.status = "completed"  \* and solved, of which nothing depends
Of(runs, split, policy) ==
    {i \in DOMAIN runs : runs[i].cell.split = split /\ runs[i].cell.policy = policy}
Planned(doc, split, policy) == {c \in Range(Order(doc)) : c.split = split /\ c.policy = policy}
Strata(doc) == {[split |-> c.split, policy |-> c.policy] : c \in Range(Order(doc))}

\* analyze: every attempted run is in the denominator, every planned one in the coverage.
Summary(doc, runs) ==
    [s \in Strata(doc) |->
        LET rows == Of(runs, s.split, s.policy)
        IN [attempted |-> Cardinality(rows),
            planned |-> Cardinality(Planned(doc, s.split, s.policy)),
            solved |-> Cardinality({i \in rows : Success(runs[i])}),
            cost |-> CostOf([i \in DOMAIN runs |->
                                [cost |-> IF i \in rows THEN runs[i].cost ELSE 0]])]]

\* paired_family_differences: only of test families both policies were given whole.
Compared(doc, runs) ==
    {x \in [policy : {c.policy : c \in Range(Order(doc))}, against : {c.policy : c \in Range(Order(doc))},
            family : {c.family : c \in Range(Order(doc))}] :
        /\ x.policy # x.against
        /\ \A p \in {x.policy, x.against} :
             LET whole == {c \in Planned(doc, "test", p) : c.family = x.family}
             IN whole # {} /\ whole \subseteq Cells(runs)}

\* verify_effect: what verification gains and loses, pair by pair.
Effect(runs) ==
    LET pairs == {ab \in (DOMAIN runs) \X (DOMAIN runs) :
                     /\ ~runs[ab[1]].cell.verify /\ runs[ab[2]].cell.verify
                     /\ [runs[ab[1]].cell EXCEPT !.verify = TRUE] = runs[ab[2]].cell}
    IN [pairs |-> Cardinality(pairs),
        gain |-> Cardinality({ab \in pairs : ~Success(runs[ab[1]]) /\ Success(runs[ab[2]])}),
        loss |-> Cardinality({ab \in pairs : Success(runs[ab[1]]) /\ ~Success(runs[ab[2]])})]

Unread == [pc |-> "off", dir |-> Nothing, manifest |-> Nothing, status |-> "none", runs |-> <<>>,
           summary |-> Nothing, compared |-> {}, effect |-> Nothing, ledger |-> Nothing]

\* freeze.json and manifest.json, which must name it.
ReadManifest ==
    /\ review.pc = "off"
    /\ \E d \in Dirs :
          /\ evidence[d].manifest # Nothing /\ evidence[d].freeze.protocol # "reference"
          /\ review' = [Unread EXCEPT !.pc = "runs", !.dir = d, !.manifest = evidence[d].manifest]
    /\ Keep /\ UNCHANGED <<proc, spent, other, evidence>>

\* Faulty: neither what is missing nor the status is compared.
CountsAgree(m, e) ==
    /\ IsInjective([i \in DOMAIN e.runs |-> e.runs[i].cell])
    /\ Cells(e.runs) \subseteq Range(Order(m.freeze)) /\ Len(e.runs) = m.completed

\* read_runs: planned runs only, none twice, as many as counted, and the
\* manifest's missing rows and status are theirs.
Reconciles(m, e) ==
    /\ IsInjective([i \in DOMAIN e.runs |-> e.runs[i].cell])
    /\ Cells(e.runs) \subseteq Range(Order(m.freeze))
    /\ Len(e.runs) = m.completed
    /\ m.missing = MissingOf(m.freeze, e.runs)
    /\ m.status = IF m.missing = {} THEN "complete" ELSE "incomplete"

\* The publication of the replication wants all of it, in agreement with the
\* index, the events and the ledger, of which it is given a receipt from
\* before (the manifest's start is taken for it) and one from now.
Publishable(m, e) ==
    /\ m.status = "complete" /\ ~e.torn
    /\ Len(e.runs) = m.completed /\ Cells(e.runs) = Range(Order(m.freeze))
    /\ Len(e.raw) = Len(e.runs) /\ Range(e.raw) = {e.runs[i].id : i \in DOMAIN e.runs}
    /\ e.events = Range(e.raw)
    /\ \A i \in DOMAIN e.runs : e.runs[i].status \in {"completed", "failed"}
    /\ CostOf(e.runs) = m.delta
    /\ Research(Now) - Research(m.start) = CostOf(e.runs) /\ other.public = m.start.public

Analyse ==
    /\ review.pc = "runs"
    /\ LET m == review.manifest
           e == evidence[review.dir]
           fit == IF m.freeze.protocol = "pilot" THEN Reconciles(m, e) ELSE Publishable(m, e)
       IN review' = IF fit
            THEN [review EXCEPT !.pc = "over", !.status = m.status, !.runs = e.runs,
                                !.summary = Summary(m.freeze, e.runs),
                                !.compared = Compared(m.freeze, e.runs),
                                !.effect = Effect(e.runs), !.ledger = Now]
            ELSE [review EXCEPT !.pc = "over", !.status = "refused", !.ledger = Now]
    /\ Keep /\ UNCHANGED <<proc, spent, other, evidence>>
-----------------------------------------------------------------------------
CampaignInit ==
    /\ \E s \in Sources : tree = [disk |-> s, commits |-> {s}, edits |-> 0]
    /\ receipts = {} /\ docs = {} /\ desk = Nothing
    /\ proc = [p \in Procs |-> Unborn] /\ spent = 0 /\ other = [research |-> 0, public |-> 0]
    /\ evidence = [d \in Dirs |-> Untouched] /\ review = Unread

CampaignNext ==
    \/ EditTree \/ EditDocument \/ VerifyFixtures \/ StartFreeze \/ CheckCommit
    \/ FreezeDocument \/ OtherSpending
    \/ ReadManifest \/ Analyse
    \/ \E p \in Procs :
        \/ Launch(p) \/ Check(p) \/ Lock(p) \/ Setup(p) \/ WriteFreeze(p) \/ WriteManifest(p)
        \/ Begin(p) \/ LeaveLoop(p) \/ Preflight(p) \/ Ends(p) \/ Breaks(p) \/ FileRun(p) \/ ListRun(p) \/ CountRun(p)
        \/ WriteFails(p) \/ Report(p) \/ Conclude(p) \/ Killed(p)

CampaignSpec == CampaignInit /\ [][CampaignNext]_cvars
-----------------------------------------------------------------------------
(* Properties.                                                             *)

\* Whatever is edited, and whenever, a run was made with the catalog its
\* directory's document names, and with the source it names unless the tree
\* was edited between the start of the process, which imports it, and its
\* last look at the files; a pilot or replication besides with an unedited
\* document, whose fixtures passed on that catalog in the image the process
\* was told of.
RunsAsFrozen ==
    \A d \in Dirs : \A i \in DOMAIN evidence[d].runs :
        LET r == evidence[d].runs[i]
            f == evidence[d].freeze
        IN /\ r.source.catalog = f.catalog
           /\ r.source = f.source \/ r.edited
           /\ f.protocol # "reference" =>
                /\ f.sealed /\ f.receipt.passed
                /\ f.receipt.image = r.image /\ f.receipt.catalog = f.catalog

\* What was charged to others between two looks at the ledger, released again or not.
OthersSince(from, to) == (to.research + to.public) - (from.research + from.public)
Undisturbed(from, to) == to.research = from.research /\ to.public = from.public

\* What is analysed is over, and is the plan up to where it stopped, each
\* row once and none replaced: an analysis says "complete" of the whole plan
\* only, and then the ledger's delta is what its runs cost and what others
\* were charged meanwhile; and "complete" reference runs were all made
\* without an interruption.
AnalysedIsTheRecord ==
    /\ review.pc = "over" /\ review.status # "refused" =>
         LET e == evidence[review.dir]
             m == review.manifest
             order == Order(e.freeze)
         IN /\ \A p \in Procs : Holding(p) /\ proc[p].pc # "locked" => proc[p].dir # review.dir
            /\ review.runs = e.runs
            /\ \A i \in DOMAIN e.runs : e.runs[i].cell = order[i]
            /\ review.status = "complete" <=> Len(e.runs) = Len(order)
            /\ review.status = "complete" =>
                  /\ m.delta = AtLeast0(CostOf(e.runs) + OthersSince(m.start, m.end))
                  /\ \A s \in DOMAIN review.summary :
                        review.summary[s].attempted = review.summary[s].planned
    /\ \A d \in Dirs : evidence[d].report # Nothing /\ evidence[d].report.status = "complete" =>
         /\ Cells(evidence[d].report.runs) = Range(Order(evidence[d].freeze))
         /\ \A i \in DOMAIN evidence[d].runs : evidence[d].runs[i].status # "interrupted"

\* Of a campaign whose last manifest was read, and in which no write failed,
\* the pilot's analysis refuses nothing; the replication's refuses only what
\* is incomplete, stopped at its budget, or beside or before other spending.
RefusedForCause ==
    review.pc = "over" /\ review.status = "refused" =>
        LET e == evidence[review.dir]
            m == review.manifest
        IN \/ m.status = "running" \/ e.broken
           \/ /\ m.freeze.protocol = "replication"
              /\ \/ m.status = "incomplete"
                 \/ ~Undisturbed(m.start, m.end) \/ ~Undisturbed(m.start, review.ledger)
                 \/ review.ledger.own # m.end.own
                 \/ \E i \in DOMAIN e.runs : e.runs[i].status = "budget_exhausted"
=============================================================================
