------------------------------ MODULE MCEvidence ------------------------------
(* One study and its readers, or the campaigns and theirs: they share no     *)
(* directory, so no step of one meets a step of the other.                   *)
(* The study: two training episodes of one task, one test and one            *)
(* validation task, two policies; beside the sound catalog one with a        *)
(* leaking family, one with a repeated ID and one without validation.        *)
(* The campaigns, two rows each, twice: from the first freeze on, with an    *)
(* edit of the tree to other code or to other tasks, where nobody else       *)
(* spends and nothing is analysed; and from two frozen documents on, with an *)
(* allowance for one dear run, beside others who spend, and analysed.        *)
EXTENDS Study, Campaign

CONSTANTS c1, c2

VARIABLE kind  \* which of the three this behaviour is about

T(i, f, s) == [id |-> i, family |-> f, split |-> s]
Sound == <<T(1, 1, "train"), T(2, 2, "test"), T(3, 3, "validation"), T(4, 2, "test")>>
MCCatalogs == {Sound,
               <<T(1, 1, "train"), T(2, 1, "test"), T(3, 3, "validation")>>,
               <<T(1, 1, "train"), T(1, 2, "test"), T(3, 3, "validation")>>,
               <<T(1, 1, "train"), T(2, 2, "test")>>}
MCArms == <<"strong_only", "adaptive">>

Cell(t, p, v) ==
    [task |-> t, family |-> t, split |-> "test", policy |-> p, verify |-> v]
On == Cell(1, "strong_only", TRUE)
Off == Cell(1, "strong_only", FALSE)
First == [code |-> c1, catalog |-> 1]
MCSources == {First, [code |-> c2, catalog |-> 1], [code |-> c1, catalog |-> 2]}
MCOrders == [pilot |-> << <<On, Cell(1, "adaptive", TRUE)>>, <<On>> >>,
             replication |-> << <<On, Off>>, <<Off, On>> >>,
             reference |-> << <<On, Cell(2, "strong_only", TRUE)>>, <<On>> >>]
Symmetry == Permutations(Images)

\* Where a pilot and a replication have been frozen.
Prepared ==
    \E i \in Images :
        LET r == [catalog |-> First.catalog, image |-> i, passed |-> TRUE]
            d == [protocol |-> "pilot", receipt |-> r, catalog |-> First.catalog,
                  source |-> First, sealed |-> TRUE]
        IN receipts = {r} /\ docs = {d, [d EXCEPT !.protocol = "replication"]}

MCInit ==
    /\ kind \in {"study", "freeze", "money"} /\ StudyInit
    /\ kind # "study" => catalog = Sound
    /\ tree = [disk |-> First, commits |-> {First}, edits |-> 0] /\ desk = Nothing
    /\ IF kind = "money" THEN Prepared ELSE receipts = {} /\ docs = {}
    /\ proc = [p \in Procs |-> Unborn] /\ spent = 0 /\ other = [research |-> 0, public |-> 0]
    /\ evidence = [d \in Dirs |-> Untouched] /\ review = Unread

\* In a used directory no campaign starts again.
Once == (\E d \in Dirs : evidence[d].opened) => ~\E p \in Procs : proc[p].pc = "off" /\ Launch(p)

MCNext ==
    /\ UNCHANGED kind
    /\ \/ kind = "study" /\ StudyNext /\ UNCHANGED cvars
       \/ kind = "freeze" /\ CampaignNext /\ UNCHANGED <<svars, spent, other, review>>
       \/ kind = "money" /\ CampaignNext /\ Once /\ Keep /\ UNCHANGED svars

MCSpec == MCInit /\ [][MCNext]_<<kind, svars, cvars>>
=============================================================================
