--------------------------- MODULE ExecutorProofs ---------------------------
(***************************************************************************)
(* The executor for any number of slots, callers and calls, any tasks and  *)
(* candidates: slots, blame and grades.  Blame and grades are inductive    *)
(* with what a handler may hold (Sound): the true answer, or an error that *)
(* has a cause, and a container as long as it runs.                        *)
(***************************************************************************)
EXTENDS Executor, FiniteSetTheorems, TLAPS

Pcs == {"accepted", "reading", "starting", "running", "cleaning", "releasing", "closed"}
Faults == {"none", "late", "time", "daemon"}

\* What the runner prints for a call.
Answer(call) == Rows(RunnerRows(What(call), Cases(call)))

CaseSets == {DOMAIN Submissions[s].task.public : s \in DOMAIN Submissions}
            \cup {DOMAIN Submissions[s].task.hidden : s \in DOMAIN Submissions}
Call == [caller : Callers, sub : DOMAIN Submissions, hidden : BOOLEAN,
         state : {"waiting", "unavailable", "graded"}, by_error : BOOLEAN,
         grade : {<<>>} \cup UNION {[D -> BOOLEAN] : D \in CaseSets}]
Answers == {Nothing, Unavailable, ExecutionError} \cup {Answer(c) : c \in Call}
Handler == [pc : Pcs, result : Answers, fault : Faults]

Types ==
    /\ calls \in Seq(Call) /\ handlers \in Seq(Handler)
    /\ Len(handlers) = Len(calls) /\ free \in Nat

\* What is true of a call, its handler, and whether the handler's container
\* is there.
Sound(call, h, there) ==
    /\ call.state = "waiting" \/ h.pc # "closed" => Accepted(What(call))
    /\ h.result \in {Nothing, Unavailable, ExecutionError, Answer(call)}
    /\ h.result = ExecutionError => EndsItsRun(What(call)) \/ h.fault # "none"
    /\ h.pc = "running" /\ h.fault = "none" => there
    /\ call.state = "graded" /\ call.by_error =>
          ~Accepted(What(call)) \/ EndsItsRun(What(call)) \/ (h.pc = "closed" /\ h.fault # "none")
    /\ call.state = "graded" /\ ~call.by_error =>
          Accepted(What(call)) /\ call.grade = Grade(call, Answer(call))

AllSound == \A i \in DOMAIN calls : Sound(calls[i], handlers[i], i \in containers)

IInv == Types /\ AllSound /\ SlotsAreHeld

-----------------------------------------------------------------------------
(* Answers and grades.                                                     *)

\* The four kinds of answers are told apart, and the runner's own answer
\* passes the validation of its shape.
LEMMA Kinds ==
    ASSUME NEW c \in Call
    PROVE  /\ Nothing.kind = "nothing" /\ Unavailable.kind = "unavailable"
           /\ ExecutionError.kind = "execution_error" /\ Answer(c).kind = "rows"
           /\ Validated(Answer(c), Cases(c)) = Answer(c)
<1> DEFINE cases == Cases(c)
<1> DEFINE rows == RunnerRows(What(c), cases)
<1>1. cases \in Seq({cases[k] : k \in DOMAIN cases})
  <2>1. c.sub \in DOMAIN Submissions
    BY DEF Call
  <2>2. \A x \in {Submissions[c.sub].task.public, Submissions[c.sub].task.hidden} :
           x \in Seq({x[k] : k \in DOMAIN x})
    BY <2>1, ExecutorAssumption
  <2>3. cases \in {Submissions[c.sub].task.public, Submissions[c.sub].task.hidden}
    BY DEF Cases, What
  <2> HIDE DEF cases
  <2> QED BY <2>2, <2>3
<1>2. rows = [k \in DOMAIN cases |-> rows[k]] /\ \A k \in DOMAIN cases : rows[k].name = cases[k].name
  BY DEF RunnerRows, Does
<1>3. DOMAIN cases = 1..Len(cases) /\ Len(cases) \in Nat
  BY <1>1
<1>4. rows \in Seq({rows[k] : k \in DOMAIN cases})
  BY <1>2, <1>3
<1>5. Len(rows) = Len(cases)
  BY <1>2, <1>3, <1>4
<1>6. Answer(c) = Rows(rows)
  BY DEF Answer
<1>7. Rows(rows).kind = "rows" /\ Rows(rows).rows = rows
  BY DEF Rows
<1> HIDE DEF cases, rows
<1>8. Validated(Rows(rows), cases) = Rows(rows)
  BY <1>2, <1>5, <1>7 DEF Validated
<1> QED BY <1>6, <1>7, <1>8 DEF Nothing, Unavailable, ExecutionError, cases

\* A grade says something of every case of the call.
LEMMA GradeType ==
    ASSUME NEW c \in Call, NEW r
    PROVE  Grade(c, r) \in {<<>>} \cup UNION {[D -> BOOLEAN] : D \in CaseSets}
<1>1. DOMAIN Cases(c) \in CaseSets
  BY DEF Cases, What, Call, CaseSets
<1>2. Grade(c, r) \in [DOMAIN Cases(c) -> BOOLEAN]
  BY DEF Grade
<1> QED BY <1>1, <1>2

\* The runner finds no fault with the files of a repository that the host
\* accepts: what the entry module reaches has no circle that the host has not
\* seen.
LEMMA RepositoryLoads ==
    ASSUME NEW sub, Accepted(sub), sub.task.kind = "repository"
    PROVE  Loads(sub.files, sub.task.entry)
<1> DEFINE files == sub.files
<1> DEFINE closed == {S \in SUBSET DOMAIN files :
                         /\ sub.task.entry \in S
                         /\ \A m \in S : files[m].imports \cap DOMAIN files \subseteq S}
<1> DEFINE reached == {m \in DOMAIN files : \A S \in closed : m \in S}
<1>1. ValidFiles(files, sub.task.entry)
  BY DEF Accepted, ValidEdits
<1>2. ~Cyclic([m \in reached |-> files[m]])
  <2> SUFFICES ASSUME Cyclic([m \in reached |-> files[m]]) PROVE FALSE
    OBVIOUS
  <2>1. PICK S \in (SUBSET reached) \ {{}} : \A m \in S : files[m].imports \cap S # {}
    BY DEF Cyclic
  <2>2. S \in (SUBSET DOMAIN files) \ {{}}
    BY <2>1
  <2> QED BY <1>1, <2>1, <2>2 DEF ValidFiles, Cyclic
<1> QED BY <1>1, <1>2 DEF Loads, ValidFiles

\* Nor with a lone function: its module is not one that it may import.
LEMMA FunctionLoads ==
    ASSUME NEW s \in DOMAIN Submissions, Accepted(Submissions[s]),
           Submissions[s].task.kind # "repository"
    PROVE  Loads(Submissions[s].files, Submissions[s].task.entry)
<1> DEFINE files == Submissions[s].files
<1> DEFINE closed == {S \in SUBSET DOMAIN files :
                         /\ Submissions[s].task.entry \in S
                         /\ \A m \in S : files[m].imports \cap DOMAIN files \subseteq S}
<1> DEFINE reached == {m \in DOMAIN files : \A S \in closed : m \in S}
<1>1. /\ DOMAIN files = {"solution"} /\ Submissions[s].task.entry = "solution"
      /\ "solution" \notin Libraries
  BY ExecutorAssumption
<1>2. /\ files["solution"].form = "supported" /\ files["solution"].defined
      /\ files["solution"].imports \subseteq Libraries
  BY DEF Accepted, ValidSource
<1>3. ~Cyclic([m \in reached |-> files[m]])
  <2> SUFFICES ASSUME Cyclic([m \in reached |-> files[m]]) PROVE FALSE
    OBVIOUS
  <2>1. PICK S \in (SUBSET reached) \ {{}} : \A m \in S : files[m].imports \cap S # {}
    BY DEF Cyclic
  <2>2. S = {"solution"}
    BY <1>1, <2>1
  <2> QED BY <1>1, <1>2, <2>1, <2>2
<1> QED BY <1>1, <1>2, <1>3 DEF Loads

\* A run of an accepted submission that exits by 1 is of the candidate's doing.
LEMMA RunnerFailsForCause ==
    ASSUME NEW s \in DOMAIN Submissions, Accepted(Submissions[s]), NEW cases,
           RunnerFails(Submissions[s], cases)
    PROVE  EndsItsRun(Submissions[s])
BY FunctionLoads DEF RunnerFails, EndsItsRun

\* The host's grade of the runner's answer is the reference grade.
LEMMA AnswerIsTrue ==
    ASSUME NEW c \in Call, Accepted(What(c)), What(c).task.kind = "repository",
           What(c).keeps # "in libraries", NEW k \in DOMAIN Cases(c)
    PROVE  Grade(c, Answer(c))[k] <=>
              Passes(What(c).task, Cases(c)[k], Does(What(c), Cases(c)[k], 0))
<1>1. Loads(What(c).files, What(c).task.entry)
  BY RepositoryLoads
<1>2. RunnerRows(What(c), Cases(c))[k] = Does(What(c), Cases(c)[k], 0)
  BY <1>1 DEF RunnerRows
<1>3. Answer(c).kind = "rows" /\ Answer(c).rows[k] = Does(What(c), Cases(c)[k], 0)
  BY <1>2 DEF Answer, Rows
<1> QED BY <1>3 DEF Grade

-----------------------------------------------------------------------------
(* Slots.                                                                  *)

Holds(h) == h.pc \notin {"accepted", "closed"}

LEMMA HoldingFinite ==
    ASSUME Types
    PROVE  IsFiniteSet(Holding) /\ Cardinality(Holding) \in Nat
<1>1. Holding \subseteq 1..Len(handlers) /\ Len(handlers) \in Nat
  BY DEF Holding, Types
<1>2. IsFiniteSet(1..Len(handlers))
  BY <1>1, FS_Interval
<1> QED BY <1>1, <1>2, FS_Subset, FS_CardinalityType

\* When one handler moves, the slots that are held change by its own.
LEMMA OneMoves ==
    ASSUME Types, SlotsAreHeld, NEW i \in DOMAIN handlers, NEW h \in Handler,
           handlers' = [handlers EXCEPT ![i] = h],
           \/ (Holds(h) <=> Holds(handlers[i])) /\ free' = free
           \/ Holds(h) /\ ~Holds(handlers[i]) /\ free > 0 /\ free' = free - 1
           \/ ~Holds(h) /\ Holds(handlers[i]) /\ free' = free + 1
    PROVE  SlotsAreHeld' /\ free' \in Nat /\ handlers' \in Seq(Handler)
           /\ Len(handlers') = Len(handlers)
<1>1. /\ handlers' \in Seq(Handler) /\ Len(handlers') = Len(handlers)
      /\ DOMAIN handlers' = DOMAIN handlers /\ handlers'[i] = h
      /\ \A k \in DOMAIN handlers \ {i} : handlers'[k] = handlers[k]
  BY DEF Types
<1>2. IsFiniteSet(Holding) /\ Cardinality(Holding) \in Nat /\ free \in Nat
  BY HoldingFinite DEF Types
<1>3. CASE (Holds(h) <=> Holds(handlers[i])) /\ free' = free
  <2>1. Holding' = Holding
    BY <1>1, <1>3 DEF Holding, Holds
  <2> QED BY <1>1, <1>2, <1>3, <2>1 DEF SlotsAreHeld
<1>4. CASE Holds(h) /\ ~Holds(handlers[i]) /\ free > 0 /\ free' = free - 1
  <2>1. Holding' = Holding \cup {i} /\ i \notin Holding
    BY <1>1, <1>4 DEF Holding, Holds
  <2>2. Cardinality(Holding \cup {i}) = Cardinality(Holding) + 1
    BY <1>2, <2>1, FS_AddElement
  <2> QED BY <1>1, <1>2, <1>4, <2>1, <2>2 DEF SlotsAreHeld
<1>5. CASE ~Holds(h) /\ Holds(handlers[i]) /\ free' = free + 1
  <2>1. Holding' = Holding \ {i} /\ i \in Holding
    BY <1>1, <1>5 DEF Holding, Holds
  <2>2. Cardinality(Holding \ {i}) = Cardinality(Holding) - 1
    BY <1>2, <2>1, FS_RemoveElement
  <2> QED BY <1>1, <1>2, <1>5, <2>1, <2>2 DEF SlotsAreHeld
<1> QED BY <1>3, <1>4, <1>5

\* What a handler does for one call leaves the others as they are.
LEMMA OneIsSound ==
    ASSUME Types, AllSound, NEW i \in DOMAIN calls, NEW h,
           handlers' = [handlers EXCEPT ![i] = h], calls' = calls,
           \A k \in DOMAIN calls \ {i} : k \in containers => k \in containers',
           Sound(calls[i], h, i \in containers')
    PROVE  AllSound'
<1>1. /\ DOMAIN handlers = DOMAIN calls /\ handlers'[i] = h
      /\ \A k \in DOMAIN calls \ {i} : handlers'[k] = handlers[k]
  BY DEF Types
<1>2. SUFFICES ASSUME NEW k \in DOMAIN calls
               PROVE  Sound(calls[k], handlers'[k], k \in containers')
  BY DEF AllSound
<1>3. CASE k = i
  BY <1>1, <1>3
<1>4. CASE k # i
  <2>1. Sound(calls[k], handlers[k], k \in containers)
    BY DEF AllSound
  <2> QED BY <1>1, <1>4, <2>1 DEF Sound
<1> QED BY <1>3, <1>4

-----------------------------------------------------------------------------
(* Steps.                                                                  *)

LEMMA HandlerStep ==
    ASSUME IInv, NEW i \in DOMAIN calls, NEW h \in Handler,
           handlers' = [handlers EXCEPT ![i] = h], calls' = calls,
           \A k \in DOMAIN calls \ {i} : k \in containers => k \in containers',
           \/ (Holds(h) <=> Holds(handlers[i])) /\ free' = free
           \/ Holds(h) /\ ~Holds(handlers[i]) /\ free > 0 /\ free' = free - 1
           \/ ~Holds(h) /\ Holds(handlers[i]) /\ free' = free + 1,
           Sound(calls[i], h, i \in containers')
    PROVE  IInv'
<1>1. i \in DOMAIN handlers
  BY DEF IInv, Types
<1>2. SlotsAreHeld' /\ free' \in Nat /\ handlers' \in Seq(Handler)
      /\ Len(handlers') = Len(handlers)
  BY <1>1, OneMoves DEF IInv
<1>3. AllSound'
  BY OneIsSound DEF IInv
<1> QED BY <1>2, <1>3 DEF IInv, Types

\* Of a call that has a handler.
LEMMA CallFacts ==
    ASSUME IInv, NEW i \in DOMAIN calls
    PROVE  /\ calls[i] \in Call /\ handlers[i] \in Handler
           /\ Sound(calls[i], handlers[i], i \in containers)
           /\ Answer(calls[i]) \in Answers
           /\ {Nothing, Unavailable, ExecutionError} \subseteq Answers
BY DEF IInv, Types, AllSound, Answers

\* Before the container: the peer, a slot, the request.
LEMMA AcceptSteps ==
    ASSUME IInv, NEW i \in DOMAIN calls,
           TurnAway(i) \/ Refuse(i) \/ Acquire(i) \/ Read(i)
    PROVE  IInv'
<1> DEFINE H(pc, result, fault) == [pc |-> pc, result |-> result, fault |-> fault]
<1> USE CallFacts, Kinds
<1>1. CASE TurnAway(i)
  <2>1. H("closed", Nothing, "none") \in Handler
        /\ Sound(calls[i], H("closed", Nothing, "none"), i \in containers')
    BY <1>1 DEF Handler, Pcs, Faults, Sound, TurnAway, Nothing, ExecutionError
  <2>2. ~Holds(H("closed", Nothing, "none")) /\ ~Holds(handlers[i])
    BY <1>1 DEF Holds, TurnAway
  <2> QED BY <1>1, <2>1, <2>2, HandlerStep DEF TurnAway, Go
<1>2. CASE Refuse(i)
  <2>1. H("closed", Unavailable, "none") \in Handler
        /\ Sound(calls[i], H("closed", Unavailable, "none"), i \in containers')
    BY <1>2 DEF Handler, Pcs, Faults, Sound, Refuse, Unavailable, ExecutionError
  <2>2. ~Holds(H("closed", Unavailable, "none")) /\ ~Holds(handlers[i])
    BY <1>2 DEF Holds, Refuse
  <2> QED BY <1>2, <2>1, <2>2, HandlerStep DEF Refuse, Go
<1>3. CASE Acquire(i)
  <2>1. H("reading", Nothing, "none") \in Handler
        /\ Sound(calls[i], H("reading", Nothing, "none"), i \in containers')
    BY <1>3 DEF Handler, Pcs, Faults, Sound, Acquire, Nothing, ExecutionError
  <2>2. Holds(H("reading", Nothing, "none")) /\ ~Holds(handlers[i])
    BY <1>3 DEF Holds, Acquire
  <2> QED BY <1>3, <2>1, <2>2, HandlerStep DEF Acquire, Go
<1>4. CASE Read(i)
  <2>1. /\ H("starting", Nothing, "none") \in Handler
        /\ Sound(calls[i], H("starting", Nothing, "none"), i \in containers')
        /\ H("releasing", ExecutionError, "late") \in Handler
        /\ Sound(calls[i], H("releasing", ExecutionError, "late"), i \in containers')
    BY <1>4 DEF Handler, Pcs, Faults, Sound, Read, Nothing, ExecutionError
  <2>2. /\ Holds(handlers[i]) /\ Holds(H("starting", Nothing, "none"))
        /\ Holds(H("releasing", ExecutionError, "late"))
    BY <1>4 DEF Holds, Read
  <2>3. CASE Go(i, "starting", Nothing, "none")
    BY <1>4, <2>1, <2>2, <2>3, HandlerStep DEF Read, Go
  <2>4. CASE Go(i, "releasing", ExecutionError, "late")
    BY <1>4, <2>1, <2>2, <2>4, HandlerStep DEF Read, Go
  <2> QED BY <1>4, <2>3, <2>4 DEF Read
<1> QED BY <1>1, <1>2, <1>3, <1>4

LEMMA StartStep ==
    ASSUME IInv, NEW i \in DOMAIN calls, Start(i)
    PROVE  IInv'
<1> DEFINE run == [pc |-> "running", result |-> Nothing, fault |-> "none"]
<1> DEFINE off == [pc |-> "cleaning", result |-> Unavailable, fault |-> "none"]
<1>1. Holds(handlers[i]) /\ Holds(run) /\ Holds(off)
  BY DEF Holds, Start
<1>2. run \in Handler /\ off \in Handler
  BY CallFacts DEF Handler, Pcs, Faults
<1>3. CASE containers' = containers \cup {i} /\ handlers' = [handlers EXCEPT ![i] = run]
  <2>1. Sound(calls[i], run, i \in containers')
    BY <1>3, CallFacts DEF Sound, Start, Nothing, ExecutionError
  <2> QED BY <1>1, <1>2, <1>3, <2>1, HandlerStep DEF Start
<1>4. CASE UNCHANGED containers /\ handlers' = [handlers EXCEPT ![i] = off]
  <2>1. Sound(calls[i], off, i \in containers')
    BY <1>4, CallFacts DEF Sound, Start, Unavailable, ExecutionError
  <2> QED BY <1>1, <1>2, <1>4, <2>1, HandlerStep DEF Start
<1> QED BY <1>3, <1>4 DEF Start, Go, Name

\* The container ends, is gone, or is given up; whatever the handler then holds
\* is an answer, or an error with a cause.
LEMMA RunSteps ==
    ASSUME IInv, NEW i \in DOMAIN calls,
           RunEnds(i) \/ Removed(i) \/ Lost(i) \/ TimesOut(i)
    PROVE  IInv'
<1> DEFINE h == handlers'[i]
<1>1. /\ DOMAIN handlers = DOMAIN calls /\ Holds(handlers[i])
  BY DEF IInv, Types, Holds, RunEnds, Removed, Lost, TimesOut
<1>2. CASE RunEnds(i)
  <2> DEFINE fails == \/ Exceeds(What(calls[i]))
                      \/ RunnerFails(What(calls[i]), Cases(calls[i]))
  <2> DEFINE result == IF fails THEN ExecutionError ELSE Answer(calls[i])
  <2> DEFINE g == [pc |-> "cleaning", result |-> result, fault |-> "none"]
  <2>1. handlers' = [handlers EXCEPT ![i] = g]
    BY <1>2 DEF RunEnds, Go, Answer
  <2>2. g \in Handler /\ Holds(g)
    BY CallFacts DEF Handler, Pcs, Faults, Holds
  <2>3. fails => EndsItsRun(What(calls[i]))
    BY <1>2, CallFacts, RunnerFailsForCause DEF RunEnds, Sound, Exceeds, EndsItsRun, What, Call
  <2>4. Sound(calls[i], g, i \in containers')
    BY <1>2, <2>3, CallFacts, Kinds DEF Sound, RunEnds
  <2> QED BY <1>1, <1>2, <2>1, <2>2, <2>4, HandlerStep DEF RunEnds, Name
<1>3. CASE Removed(i)
  <2>1. FALSE
    BY <1>3, CallFacts DEF Removed, Sound, Name
  <2> QED BY <2>1
<1>4. ASSUME NEW result \in {Nothing, Unavailable, ExecutionError},
             NEW fault \in {"daemon", "time"}, Lost(i) \/ TimesOut(i),
             Go(i, "cleaning", result, fault)
      PROVE  IInv'
  <2> DEFINE g == [pc |-> "cleaning", result |-> result, fault |-> fault]
  <2>1. handlers' = [handlers EXCEPT ![i] = g]
    BY <1>4 DEF Go
  <2>2. g \in Handler /\ Holds(g)
    BY CallFacts DEF Handler, Pcs, Faults, Holds
  <2>3. Sound(calls[i], g, i \in containers')
    BY <1>1, <1>4, CallFacts DEF Sound, Lost, TimesOut
  <2> QED BY <1>1, <1>4, <2>1, <2>2, <2>3, HandlerStep DEF Lost, TimesOut
<1> QED BY <1>2, <1>3, <1>4 DEF Lost, TimesOut

LEMMA EndSteps ==
    ASSUME IInv, NEW i \in DOMAIN calls, Remove(i) \/ Release(i)
    PROVE  IInv'
<1>1. CASE Remove(i)
  <2> DEFINE g == [handlers[i] EXCEPT !.pc = "releasing"]
  <2>1. /\ handlers' = [handlers EXCEPT ![i] = g] /\ g \in Handler
        /\ Holds(g) /\ Holds(handlers[i])
    BY <1>1, CallFacts DEF Remove, Handler, Pcs, Holds
  <2>2. g.pc = "releasing" /\ g.result = handlers[i].result /\ g.fault = handlers[i].fault
        /\ handlers[i].pc = "cleaning"
    BY <1>1, CallFacts DEF Handler, Remove
  <2>3. Sound(calls[i], g, i \in containers')
    BY <2>2, CallFacts DEF Sound
  <2>4. \A k \in DOMAIN calls \ {i} : k \in containers => k \in containers'
    BY <1>1 DEF Remove, Name
  <2> QED BY <1>1, <2>1, <2>3, <2>4, HandlerStep DEF Remove
<1>2. CASE Release(i)
  <2> DEFINE g == [handlers[i] EXCEPT !.pc = "closed"]
  <2>1. /\ handlers' = [handlers EXCEPT ![i] = g] /\ g \in Handler
        /\ ~Holds(g) /\ Holds(handlers[i])
    BY <1>2, CallFacts DEF Release, Handler, Pcs, Holds
  <2>2. g.pc = "closed" /\ g.result = handlers[i].result /\ g.fault = handlers[i].fault
        /\ handlers[i].pc = "releasing"
    BY <1>2, CallFacts DEF Handler, Release
  <2>3. Sound(calls[i], g, i \in containers')
    BY <2>2, CallFacts DEF Sound
  <2> QED BY <1>2, <2>1, <2>3, HandlerStep DEF Release
<1> QED BY <1>1, <1>2

\* A caller's result: an error has its cause, a grade is the runner's answer's.
LEMMA CallerStep ==
    ASSUME IInv, NEW i \in DOMAIN calls, NEW result,
           calls' = [calls EXCEPT ![i] = Finish(@, result)],
           UNCHANGED <<handlers, free, containers>>,
           calls[i].state = "waiting",
           \/ result = Unavailable
           \/ result = handlers[i].result /\ handlers[i].pc = "closed"
    PROVE  IInv'
<1> DEFINE c == calls[i]
<1> DEFINE d == Finish(c, result)
<1>1. c \in Call /\ Sound(c, handlers[i], i \in containers)
  BY CallFacts
<1>2. /\ d \in Call /\ What(d) = What(c) /\ Cases(d) = Cases(c)
  <2>1. Grade(c, result) \in {<<>>} \cup UNION {[D -> BOOLEAN] : D \in CaseSets}
    BY <1>1, GradeType
  <2> QED BY <1>1, <2>1 DEF Finish, Call, What, Cases
<1>3. Answer(d) = Answer(c) /\ \A r : Grade(d, r) = Grade(c, r)
  BY <1>2 DEF Answer, Grade
<1>4. Sound(d, handlers[i], i \in containers)
  <2>1. CASE result.kind \in {"nothing", "unavailable"}
    <3>1. d.state = "unavailable"
      BY <1>1, <2>1 DEF Finish, Call
    <3> QED BY <1>1, <1>2, <1>3, <3>1 DEF Sound
  <2>2. CASE result.kind = "execution_error"
    <3>1. result = ExecutionError /\ handlers[i].pc = "closed" /\ result = handlers[i].result
      BY <1>1, <2>2, Kinds DEF Sound
    <3>2. d.by_error /\ d.state = "graded"
      BY <1>1, <2>2 DEF Finish, Call
    <3> QED BY <1>1, <1>2, <1>3, <3>1, <3>2 DEF Sound
  <2>3. CASE result = Answer(c)
    <3>1. result.kind = "rows"
      BY <1>1, <2>3, Kinds
    <3>2. ~d.by_error /\ d.state = "graded" /\ d.grade = Grade(c, result)
      BY <1>1, <3>1 DEF Finish, Call
    <3> QED BY <1>1, <1>2, <1>3, <2>3, <3>2 DEF Sound
  <2> QED BY <1>1, <2>1, <2>2, <2>3, Kinds DEF Sound
<1> HIDE DEF d
<1>5. calls' = [calls EXCEPT ![i] = d]
  BY DEF d
<1>6. calls' \in Seq(Call) /\ Len(calls') = Len(calls) /\ DOMAIN calls' = DOMAIN calls
  BY <1>2, <1>5 DEF IInv, Types
<1>7. AllSound'
  <2> SUFFICES ASSUME NEW k \in DOMAIN calls
               PROVE  Sound(calls'[k], handlers[k], k \in containers)
    BY <1>6 DEF AllSound
  <2> QED BY <1>4, <1>5 DEF IInv, AllSound, Types
<1>8. SlotsAreHeld'
  BY DEF IInv, SlotsAreHeld, Holding
<1> QED BY <1>6, <1>7, <1>8 DEF IInv, Types

LEMMA ReceiveStep ==
    ASSUME IInv, NEW i \in DOMAIN calls, Receive(i) \/ GiveUp(i)
    PROVE  IInv'
<1>1. CASE Receive(i)
  <2>1. Validated(handlers[i].result, Cases(calls[i])) = handlers[i].result
    BY CallFacts, Kinds DEF Sound, Validated
  <2> QED BY <1>1, <2>1, CallerStep DEF Receive
<1>2. CASE GiveUp(i)
  BY <1>2, CallerStep DEF GiveUp
<1> QED BY <1>1, <1>2

\* A new call: accepted and sent, or rejected for what it is.
LEMMA EvaluateStep ==
    ASSUME IInv, NEW c \in Callers, NEW sub \in DOMAIN Submissions, NEW hidden \in BOOLEAN,
           Evaluate(c, sub, hidden)
    PROVE  IInv'
<1> DEFINE new == [caller |-> c, sub |-> sub, hidden |-> hidden, state |-> "waiting",
                   by_error |-> FALSE, grade |-> <<>>]
<1> DEFINE opened == [NoHandler EXCEPT !.pc = "accepted"]
<1>1. new \in Call
  BY DEF Call
<1>2. /\ NoHandler \in Handler /\ opened \in Handler /\ ~Holds(NoHandler) /\ ~Holds(opened)
      /\ NoHandler.result = Nothing /\ opened.result = Nothing
      /\ NoHandler.pc = "closed" /\ opened.pc = "accepted"
  BY DEF NoHandler, Handler, Pcs, Faults, Answers, Holds
<1>3. ASSUME NEW d \in Call, NEW h \in Handler, Sound(d, h, FALSE), ~Holds(h),
             h.pc # "running", calls' = Append(calls, d), handlers' = Append(handlers, h)
      PROVE  IInv'
  <2> DEFINE n == Len(calls) + 1
  <2>1. /\ calls' \in Seq(Call) /\ handlers' \in Seq(Handler)
        /\ Len(calls') = n /\ Len(handlers') = n /\ DOMAIN calls' = DOMAIN calls \cup {n}
        /\ DOMAIN handlers' = DOMAIN handlers \cup {n} /\ n \notin DOMAIN handlers
        /\ calls'[n] = d /\ handlers'[n] = h
        /\ \A k \in DOMAIN calls : calls'[k] = calls[k] /\ handlers'[k] = handlers[k]
        /\ DOMAIN handlers = DOMAIN calls
    BY <1>3 DEF IInv, Types
  <2>2. UNCHANGED <<free, containers>>
    BY DEF Evaluate
  <2>3. Sound(d, h, n \in containers)
    BY <1>3 DEF Sound
  <2>4. AllSound'
    BY <2>1, <2>2, <2>3 DEF IInv, AllSound
  <2>5. Holding' = Holding
    BY <1>3, <2>1 DEF Holding, Holds
  <2> QED BY <2>1, <2>2, <2>4, <2>5 DEF IInv, Types, SlotsAreHeld
<1>4. CASE /\ Accepted(Submissions[sub]) /\ calls' = Append(calls, new)
           /\ handlers' = Append(handlers, opened)
  <2>1. Sound(new, opened, FALSE)
    BY <1>2, <1>4 DEF Sound, What, Nothing, ExecutionError
  <2> QED BY <1>1, <1>2, <1>3, <1>4, <2>1
<1>5. CASE /\ ~Accepted(Submissions[sub]) /\ calls' = Append(calls, Finish(new, ExecutionError))
           /\ handlers' = Append(handlers, NoHandler)
  <2> DEFINE d == Finish(new, ExecutionError)
  <2>1. d \in Call /\ d.state = "graded" /\ d.by_error /\ d.sub = sub
    <3>1. Grade(new, ExecutionError) \in {<<>>} \cup UNION {[D -> BOOLEAN] : D \in CaseSets}
      BY <1>1, GradeType
    <3> QED BY <3>1, Kinds, <1>1 DEF Finish, Call
  <2>2. Sound(d, NoHandler, FALSE)
    BY <1>2, <1>5, <2>1 DEF Sound, What, Nothing, ExecutionError
  <2> QED BY <1>2, <1>3, <1>5, <2>1, <2>2
<1> QED BY <1>4, <1>5 DEF Evaluate

LEMMA RestartStep ==
    ASSUME IInv, Restart
    PROVE  IInv'
<1>1. NoHandler \in Handler /\ NoHandler.result = Nothing /\ NoHandler.pc = "closed"
  BY DEF NoHandler, Handler, Pcs, Faults, Answers
<1>2. /\ handlers' \in Seq(Handler) /\ Len(handlers') = Len(handlers)
      /\ DOMAIN handlers' = DOMAIN calls /\ DOMAIN handlers = DOMAIN calls
      /\ \A i \in DOMAIN calls : handlers'[i] = IF handlers[i].pc = "closed" THEN handlers[i]
                                                ELSE NoHandler
  BY <1>1 DEF IInv, Types, Restart
<1>3. AllSound'
  <2> SUFFICES ASSUME NEW i \in DOMAIN calls
               PROVE  Sound(calls[i], handlers'[i], i \in containers)
    BY DEF AllSound, Restart
  <2>1. Sound(calls[i], handlers[i], i \in containers)
    BY DEF IInv, AllSound
  <2> QED BY <1>1, <1>2, <2>1 DEF Sound, Nothing, ExecutionError
<1>4. Holding' = {}
  BY <1>1, <1>2 DEF Holding
<1>5. SlotsAreHeld' /\ free' \in Nat
  BY <1>4, FS_EmptySet, ExecutorAssumption DEF SlotsAreHeld, Restart
<1> QED BY <1>2, <1>3, <1>5 DEF IInv, Types, Restart

LEMMA DaemonSteps ==
    ASSUME IInv, Expire \/ DaemonChanges
    PROVE  IInv'
<1>1. CASE Expire
  <2>1. AllSound'
    BY <1>1 DEF IInv, AllSound, Sound, Expire, Name, Types
  <2> QED BY <1>1, <2>1 DEF IInv, Types, SlotsAreHeld, Holding, Expire
<1>2. CASE DaemonChanges /\ UNCHANGED <<containers, handlers>>
  BY <1>2 DEF IInv, Types, AllSound, SlotsAreHeld, Holding, DaemonChanges
<1>3. CASE /\ DaemonChanges /\ containers' = {}
           /\ handlers' = [i \in DOMAIN handlers |->
                              IF handlers[i].pc = "running"
                              THEN [handlers[i] EXCEPT !.fault = "daemon"] ELSE handlers[i]]
  <2>1. \A i \in DOMAIN handlers :
           handlers[i] \in Handler /\ [handlers[i] EXCEPT !.fault = "daemon"] \in Handler
    <3> SUFFICES ASSUME NEW h \in Handler PROVE [h EXCEPT !.fault = "daemon"] \in Handler
      BY DEF IInv, Types
    <3> QED BY DEF Handler, Faults
  <2>2. /\ handlers' \in Seq(Handler) /\ Len(handlers') = Len(handlers)
        /\ DOMAIN handlers' = DOMAIN handlers
    BY <1>3, <2>1 DEF IInv, Types
  <2>3. \A i \in DOMAIN handlers :
           /\ handlers'[i].pc = handlers[i].pc /\ handlers'[i].result = handlers[i].result
           /\ handlers'[i].fault = IF handlers[i].pc = "running" THEN "daemon" ELSE handlers[i].fault
    BY <1>3, <2>1 DEF Handler
  <2>4. Holding' = Holding
    BY <2>2, <2>3 DEF Holding
  <2>5. AllSound'
    <3> SUFFICES ASSUME NEW i \in DOMAIN calls
                 PROVE  Sound(calls[i], handlers'[i], i \in containers')
      BY <1>3 DEF AllSound, DaemonChanges
    <3>1. Sound(calls[i], handlers[i], i \in containers) /\ i \in DOMAIN handlers
      BY DEF IInv, AllSound, Types
    <3> QED BY <2>3, <3>1 DEF Sound
  <2> QED BY <1>3, <2>2, <2>4, <2>5 DEF IInv, Types, SlotsAreHeld, DaemonChanges
<1> QED BY <1>1, <1>2, <1>3 DEF DaemonChanges

-----------------------------------------------------------------------------
(* Theorems.                                                               *)

LEMMA InitIInv ==
    ASSUME ExecutorInit
    PROVE  IInv
<1>1. Holding = {}
  BY DEF ExecutorInit, Holding
<1> QED BY <1>1, FS_EmptySet, ExecutorAssumption
        DEF ExecutorInit, IInv, Types, AllSound, SlotsAreHeld

LEMMA StepIInv ==
    ASSUME IInv, [ExecutorNext]_xvars
    PROVE  IInv'
<1>1. CASE UNCHANGED xvars
  BY <1>1 DEF xvars, IInv, Types, AllSound, SlotsAreHeld, Holding
<1>2. CASE ExecutorNext
  BY <1>2, EvaluateStep, ReceiveStep, AcceptSteps, StartStep, RunSteps, EndSteps,
     RestartStep, DaemonSteps DEF ExecutorNext, Handle
<1> QED BY <1>1, <1>2

\* The invariant of the executor, for every set of submissions and callers and
\* any number of slots, calls and restarts of the broker.
THEOREM ExecutorInductive == ExecutorSpec => []IInv
<1>1. ExecutorInit => IInv
  BY InitIInv
<1>2. IInv /\ [ExecutorNext]_xvars => IInv'
  BY StepIInv
<1> QED BY <1>1, <1>2, PTL DEF ExecutorSpec

\* No slot of the semaphore (sandbox.py:438) is lost or given back twice on
\* any path of a handler, through restarts and a daemon that dies.
THEOREM SlotsHeld == ExecutorSpec => []SlotsAreHeld
<1>1. IInv => SlotsAreHeld
  BY DEF IInv
<1> QED BY <1>1, ExecutorInductive, PTL

\* A candidate is failed by an execution error only for what it is or did, or
\* for a wait that ran out or a daemon that died under it.
THEOREM FailuresAreDeserved == ExecutorSpec => []FailureIsDeserved
<1>1. IInv => FailureIsDeserved
  BY DEF IInv, Types, AllSound, Sound, FailureIsDeserved
<1> QED BY <1>1, ExecutorInductive, PTL

\* The grade of a repository is what each case, run alone, deserves.
THEOREM GradesAreTrue == ExecutorSpec => []GradeIsTrue
<1>1. ASSUME IInv PROVE GradeIsTrue
  <2> SUFFICES ASSUME NEW i \in DOMAIN calls, calls[i].state = "graded", ~calls[i].by_error,
                      What(calls[i]).keeps # "in libraries",
                      What(calls[i]).task.kind = "repository",
                      NEW k \in DOMAIN Cases(calls[i])
               PROVE  calls[i].grade[k] <=>
                         Passes(What(calls[i]).task, Cases(calls[i])[k],
                                Does(What(calls[i]), Cases(calls[i])[k], 0))
    BY DEF GradeIsTrue
  <2>1. /\ calls[i] \in Call /\ Accepted(What(calls[i]))
        /\ calls[i].grade = Grade(calls[i], Answer(calls[i]))
    <3>1. calls[i] \in Call /\ Sound(calls[i], handlers[i], i \in containers)
      BY <1>1, CallFacts
    <3> QED BY <3>1 DEF Sound
  <2> QED BY <2>1, AnswerIsTrue
<1> QED BY <1>1, ExecutorInductive, PTL
=============================================================================
