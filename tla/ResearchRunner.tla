--------------------------- MODULE ResearchRunner ---------------------------
(***************************************************************************)
(* Runs of research over one database: research_runner.py and what it      *)
(* writes through research_control_plane.py, research_cycle_registry.py    *)
(* and research_checkpoint_store.py, beside the other writer of research   *)
(* cycles, run_research of research.py (an "evolver" here).                *)
(*                                                                         *)
(* Every process has a connection of its own.  Its reads see the last      *)
(* commit, each SELECT another one perhaps.  Its first INSERT takes the    *)
(* write lock, which it holds until it commits: the writes of a generation *)
(* are one step.  A process may die between any two steps; what it had not *)
(* committed is gone, and another process may be started in its place.     *)
(*                                                                         *)
(* Abstractions.  Cycle and checkpoint ids are the generation they name;   *)
(* digests are what they digest.  The database is not edited by hand, so   *)
(* rows decode.  Runs without a registry leave nothing behind and are left *)
(* out; so is the health and scheduling report, which nobody acts on.      *)
(***************************************************************************)
EXTENDS ResearchGenerations, FiniteSets, FiniteSetsExt

CONSTANTS
    Runner,   \* processes of research_runner.py
    Evolver,  \* processes of research.py
    Job,      \* what each runner is called with
    Rounds,   \* the generations an evolver is called for
    Starts,   \* bound on the processes started
    None

Process == Runner \union Evolver

Stop == {Job[r].stop : r \in Runner}
Seed == {Job[r].seed : r \in Runner}

ASSUME JobAssumption ==
    /\ Runner \intersect Evolver = {}
    /\ "generation" \notin Evolver  \* the ids of evolvers are hexadecimal
    /\ None \notin Checkpoint
    /\ Starts \in Nat
    /\ \A r \in Runner :
          /\ Job[r].population \in Population
          /\ Job[r].seed \in Nat
          /\ Job[r].stop \in {NoStop} \union (Nat \ {0})
          /\ \A p \in Population : Job[r].target \in 1 .. Len(Fitness[p])
          /\ Job[r].store \in BOOLEAN  \* with a checkpoint store

VARIABLES
    cycles,       \* rows of research_cycles
    audit,        \* rows of research_cycle_audit
    checkpoints,  \* rows of research_checkpoints
    proc,         \* the processes
    starts,       \* processes started so far
    alone         \* processes beside which nobody else has committed

ledger == <<cycles, audit, checkpoints>>
vars == <<ledger, proc, starts, alone>>

WithStore(a) == a \in Runner /\ Job[a].store

\* What a process holds: where it is, the state its generation starts from,
\* the one it made of it, the number of audit rows it has verified; between its
\* last SELECT and its first INSERT the digest to chain to and whether the cycle
\* is there; and why it was refused.
Doing(pc, at, made, rows) ==
    [pc |-> pc, at |-> at, made |-> made, rows |-> rows,
     prev |-> None, found |-> FALSE, why |-> None]

Writing(at, made, prev, found) ==
    [pc |-> "write", at |-> at, made |-> made, rows |-> 0,
     prev |-> prev, found |-> found, why |-> None]

Refused(why) ==
    [pc |-> "refused", at |-> None, made |-> None, rows |-> 0,
     prev |-> None, found |-> FALSE, why |-> why]

Idle == Doing("idle", None, None, 0)

Init ==
    /\ cycles = {} /\ audit = <<>> /\ checkpoints = {}
    /\ proc = [a \in Process |-> Idle]
    /\ starts = 0
    /\ alone = {}

Running(a) == proc[a].pc \notin {"idle", "done", "refused"}

(***************************************************************************)
(* The two ledgers and what is verified of them                            *)
(***************************************************************************)
\* Faulty: the plan of a cycle does not name the checkpoint.
UnboundRow(id, generation, seed, digest) ==
    [id |-> id, generation |-> generation,
     plan |-> [seed |-> seed, checkpoint_digest |-> None]]

Row(id, generation, seed, digest) ==
    [id |-> id, generation |-> generation,
     plan |-> [seed |-> seed, checkpoint_digest |-> digest]]

RowsOf(id) == {row \in cycles : row.id = id}

LastDigest == IF audit = <<>> THEN None ELSE Last(audit).digest

Chained(i) == audit[i].previous = IF i = 1 THEN None ELSE audit[i - 1].digest

\* ResearchCycleRegistry.verify up to its last statement, the count.
RegistryVerifies ==
    \A i \in DOMAIN audit :
       /\ Chained(i)
       /\ RowsOf(audit[i].id) = {audit[i].digest}
       /\ \A j \in 1 .. i - 1 : audit[j].id # audit[i].id

\* ResearchCheckpointStore.verify
CheckpointsVerify ==
    /\ {row.checkpoint.next : row \in checkpoints} = 1 .. Cardinality(checkpoints)
    /\ \A row \in checkpoints : ValidCheckpoint(row.checkpoint)

CheckpointFor(next) == {row.checkpoint : row \in {c \in checkpoints : c.checkpoint.next = next}}

Latest ==
    IF checkpoints = {} THEN None
    ELSE CHOOSE cp \in {row.checkpoint : row \in checkpoints} :
            \A row \in checkpoints : row.checkpoint.next <= cp.next

\* _validate_pair
PairIsValid(row, cp) ==
    /\ row.generation = cp.next - 1
    /\ row.plan.checkpoint_digest = cp
    /\ cp.seed = row.plan.seed + 1
    /\ cp.next > 1 => \E prior \in CheckpointFor(cp.next - 1) : prior.seed = row.plan.seed

\* ResearchControlPlane.verify
ControlVerifies ==
    /\ RegistryVerifies
    /\ CheckpointsVerify
    /\ \A row \in checkpoints :
          \E cycle \in RowsOf(row.cycle_id) : PairIsValid(cycle, row.checkpoint)

\* verify_generation takes the first cycle of the generation by id, and the
\* hexadecimal ids of the evolvers sort before "generation-...".
GenerationVerifies(g) ==
    /\ \A row \in cycles : row.generation = g => row.id = <<"generation", g>>
    /\ \E row \in RowsOf(<<"generation", g>>), cp \in CheckpointFor(g + 1) :
          PairIsValid(row, cp)
    /\ ControlVerifies

\* _verify_checkpoint_binding
Bound(cp) ==
    cp.next = 0 \/ \E row \in RowsOf(<<"generation", cp.next - 1>>) :
                      row.plan.checkpoint_digest = cp

Verifies(a) ==
    /\ RegistryVerifies
    /\ WithStore(a) =>
          /\ CheckpointsVerify
          /\ proc[a].pc # "save" => ControlVerifies
          /\ proc[a].pc = "head" /\ proc[a].at.next > 0
             => GenerationVerifies(proc[a].at.next - 1)

(***************************************************************************)
(* Starting and ending                                                     *)
(***************************************************************************)
Enter(a, cp) ==
    IF (a \in Runner /\ cp.next >= Job[a].target) \/ (a \in Evolver /\ cp.next > Rounds)
    THEN Doing("done", cp, None, 0)
    ELSE Doing(IF a \in Runner THEN "head" ELSE "save", cp, None, 0)

Set(a, p) == proc' = [proc EXCEPT ![a] = p]

Refuse(a, why) ==
    /\ Set(a, Refused(why))
    /\ UNCHANGED <<ledger, starts, alone>>

Start(a) ==
    /\ ~Running(a)
    /\ starts < Starts
    /\ starts' = starts + 1
    /\ alone' = alone \union {a}
    /\ UNCHANGED ledger

\* run_research of research_runner.py
RunResearch(r) ==
    /\ Start(r)
    /\ Set(r, Enter(r, Origin(Job[r].population, Job[r].seed)))

\* run_research of research.py, whose generations count from one.
Evolve(w) ==
    /\ Start(w)
    /\ Set(w, Enter(w, [next |-> 1]))

\* Faulty: a stopped checkpoint is resumed.
EnterResumedAnyway(r, cp, ok) ==
    Set(r, IF ok /\ cp.next <= Job[r].target THEN Enter(r, cp)
           ELSE Refused("unfit"))

EnterResumed(r, cp, ok) ==
    Set(r, IF ok /\ ~cp.stopped /\ cp.next <= Job[r].target THEN Enter(r, cp)
           ELSE Refused("unfit"))

\* resume_research_from_store.  Its verifications precede those of the first
\* generation, which refuse what they refuse.
ResumeFromStore(r) ==
    /\ Job[r].store
    /\ Start(r)
    /\ IF Latest = None
       THEN Set(r, Refused("unfit"))
       ELSE EnterResumed(r, Latest, TRUE)

\* Exported checkpoints: those of this ledger and those of some other run.
Exported ==
    {row.checkpoint : row \in checkpoints}
      \union {After(Origin(Job[r].population, Job[r].seed), Job[r].stop) : r \in Runner}

\* resume_research with a checkpoint the caller supplies
ResumeSupplied(r) ==
    /\ Start(r)
    /\ \E cp \in Exported :
          EnterResumed(r, cp, /\ Bound(cp)
                              /\ Job[r].store => cp \in CheckpointFor(cp.next))

Crash(a) ==
    /\ Running(a)
    /\ Set(a, Idle)
    /\ UNCHANGED <<ledger, starts, alone>>

(***************************************************************************)
(* A generation                                                            *)
(***************************************************************************)
\* The head of the loop, persist_generation, save_cycle_in_transaction and
\* the check after the commit verify the ledger: the audit rows first ...
CountStep(pc) ==
    CASE pc = "head" -> "head count"
      [] pc = "save" -> "save count"
      [] pc = "reload" -> "reload count"

Verify(a) ==
    /\ proc[a].pc \in {"head", "save", "reload"}
    /\ IF Verifies(a)
       THEN /\ Set(a, Doing(CountStep(proc[a].pc), proc[a].at, proc[a].made, Len(audit)))
            /\ UNCHANGED <<ledger, starts, alone>>
       ELSE Refuse(a, "evidence")

Counted(a) == Cardinality(cycles) = proc[a].rows

\* ... and then, by another SELECT, the number of cycles.
CountAtHead(r) ==
    /\ proc[r].pc = "head count"
    /\ IF Counted(r)
       THEN /\ Set(r, Doing("evaluate", proc[r].at, None, 0))
            /\ UNCHANGED <<ledger, starts, alone>>
       ELSE Refuse(r, "evidence")

\* The guards of persist_generation over the latest checkpoint.
Follows(cp) ==
    IF Latest = None THEN cp.next = 0
    ELSE cp.next = Latest.next /\ cp.seed = Latest.seed

\* run_research_cycle and record_generation, in memory, and the guards that
\* persist_generation starts with.
Evaluate(r) ==
    /\ proc[r].pc = "evaluate"
    /\ LET cp == proc[r].at
       IN  IF CanRecord(cp.history, cp.next) /\ (WithStore(r) => Follows(cp))
           THEN /\ Set(r, Doing("save", cp, After(cp, Job[r].stop), 0))
                /\ UNCHANGED <<ledger, starts, alone>>
           ELSE Refuse(r, "order")

\* The evaluator raises, or no unique population can be produced.
EvaluationFails(r) ==
    /\ proc[r].pc = "evaluate"
    /\ Refuse(r, "evaluation")

\* Faulty: the row names the checkpoint its generation started from.
RowOfStart(a) ==
    LET cp == proc[a].at
    IN  IF a \in Runner /\ cp.next > 0
        THEN Row(<<"generation", cp.next>>, cp.next, cp.seed, cp)
        ELSE Row(<<IF a \in Runner THEN "generation" ELSE a, cp.next>>, cp.next,
                 IF a \in Runner THEN cp.seed ELSE None, proc[a].made)

RowOf(a) ==
    LET cp == proc[a].at
    IN  IF a \in Runner
        THEN Row(<<"generation", cp.next>>, cp.next, cp.seed, proc[a].made)
        ELSE Row(<<a, cp.next>>, cp.next, None, None)

\* save_cycle_in_transaction: is the cycle there, and whom to chain it to.
Read(a) ==
    /\ proc[a].pc = "save count"
    /\ IF ~Counted(a) THEN Refuse(a, "evidence")
       ELSE IF RowsOf(RowOf(a).id) \notin {{}, {RowOf(a)}} THEN Refuse(a, "conflict")
       ELSE /\ Set(a, Writing(proc[a].at, proc[a].made, LastDigest, RowsOf(RowOf(a).id) # {}))
            /\ UNCHANGED <<ledger, starts, alone>>

\* Faulty: the generation is not counted.
PassedInPlace(a) == Enter(a, proc[a].at)

\* Faulty: the seed is not.
PassedSameSeed(a) ==
    IF a \in Evolver THEN Enter(a, [next |-> proc[a].at.next + 1])
    ELSE Enter(a, [proc[a].made EXCEPT !.seed = proc[a].at.seed])

\* Past a generation: the next one, or the end of the run.
Passed(a) ==
    IF a \in Evolver THEN Enter(a, [next |-> proc[a].at.next + 1])
    ELSE IF proc[a].made.stopped THEN Doing("done", proc[a].made, None, 0)
    ELSE Enter(a, proc[a].made)

\* Faulty: the row replaces one with its id.
CycleFitsReplacing(a) == TRUE

\* The primary key of research_cycles; a row found is not inserted.
CycleFits(a) == proc[a].found \/ RowsOf(RowOf(a).id) = {}

\* ResearchCheckpointStore.save_in_transaction
CheckpointFits(cp) ==
    \/ CheckpointFor(cp.next) = {cp}
    \/ CheckpointFor(cp.next) = {} /\ (Latest = None \/ cp.next = Latest.next + 1)

\* Faulty: the cycle is committed on its own.
AddCheckpointLater(cp, id) == UNCHANGED checkpoints

AddCheckpoint(cp, id) ==
    checkpoints' = checkpoints \union {[cycle_id |-> id, checkpoint |-> cp]}

\* The INSERTs and the commit.
Write(a) ==
    /\ proc[a].pc = "write"
    /\ IF CycleFits(a) /\ (WithStore(a) => CheckpointFits(proc[a].made))
       THEN /\ IF proc[a].found THEN UNCHANGED <<cycles, audit>>
               ELSE /\ cycles' = (cycles \ RowsOf(RowOf(a).id)) \union {RowOf(a)}
                    /\ audit' = Append(audit, [id |-> RowOf(a).id, digest |-> RowOf(a),
                                               previous |-> proc[a].prev])
            /\ IF WithStore(a) THEN AddCheckpoint(proc[a].made, RowOf(a).id)
               ELSE UNCHANGED checkpoints
            /\ Set(a, IF WithStore(a) THEN Doing("reload", proc[a].at, proc[a].made, 0)
                      ELSE Passed(a))
            /\ alone' = IF UNCHANGED ledger THEN alone ELSE alone \intersect {a}
            /\ UNCHANGED starts
       ELSE Refuse(a, "conflict")

\* The count of the verification after the commit.
Reload(r) ==
    /\ proc[r].pc = "reload count"
    /\ IF Counted(r)
       THEN Set(r, Passed(r)) /\ UNCHANGED <<ledger, starts, alone>>
       ELSE Refuse(r, "evidence")

Step(a) ==
    \/ Verify(a) \/ Read(a) \/ Write(a)
    \/ a \in Runner /\ (CountAtHead(a) \/ Evaluate(a) \/ EvaluationFails(a) \/ Reload(a))

Next ==
    \/ \E a \in Process : Step(a) \/ Crash(a)
    \/ \E r \in Runner : RunResearch(r) \/ ResumeFromStore(r) \/ ResumeSupplied(r)
    \/ \E w \in Evolver : Evolve(w)

\* A process that is not killed goes on; nobody has to start one.
Spec == Init /\ [][Next]_vars /\ \A a \in Process : WF_vars(Step(a))
=============================================================================
