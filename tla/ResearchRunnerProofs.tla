------------------------ MODULE ResearchRunnerProofs ------------------------
(***************************************************************************)
(* Proofs about the research ledgers and the runs over them, for any       *)
(* number of runners and evolvers, any jobs and any number of generations. *)
(***************************************************************************)
EXTENDS ResearchRunnerProps, FiniteSetTheorems, TLAPS

-----------------------------------------------------------------------------
(* The inductive invariant *)

Generation(n) == <<"generation", n>>

Id == ({"generation"} \union Evolver) \X Nat

Cycle == [id : Id, generation : Nat,
          plan : [seed : Nat \union {None}, checkpoint_digest : Checkpoint \union {None}]]

AuditRow == [id : Id, digest : Cycle, previous : Cycle \union {None}]

CheckpointRow == [cycle_id : Id, checkpoint : Checkpoint]

Making == {"save", "save count", "write", "reload", "reload count"}

Counting == {"head count", "save count", "reload count"}

Pc == {"idle", "done", "refused", "head", "head count", "evaluate"} \union Making

Reason == {None, "unfit", "order", "evaluation", "evidence", "conflict"}

Doings == [pc : Pc, at : Checkpoint \union [next : Nat] \union {None},
           made : Checkpoint \union {None}, rows : Nat,
           prev : Cycle \union {None}, found : BOOLEAN, why : Reason]

Types ==
    /\ cycles \in SUBSET Cycle /\ IsFiniteSet(cycles)
    /\ audit \in Seq(AuditRow)
    /\ checkpoints \in SUBSET CheckpointRow /\ IsFiniteSet(checkpoints)
    /\ proc \in [Process -> Doings]
    /\ starts \in 0 .. Starts
    /\ alone \subseteq Process

\* A cycle id names one row; the generations of the runners have no gap.
CyclesInv ==
    /\ \A row \in cycles : IsRow(row) /\ row.generation = row.id[2]
    /\ \A row, other \in cycles : row.id = other.id => row = other
    /\ \A row \in cycles : row.id[1] = "generation" =>
          \A n \in 0 .. row.id[2] - 1 : RowsOf(Generation(n)) # {}

\* The audit names each cycle once, and chains but for evolvers.
AuditInv ==
    /\ \A i \in DOMAIN audit : audit[i].id = audit[i].digest.id
    /\ \A i, j \in DOMAIN audit : audit[i].id = audit[j].id => i = j
    /\ ForksOnlyBesideEvolvers

\* There is one checkpoint for each generation up to the last.
CheckpointsInv ==
    /\ \A row \in checkpoints :
          /\ row.cycle_id = Generation(row.checkpoint.next - 1)
          /\ row.checkpoint.next >= 1
    /\ \A row, other \in checkpoints :
          row.checkpoint.next = other.checkpoint.next => row = other
    /\ CheckpointsPaired

Durable(cp) == \E row \in checkpoints : row.checkpoint = cp

\* A runner computes from a state that is the origin of its job or was made by
\* the generation before.
RunnerInv(r) ==
    Running(r) =>
        /\ proc[r].at \in Checkpoint
        /\ ~proc[r].at.stopped
        /\ proc[r].at.next < Job[r].target
        /\ proc[r].at.next = 0 => proc[r].at = Origin(Job[r].population, Job[r].seed)
        /\ proc[r].at.next > 0 => RowsOf(Generation(proc[r].at.next - 1)) # {}
        /\ proc[r].pc \in Making => proc[r].made = After(proc[r].at, Job[r].stop)
        /\ proc[r].pc \in {"reload", "reload count"} => WithStore(r) /\ Durable(proc[r].made)

EvolverInv(w) ==
    Running(w) => proc[w].at \in [next : Nat] /\ proc[w].pc \in {"save", "save count", "write"}

MemoryInv(r) ==
    WithStore(r) /\ (Running(r) \/ proc[r].pc = "done") /\ proc[r].at.next > 0
    => Durable(proc[r].at)

\* A runner about to write knows the end of the chain, unless an evolver wrote
\* since or another runner made its row.
WriteInv(a) ==
    proc[a].pc = "write" =>
        IF proc[a].found THEN RowOf(a) \in cycles
        ELSE \/ a \in Evolver
             \/ RowsOf(RowOf(a).id) # {}
             \/ proc[a].prev = LastDigest
             \/ audit # <<>> /\ Last(audit).id[1] \in Evolver

CompanyInv(a) ==
    a \in alone =>
        /\ proc[a].pc \in Counting => proc[a].rows = Len(audit)
        /\ proc[a].pc = "refused" /\ proc[a].why = "evidence"
           => \E row \in cycles : row.id[1] \in Evolver

ProcInv(a) ==
    /\ a \in Runner => RunnerInv(a) /\ MemoryInv(a)
    /\ a \in Evolver => EvolverInv(a)
    /\ WriteInv(a)
    /\ CompanyInv(a)

LedgerInv == CyclesInv /\ AuditInv /\ CheckpointsInv

RunInv == Types /\ LedgerInv /\ \A a \in Process : ProcInv(a)

-----------------------------------------------------------------------------
(* What the operators of the model return *)

LEMMA DoingType ==
    ASSUME NEW pc \in Pc, NEW at \in Checkpoint \union [next : Nat] \union {None},
           NEW made \in Checkpoint \union {None}, NEW rows \in Nat
    PROVE  Doing(pc, at, made, rows) \in Doings
BY DEF Doing, Doings, Reason

LEMMA WritingType ==
    ASSUME NEW at \in Checkpoint \union [next : Nat] \union {None},
           NEW made \in Checkpoint \union {None},
           NEW prev \in Cycle \union {None}, NEW found \in BOOLEAN
    PROVE  Writing(at, made, prev, found) \in Doings
BY DEF Writing, Doings, Reason, Pc, Making

LEMMA RefusedType ==
    ASSUME NEW why \in Reason
    PROVE  Refused(why) \in Doings
BY DEF Refused, Doings, Pc

LEMMA IdleType == Idle \in Doings
BY DoingType DEF Idle, Pc

LEMMA OriginType ==
    ASSUME NEW r \in Runner
    PROVE  LET cp == Origin(Job[r].population, Job[r].seed)
           IN  cp \in Checkpoint /\ cp.next = 0 /\ ~cp.stopped /\ cp.next < Job[r].target
BY JobAssumption, FitnessAssumption DEF Origin, Checkpoint

\* A generation within the fitness recorded for it makes a checkpoint.
LEMMA AfterType ==
    ASSUME NEW cp \in Checkpoint, NEW stop, cp.next < Len(Fitness[cp.population])
    PROVE  /\ After(cp, stop) \in Checkpoint
           /\ After(cp, stop).next = cp.next + 1
           /\ After(cp, stop).seed = cp.seed + 1
           /\ ValidCheckpoint(After(cp, stop))
<1> DEFINE best == Fitness[cp.population][cp.next + 1]
           record == [generation |-> cp.next, best |-> best,
                      stale |-> IF BestBefore(cp.history, best)
                                THEN Staleness(cp.history) + 1 ELSE 0]
           history == RecordGeneration(cp.history, cp.next, best)
<1>1. cp.next \in Nat /\ cp.seed \in Nat /\ cp.history \in Seq(Record) /\ cp.population \in Population
  BY DEF Checkpoint
<1>2. best \in Nat
  BY <1>1, FitnessAssumption
<1>3. Staleness(cp.history) \in Nat
  <2>1. cp.history # <<>> => cp.history[Len(cp.history)] \in Record
    BY <1>1
  <2>. QED
    BY <2>1 DEF Staleness, Last, Record
<1>4. record \in Record
  BY <1>1, <1>2, <1>3 DEF Record
<1>5. history = Append(cp.history, record)
  BY DEF RecordGeneration
<1>6. history \in Seq(Record) /\ Last(history) = record /\ history # <<>>
  BY <1>1, <1>4, <1>5 DEF Last
<1>7. IsStagnating(history, stop) \in BOOLEAN
  BY DEF IsStagnating
<1>8. After(cp, stop) = [next |-> cp.next + 1, seed |-> cp.seed + 1,
                         population |-> cp.population, history |-> history,
                         stopped |-> IsStagnating(history, stop)]
  BY DEF After
<1> HIDE DEF best, history
<1>9. After(cp, stop) \in Checkpoint
  BY <1>1, <1>6, <1>7, <1>8 DEF Checkpoint
<1>. QED
  BY <1>1, <1>6, <1>8, <1>9 DEF ValidCheckpoint

LEMMA RunnerAfter ==
    ASSUME NEW r \in Runner, NEW cp \in Checkpoint, cp.next < Job[r].target
    PROVE  /\ After(cp, Job[r].stop) \in Checkpoint
           /\ After(cp, Job[r].stop).next = cp.next + 1
           /\ After(cp, Job[r].stop).seed = cp.seed + 1
           /\ ValidCheckpoint(After(cp, Job[r].stop))
<1>1. cp.population \in Population /\ cp.next \in Nat
  BY DEF Checkpoint
<1>2. Job[r].target \in 1 .. Len(Fitness[cp.population])
  BY <1>1, JobAssumption
<1>3. cp.next < Len(Fitness[cp.population])
  BY <1>1, <1>2, FitnessAssumption
<1>. QED
  BY <1>3, AfterType

LEMMA InCheckpointFor ==
    ASSUME NEW n, NEW cp
    PROVE  cp \in CheckpointFor(n)
             <=> cp.next = n /\ \E row \in checkpoints : row.checkpoint = cp
BY DEF CheckpointFor

\* The latest checkpoint is the one with the number of checkpoints.
LEMMA LatestFacts ==
    ASSUME Types, CheckpointsInv
    PROVE  /\ Latest = None <=> checkpoints = {}
           /\ checkpoints # {} =>
                 /\ Durable(Latest) /\ Latest \in Checkpoint
                 /\ Latest.next = Cardinality(checkpoints)
                 /\ \A row \in checkpoints : row.checkpoint.next <= Latest.next
<1> DEFINE N == Cardinality(checkpoints)
<1>1. N \in Nat /\ (N = 0 <=> checkpoints = {})
  BY FS_CardinalityType, FS_EmptySet DEF Types
<1>2. ASSUME checkpoints # {}
      PROVE  /\ Durable(Latest) /\ Latest \in Checkpoint
             /\ Latest.next = N
             /\ \A row \in checkpoints : row.checkpoint.next <= Latest.next
  <2>1. {row.checkpoint.next : row \in checkpoints} = 1 .. N
    BY DEF CheckpointsInv, CheckpointsPaired, CheckpointsVerify
  <2>2. N \in 1 .. N
    BY <1>1, <1>2
  <2>3. PICK last \in checkpoints : last.checkpoint.next = N
    BY <2>1, <2>2
  <2>4. \A row \in checkpoints : row.checkpoint.next <= N
    BY <2>1, <1>1
  <2>5. \E cp \in {row.checkpoint : row \in checkpoints} :
           \A row \in checkpoints : row.checkpoint.next <= cp.next
    BY <2>3, <2>4
  <2>6. /\ Latest \in {row.checkpoint : row \in checkpoints}
        /\ \A row \in checkpoints : row.checkpoint.next <= Latest.next
    BY <1>2, <2>5 DEF Latest
  <2>7. Durable(Latest) /\ Latest \in Checkpoint
    BY <2>6 DEF Durable, Types, CheckpointRow
  <2>8. Latest.next = N
    <3>1. Latest.next \in Nat /\ N <= Latest.next /\ Latest.next <= N
      BY <1>1, <2>3, <2>4, <2>6, <2>7 DEF Checkpoint
    <3>. QED
      BY <1>1, <3>1
  <2>. QED
    BY <2>6, <2>7, <2>8
<1>3. checkpoints = {} => Latest = None
  BY DEF Latest
<1>. QED
  BY <1>2, <1>3, JobAssumption

\* What a process would write.
LEMMA RowOfRunner ==
    ASSUME NEW r \in Runner
    PROVE  /\ RowOf(r).id = Generation(proc[r].at.next)
           /\ RowOf(r).generation = proc[r].at.next
           /\ RowOf(r).plan.seed = proc[r].at.seed
           /\ RowOf(r).plan.checkpoint_digest = proc[r].made
BY DEF RowOf, Row, Generation

LEMMA RowOfEvolver ==
    ASSUME NEW w \in Evolver
    PROVE  /\ RowOf(w).id = <<w, proc[w].at.next>>
           /\ RowOf(w).generation = proc[w].at.next
           /\ RowOf(w).plan = [seed |-> None, checkpoint_digest |-> None]
BY JobAssumption DEF RowOf, Row

\* The row of a process that is making one is a row of the ledger's shape.
LEMMA RowOfType ==
    ASSUME NEW a \in Process, Types, ProcInv(a), proc[a].pc \in Making
    PROVE  RowOf(a) \in Cycle /\ IsRow(RowOf(a)) /\ RowOf(a).generation = RowOf(a).id[2]
<1>1. Running(a)
  BY DEF Making, Running
<1>2. CASE a \in Runner
  <2>1. /\ proc[a].at \in Checkpoint /\ proc[a].at.next < Job[a].target
        /\ proc[a].made = After(proc[a].at, Job[a].stop)
    BY <1>1, <1>2 DEF ProcInv, RunnerInv
  <2>2. proc[a].made \in Checkpoint
    BY <1>2, <2>1, RunnerAfter
  <2>3. RowOf(a) = [id |-> Generation(proc[a].at.next), generation |-> proc[a].at.next,
                    plan |-> [seed |-> proc[a].at.seed, checkpoint_digest |-> proc[a].made]]
    BY <1>2 DEF RowOf, Row, Generation
  <2>4. proc[a].at.next \in Nat /\ proc[a].at.seed \in Nat
    BY <2>1 DEF Checkpoint
  <2>5. RowOf(a) \in Cycle
    BY <2>2, <2>3, <2>4 DEF Cycle, Id, Generation
  <2>. QED
    BY <2>2, <2>3, <2>4, <2>5, JobAssumption DEF IsRow, Generation
<1>3. CASE a \in Evolver
  <2>1. proc[a].at.next \in Nat
    BY <1>1, <1>3 DEF ProcInv, EvolverInv
  <2>2. RowOf(a) = [id |-> <<a, proc[a].at.next>>, generation |-> proc[a].at.next,
                    plan |-> [seed |-> None, checkpoint_digest |-> None]]
    BY <1>3, JobAssumption DEF RowOf, Row
  <2>3. RowOf(a) \in Cycle
    BY <1>3, <2>1, <2>2 DEF Cycle, Id
  <2>. QED
    BY <1>3, <2>2, <2>3 DEF IsRow
<1>. QED
  BY <1>2, <1>3 DEF Process

\* A durable checkpoint has the cycle that made it.
LEMMA DurableHasCycle ==
    ASSUME CheckpointsInv, NEW cp, Durable(cp)
    PROVE  \E row \in RowsOf(Generation(cp.next - 1)) : PairIsValid(row, cp)
BY DEF CheckpointsInv, CheckpointsPaired, Durable

-----------------------------------------------------------------------------
(* Where a process may arrive *)

LEMMA EnterRunner ==
    ASSUME NEW r \in Runner, NEW cp \in Checkpoint, proc'[r] = Enter(r, cp),
           ~cp.stopped,
           cp.next = 0 => cp = Origin(Job[r].population, Job[r].seed),
           cp.next > 0 => \E row \in cycles' : row.id = Generation(cp.next - 1),
           WithStore(r) /\ cp.next > 0 => \E row \in checkpoints' : row.checkpoint = cp
    PROVE  Enter(r, cp) \in Doings /\ ProcInv(r)'
<1>1. r \notin Evolver
  BY JobAssumption
<1>2. CASE cp.next >= Job[r].target
  <2>1. Enter(r, cp) = Doing("done", cp, None, 0)
    BY <1>2 DEF Enter
  <2>2. /\ proc'[r].pc = "done" /\ proc'[r].at = cp
    BY <2>1 DEF Doing
  <2>3. RunnerInv(r)' /\ MemoryInv(r)' /\ WriteInv(r)' /\ CompanyInv(r)'
    BY <2>2 DEF RunnerInv, Running, MemoryInv, WithStore, Durable, WriteInv, CompanyInv, Counting
  <2>. QED
    BY <1>1, <2>1, <2>3, DoingType DEF ProcInv, Pc
<1>3. CASE ~(cp.next >= Job[r].target)
  <2>1. Enter(r, cp) = Doing("head", cp, None, 0)
    BY <1>1, <1>3 DEF Enter
  <2>2. /\ proc'[r].pc = "head" /\ proc'[r].at = cp
    BY <2>1 DEF Doing
  <2>3. cp.next \in Nat /\ Job[r].target \in Nat
    BY JobAssumption DEF Checkpoint
  <2>4. RunnerInv(r)'
    BY <1>3, <2>2, <2>3 DEF RunnerInv, RowsOf, Making
  <2>5. MemoryInv(r)' /\ WriteInv(r)' /\ CompanyInv(r)'
    BY <2>2 DEF MemoryInv, WithStore, Durable, WriteInv, CompanyInv, Counting
  <2>. QED
    BY <1>1, <2>1, <2>4, <2>5, DoingType DEF ProcInv, Pc
<1>. QED
  BY <1>2, <1>3

LEMMA DoneRunner ==
    ASSUME NEW r \in Runner, NEW cp \in Checkpoint, proc'[r] = Doing("done", cp, None, 0),
           WithStore(r) /\ cp.next > 0 => \E row \in checkpoints' : row.checkpoint = cp
    PROVE  Doing("done", cp, None, 0) \in Doings /\ ProcInv(r)'
<1>1. proc'[r].pc = "done" /\ proc'[r].at = cp
  BY DEF Doing
<1>2. RunnerInv(r)' /\ MemoryInv(r)' /\ WriteInv(r)' /\ CompanyInv(r)'
  BY <1>1 DEF RunnerInv, Running, MemoryInv, WithStore, Durable, WriteInv, CompanyInv, Counting
<1>. QED
  BY <1>2, JobAssumption, DoingType DEF ProcInv, Pc

LEMMA EnterEvolver ==
    ASSUME NEW w \in Evolver, NEW n \in Nat, proc'[w] = Enter(w, [next |-> n])
    PROVE  Enter(w, [next |-> n]) \in Doings /\ ProcInv(w)'
<1>1. w \notin Runner
  BY JobAssumption
<1>2. PICK there \in {"done", "save"} : Enter(w, [next |-> n]) = Doing(there, [next |-> n], None, 0)
  BY <1>1 DEF Enter
<1>3. proc'[w].pc = there /\ proc'[w].at = [next |-> n]
  BY <1>2 DEF Doing
<1>4. EvolverInv(w)' /\ WriteInv(w)' /\ CompanyInv(w)'
  <2>1. EvolverInv(w)'
    <3>1. [next |-> n] \in [next : Nat]
      OBVIOUS
    <3>2. proc'[w].at \in [next : Nat]
      BY ONLY <1>3, <3>1
    <3>3. proc'[w].pc \in {"done", "save"}
      BY <1>2, <1>3
    <3>. QED
      BY <3>2, <3>3 DEF EvolverInv, Running
  <2>2. WriteInv(w)'
    BY <1>2, <1>3 DEF WriteInv
  <2>3. CompanyInv(w)'
    BY <1>2, <1>3 DEF CompanyInv, Counting
  <2>. QED
    BY <2>1, <2>2, <2>3
<1>. QED
  BY <1>1, <1>2, <1>4, DoingType DEF ProcInv, Pc, Making

LEMMA RefusedProc ==
    ASSUME NEW a \in Process, NEW why \in Reason, proc'[a] = Refused(why),
           why = "evidence" /\ a \in alone' => \E row \in cycles' : row.id[1] \in Evolver
    PROVE  ProcInv(a)'
<1>1. proc'[a].pc = "refused" /\ proc'[a].why = why
  BY DEF Refused
<1>2. RunnerInv(a)' /\ MemoryInv(a)' /\ EvolverInv(a)' /\ WriteInv(a)'
  BY <1>1 DEF RunnerInv, Running, MemoryInv, EvolverInv, WriteInv
<1>3. CompanyInv(a)'
  BY <1>1 DEF CompanyInv, Counting
<1>. QED
  BY <1>2, <1>3 DEF ProcInv

LEMMA IdleProc ==
    ASSUME NEW a \in Process, proc'[a] = Idle
    PROVE  ProcInv(a)'
<1>1. proc'[a].pc = "idle"
  BY DEF Idle, Doing
<1>2. RunnerInv(a)' /\ MemoryInv(a)' /\ EvolverInv(a)' /\ WriteInv(a)' /\ CompanyInv(a)'
  BY <1>1 DEF RunnerInv, Running, MemoryInv, EvolverInv, WriteInv, CompanyInv, Counting
<1>. QED
  BY <1>2 DEF ProcInv

-----------------------------------------------------------------------------
(* Steps that write nothing *)

\* The other processes do not mind a step that leaves the ledger alone.
LEMMA OthersKeep ==
    ASSUME RunInv, UNCHANGED ledger, NEW b \in Process, proc'[b] = proc[b],
           b \in alone' => b \in alone
    PROVE  ProcInv(b)'
<1>1. ProcInv(b)
  BY DEF RunInv
<1>2. cycles' = cycles /\ audit' = audit /\ checkpoints' = checkpoints
  BY DEF ledger
<1>3. RunnerInv(b) => RunnerInv(b)'
  BY <1>2 DEF RunnerInv, Running, RowsOf, Durable, WithStore
<1>4. MemoryInv(b) => MemoryInv(b)'
  BY <1>2 DEF MemoryInv, Running, Durable, WithStore
<1>5. EvolverInv(b) => EvolverInv(b)'
  BY DEF EvolverInv, Running
<1>6. WriteInv(b) => WriteInv(b)'
  BY <1>2 DEF WriteInv, RowsOf, RowOf, LastDigest
<1>7. CompanyInv(b) => CompanyInv(b)'
  BY <1>2 DEF CompanyInv
<1>. QED
  BY <1>1, <1>3, <1>4, <1>5, <1>6, <1>7 DEF ProcInv

LEMMA LedgerKeeps ==
    ASSUME LedgerInv, UNCHANGED ledger
    PROVE  LedgerInv'
<1>1. cycles' = cycles /\ audit' = audit /\ checkpoints' = checkpoints
  BY DEF ledger
<1>2. CyclesInv'
  BY <1>1 DEF LedgerInv, CyclesInv, RowsOf, IsRow
<1>3. AuditInv'
  BY <1>1 DEF LedgerInv, AuditInv, ForksOnlyBesideEvolvers, Chained
<1>4. CheckpointsInv'
  BY <1>1 DEF LedgerInv, CheckpointsInv, CheckpointsPaired, CheckpointsVerify,
              RowsOf, PairIsValid, CheckpointFor, ValidCheckpoint
<1>. QED
  BY <1>2, <1>3, <1>4 DEF LedgerInv

LEMMA QuietStep ==
    ASSUME RunInv, UNCHANGED ledger, NEW a \in Process, NEW p \in Doings, Set(a, p),
           starts' \in 0 .. Starts, alone' \subseteq alone \union {a}, ProcInv(a)'
    PROVE  RunInv'
<1>1. cycles' = cycles /\ audit' = audit /\ checkpoints' = checkpoints
  BY DEF ledger
<1>2. proc \in [Process -> Doings] /\ alone \subseteq Process
  BY DEF RunInv, Types
<1>3. Types'
  BY <1>1, <1>2 DEF RunInv, Types, Set
<1>4. LedgerInv'
  BY LedgerKeeps DEF RunInv
<1>5. ASSUME NEW b \in Process, b # a
      PROVE  ProcInv(b)'
  <2>1. proc'[b] = proc[b]
    BY <1>2, <1>5 DEF Set
  <2>. QED
    BY <1>5, <2>1, OthersKeep
<1>. QED
  BY <1>3, <1>4, <1>5 DEF RunInv

LEMMA RefuseStep ==
    ASSUME RunInv, NEW a \in Process, NEW why \in Reason, Refuse(a, why),
           why = "evidence" /\ a \in alone => \E row \in cycles : row.id[1] \in Evolver
    PROVE  RunInv'
<1>1. Set(a, Refused(why)) /\ UNCHANGED ledger /\ starts' = starts /\ alone' = alone
  BY DEF Refuse
<1>2. cycles' = cycles
  BY <1>1 DEF ledger
<1>3. starts \in 0 .. Starts /\ proc \in [Process -> Doings]
  BY DEF RunInv, Types
<1>4. proc'[a] = Refused(why)
  BY <1>1, <1>3 DEF Set
<1>5. ProcInv(a)'
  BY <1>1, <1>2, <1>4, RefusedProc
<1>. QED
  BY <1>1, <1>3, <1>5, RefusedType, QuietStep

-----------------------------------------------------------------------------
(* What is verified *)

\* Without evolvers the evidence is never unusable.
LEMMA EvidenceFails ==
    ASSUME RunInv, NEW a \in Process, Running(a), ~Verifies(a)
    PROVE  \E row \in cycles : row.id[1] \in Evolver
<1> SUFFICES ASSUME \A row \in cycles : row.id[1] \notin Evolver
             PROVE  Verifies(a)
  OBVIOUS
<1>1. CyclesInv /\ AuditInv /\ CheckpointsInv /\ Types
  BY DEF RunInv, LedgerInv
<1>2. \A i \in DOMAIN audit : audit[i].digest \in cycles /\ audit[i].id = audit[i].digest.id
  BY <1>1 DEF AuditInv, ForksOnlyBesideEvolvers
<1>3. RegistryVerifies
  <2>1. ASSUME NEW i \in DOMAIN audit
        PROVE  Chained(i)
    <3>1. audit[i].id[1] \notin Evolver
      BY <1>2
    <3>2. i # 1 => i - 1 \in DOMAIN audit
      BY <1>1 DEF Types
    <3>3. i # 1 => audit[i - 1].id[1] \notin Evolver
      BY <1>2, <3>2
    <3>4. \/ Chained(i) \/ audit[i].id[1] \in Evolver
          \/ i > 1 /\ audit[i - 1].id[1] \in Evolver
      BY <1>1 DEF AuditInv, ForksOnlyBesideEvolvers
    <3>5. CASE i # 1
      BY <3>1, <3>3, <3>4, <3>5
    <3>6. CASE i = 1
      BY <3>1, <3>4, <3>6
    <3>. QED
      BY <3>5, <3>6
  <2>2. ASSUME NEW i \in DOMAIN audit
        PROVE  RowsOf(audit[i].id) = {audit[i].digest}
    BY <1>1, <1>2 DEF CyclesInv, RowsOf
  <2>3. ASSUME NEW i \in DOMAIN audit, NEW j \in 1 .. i - 1
        PROVE  audit[j].id # audit[i].id
    <3>1. j \in DOMAIN audit /\ j # i
      BY <1>1 DEF Types
    <3>. QED
      BY <1>1, <3>1 DEF AuditInv
  <2>. QED
    BY <2>1, <2>2, <2>3 DEF RegistryVerifies
<1>4. CheckpointsVerify /\ ControlVerifies
  BY <1>1, <1>3 DEF CheckpointsInv, CheckpointsPaired, ControlVerifies
<1>5. ASSUME WithStore(a), proc[a].pc = "head", proc[a].at.next > 0
      PROVE  GenerationVerifies(proc[a].at.next - 1)
  <2> DEFINE cp == proc[a].at
  <2>1. RunnerInv(a) /\ MemoryInv(a)
    BY <1>5 DEF RunInv, ProcInv, WithStore
  <2>2. Durable(cp) /\ cp.next \in Nat
    BY <1>5, <2>1 DEF RunnerInv, MemoryInv, Checkpoint
  <2>3. PICK row \in RowsOf(Generation(cp.next - 1)) : PairIsValid(row, cp)
    BY <1>1, <2>2, DurableHasCycle
  <2>4. cp \in CheckpointFor(cp.next - 1 + 1)
    BY <2>2, InCheckpointFor DEF Durable
  <2>5. ASSUME NEW cycle \in cycles, cycle.generation = cp.next - 1
        PROVE  cycle.id = Generation(cp.next - 1)
    <3>1. cycle.id \in Id /\ cycle.id[1] \notin Evolver /\ cycle.generation = cycle.id[2]
      BY <1>1 DEF Types, Cycle, CyclesInv
    <3>2. cycle.id[1] = "generation" /\ cycle.id = <<cycle.id[1], cycle.id[2]>>
      BY <3>1 DEF Id
    <3>. QED
      BY <2>5, <3>1, <3>2 DEF Generation
  <2>. QED
    BY <1>4, <2>3, <2>4, <2>5 DEF GenerationVerifies, Generation
<1>. QED
  BY <1>3, <1>4, <1>5 DEF Verifies

\* Alone nobody else adds a row between the verification and the count.
LEMMA CountFails ==
    ASSUME RunInv, NEW a \in alone, proc[a].pc \in Counting
    PROVE  Counted(a)
<1>1. a \in Process
  BY DEF RunInv, Types
<1>2. proc[a].rows = Len(audit)
  BY <1>1 DEF RunInv, ProcInv, CompanyInv
<1>. QED
  BY <1>2 DEF RunInv, LedgerInv, AuditInv, ForksOnlyBesideEvolvers, Counted

-----------------------------------------------------------------------------
(* The steps that only read *)

LEMMA CrashSafe ==
    ASSUME RunInv, NEW a \in Process, Crash(a)
    PROVE  RunInv'
<1>1. Set(a, Idle) /\ UNCHANGED ledger /\ starts' = starts /\ alone' = alone
  BY DEF Crash
<1>2. starts \in 0 .. Starts /\ proc \in [Process -> Doings]
  BY DEF RunInv, Types
<1>3. ProcInv(a)'
  BY <1>1, <1>2, IdleProc DEF Set
<1>. QED
  BY <1>1, <1>2, <1>3, IdleType, QuietStep

\* A runner that goes on with the generation it is at.
LEMMA RunnerGoesOn ==
    ASSUME RunInv, NEW r \in Runner, Running(r),
           NEW there \in Pc \ {"write", "idle", "done", "refused"},
           NEW made \in Checkpoint \union {None}, NEW rows \in Nat,
           Set(r, Doing(there, proc[r].at, made, rows)),
           UNCHANGED <<ledger, starts, alone>>,
           there \in Making => made = After(proc[r].at, Job[r].stop),
           there \in {"reload", "reload count"} =>
              WithStore(r) /\ \E row \in checkpoints : row.checkpoint = made,
           there \in Counting => rows = Len(audit)
    PROVE  RunInv'
<1> DEFINE p == Doing(there, proc[r].at, made, rows)
<1>1. starts \in 0 .. Starts /\ proc \in [Process -> Doings] /\ r \in Process /\ r \notin Evolver
  BY JobAssumption DEF RunInv, Types, Process
<1>2. proc'[r] = p /\ UNCHANGED ledger
  BY <1>1 DEF Set
<1>3. /\ proc'[r].pc = there /\ proc'[r].at = proc[r].at /\ proc'[r].made = made
      /\ proc'[r].rows = rows
  <2>1. proc'[r].pc = there /\ proc'[r].rows = rows
    BY ONLY <1>2 DEF Doing
  <2>2. proc'[r].at = proc[r].at
    BY ONLY <1>2 DEF Doing
  <2>3. proc'[r].made = made
    BY ONLY <1>2 DEF Doing
  <2>. QED
    BY <2>1, <2>2, <2>3
<1>4. cycles' = cycles /\ audit' = audit /\ checkpoints' = checkpoints
  BY <1>2 DEF ledger
<1>5. RunnerInv(r) /\ MemoryInv(r)
  BY DEF RunInv, ProcInv, Process
<1>6. p \in Doings
  BY <1>5, DoingType DEF RunnerInv
<1>7. RunnerInv(r)'
  BY <1>3, <1>4, <1>5 DEF RunnerInv, RowsOf, WithStore, Durable
<1>8. MemoryInv(r)'
  BY <1>3, <1>4, <1>5 DEF MemoryInv, WithStore, Durable
<1>9. WriteInv(r)' /\ CompanyInv(r)'
  BY <1>3, <1>4 DEF WriteInv, CompanyInv, Counting
<1>. QED
  BY <1>1, <1>2, <1>6, <1>7, <1>8, <1>9, QuietStep DEF ProcInv

\* An evolver that goes on to the count.
LEMMA EvolverGoesOn ==
    ASSUME RunInv, NEW w \in Evolver, proc[w].at \in [next : Nat],
           NEW there, there = "save count",
           NEW made \in Checkpoint \union {None}, NEW rows \in Nat, rows = Len(audit),
           Set(w, Doing(there, proc[w].at, made, rows)),
           UNCHANGED <<ledger, starts, alone>>
    PROVE  RunInv'
<1> DEFINE p == Doing(there, proc[w].at, made, rows)
<1>1. starts \in 0 .. Starts /\ proc \in [Process -> Doings] /\ w \in Process /\ w \notin Runner
  BY JobAssumption DEF RunInv, Types, Process
<1>2. proc'[w] = p /\ UNCHANGED ledger
  BY <1>1 DEF Set
<1>3. proc'[w].pc = there /\ proc'[w].rows = rows
  BY ONLY <1>2 DEF Doing
<1>4. proc'[w].at = proc[w].at
  BY ONLY <1>2 DEF Doing
<1>5. audit' = audit
  BY <1>2 DEF ledger
<1>6. p \in Doings
  BY DoingType DEF Pc, Making
<1>7. EvolverInv(w)' /\ WriteInv(w)' /\ CompanyInv(w)'
  BY <1>3, <1>4, <1>5 DEF EvolverInv, WriteInv, CompanyInv
<1>. QED
  BY <1>1, <1>2, <1>6, <1>7, QuietStep DEF ProcInv

LEMMA VerifySafe ==
    ASSUME RunInv, NEW a \in Process, Verify(a)
    PROVE  RunInv'
<1>1. proc[a].pc \in {"head", "save", "reload"} /\ Running(a)
  BY DEF Verify, Running
<1>2. proc \in [Process -> Doings] /\ starts \in 0 .. Starts /\ audit \in Seq(AuditRow)
  BY DEF RunInv, Types
<1>3. proc[a].made \in Checkpoint \union {None} /\ Len(audit) \in Nat
  BY <1>2 DEF Doings
<1>4. CASE ~Verifies(a)
  <2>1. Refuse(a, "evidence")
    BY <1>4 DEF Verify
  <2>. QED
    BY <1>1, <1>4, <2>1, EvidenceFails, RefuseStep DEF Reason
<1>5. CASE Verifies(a) /\ a \in Runner
  <2> DEFINE there == CountStep(proc[a].pc)
  <2>1. /\ Set(a, Doing(there, proc[a].at, proc[a].made, Len(audit)))
        /\ UNCHANGED <<ledger, starts, alone>>
    BY <1>5 DEF Verify
  <2>2. /\ there \in Pc \ {"write", "idle", "done", "refused"}
        /\ there \in Making => proc[a].pc \in Making
        /\ there \in {"reload", "reload count"} => proc[a].pc = "reload"
    BY <1>1 DEF CountStep, Pc, Making
  <2>3. RunnerInv(a)
    BY <1>5 DEF RunInv, ProcInv
  <2> HIDE DEF there
  <2>. QED
    BY <1>1, <1>3, <1>5, <2>1, <2>2, <2>3, RunnerGoesOn DEF RunnerInv, Durable
<1>6. CASE Verifies(a) /\ a \in Evolver
  <2>1. EvolverInv(a) /\ a \notin Runner
    BY <1>6, JobAssumption DEF RunInv, ProcInv
  <2>2. proc[a].pc = "save" /\ proc[a].at \in [next : Nat]
    BY <1>1, <2>1 DEF EvolverInv
  <2> DEFINE there == CountStep(proc[a].pc)
  <2>3. /\ Set(a, Doing(there, proc[a].at, proc[a].made, Len(audit)))
        /\ UNCHANGED <<ledger, starts, alone>>
    BY <1>6 DEF Verify
  <2>4. there = "save count"
    BY <2>2 DEF CountStep
  <2> HIDE DEF there
  <2>. QED
    BY <1>1, <1>3, <1>6, <2>2, <2>3, <2>4, EvolverGoesOn
<1>. QED
  BY <1>4, <1>5, <1>6 DEF Process

LEMMA CountAtHeadSafe ==
    ASSUME RunInv, NEW r \in Runner, CountAtHead(r)
    PROVE  RunInv'
<1>1. proc[r].pc = "head count" /\ Running(r) /\ r \in Process
  BY DEF CountAtHead, Running, Process
<1>2. CASE Counted(r)
  <2>1. Set(r, Doing("evaluate", proc[r].at, None, 0)) /\ UNCHANGED <<ledger, starts, alone>>
    BY <1>2 DEF CountAtHead
  <2>. QED
    BY <1>1, <2>1, RunnerGoesOn DEF Pc, Making, Counting
<1>3. CASE ~Counted(r)
  <2>1. Refuse(r, "evidence")
    BY <1>3 DEF CountAtHead
  <2>. QED
    BY <1>1, <1>3, <2>1, CountFails, RefuseStep DEF Reason, Counting
<1>. QED
  BY <1>2, <1>3

LEMMA EvaluateSafe ==
    ASSUME RunInv, NEW r \in Runner, Evaluate(r)
    PROVE  RunInv'
<1> DEFINE made == After(proc[r].at, Job[r].stop)
<1>1. proc[r].pc = "evaluate" /\ Running(r) /\ r \in Process
  BY DEF Evaluate, Running, Process
<1>2. made \in Checkpoint
  BY <1>1, RunnerAfter DEF RunInv, ProcInv, RunnerInv
<1>3. \/ Refuse(r, "order")
      \/ Set(r, Doing("save", proc[r].at, made, 0)) /\ UNCHANGED <<ledger, starts, alone>>
  BY DEF Evaluate
<1>4. CASE Refuse(r, "order")
  BY <1>1, <1>4, RefuseStep DEF Reason
<1>5. CASE Set(r, Doing("save", proc[r].at, made, 0)) /\ UNCHANGED <<ledger, starts, alone>>
  BY <1>1, <1>2, <1>5, RunnerGoesOn DEF Pc, Making, Counting
<1>. QED
  BY <1>3, <1>4, <1>5

LEMMA ReloadSafe ==
    ASSUME RunInv, NEW r \in Runner, Reload(r)
    PROVE  RunInv'
<1> DEFINE made == proc[r].made
<1>1. proc[r].pc = "reload count" /\ Running(r) /\ r \in Process
  BY DEF Reload, Running, Process
<1>2. proc \in [Process -> Doings] /\ starts \in 0 .. Starts
  BY DEF RunInv, Types
<1>3. CASE ~Counted(r)
  <2>1. Refuse(r, "evidence")
    BY <1>3 DEF Reload
  <2>. QED
    BY <1>1, <1>3, <2>1, CountFails, RefuseStep DEF Reason, Counting
<1>4. CASE Counted(r)
  <2>1. Set(r, Passed(r)) /\ UNCHANGED ledger /\ starts' = starts /\ alone' = alone
    BY <1>4 DEF Reload
  <2>2. proc'[r] = Passed(r) /\ cycles' = cycles /\ checkpoints' = checkpoints
    BY <1>1, <1>2, <2>1 DEF Set, ledger
  <2>3. /\ proc[r].at \in Checkpoint /\ proc[r].at.next < Job[r].target
        /\ made = After(proc[r].at, Job[r].stop) /\ Durable(made)
    BY <1>1 DEF RunInv, ProcInv, RunnerInv, Making
  <2>4. made \in Checkpoint /\ made.next > 0
    BY <2>3, RunnerAfter DEF Checkpoint
  <2>5. \E row \in cycles' : row.id = Generation(made.next - 1)
    BY <2>2, <2>3, DurableHasCycle DEF RunInv, LedgerInv, RowsOf
  <2>6. \E row \in checkpoints' : row.checkpoint = made
    BY <2>2, <2>3 DEF Durable
  <2>7. r \notin Evolver
    BY JobAssumption
  <2>8. CASE made.stopped
    <3>1. Passed(r) = Doing("done", made, None, 0)
      BY <2>7, <2>8 DEF Passed
    <3>2. Passed(r) \in Doings /\ ProcInv(r)'
      BY <2>2, <2>4, <2>6, <3>1, DoneRunner
    <3>. QED
      BY <1>1, <1>2, <2>1, <3>2, QuietStep
  <2>9. CASE ~made.stopped
    <3>1. Passed(r) = Enter(r, made)
      BY <2>7, <2>9 DEF Passed
    <3>2. Passed(r) \in Doings /\ ProcInv(r)'
      <4> HIDE DEF made
      <4>. QED
        BY <2>2, <2>4, <2>5, <2>6, <2>9, <3>1, EnterRunner
    <3>. QED
      BY <1>1, <1>2, <2>1, <3>2, QuietStep
  <2>. QED
    BY <2>8, <2>9
<1>. QED
  BY <1>3, <1>4

\* A process that finds its row finds just that row.
LEMMA ReadSafe ==
    ASSUME RunInv, NEW a \in Process, Read(a)
    PROVE  RunInv'
<1>1. proc[a].pc = "save count" /\ Running(a)
  BY DEF Read, Running
<1>2. proc \in [Process -> Doings] /\ starts \in 0 .. Starts /\ audit \in Seq(AuditRow)
  BY DEF RunInv, Types
<1>3. CASE Refuse(a, "evidence") /\ ~Counted(a)
  BY <1>1, <1>3, CountFails, RefuseStep DEF Reason, Counting
<1>4. CASE Refuse(a, "conflict")
  BY <1>4, RefuseStep DEF Reason
<1>5. ASSUME RowsOf(RowOf(a).id) \in {{}, {RowOf(a)}},
             Set(a, Writing(proc[a].at, proc[a].made, LastDigest, RowsOf(RowOf(a).id) # {})),
             UNCHANGED <<ledger, starts, alone>>
      PROVE  RunInv'
  <2> DEFINE found == RowsOf(RowOf(a).id) # {}
             p == Writing(proc[a].at, proc[a].made, LastDigest, found)
  <2>0. Set(a, p) /\ UNCHANGED ledger /\ starts' = starts /\ alone' = alone
    BY <1>5
  <2>1. proc'[a] = p /\ cycles' = cycles /\ audit' = audit /\ checkpoints' = checkpoints
    BY <1>2, <1>5 DEF Set, ledger
  <2>2. /\ proc'[a].pc = "write" /\ proc'[a].at = proc[a].at /\ proc'[a].made = proc[a].made
        /\ proc'[a].prev = LastDigest /\ proc'[a].found = found
    BY ONLY <2>1 DEF p, Writing
  <2>3. LastDigest \in Cycle \union {None}
    <3>1. audit # <<>> => audit[Len(audit)] \in AuditRow
      BY <1>2
    <3>. QED
      BY <3>1 DEF LastDigest, Last, AuditRow
  <2>4. proc[a].at \in Checkpoint \union [next : Nat] \union {None}
        /\ proc[a].made \in Checkpoint \union {None}
    BY <1>2 DEF Doings
  <2>5. found \in BOOLEAN
    BY DEF found
  <2>6. p \in Doings
    <3> HIDE DEF found
    <3>. QED
      BY <2>3, <2>4, <2>5, WritingType
  <2>7. RowOf(a)' = RowOf(a) /\ LastDigest' = LastDigest
    BY <2>1, <2>2 DEF RowOf, LastDigest
  <2>8. WriteInv(a)'
    <3>1. found => RowOf(a) \in cycles
      BY <1>5 DEF RowsOf
    <3> HIDE DEF found
    <3>. QED
      BY <2>1, <2>2, <2>7, <3>1 DEF WriteInv
  <2>9. CompanyInv(a)'
    BY <2>2 DEF CompanyInv, Counting
  <2>10. ProcInv(a)
    BY DEF RunInv
  <2>11. ASSUME a \in Runner
         PROVE  RunnerInv(a)' /\ MemoryInv(a)'
    <3>1. RunnerInv(a) /\ MemoryInv(a)
      BY <2>10, <2>11 DEF ProcInv
    <3>2. RunnerInv(a)'
      BY <1>1, <2>1, <2>2, <3>1 DEF RunnerInv, RowsOf, Making
    <3>3. MemoryInv(a)'
      BY <1>1, <2>1, <2>2, <3>1 DEF MemoryInv, Durable, WithStore
    <3>. QED
      BY <3>2, <3>3
  <2>12. a \in Evolver => EvolverInv(a)'
    BY <1>1, <2>2, <2>10 DEF ProcInv, EvolverInv
  <2> HIDE DEF p
  <2>. QED
    BY <1>2, <2>0, <2>6, <2>8, <2>9, <2>11, <2>12, QuietStep DEF ProcInv, Process
<1>. QED
  BY <1>3, <1>4, <1>5 DEF Read

-----------------------------------------------------------------------------
(* Starting *)

LEMMA RunResearchSafe ==
    ASSUME RunInv, NEW r \in Runner, RunResearch(r)
    PROVE  RunInv'
<1> DEFINE cp == Origin(Job[r].population, Job[r].seed)
<1>1. /\ Set(r, Enter(r, cp)) /\ UNCHANGED ledger
      /\ starts < Starts /\ starts' = starts + 1 /\ alone' = alone \union {r}
  BY DEF RunResearch, Start
<1>2. proc \in [Process -> Doings] /\ starts' \in 0 .. Starts /\ r \in Process
  BY <1>1, JobAssumption DEF RunInv, Types, Process
<1>3. proc'[r] = Enter(r, cp)
  BY <1>1, <1>2 DEF Set
<1>4. cp \in Checkpoint /\ cp.next = 0 /\ ~cp.stopped
  BY OriginType
<1>5. Enter(r, cp) \in Doings /\ ProcInv(r)'
  <2> HIDE DEF cp
  <2>. QED
    BY <1>3, <1>4, EnterRunner DEF cp
<1>. QED
  BY <1>1, <1>2, <1>5, QuietStep

LEMMA EvolveSafe ==
    ASSUME RunInv, NEW w \in Evolver, Evolve(w)
    PROVE  RunInv'
<1>1. /\ Set(w, Enter(w, [next |-> 1])) /\ UNCHANGED ledger
      /\ starts < Starts /\ starts' = starts + 1 /\ alone' = alone \union {w}
  BY DEF Evolve, Start
<1>2. proc \in [Process -> Doings] /\ starts' \in 0 .. Starts /\ w \in Process
  BY <1>1, JobAssumption DEF RunInv, Types, Process
<1>3. proc'[w] = Enter(w, [next |-> 1])
  BY <1>1, <1>2 DEF Set
<1>4. Enter(w, [next |-> 1]) \in Doings /\ ProcInv(w)'
  BY <1>3, EnterEvolver
<1>. QED
  BY <1>1, <1>2, <1>4, QuietStep

\* A checkpoint that is bound to a cycle, and durable where there is a store,
\* can be resumed.
LEMMA ResumedSafe ==
    ASSUME RunInv, NEW r \in Runner, Start(r), NEW cp \in Checkpoint, NEW ok,
           EnterResumed(r, cp, ok),
           ok => /\ cp.next > 0
                 /\ \E row \in cycles : row.id = Generation(cp.next - 1)
                 /\ WithStore(r) => Durable(cp)
    PROVE  RunInv'
<1>1. /\ UNCHANGED ledger
      /\ starts < Starts /\ starts' = starts + 1 /\ alone' = alone \union {r}
  BY DEF Start
<1>2. proc \in [Process -> Doings] /\ starts' \in 0 .. Starts /\ r \in Process
  BY <1>1, JobAssumption DEF RunInv, Types, Process
<1>3. CASE Set(r, Refused("unfit"))
  <2>1. proc'[r] = Refused("unfit")
    BY <1>2, <1>3 DEF Set
  <2>2. ProcInv(r)'
    BY <1>2, <2>1, RefusedProc DEF Reason
  <2>. QED
    BY <1>1, <1>2, <1>3, <2>2, RefusedType, QuietStep DEF Reason
<1>4. CASE Set(r, Enter(r, cp)) /\ ok /\ ~cp.stopped
  <2>1. proc'[r] = Enter(r, cp) /\ cycles' = cycles /\ checkpoints' = checkpoints
    BY <1>1, <1>2, <1>4 DEF Set, ledger
  <2>2. Enter(r, cp) \in Doings /\ ProcInv(r)'
    BY <1>4, <2>1, EnterRunner DEF Durable
  <2>. QED
    BY <1>1, <1>2, <1>4, <2>2, QuietStep
<1>. QED
  BY <1>3, <1>4 DEF EnterResumed

LEMMA ResumeFromStoreSafe ==
    ASSUME RunInv, NEW r \in Runner, ResumeFromStore(r)
    PROVE  RunInv'
<1>1. Start(r) /\ Types /\ CheckpointsInv
  BY DEF ResumeFromStore, RunInv, LedgerInv
<1>2. CASE Latest = None
  <2>1. /\ Set(r, Refused("unfit")) /\ UNCHANGED ledger
        /\ starts < Starts /\ starts' = starts + 1 /\ alone' = alone \union {r}
    BY <1>2 DEF ResumeFromStore, Start
  <2>2. proc \in [Process -> Doings] /\ starts' \in 0 .. Starts /\ r \in Process
    BY <1>1, <2>1, JobAssumption DEF Types, Process
  <2>3. proc'[r] = Refused("unfit")
    BY <2>1, <2>2 DEF Set
  <2>4. ProcInv(r)'
    BY <2>2, <2>3, RefusedProc DEF Reason
  <2>. QED
    BY <2>1, <2>2, <2>4, RefusedType, QuietStep DEF Reason
<1>3. CASE Latest # None
  <2>1. Latest \in Checkpoint /\ Durable(Latest)
    BY <1>1, <1>3, LatestFacts
  <2>2. Latest.next > 0
    BY <1>1, <2>1 DEF CheckpointsInv, Durable, Checkpoint
  <2>3. \E row \in cycles : row.id = Generation(Latest.next - 1)
    BY <1>1, <2>1, DurableHasCycle DEF RowsOf
  <2>4. EnterResumed(r, Latest, TRUE)
    BY <1>3 DEF ResumeFromStore
  <2>. QED
    BY <1>1, <2>1, <2>2, <2>3, <2>4, ResumedSafe
<1>. QED
  BY <1>2, <1>3

LEMMA ResumeSuppliedSafe ==
    ASSUME RunInv, NEW r \in Runner, ResumeSupplied(r)
    PROVE  RunInv'
<1>1. PICK cp \in Exported :
         EnterResumed(r, cp, Bound(cp) /\ (Job[r].store => cp \in CheckpointFor(cp.next)))
  BY DEF ResumeSupplied
<1>2. Start(r)
  BY DEF ResumeSupplied
<1>3. cp \in Checkpoint /\ cp.next > 0
  <2>1. CASE \E row \in checkpoints : cp = row.checkpoint
    BY <2>1 DEF RunInv, Types, LedgerInv, CheckpointsInv, CheckpointRow, Checkpoint
  <2>2. ASSUME NEW s \in Runner, cp = After(Origin(Job[s].population, Job[s].seed), Job[s].stop)
        PROVE  cp \in Checkpoint /\ cp.next > 0
    BY <2>2, OriginType, RunnerAfter
  <2>. QED
    BY <2>1, <2>2 DEF Exported
<1>4. Bound(cp) => \E row \in cycles : row.id = Generation(cp.next - 1)
  BY <1>3 DEF Bound, RowsOf, Generation
<1>5. cp \in CheckpointFor(cp.next) => Durable(cp)
  BY InCheckpointFor DEF Durable
<1> DEFINE ok == Bound(cp) /\ (Job[r].store => cp \in CheckpointFor(cp.next))
<1>6. ok => /\ \E row \in cycles : row.id = Generation(cp.next - 1)
            /\ WithStore(r) => Durable(cp)
  BY <1>4, <1>5 DEF WithStore
<1>7. EnterResumed(r, cp, ok)
  BY <1>1
<1> HIDE DEF ok
<1>. QED
  BY <1>2, <1>3, <1>6, <1>7, ResumedSafe

-----------------------------------------------------------------------------
(* The step that writes *)

AuditRowOf(a) == [id |-> RowOf(a).id, digest |-> RowOf(a), previous |-> proc[a].prev]

CheckpointRowOf(a) == [cycle_id |-> RowOf(a).id, checkpoint |-> proc[a].made]

Inserted(a) ==
    /\ RowsOf(RowOf(a).id) = {}
    /\ cycles' = cycles \union {RowOf(a)}
    /\ audit' = Append(audit, AuditRowOf(a))
    /\ ~proc[a].found

CycleSaved(a) ==
    /\ RowOf(a) \in cycles'
    /\ UNCHANGED <<cycles, audit>> \/ Inserted(a)

\* A new checkpoint is the next one, of a state that was durable if it was not
\* the origin.
CheckpointAdded(a) ==
    /\ WithStore(a)
    /\ proc[a].made.next = Cardinality(checkpoints) + 1
    /\ proc[a].at.next > 0 => Durable(proc[a].at)
    /\ checkpoints' = checkpoints \union {CheckpointRowOf(a)}

CheckpointSaved(a) ==
    \/ UNCHANGED checkpoints /\ (WithStore(a) => Durable(proc[a].made))
    \/ CheckpointAdded(a)

LEMMA WriteFacts ==
    ASSUME RunInv, NEW a \in Process, Write(a)
    PROVE  /\ proc[a].pc = "write" /\ Running(a)
           /\ RowOf(a) \in Cycle /\ IsRow(RowOf(a)) /\ RowOf(a).generation = RowOf(a).id[2]
           /\ a \in Runner =>
                 /\ a \notin Evolver
                 /\ proc[a].at \in Checkpoint /\ proc[a].at.next < Job[a].target
                 /\ proc[a].at.next \in Nat
                 /\ proc[a].made = After(proc[a].at, Job[a].stop)
                 /\ proc[a].made \in Checkpoint
                 /\ proc[a].made.next = proc[a].at.next + 1
                 /\ proc[a].made.seed = proc[a].at.seed + 1
                 /\ ValidCheckpoint(proc[a].made)
                 /\ RowOf(a).id = Generation(proc[a].at.next)
           /\ a \in Evolver =>
                 /\ a \notin Runner
                 /\ proc[a].at \in [next : Nat]
                 /\ RowOf(a).id = <<a, proc[a].at.next>>
<1>1. proc[a].pc = "write" /\ Running(a) /\ proc[a].pc \in Making
  BY DEF Write, Running, Making
<1>2. Types /\ ProcInv(a)
  BY DEF RunInv
<1>3. RowOf(a) \in Cycle /\ IsRow(RowOf(a)) /\ RowOf(a).generation = RowOf(a).id[2]
  BY <1>1, <1>2, RowOfType
<1>4. ASSUME a \in Runner
      PROVE  /\ a \notin Evolver
             /\ proc[a].at \in Checkpoint /\ proc[a].at.next < Job[a].target
             /\ proc[a].made = After(proc[a].at, Job[a].stop)
             /\ RowOf(a).id = Generation(proc[a].at.next)
  BY <1>1, <1>2, <1>4, JobAssumption, RowOfRunner DEF ProcInv, RunnerInv
<1>5. ASSUME a \in Runner
      PROVE  /\ proc[a].made \in Checkpoint
             /\ proc[a].made.next = proc[a].at.next + 1
             /\ proc[a].made.seed = proc[a].at.seed + 1
             /\ ValidCheckpoint(proc[a].made)
             /\ proc[a].at.next \in Nat
  BY <1>4, <1>5, RunnerAfter DEF Checkpoint
<1>6. ASSUME a \in Evolver
      PROVE  /\ a \notin Runner
             /\ proc[a].at \in [next : Nat]
             /\ RowOf(a).id = <<a, proc[a].at.next>>
  BY <1>1, <1>2, <1>6, JobAssumption, RowOfEvolver DEF ProcInv, EvolverInv
<1>. QED
  BY <1>1, <1>3, <1>4, <1>5, <1>6

LEMMA WriteCases ==
    ASSUME RunInv, NEW a \in Process, Write(a), ~Refuse(a, "conflict")
    PROVE  /\ CycleSaved(a) /\ CheckpointSaved(a)
           /\ Set(a, IF WithStore(a) THEN Doing("reload", proc[a].at, proc[a].made, 0)
                     ELSE Passed(a))
           /\ UNCHANGED ledger \/ alone' = alone \intersect {a}
           /\ alone' \subseteq alone
           /\ starts' = starts
<1>1. /\ CycleFits(a)
      /\ WithStore(a) => CheckpointFits(proc[a].made)
      /\ IF proc[a].found THEN UNCHANGED <<cycles, audit>>
         ELSE /\ cycles' = (cycles \ RowsOf(RowOf(a).id)) \union {RowOf(a)}
              /\ audit' = Append(audit, AuditRowOf(a))
      /\ IF WithStore(a) THEN checkpoints' = checkpoints \union {CheckpointRowOf(a)}
         ELSE UNCHANGED checkpoints
      /\ Set(a, IF WithStore(a) THEN Doing("reload", proc[a].at, proc[a].made, 0)
                ELSE Passed(a))
      /\ alone' = IF UNCHANGED ledger THEN alone ELSE alone \intersect {a}
      /\ starts' = starts
  BY DEF Write, AuditRowOf, CheckpointRowOf, AddCheckpoint
<1>2. CycleSaved(a)
  <2>1. CASE proc[a].found
    <3>1. WriteInv(a) /\ proc[a].pc = "write"
      BY WriteFacts DEF RunInv, ProcInv
    <3>2. RowOf(a) \in cycles
      BY <2>1, <3>1 DEF WriteInv
    <3>. QED
      BY <1>1, <2>1, <3>2 DEF CycleSaved
  <2>2. CASE ~proc[a].found
    <3>1. RowsOf(RowOf(a).id) = {}
      BY <1>1, <2>2 DEF CycleFits
    <3>. QED
      BY <1>1, <2>2, <3>1 DEF CycleSaved, Inserted
  <2>. QED
    BY <2>1, <2>2
<1>3. CheckpointSaved(a)
  <2>1. CASE ~WithStore(a)
    BY <1>1, <2>1 DEF CheckpointSaved
  <2>2. CASE WithStore(a)
    <3> DEFINE made == proc[a].made
               at == proc[a].at
    <3>1. a \in Runner /\ CheckpointsInv /\ Types
      BY <2>2 DEF WithStore, RunInv, LedgerInv
    <3>2. /\ at \in Checkpoint /\ made.next = at.next + 1 /\ at.next \in Nat
          /\ RowOf(a).id = Generation(at.next) /\ Running(a)
      BY <3>1, WriteFacts
    <3>3. at.next > 0 => Durable(at)
      BY <2>2, <3>1, <3>2 DEF RunInv, ProcInv, MemoryInv
    <3>4. checkpoints' = checkpoints \union {CheckpointRowOf(a)}
      BY <1>1, <2>2
    <3>5. CASE CheckpointFor(made.next) = {made}
      <4>1. PICK row \in checkpoints : row.checkpoint = made
        BY <3>5, InCheckpointFor
      <4>2. row = [cycle_id |-> row.cycle_id, checkpoint |-> row.checkpoint]
        BY <3>1 DEF Types, CheckpointRow
      <4>3. row.cycle_id = Generation(made.next - 1) /\ made.next - 1 = at.next
        BY <3>1, <3>2, <4>1 DEF CheckpointsInv
      <4>4. row = CheckpointRowOf(a)
        BY <3>2, <4>1, <4>2, <4>3 DEF CheckpointRowOf
      <4>. QED
        BY <3>4, <4>1, <4>4 DEF CheckpointSaved, Durable
    <3>6. CASE Latest = None
      <4>1. checkpoints = {}
        BY <3>1, <3>6, LatestFacts
      <4>2. at.next = 0 /\ Cardinality(checkpoints) = 0
        BY <3>2, <3>3, <4>1, FS_EmptySet DEF Durable
      <4>. QED
        BY <2>2, <3>2, <3>3, <3>4, <4>2 DEF CheckpointSaved, CheckpointAdded
    <3>7. CASE Latest # None /\ made.next = Latest.next + 1
      <4>1. Latest.next = Cardinality(checkpoints)
        BY <3>1, <3>7, LatestFacts
      <4>. QED
        BY <2>2, <3>3, <3>4, <3>7, <4>1 DEF CheckpointSaved, CheckpointAdded
    <3>. QED
      BY <1>1, <2>2, <3>5, <3>6, <3>7 DEF CheckpointFits
  <2>. QED
    BY <2>1, <2>2
<1>. QED
  BY <1>1, <1>2, <1>3

\* The runners made every generation before one that is there.
LEMMA NoGap ==
    ASSUME CyclesInv, NEW n \in Nat, RowsOf(Generation(n)) # {}, NEW i \in 0 .. n
    PROVE  RowsOf(Generation(i)) # {}
<1>1. PICK row \in cycles : row.id = Generation(n)
  BY DEF RowsOf
<1>2. row.id[1] = "generation" /\ row.id[2] = n
  BY <1>1 DEF Generation
<1>3. CASE i = n
  BY <1>3
<1>4. CASE i # n
  <2>1. i \in 0 .. row.id[2] - 1
    BY <1>2, <1>4
  <2>. QED
    BY <1>2, <2>1 DEF CyclesInv
<1>. QED
  BY <1>3, <1>4

\* Rows are only ever added, and one at most of each kind.
LEMMA CyclesKept ==
    ASSUME RunInv, NEW a \in Process, Write(a), CycleSaved(a)
    PROVE  /\ cycles \subseteq cycles'
           /\ cycles' \in SUBSET Cycle /\ IsFiniteSet(cycles')
           /\ CyclesInv'
<1>1. cycles \in SUBSET Cycle /\ IsFiniteSet(cycles) /\ CyclesInv
  BY DEF RunInv, Types, LedgerInv
<1>2. /\ RowOf(a) \in Cycle /\ IsRow(RowOf(a)) /\ RowOf(a).generation = RowOf(a).id[2]
  BY WriteFacts
<1>3. CASE UNCHANGED <<cycles, audit>>
  BY <1>1, <1>3 DEF CyclesInv, RowsOf, IsRow
<1>4. CASE Inserted(a)
  <2>1. cycles' = cycles \union {RowOf(a)} /\ RowsOf(RowOf(a).id) = {}
    BY <1>4 DEF Inserted
  <2>2. IsFiniteSet(cycles')
    BY <1>1, <2>1, FS_AddElement
  <2>3. \A row \in cycles' : IsRow(row)' /\ row.generation = row.id[2]
    BY <1>1, <1>2, <2>1 DEF CyclesInv, IsRow
  <2>4. \A row, other \in cycles' : row.id = other.id => row = other
    BY <1>1, <2>1 DEF CyclesInv, RowsOf
  <2>5. ASSUME NEW row \in cycles', row.id[1] = "generation", NEW n \in 0 .. row.id[2] - 1
        PROVE  RowsOf(Generation(n))' # {}
    <3>1. CASE row \in cycles
      <4>1. RowsOf(Generation(n)) # {}
        BY <1>1, <2>5, <3>1 DEF CyclesInv
      <4>. QED
        BY <2>1, <4>1 DEF RowsOf
    <3>2. CASE row = RowOf(a)
      <4>1. a \in Runner
        <5>1. a \notin Evolver
          BY <2>5, <3>2, WriteFacts, JobAssumption
        <5>. QED
          BY <5>1 DEF Process
      <4>2. row.id = Generation(proc[a].at.next) /\ proc[a].at.next \in Nat /\ Running(a)
        BY <3>2, <4>1, WriteFacts
      <4>3. n \in Nat /\ n < proc[a].at.next
        BY <2>5, <4>2 DEF Generation
      <4>4. RowsOf(Generation(proc[a].at.next - 1)) # {}
        <5>1. RunnerInv(a)
          BY <4>1 DEF RunInv, ProcInv
        <5>2. proc[a].at.next > 0
          BY <4>2, <4>3
        <5>. QED
          BY <4>2, <5>1, <5>2 DEF RunnerInv
      <4>5. proc[a].at.next - 1 \in Nat /\ n \in 0 .. proc[a].at.next - 1
        BY <4>2, <4>3
      <4>6. RowsOf(Generation(n)) # {}
        BY <1>1, <4>4, <4>5, NoGap
      <4>. QED
        BY <2>1, <4>6 DEF RowsOf
    <3>. QED
      BY <2>1, <3>1, <3>2
  <2>6. CyclesInv'
    BY <2>3, <2>4, <2>5 DEF CyclesInv
  <2>. QED
    BY <1>1, <1>2, <2>1, <2>2, <2>6
<1>. QED
  BY <1>3, <1>4 DEF CycleSaved

\* The new end of the chain follows the old one, but for evolvers.
LEMMA AuditKept ==
    ASSUME RunInv, NEW a \in Process, Write(a), CycleSaved(a)
    PROVE  audit' \in Seq(AuditRow) /\ AuditInv'
<1>1. /\ audit \in Seq(AuditRow) /\ AuditInv /\ CyclesInv
      /\ cycles \in SUBSET Cycle /\ IsFiniteSet(cycles)
  BY DEF RunInv, Types, LedgerInv
<1>2. CASE UNCHANGED <<cycles, audit>>
  BY <1>1, <1>2 DEF AuditInv, ForksOnlyBesideEvolvers, Chained
<1>3. CASE Inserted(a)
  <2> DEFINE n == Len(audit)
             new == AuditRowOf(a)
  <2>1. /\ RowsOf(RowOf(a).id) = {} /\ cycles' = cycles \union {RowOf(a)}
        /\ audit' = Append(audit, new) /\ ~proc[a].found
    BY <1>3 DEF Inserted
  <2>2. /\ RowOf(a) \in Cycle /\ RowOf(a).id \in Id
        /\ proc[a].prev \in Cycle \union {None}
    BY WriteFacts DEF Cycle, RunInv, Types, Doings
  <2>3. /\ new \in AuditRow /\ new.id = RowOf(a).id /\ new.digest = RowOf(a)
        /\ new.previous = proc[a].prev
    BY <2>2 DEF AuditRowOf, AuditRow
  <2> HIDE DEF new
  <2>4. /\ n \in Nat /\ audit' \in Seq(AuditRow) /\ Len(audit') = n + 1
        /\ audit'[n + 1] = new
        /\ \A i \in 1 .. n : audit'[i] = audit[i]
        /\ DOMAIN audit' = 1 .. n + 1 /\ DOMAIN audit = 1 .. n
    BY <1>1, <2>1, <2>3
  <2>5. /\ {audit[i].digest : i \in DOMAIN audit} = cycles
        /\ Cardinality(cycles) = n
    BY <1>1 DEF AuditInv, ForksOnlyBesideEvolvers
  <2>6. RowOf(a) \notin cycles
    BY <2>1 DEF RowsOf
  <2>7. \A i \in 1 .. n : audit[i].digest \in cycles /\ audit[i].id = audit[i].digest.id
    BY <1>1, <2>4, <2>5 DEF AuditInv
  <2>8. \A i \in DOMAIN audit' : audit'[i].id = audit'[i].digest.id
    BY <2>3, <2>4, <2>7
  <2>9. \A i \in 1 .. n : audit[i].id # new.id
    BY <2>1, <2>3, <2>7 DEF RowsOf
  <2>10. \A i, j \in DOMAIN audit' : audit'[i].id = audit'[j].id => i = j
    <3>1. \A i, j \in 1 .. n : audit[i].id = audit[j].id => i = j
      BY <1>1, <2>4 DEF AuditInv
    <3>. QED
      BY <2>4, <2>9, <3>1
  <2>11. {audit'[i].digest : i \in DOMAIN audit'} = cycles'
    <3>1. \A i \in DOMAIN audit' : audit'[i].digest \in cycles'
      BY <2>1, <2>3, <2>4, <2>7
    <3>2. \A row \in cycles' : \E i \in DOMAIN audit' : audit'[i].digest = row
      <4>1. ASSUME NEW row \in cycles
            PROVE  \E i \in DOMAIN audit' : audit'[i].digest = row
        <5>1. PICK i \in 1 .. n : audit[i].digest = row
          BY <2>4, <2>5, <4>1
        <5>. QED
          BY <2>4, <5>1
      <4>2. n + 1 \in DOMAIN audit' /\ audit'[n + 1].digest = RowOf(a)
        BY <2>3, <2>4
      <4>. QED
        BY <2>1, <4>1, <4>2
    <3>. QED
      BY <3>1, <3>2
  <2>12. Cardinality(cycles') = Len(audit')
    <3>1. Cardinality(cycles \union {RowOf(a)}) = Cardinality(cycles) + 1
      BY <1>1, <2>6, FS_AddElement
    <3>. QED
      BY <2>1, <2>4, <2>5, <3>1
  <2>13. ASSUME NEW i \in DOMAIN audit'
         PROVE  \/ Chained(i)' \/ audit'[i].id[1] \in Evolver
                \/ i > 1 /\ audit'[i - 1].id[1] \in Evolver
    <3>1. CASE i \in 1 .. n
      <4>1. \/ Chained(i) \/ audit[i].id[1] \in Evolver
            \/ i > 1 /\ audit[i - 1].id[1] \in Evolver
        BY <1>1, <2>4, <3>1 DEF AuditInv, ForksOnlyBesideEvolvers
      <4>2. audit'[i] = audit[i] /\ (i > 1 => audit'[i - 1] = audit[i - 1])
        BY <2>4, <3>1
      <4>3. Chained(i) => Chained(i)'
        BY <2>4, <3>1, <4>2 DEF Chained
      <4>. QED
        BY <4>1, <4>2, <4>3
    <3>2. CASE i = n + 1
      <4>1. WriteInv(a) /\ proc[a].pc = "write"
        BY WriteFacts DEF RunInv, ProcInv
      <4>2. CASE a \in Evolver
        BY <2>3, <2>4, <3>2, <4>2, WriteFacts
      <4>3. CASE proc[a].prev = LastDigest
        <5>1. CASE n = 0
          <6>1. audit = <<>> /\ i = 1
            BY <1>1, <2>4, <3>2, <5>1
          <6>2. audit'[i].previous = None
            BY <2>3, <2>4, <3>2, <4>3, <6>1 DEF LastDigest
          <6>. QED
            BY <6>1, <6>2 DEF Chained
        <5>2. CASE n # 0
          <6>1. audit # <<>> /\ i # 1 /\ audit'[i - 1] = audit[n]
            BY <1>1, <2>4, <3>2, <5>2
          <6>2. audit'[i].previous = audit[n].digest
            BY <2>3, <2>4, <3>2, <4>3, <6>1 DEF LastDigest, Last
          <6>. QED
            BY <6>1, <6>2 DEF Chained
        <5>. QED
          BY <5>1, <5>2
      <4>4. CASE audit # <<>> /\ Last(audit).id[1] \in Evolver
        <5>1. n # 0
          BY <1>1, <2>4, <4>4
        <5>2. i > 1 /\ audit'[i - 1] = audit[n]
          BY <2>4, <3>2, <5>1
        <5>. QED
          BY <4>4, <5>2 DEF Last
      <4>. QED
        BY <2>1, <4>1, <4>2, <4>3, <4>4 DEF WriteInv
    <3>. QED
      BY <2>4, <3>1, <3>2
  <2>. QED
    BY <2>4, <2>8, <2>10, <2>11, <2>12, <2>13 DEF AuditInv, ForksOnlyBesideEvolvers
<1>. QED
  BY <1>2, <1>3 DEF CycleSaved

\* Checkpoints are only ever added, in their order, beside their cycles.
LEMMA CheckpointsKept ==
    ASSUME RunInv, NEW a \in Process, Write(a), CycleSaved(a), CheckpointSaved(a)
    PROVE  /\ checkpoints \subseteq checkpoints'
           /\ checkpoints' \in SUBSET CheckpointRow /\ IsFiniteSet(checkpoints')
           /\ CheckpointsInv'
           /\ WithStore(a) => \E row \in checkpoints' : row.checkpoint = proc[a].made
<1> DEFINE N == Cardinality(checkpoints)
           made == proc[a].made
           at == proc[a].at
<1>1. checkpoints \in SUBSET CheckpointRow /\ IsFiniteSet(checkpoints) /\ CheckpointsInv
  BY DEF RunInv, Types, LedgerInv
<1>2. cycles \subseteq cycles'
  BY CyclesKept
<1>3. checkpoints \subseteq checkpoints'
  BY DEF CheckpointSaved, CheckpointAdded
<1>4. ASSUME NEW row \in checkpoints
      PROVE  \E cycle \in RowsOf(row.cycle_id)' : PairIsValid(cycle, row.checkpoint)'
  <2>1. PICK cycle \in RowsOf(row.cycle_id) : PairIsValid(cycle, row.checkpoint)
    BY <1>1 DEF CheckpointsInv, CheckpointsPaired
  <2>2. cycle \in RowsOf(row.cycle_id)'
    BY <1>2, <2>1 DEF RowsOf
  <2>3. PairIsValid(cycle, row.checkpoint)'
    BY <1>3, <2>1 DEF PairIsValid, CheckpointFor
  <2>. QED
    BY <2>2, <2>3
<1>5. CASE UNCHANGED checkpoints /\ (WithStore(a) => Durable(made))
  <2>1. CheckpointsVerify'
    BY <1>1, <1>5 DEF CheckpointsInv, CheckpointsPaired, CheckpointsVerify
  <2>2. CheckpointsInv'
    BY <1>1, <1>4, <1>5, <2>1 DEF CheckpointsInv, CheckpointsPaired
  <2>. QED
    BY <1>1, <1>5, <2>2 DEF Durable
<1>6. CASE CheckpointAdded(a)
  <2> DEFINE new == CheckpointRowOf(a)
  <2>1. /\ WithStore(a) /\ a \in Runner /\ made.next = N + 1
        /\ (at.next > 0 => Durable(at))
        /\ checkpoints' = checkpoints \union {new}
    BY <1>6 DEF CheckpointAdded, WithStore
  <2>2. /\ at \in Checkpoint /\ at.next \in Nat /\ made \in Checkpoint
        /\ made.next = at.next + 1 /\ made.seed = at.seed + 1 /\ ValidCheckpoint(made)
        /\ RowOf(a).id = Generation(at.next) /\ RowOf(a) \in Cycle
    BY <2>1, WriteFacts
  <2>3. new.cycle_id = RowOf(a).id /\ new.checkpoint = made /\ new \in CheckpointRow
    BY <2>2 DEF CheckpointRowOf, CheckpointRow, Cycle
  <2>4. N \in Nat /\ at.next = N
    <3>1. N \in Nat
      BY <1>1, FS_CardinalityType
    <3>. QED
      BY <2>1, <2>2, <3>1
  <2> HIDE DEF new, made, at, N
  <2>5. \A row \in checkpoints : row.checkpoint.next \in 1 .. N
    BY <1>1 DEF CheckpointsInv, CheckpointsPaired, CheckpointsVerify, N
  <2>6. new \notin checkpoints
    BY <2>1, <2>3, <2>4, <2>5
  <2>7. Cardinality(checkpoints') = N + 1 /\ IsFiniteSet(checkpoints')
    BY <1>1, <2>1, <2>6, FS_AddElement DEF N
  <2>8. {row.checkpoint.next : row \in checkpoints'} = 1 .. N + 1
    <3>1. {row.checkpoint.next : row \in checkpoints} = 1 .. N
      BY <1>1 DEF CheckpointsInv, CheckpointsPaired, CheckpointsVerify, N
    <3>2. {row.checkpoint.next : row \in checkpoints'} = 1 .. N \union {N + 1}
      BY <2>1, <2>3, <3>1
    <3>3. 1 .. N \union {N + 1} = 1 .. N + 1
      BY <2>4
    <3>. QED
      BY <3>2, <3>3
  <2>9. \A row \in checkpoints' : ValidCheckpoint(row.checkpoint)'
    BY <1>1, <2>1, <2>2, <2>3
       DEF CheckpointsInv, CheckpointsPaired, CheckpointsVerify, ValidCheckpoint
  <2>10. CheckpointsVerify'
    BY <2>7, <2>8, <2>9 DEF CheckpointsVerify
  <2>11. ASSUME NEW row \in checkpoints', row = new
         PROVE  \E cycle \in RowsOf(row.cycle_id)' : PairIsValid(cycle, row.checkpoint)'
    <3>1. PICK cycle \in cycles' : cycle = RowOf(a)
      BY DEF CycleSaved
    <3>2. /\ cycle.id = row.cycle_id /\ cycle.generation = at.next
          /\ cycle.plan.seed = at.seed /\ cycle.plan.checkpoint_digest = made
      BY <2>1, <2>3, <2>11, <3>1, RowOfRunner DEF at, made
    <3>3. ASSUME made.next > 1
          PROVE  \E other \in checkpoints' : /\ other.checkpoint.next = made.next - 1
                                             /\ other.checkpoint.seed = at.seed
      <4>1. at.next > 0 /\ made.next - 1 = at.next
        BY <2>2, <3>3
      <4>2. PICK other \in checkpoints : other.checkpoint = at
        BY <2>1, <4>1 DEF Durable
      <4>. QED
        BY <1>3, <4>1, <4>2
    <3>4. row.checkpoint = made /\ made.next - 1 = at.next
      BY <2>2, <2>3, <2>11
    <3>5. row.checkpoint.next > 1 =>
             \E other \in checkpoints' : /\ other.checkpoint.next = row.checkpoint.next - 1
                                         /\ other.checkpoint.seed = cycle.plan.seed
      BY <3>2, <3>3, <3>4
    <3>6. PairIsValid(cycle, row.checkpoint)'
      BY <2>2, <3>2, <3>4, <3>5 DEF PairIsValid, CheckpointFor
    <3>. QED
      BY <3>1, <3>2, <3>6 DEF RowsOf
  <2>12. CheckpointsInv'
    <3>1. \A row \in checkpoints' : /\ row.cycle_id = Generation(row.checkpoint.next - 1)
                                    /\ row.checkpoint.next >= 1
      BY <1>1, <2>1, <2>2, <2>3 DEF CheckpointsInv
    <3>2. \A row, other \in checkpoints' :
             row.checkpoint.next = other.checkpoint.next => row = other
      BY <1>1, <2>1, <2>3, <2>4, <2>5 DEF CheckpointsInv
    <3>3. \A row \in checkpoints' :
             \E cycle \in RowsOf(row.cycle_id)' : PairIsValid(cycle, row.checkpoint)'
      BY <1>4, <2>1, <2>11
    <3>. QED
      BY <2>10, <3>1, <3>2, <3>3 DEF CheckpointsInv, CheckpointsPaired
  <2>13. \E row \in checkpoints' : row.checkpoint = made
    BY <2>1, <2>3
  <2>. QED
    BY <1>1, <1>3, <2>1, <2>3, <2>7, <2>12, <2>13 DEF made
<1>. QED
  BY <1>5, <1>6 DEF CheckpointSaved

\* Whoever else is about to write still knows the end of the chain, or it is
\* an evolver's, or the row is there already.
LEMMA OthersSafe ==
    ASSUME RunInv, NEW a \in Process, Write(a), CycleSaved(a), CheckpointSaved(a),
           UNCHANGED ledger \/ alone' = alone \intersect {a}, alone' \subseteq alone,
           NEW b \in Process, b # a, proc'[b] = proc[b]
    PROVE  ProcInv(b)'
<1>1. ProcInv(b) /\ CyclesInv /\ audit \in Seq(AuditRow)
  BY DEF RunInv, LedgerInv, Types
<1>2. cycles \subseteq cycles' /\ checkpoints \subseteq checkpoints'
  BY CyclesKept, CheckpointsKept
<1>3. RunnerInv(b) => RunnerInv(b)'
  <2>1. \A n : RowsOf(n) # {} => RowsOf(n)' # {}
    BY <1>2 DEF RowsOf
  <2>2. \A cp : Durable(cp) => Durable(cp)'
    BY <1>2 DEF Durable
  <2>. QED
    BY <1>2 DEF RunnerInv, Running, RowsOf, Durable, WithStore
<1>4. MemoryInv(b) => MemoryInv(b)'
  BY <1>2 DEF MemoryInv, Running, Durable, WithStore
<1>5. EvolverInv(b) => EvolverInv(b)'
  BY DEF EvolverInv, Running
<1>6. WriteInv(b)'
  <2> SUFFICES ASSUME proc[b].pc = "write"
               PROVE  IF proc[b].found THEN RowOf(b) \in cycles'
                      ELSE \/ b \in Evolver
                           \/ \E row \in cycles' : row.id = RowOf(b).id
                           \/ proc[b].prev = LastDigest'
                           \/ audit' # <<>> /\ Last(audit').id[1] \in Evolver
    <3>1. RowOf(b)' = RowOf(b)
      BY DEF RowOf
    <3>. QED
      BY <3>1 DEF WriteInv, RowsOf
  <2>1. WriteInv(b)
    BY <1>1 DEF ProcInv
  <2>2. CASE proc[b].found
    BY <1>2, <2>1, <2>2 DEF WriteInv
  <2>3. CASE ~proc[b].found /\ \E row \in cycles : row.id = RowOf(b).id
    BY <1>2, <2>3
  <2>4. CASE UNCHANGED <<cycles, audit>>
    BY <2>1, <2>4 DEF WriteInv, LastDigest, RowsOf
  <2>5. CASE Inserted(a) /\ a \in Evolver
    <3>1. /\ Len(audit') = Len(audit) + 1 /\ Len(audit) \in Nat
          /\ audit'[Len(audit')] = AuditRowOf(a)
      BY <1>1, <2>5 DEF Inserted
    <3>2. AuditRowOf(a).id = <<a, proc[a].at.next>>
      BY <2>5, WriteFacts DEF AuditRowOf
    <3>3. audit' # <<>> /\ Last(audit').id[1] \in Evolver
      BY <1>1, <2>5, <3>1, <3>2 DEF Last, Inserted
    <3>. QED
      BY <1>2, <2>1, <3>3 DEF WriteInv
  <2>6. CASE Inserted(a) /\ a \in Runner /\ b \in Runner /\ RowsOf(RowOf(b).id) = {}
    <3> DEFINE m == proc[b].at.next
               n == proc[a].at.next
    <3>1. /\ RowOf(a).id = Generation(n) /\ n \in Nat /\ RowsOf(Generation(n)) = {}
          /\ RowOf(a) \in cycles'
      BY <2>6, WriteFacts DEF Inserted
    <3>2. RowOf(b).id = Generation(m) /\ RowsOf(Generation(m)) = {}
      BY <2>6, RowOfRunner
    <3>3. RunnerInv(a) /\ RunnerInv(b) /\ Running(b) /\ Running(a)
      BY <1>1, <2>6, WriteFacts DEF ProcInv, RunInv, Running
    <3>4. m \in Nat
      BY <3>3 DEF RunnerInv, Checkpoint
    <3>5. n > 0 => \A i \in 0 .. n - 1 : RowsOf(Generation(i)) # {}
      <4> SUFFICES ASSUME n > 0, NEW i \in 0 .. n - 1
                   PROVE  RowsOf(Generation(i)) # {}
        OBVIOUS
      <4>1. RowsOf(Generation(n - 1)) # {}
        BY <3>3 DEF RunnerInv
      <4>2. n - 1 \in Nat
        BY <3>1
      <4>. QED
        BY <1>1, <4>1, <4>2, NoGap
    <3>6. m > 0 => \A i \in 0 .. m - 1 : RowsOf(Generation(i)) # {}
      <4> SUFFICES ASSUME m > 0, NEW i \in 0 .. m - 1
                   PROVE  RowsOf(Generation(i)) # {}
        OBVIOUS
      <4>1. RowsOf(Generation(m - 1)) # {}
        BY <3>3 DEF RunnerInv
      <4>2. m - 1 \in Nat
        BY <3>4
      <4>. QED
        BY <1>1, <4>1, <4>2, NoGap
    <3>7. n = m
      <4>1. ~(m < n)
        <5> SUFFICES ASSUME m < n PROVE FALSE
          OBVIOUS
        <5>1. n > 0 /\ m \in 0 .. n - 1
          BY <3>1, <3>4
        <5>. QED
          BY <3>2, <3>5, <5>1
      <4>2. ~(n < m)
        <5> SUFFICES ASSUME n < m PROVE FALSE
          OBVIOUS
        <5>1. m > 0 /\ n \in 0 .. m - 1
          BY <3>1, <3>4
        <5>. QED
          BY <3>1, <3>6, <5>1
      <4>. QED
        BY <3>1, <3>4, <4>1, <4>2
    <3>. QED
      BY <1>2, <2>1, <3>1, <3>2, <3>7 DEF WriteInv
  <2>. QED
    BY <2>1, <2>2, <2>3, <2>4, <2>5, <2>6 DEF CycleSaved, WriteInv, RowsOf, Process
<1>7. CompanyInv(b)'
  <2>1. b \in alone' => b \in alone /\ UNCHANGED ledger
    OBVIOUS
  <2>. QED
    BY <1>1, <2>1 DEF CompanyInv, ledger, ProcInv
<1>. QED
  BY <1>1, <1>3, <1>4, <1>5, <1>6, <1>7 DEF ProcInv

\* The writer goes on from a state that is durable where there is a store.
LEMMA WriterSafe ==
    ASSUME RunInv, NEW a \in Process, Write(a), CycleSaved(a), CheckpointSaved(a),
           Set(a, IF WithStore(a) THEN Doing("reload", proc[a].at, proc[a].made, 0)
                  ELSE Passed(a))
    PROVE  proc' \in [Process -> Doings] /\ ProcInv(a)'
<1> DEFINE made == proc[a].made
           at == proc[a].at
<1>1. proc \in [Process -> Doings] /\ ProcInv(a) /\ proc[a].pc = "write"
  BY WriteFacts DEF RunInv, Types
<1>2. cycles \subseteq cycles' /\ checkpoints \subseteq checkpoints' /\ RowOf(a) \in cycles'
  BY CyclesKept, CheckpointsKept DEF CycleSaved
<1>3. CASE WithStore(a)
  <2> DEFINE there == "reload"
             none == 0
             p == Doing(there, at, made, none)
  <2>1. a \in Runner
    BY <1>3 DEF WithStore
  <2>2. /\ a \notin Evolver /\ at \in Checkpoint /\ at.next < Job[a].target
        /\ made = After(at, Job[a].stop) /\ made \in Checkpoint /\ Running(a)
    BY <2>1, WriteFacts
  <2>3. Set(a, p)
    BY <1>3
  <2>4. p \in Doings
    BY <2>2, DoingType DEF Pc, Making
  <2>5. proc'[a] = p
    BY <1>1, <2>3 DEF Set
  <2>6. proc'[a].pc = there /\ proc'[a].at = at /\ proc'[a].made = made
    <3> HIDE DEF there, none, at, made
    <3>. QED
      BY ONLY <2>5 DEF Doing
  <2>7. RunnerInv(a) /\ MemoryInv(a)
    BY <1>1, <2>1 DEF ProcInv
  <2>8. \E row \in checkpoints' : row.checkpoint = made
    BY <1>3, CheckpointsKept
  <2>9. RunnerInv(a)'
    <3>1. ~at.stopped /\ (at.next = 0 => at = Origin(Job[a].population, Job[a].seed))
      BY <2>2, <2>7 DEF RunnerInv
    <3>2. at.next > 0 => \E row \in cycles' : row.id = Generation(at.next - 1)
      BY <1>2, <2>2, <2>7 DEF RunnerInv, RowsOf
    <3> HIDE DEF at, made
    <3>. QED
      BY <1>3, <2>2, <2>6, <2>8, <3>1, <3>2 DEF RunnerInv, RowsOf, WithStore, Durable
  <2>10. MemoryInv(a)'
    <3>1. at.next > 0 => \E row \in checkpoints' : row.checkpoint = at
      BY <1>2, <1>3, <2>2, <2>7 DEF MemoryInv, Durable
    <3> HIDE DEF at, made
    <3>. QED
      BY <2>6, <3>1 DEF MemoryInv, Durable
  <2>11. WriteInv(a)' /\ CompanyInv(a)'
    BY <2>6 DEF WriteInv, CompanyInv, Counting
  <2> HIDE DEF p
  <2>. QED
    BY <1>1, <2>2, <2>3, <2>4, <2>9, <2>10, <2>11 DEF ProcInv, Set
<1>4. CASE ~WithStore(a) /\ a \in Runner
  <2>1. /\ a \notin Evolver /\ at.next \in Nat /\ made \in Checkpoint
        /\ made.next = at.next + 1 /\ RowOf(a).id = Generation(at.next)
    BY <1>4, WriteFacts
  <2>2. made.next > 0 /\ made.next - 1 = at.next
    BY <2>1
  <2>3. \E row \in cycles' : row.id = Generation(made.next - 1)
    BY <1>2, <2>1, <2>2
  <2>4. proc'[a] = Passed(a) /\ proc' = [proc EXCEPT ![a] = Passed(a)]
    BY <1>1, <1>4 DEF Set
  <2>5. Passed(a) \in Doings /\ ProcInv(a)'
    <3>1. CASE made.stopped
      <4>1. Passed(a) = Doing("done", made, None, 0)
        BY <2>1, <3>1 DEF Passed
      <4>. QED
        BY <1>4, <2>1, <2>4, <4>1, DoneRunner
    <3>2. CASE ~made.stopped
      <4>1. Passed(a) = Enter(a, made)
        BY <2>1, <3>2 DEF Passed
      <4> HIDE DEF made
      <4>. QED
        BY <1>4, <2>1, <2>2, <2>3, <2>4, <3>2, <4>1, EnterRunner
    <3>. QED
      BY <3>1, <3>2
  <2>. QED
    BY <1>1, <2>4, <2>5
<1>5. CASE ~WithStore(a) /\ a \in Evolver
  <2>1. at.next + 1 \in Nat
    BY <1>5, WriteFacts
  <2>2. Passed(a) = Enter(a, [next |-> at.next + 1])
    BY <1>5 DEF Passed
  <2>3. proc'[a] = Passed(a) /\ proc' = [proc EXCEPT ![a] = Passed(a)]
    BY <1>1, <1>5 DEF Set
  <2> DEFINE n == at.next + 1
  <2>4. proc'[a] = Enter(a, [next |-> n]) /\ n \in Nat
    BY <2>1, <2>2, <2>3
  <2> HIDE DEF n
  <2>5. Enter(a, [next |-> n]) \in Doings /\ ProcInv(a)'
    BY <1>5, <2>4, EnterEvolver
  <2>. QED
    BY <1>1, <2>2, <2>3, <2>5 DEF n
<1>. QED
  BY <1>3, <1>4, <1>5 DEF Process, WithStore

LEMMA WriteSafe ==
    ASSUME RunInv, NEW a \in Process, Write(a)
    PROVE  RunInv'
<1>1. CASE Refuse(a, "conflict")
  BY <1>1, RefuseStep DEF Reason
<1>2. CASE ~Refuse(a, "conflict")
  <2>1. /\ CycleSaved(a) /\ CheckpointSaved(a)
        /\ Set(a, IF WithStore(a) THEN Doing("reload", proc[a].at, proc[a].made, 0)
                  ELSE Passed(a))
        /\ UNCHANGED ledger \/ alone' = alone \intersect {a}
        /\ alone' \subseteq alone
        /\ starts' = starts
    BY <1>2, WriteCases
  <2>2. starts \in 0 .. Starts /\ alone \subseteq Process /\ proc \in [Process -> Doings]
    BY DEF RunInv, Types
  <2>3. proc' \in [Process -> Doings] /\ ProcInv(a)'
    BY <2>1, WriterSafe
  <2>4. ASSUME NEW b \in Process, b # a
        PROVE  ProcInv(b)'
    <3>1. proc'[b] = proc[b]
      BY <2>1, <2>2, <2>4 DEF Set
    <3>. QED
      BY <2>1, <2>4, <3>1, OthersSafe
  <2>5. Types'
    BY <2>1, <2>2, <2>3, CyclesKept, AuditKept, CheckpointsKept DEF Types
  <2>6. LedgerInv'
    BY <2>1, CyclesKept, AuditKept, CheckpointsKept DEF LedgerInv
  <2>. QED
    BY <2>3, <2>4, <2>5, <2>6 DEF RunInv
<1>. QED
  BY <1>1, <1>2

-----------------------------------------------------------------------------
(* The invariant *)

LEMMA InitSafe == Init => RunInv
<1> SUFFICES ASSUME Init
             PROVE  RunInv
  OBVIOUS
<1>1. /\ cycles = {} /\ audit = <<>> /\ checkpoints = {}
      /\ proc = [a \in Process |-> Idle] /\ starts = 0 /\ alone = {}
  BY DEF Init
<1>2. Types
  BY <1>1, IdleType, FS_EmptySet, JobAssumption DEF Types
<1>3. CyclesInv
  BY <1>1 DEF CyclesInv
<1>4. AuditInv
  BY <1>1, FS_EmptySet DEF AuditInv, ForksOnlyBesideEvolvers
<1>5. CheckpointsInv
  <2>1. Cardinality(checkpoints) = 0
    BY <1>1, FS_EmptySet
  <2>2. {row.checkpoint.next : row \in checkpoints} = {} /\ 1 .. 0 = {}
    BY <1>1
  <2>. QED
    BY <1>1, <2>1, <2>2 DEF CheckpointsInv, CheckpointsPaired, CheckpointsVerify
<1>6. ASSUME NEW a \in Process
      PROVE  ProcInv(a)
  <2>1. proc[a].pc = "idle" /\ a \notin alone
    BY <1>1 DEF Idle, Doing
  <2>2. RunnerInv(a) /\ MemoryInv(a) /\ EvolverInv(a) /\ WriteInv(a) /\ CompanyInv(a)
    BY <2>1 DEF RunnerInv, Running, MemoryInv, EvolverInv, WriteInv, CompanyInv
  <2>. QED
    BY <2>2 DEF ProcInv
<1>. QED
  BY <1>2, <1>3, <1>4, <1>5, <1>6 DEF RunInv, LedgerInv

LEMMA NextSafe == RunInv /\ [Next]_vars => RunInv'
<1> SUFFICES ASSUME RunInv, [Next]_vars
             PROVE  RunInv'
  OBVIOUS
<1>1. ASSUME NEW a \in Process, Step(a)
      PROVE  RunInv'
  <2>1. CASE Verify(a)
    BY <2>1, VerifySafe
  <2>2. CASE Read(a)
    BY <2>2, ReadSafe
  <2>3. CASE Write(a)
    BY <2>3, WriteSafe
  <2>4. CASE a \in Runner /\ CountAtHead(a)
    BY <2>4, CountAtHeadSafe
  <2>5. CASE a \in Runner /\ Evaluate(a)
    BY <2>5, EvaluateSafe
  <2>6. CASE a \in Runner /\ EvaluationFails(a)
    BY <2>6, RefuseStep DEF EvaluationFails, Reason
  <2>7. CASE a \in Runner /\ Reload(a)
    BY <2>7, ReloadSafe
  <2>. QED
    BY <1>1, <2>1, <2>2, <2>3, <2>4, <2>5, <2>6, <2>7 DEF Step
<1>2. ASSUME NEW a \in Process, Crash(a)
      PROVE  RunInv'
  BY <1>2, CrashSafe
<1>3. ASSUME NEW r \in Runner, RunResearch(r) \/ ResumeFromStore(r) \/ ResumeSupplied(r)
      PROVE  RunInv'
  BY <1>3, RunResearchSafe, ResumeFromStoreSafe, ResumeSuppliedSafe
<1>4. ASSUME NEW w \in Evolver, Evolve(w)
      PROVE  RunInv'
  BY <1>4, EvolveSafe
<1>5. CASE UNCHANGED vars
  <2>1. /\ UNCHANGED ledger /\ proc' = proc /\ starts' = starts /\ alone' = alone
    BY <1>5 DEF vars
  <2>2. LedgerInv'
    BY <2>1, LedgerKeeps DEF RunInv
  <2>3. \A b \in Process : ProcInv(b)'
    BY <2>1, OthersKeep
  <2>4. Types'
    BY <2>1 DEF RunInv, Types, ledger
  <2>. QED
    BY <2>2, <2>3, <2>4 DEF RunInv
<1>. QED
  BY <1>1, <1>2, <1>3, <1>4, <1>5 DEF Next

\* Whatever processes are started, killed and raced, the ledgers stay sound
\* and every process knows what it may know of them.
THEOREM RunInvariant == Spec => []RunInv
BY InitSafe, NextSafe, PTL DEF Spec

\* The variables hold rows, checkpoints and processes of the program's shape.
THEOREM RunTypes == Spec => []TypeOK
<1>1. RunInv => TypeOK
  <2> SUFFICES ASSUME RunInv
               PROVE  TypeOK
    OBVIOUS
  <2>1. Types /\ CyclesInv /\ AuditInv
    BY DEF RunInv, LedgerInv
  <2>2. \A row \in cycles : row.generation \in Nat /\ IsRow(row)
    BY <2>1 DEF Types, Cycle, CyclesInv
  <2>3. \A i \in DOMAIN audit : IsRow(audit[i].digest)
    BY <2>1, <2>2 DEF AuditInv, ForksOnlyBesideEvolvers
  <2>4. \A a \in Process : /\ proc[a].rows \in Nat /\ proc[a].found \in BOOLEAN
                           /\ proc[a].made = None \/ proc[a].made \in Checkpoint
    BY <2>1 DEF Types, Doings
  <2>. QED
    BY <2>1, <2>2, <2>3, <2>4 DEF TypeOK, Types, CheckpointRow
<1>. QED
  BY <1>1, RunInvariant, PTL

\* The two ledgers never disagree: persist_generation of
\* research_control_plane.py writes both sides of a pair or neither.
THEOREM LedgersPaired == Spec => []CheckpointsPaired
<1>1. RunInv => CheckpointsPaired
  BY DEF RunInv, LedgerInv, CheckpointsInv
<1>. QED
  BY <1>1, RunInvariant, PTL

\* Runners never fork the audit chain (save_cycle_in_transaction of
\* research_cycle_registry.py, which reads its end before it has the lock).
THEOREM RunnersNeverFork == Spec => []ForksOnlyBesideEvolvers
<1>1. RunInv => ForksOnlyBesideEvolvers
  BY DEF RunInv, LedgerInv, AuditInv
<1>. QED
  BY <1>1, RunInvariant, PTL

\* What a runner of research_runner.py computes from is durable.
THEOREM RunnersContinueDurableStates == Spec => []MemoryIsDurable
<1>1. RunInv => MemoryIsDurable
  <2> SUFFICES ASSUME RunInv, NEW r \in Runner, WithStore(r),
                      Running(r) \/ proc[r].pc = "done", proc[r].at.next > 0
               PROVE  proc[r].at \in CheckpointFor(proc[r].at.next)
    BY DEF MemoryIsDurable
  <2>1. Durable(proc[r].at)
    BY DEF RunInv, ProcInv, MemoryInv, Process
  <2>. QED
    BY <2>1, InCheckpointFor DEF Durable
<1>. QED
  BY <1>1, RunInvariant, PTL

\* Crashes alone never make a run refuse the evidence of its database (the
\* verifications of research_control_plane.py).
THEOREM CrashesLeaveGoodEvidence == Spec => []EvidenceFailsOnlyInCompany
<1>1. RunInv => EvidenceFailsOnlyInCompany
  <2> SUFFICES ASSUME RunInv, NEW r \in alone,
                      proc[r].pc = "refused", proc[r].why = "evidence"
               PROVE  \E row \in cycles : row.id[1] \in Evolver
    BY DEF EvidenceFailsOnlyInCompany
  <2>1. r \in Process
    BY DEF RunInv, Types
  <2>. QED
    BY <2>1 DEF RunInv, ProcInv, CompanyInv
<1>. QED
  BY <1>1, RunInvariant, PTL

-----------------------------------------------------------------------------
(* The checkpoints are those of one uninterrupted run *)

LEMMA SameGeneration ==
    /\ \A cp, stop : Linear!After(cp, stop) = After(cp, stop)
    /\ \A p, seed : Linear!Origin(p, seed) = Origin(p, seed)
    /\ \A p : Linear!Generations(p) = Generations(p)
    /\ \A s : Linear!Last(s) = Last(s)
<1>1. \A history, best : Linear!BestBefore(history, best) = BestBefore(history, best)
  BY Zenon DEF Linear!BestBefore, BestBefore
<1>2. \A history : Linear!Staleness(history) = Staleness(history)
  BY Zenon DEF Linear!Staleness, Staleness, Linear!Last, Last
<1>3. \A history, n, best : Linear!RecordGeneration(history, n, best)
                              = RecordGeneration(history, n, best)
  BY <1>1, <1>2, Zenon DEF Linear!RecordGeneration, RecordGeneration
<1>4. \A history, n : Linear!IsStagnating(history, n) = IsStagnating(history, n)
  BY <1>2, Zenon DEF Linear!IsStagnating, IsStagnating
<1>5. \A cp, stop : Linear!After(cp, stop) = After(cp, stop)
  BY <1>3, <1>4, Zenon DEF Linear!After, After
<1>6. \A p, seed : Linear!Origin(p, seed) = Origin(p, seed)
  BY Zenon DEF Linear!Origin, Origin
<1>7. \A p : Linear!Generations(p) = Generations(p)
  BY Zenon DEF Linear!Generations, Generations
<1>8. \A s : Linear!Last(s) = Last(s)
  BY Zenon DEF Linear!Last, Last
<1>. QED
  BY <1>5, <1>6, <1>7, <1>8

\* There is one checkpoint at each place of the chain.
ChainInv ==
    /\ ChainOf \in Seq(Checkpoint)
    /\ Len(ChainOf) = Cardinality(checkpoints) /\ Cardinality(checkpoints) \in Nat
    /\ \A row \in checkpoints : /\ row.checkpoint.next \in 1 .. Len(ChainOf)
                                /\ ChainOf[row.checkpoint.next] = row.checkpoint
    /\ \A n \in 1 .. Len(ChainOf) : \E row \in checkpoints : row.checkpoint.next = n

LEMMA ChainFacts == RunInv => ChainInv
<1> SUFFICES ASSUME Types, CheckpointsInv
             PROVE  ChainInv
  BY DEF RunInv, LedgerInv
<1> DEFINE N == Cardinality(checkpoints)
<1>1. N \in Nat
  BY FS_CardinalityType DEF Types
<1>2. {row.checkpoint.next : row \in checkpoints} = 1 .. N
  BY DEF CheckpointsInv, CheckpointsPaired, CheckpointsVerify
<1>3. ASSUME NEW row \in checkpoints
      PROVE  CheckpointFor(row.checkpoint.next) = {row.checkpoint}
  BY DEF CheckpointFor, CheckpointsInv
<1>4. ASSUME NEW row \in checkpoints
      PROVE  (CHOOSE cp \in CheckpointFor(row.checkpoint.next) : TRUE) = row.checkpoint
  BY <1>3
<1>5. ASSUME NEW n \in 1 .. N
      PROVE  (CHOOSE cp \in CheckpointFor(n) : TRUE) \in Checkpoint
  <2>1. PICK row \in checkpoints : row.checkpoint.next = n
    BY <1>2
  <2>. QED
    BY <1>4, <2>1 DEF Types, CheckpointRow
<1> HIDE DEF N
<1>6. ChainOf = [n \in 1 .. N |-> CHOOSE cp \in CheckpointFor(n) : TRUE]
  BY DEF ChainOf, N
<1>7. ChainOf \in Seq(Checkpoint) /\ Len(ChainOf) = N /\ DOMAIN ChainOf = 1 .. N
  BY <1>1, <1>5, <1>6
<1>8. \A row \in checkpoints : row.checkpoint.next \in 1 .. N
  BY <1>2
<1>9. \A row \in checkpoints : ChainOf[row.checkpoint.next] = row.checkpoint
  BY <1>4, <1>6, <1>8
<1>10. \A n \in 1 .. N : \E row \in checkpoints : row.checkpoint.next = n
  BY <1>2
<1>. QED
  BY <1>1, <1>7, <1>8, <1>9, <1>10 DEF N, ChainInv

LEMMA NextChainFacts == RunInv' => ChainInv'
BY ChainFacts, PTL

LEMMA NextTypes ==
    ASSUME RunInv'
    PROVE  \A row \in checkpoints' : row.checkpoint \in Checkpoint
BY DEF RunInv, Types, CheckpointRow

LEMMA ChainGrows ==
    ASSUME RunInv, RunInv', NEW a \in Process, CheckpointAdded(a)
    PROVE  ChainOf' = Append(ChainOf, proc[a].made)
<1> DEFINE N == Len(ChainOf)
           made == proc[a].made
           chain == ChainOf
           grown == Append(chain, made)
<1>1. ChainInv /\ ChainInv'
  BY ChainFacts, NextChainFacts
<1>2. /\ made.next = N + 1 /\ N \in Nat
      /\ checkpoints' = checkpoints \union {CheckpointRowOf(a)}
  BY <1>1 DEF CheckpointAdded, ChainInv
<1>3. CheckpointRowOf(a).checkpoint = made
  BY DEF CheckpointRowOf
<1>4. /\ chain \in Seq(Checkpoint)
      /\ \A row \in checkpoints : chain[row.checkpoint.next] = row.checkpoint
      /\ \A n \in 1 .. N : \E row \in checkpoints : row.checkpoint.next = n
      /\ \A row \in checkpoints : row.checkpoint.next \in 1 .. N
  BY <1>1 DEF ChainInv
<1>5. /\ chain' \in Seq(Checkpoint)
      /\ \A row \in checkpoints' : chain'[row.checkpoint.next] = row.checkpoint
      /\ \A n \in 1 .. Len(chain') : \E row \in checkpoints' : row.checkpoint.next = n
      /\ \A row \in checkpoints' : row.checkpoint.next \in 1 .. Len(chain')
      /\ Len(chain') \in Nat
  BY <1>1 DEF ChainInv
<1> HIDE DEF chain, made
<1>6. N = Len(chain)
  BY DEF chain
<1> HIDE DEF N
<1>7. Len(chain') = N + 1
  <2>1. N + 1 \in 1 .. Len(chain')
    BY <1>2, <1>3, <1>5
  <2>2. Len(chain') \in 1 .. N + 1
    <3>1. Len(chain') >= 1
      BY <1>2, <2>1
    <3>2. PICK row \in checkpoints' : row.checkpoint.next = Len(chain')
      BY <1>5, <3>1
    <3>. QED
      BY <1>2, <1>3, <1>4, <3>2
  <2>. QED
    BY <1>2, <1>5, <2>1, <2>2
<1>8. /\ Len(grown) = N + 1 /\ DOMAIN grown = 1 .. N + 1
      /\ grown[N + 1] = made /\ \A n \in 1 .. N : grown[n] = chain[n]
      /\ grown = [n \in 1 .. N + 1 |-> grown[n]]
  <2>1. made \in Checkpoint
    BY <1>2, <1>3, NextTypes
  <2>2. grown \in Seq(Checkpoint) /\ Len(grown) = N + 1
    BY <1>2, <1>4, <1>6, <2>1
  <2>3. grown[N + 1] = made /\ \A n \in 1 .. N : grown[n] = chain[n]
    BY <1>2, <1>4, <1>6, <2>1
  <2> HIDE DEF grown
  <2>4. DOMAIN grown = 1 .. N + 1 /\ grown = [n \in 1 .. N + 1 |-> grown[n]]
    BY <2>2
  <2>. QED
    BY <2>2, <2>3, <2>4
<1>9. DOMAIN chain' = 1 .. N + 1 /\ chain' = [n \in 1 .. N + 1 |-> chain'[n]]
  BY <1>5, <1>7
<1>10. ASSUME NEW n \in 1 .. N + 1
       PROVE  chain'[n] = grown[n]
  <2>1. CASE n \in 1 .. N
    <3>1. PICK row \in checkpoints : row.checkpoint.next = n
      BY <1>4, <2>1
    <3>2. chain'[n] = row.checkpoint /\ chain[n] = row.checkpoint
      BY <1>2, <1>4, <1>5, <3>1
    <3>. QED
      BY <1>8, <2>1, <3>2
  <2>2. CASE n = N + 1
    <3>1. chain'[N + 1] = made
      BY <1>2, <1>3, <1>5
    <3>. QED
      BY <1>8, <2>2, <3>1
  <2>3. n \in 1 .. N \/ n = N + 1
    BY <1>2
  <2>. QED
    BY <2>1, <2>2, <2>3
<1> HIDE DEF grown
<1>11. chain' = grown
  BY <1>8, <1>9, <1>10
<1>. QED
  BY <1>11 DEF chain, grown, made

\* Only a writer with a store adds a checkpoint.
LEMMA WhoAddsCheckpoints ==
    ASSUME RunInv, [Next]_vars
    PROVE  \/ UNCHANGED checkpoints
           \/ \E a \in Runner : Write(a) /\ CheckpointAdded(a)
<1>1. ASSUME NEW a \in Process, Write(a)
      PROVE  \/ UNCHANGED checkpoints
             \/ \E r \in Runner : Write(r) /\ CheckpointAdded(r)
  <2>1. CASE Refuse(a, "conflict")
    BY <2>1 DEF Refuse, ledger
  <2>2. CASE ~Refuse(a, "conflict")
    BY <1>1, <2>2, WriteCases DEF CheckpointSaved, CheckpointAdded, WithStore
  <2>. QED
    BY <2>1, <2>2
<1>2. ASSUME NEW a \in Process, Step(a), ~Write(a)
      PROVE  UNCHANGED checkpoints
  BY <1>2 DEF Step, Verify, Read, CountAtHead, Evaluate, EvaluationFails, Reload, Refuse, ledger
<1>3. ASSUME NEW a \in Process, Crash(a)
      PROVE  UNCHANGED checkpoints
  BY <1>3 DEF Crash, ledger
<1>4. ASSUME NEW r \in Runner, RunResearch(r) \/ ResumeFromStore(r) \/ ResumeSupplied(r)
      PROVE  UNCHANGED checkpoints
  BY <1>4 DEF RunResearch, ResumeFromStore, ResumeSupplied, Start, ledger
<1>5. ASSUME NEW w \in Evolver, Evolve(w)
      PROVE  UNCHANGED checkpoints
  BY <1>5 DEF Evolve, Start, ledger
<1>6. CASE UNCHANGED vars
  BY <1>6 DEF vars, ledger
<1>. QED
  BY <1>1, <1>2, <1>3, <1>4, <1>5, <1>6 DEF Next

\* A step of the processes is a generation of the one run, or nothing to it.
LEMMA LinearStep ==
    ASSUME RunInv, RunInv', [Next]_vars
    PROVE  [Linear!Next]_ChainOf
<1>1. CASE UNCHANGED checkpoints
  <2>1. ChainOf' = ChainOf
    BY <1>1 DEF ChainOf, CheckpointFor
  <2>. QED
    BY <2>1
<1>2. ASSUME NEW a \in Runner, Write(a), CheckpointAdded(a)
      PROVE  Linear!Next
  <2> DEFINE at == proc[a].at
             made == proc[a].made
             stop == Job[a].stop
             N == Len(ChainOf)
  <2>1. a \in Process /\ stop \in Stop
    BY DEF Process, Stop
  <2>2. /\ at \in Checkpoint /\ at.next < Job[a].target /\ at.next \in Nat
        /\ made = After(at, stop) /\ made.next = at.next + 1 /\ Running(a)
    BY <1>2, <2>1, WriteFacts
  <2>3. ChainOf' = Append(ChainOf, After(at, stop))
    BY <1>2, <2>1, <2>2, ChainGrows
  <2>4. ChainInv /\ at.next = N /\ N \in Nat
    <3>1. ChainInv /\ made.next = Cardinality(checkpoints) + 1
      BY <1>2, ChainFacts DEF CheckpointAdded
    <3>. QED
      BY <2>2, <3>1 DEF ChainInv
  <2>5. RunnerInv(a)
    BY <2>1 DEF RunInv, ProcInv
  <2>6. CASE N = 0
    <3>1. ChainOf = <<>>
      BY <2>4, <2>6 DEF ChainInv
    <3>2. at = Origin(Job[a].population, Job[a].seed)
      BY <2>2, <2>4, <2>5, <2>6 DEF RunnerInv
    <3>3. Job[a].population \in Population /\ Job[a].seed \in Seed
      BY JobAssumption DEF Seed
    <3>4. ChainOf' = <<After(Origin(Job[a].population, Job[a].seed), stop)>>
      BY <2>3, <3>1, <3>2
    <3>. QED
      BY <2>1, <3>1, <3>3, <3>4, SameGeneration DEF Linear!Next, Linear!Begin
  <2>7. CASE N > 0
    <3>1. PICK row \in checkpoints : row.checkpoint = at
      BY <1>2, <2>4, <2>7 DEF CheckpointAdded, Durable
    <3>2. ChainOf[N] = at /\ ChainOf # <<>>
      BY <2>4, <2>7, <3>1 DEF ChainInv
    <3>3. Last(ChainOf) = at
      BY <3>2 DEF Last
    <3>4. ~at.stopped
      BY <2>2, <2>5 DEF RunnerInv
    <3>5. at.next \in Generations(at.population)
      <4>1. at.population \in Population /\ Job[a].target \in 1 .. Len(Fitness[at.population])
        BY <2>2, JobAssumption DEF Checkpoint
      <4>. QED
        BY <2>2, <4>1, FitnessAssumption DEF Generations
    <3>6. Linear!Last(ChainOf) = at
      BY <3>3, SameGeneration
    <3>7. Linear!Continue
      BY <2>1, <2>3, <3>2, <3>4, <3>5, <3>6, SameGeneration DEF Linear!Continue
    <3>. QED
      BY <3>7 DEF Linear!Next
  <2>. QED
    BY <2>4, <2>6, <2>7
<1>. QED
  BY <1>1, <1>2, WhoAddsCheckpoints

\* The durable checkpoints are those of ONE uninterrupted run, whoever ran its
\* generations and however often they crashed (research_runner.py).
THEOREM RunsImplementOneRun == Spec => OneUninterruptedRun
<1>1. Init => Linear!Init
  <2> SUFFICES ASSUME Init
               PROVE  ChainOf = <<>>
    BY DEF Linear!Init
  <2>1. RunInv /\ Cardinality(checkpoints) = 0
    BY InitSafe, FS_EmptySet DEF Init
  <2>2. ChainInv
    BY <2>1, ChainFacts
  <2>. QED
    BY <2>1, <2>2 DEF ChainInv
<1>2. RunInv /\ RunInv' /\ [Next]_vars => [Linear!Next]_ChainOf
  BY LinearStep
<1>. QED
  BY <1>1, <1>2, RunInvariant, PTL DEF Spec, OneUninterruptedRun, Linear!Spec
=============================================================================
