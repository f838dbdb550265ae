------------------------ MODULE ResearchRunnerProps -------------------------
(***************************************************************************)
(* What the research ledgers and the runs over them are correct for.       *)
(***************************************************************************)
EXTENDS ResearchRunner

IsRow(row) ==
    IF row.id[1] \in Evolver THEN row.plan = [seed |-> None, checkpoint_digest |-> None]
    ELSE row.plan.seed \in Nat /\ row.plan.checkpoint_digest \in Checkpoint

\* The variables hold rows, checkpoints and processes of the program's shape.
TypeOK ==
    /\ \A row \in cycles : row.generation \in Nat /\ IsRow(row)
    /\ \A i \in DOMAIN audit : IsRow(audit[i].digest)
    /\ \A row \in checkpoints : row.checkpoint \in Checkpoint
    /\ \A a \in Process :
          /\ proc[a].rows \in Nat /\ proc[a].found \in BOOLEAN
          /\ proc[a].made = None \/ proc[a].made \in Checkpoint
    /\ starts \in 0 .. Starts
    /\ alone \subseteq Process

\* The two ledgers never disagree: each durable checkpoint has the cycle that
\* made it, seed and generation continue those of the checkpoint before, and
\* no generation is missing, whoever crashed or raced in between
\* (persist_generation and _validate_pair of research_control_plane.py).
CheckpointsPaired ==
    /\ CheckpointsVerify
    /\ \A row \in checkpoints :
          \E cycle \in RowsOf(row.cycle_id) : PairIsValid(cycle, row.checkpoint)

\* Runners never fork the audit chain, although they read its end before they
\* hold the write lock: what chains to a stale digest was written by or next
\* to an evolver.  And no cycle is audited twice or goes unaudited
\* (save_cycle_in_transaction of research_cycle_registry.py).
ForksOnlyBesideEvolvers ==
    /\ {audit[i].digest : i \in DOMAIN audit} = cycles
    /\ Cardinality(cycles) = Len(audit)
    /\ \A i \in DOMAIN audit :
          \/ Chained(i) \/ audit[i].id[1] \in Evolver
          \/ i > 1 /\ audit[i - 1].id[1] \in Evolver

\* The state a runner carries on from is a durable one: an equal row that it
\* found in place of its own stands for the very same state (the returns of
\* save_cycle_in_transaction and save_in_transaction for an existing row).
MemoryIsDurable ==
    \A r \in Runner :
       /\ WithStore(r)
       /\ Running(r) \/ proc[r].pc = "done"
       /\ proc[r].at.next > 0
       => proc[r].at \in CheckpointFor(proc[r].at.next)

\* Crashes alone never make the evidence unusable: a run that nobody else
\* wrote beside, in a database no evolver uses, is not refused for the state
\* it finds there (the verifications of research_control_plane.py).
EvidenceFailsOnlyInCompany ==
    \A r \in alone :
       proc[r].pc = "refused" /\ proc[r].why = "evidence"
       => \E row \in cycles : row.id[1] \in Evolver

\* The checkpoints are those of one uninterrupted run (research_runner.py).
ChainOf == [n \in 1 .. Cardinality(checkpoints) |->
              CHOOSE cp \in CheckpointFor(n) : TRUE]

Linear == INSTANCE LinearResearch WITH chain <- ChainOf, Seeds <- Seed, Stops <- Stop

OneUninterruptedRun == Linear!Spec

\* No process waits for another for ever or loops: each one that is not
\* killed finishes its run or is refused.
RunsEnd == \A a \in Process : []<>~Running(a)
=============================================================================
