------------------------ MODULE ResearchGenerations -------------------------
(***************************************************************************)
(* One generation of research as a function of the state it starts from:   *)
(* research_cycle.py, research_history.py, research_checkpoint.py.         *)
(*                                                                         *)
(* Abstractions.  Evaluation, selection and evolution are deterministic    *)
(* given population and seed, so the population of a generation is named   *)
(* by the initial one it descends from, and all it shows of itself is its  *)
(* best fitness.  Provenance is one manifest per generation, bound to the  *)
(* history it parallels.  The digest of a state stands for the state.      *)
(***************************************************************************)
EXTENDS Naturals, Sequences, SequencesExt

CONSTANTS
    Population,  \* initial populations
    Fitness,     \* best fitness of their descendants, by generation
    NoStop       \* stop_on_stagnation is None

ASSUME FitnessAssumption == Fitness \in [Population -> Seq(Nat)]

Generations(p) == 0 .. Len(Fitness[p]) - 1

\* GenerationRecord, what later generations read of it.
Record == [generation: Nat, best: Nat, stale: Nat]

Checkpoint == [next: Nat, seed: Nat, population: Population,
               history: Seq(Record), stopped: BOOLEAN]

\* What a run that starts at generation 0 starts from.
Origin(p, seed) ==
    [next |-> 0, seed |-> seed, population |-> p,
     history |-> <<>>, stopped |-> FALSE]

BestBefore(history, best) == \E i \in DOMAIN history : history[i].best >= best

Staleness(history) == IF history = <<>> THEN 0 ELSE Last(history).stale

\* record_generation with a later generation; another one raises.
CanRecord(history, generation) ==
    history = <<>> \/ Last(history).generation < generation

RecordGeneration(history, generation, best) ==
    Append(history, [generation |-> generation, best |-> best,
                     stale |-> IF BestBefore(history, best)
                               THEN Staleness(history) + 1 ELSE 0])

IsStagnating(history, threshold) ==
    threshold # NoStop /\ Staleness(history) >= threshold

\* The checkpoint that follows a generation run from the state cp.
After(cp, stop) ==
    LET history == RecordGeneration(cp.history, cp.next,
                                    Fitness[cp.population][cp.next + 1])
    IN  [next |-> cp.next + 1, seed |-> cp.seed + 1,
         population |-> cp.population, history |-> history,
         stopped |-> IsStagnating(history, stop)]

\* ResearchCheckpoint.__post_init__, what it checks of a supplied state.
ValidCheckpoint(cp) ==
    cp.history # <<>> => cp.next = Last(cp.history).generation + 1
=============================================================================
