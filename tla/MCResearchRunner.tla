-------------------------- MODULE MCResearchRunner --------------------------
(***************************************************************************)
(* Research runs for TLC: two runners and an evolver.                      *)
(***************************************************************************)
EXTENDS ResearchRunnerProps, TLC

CONSTANTS r1, r2, r3, p1, p2

\* p1 does not improve after its first generation, p2 does.
MCFitness == (p1 :> <<1, 1, 0>>) @@ (p2 :> <<0, 1, 2>>)

\* Two runs of one population with a store, only one of which stops early,
\* and one of another population with a cycle registry alone.
MCJob == (r1 :> [population |-> p1, seed |-> 0, stop |-> 1, target |-> 3, store |-> TRUE])
      @@ (r2 :> [population |-> p1, seed |-> 0, stop |-> NoStop, target |-> 3, store |-> TRUE])
      @@ (r3 :> [population |-> p2, seed |-> 1, stop |-> NoStop, target |-> 2, store |-> FALSE])
=============================================================================
