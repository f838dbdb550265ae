--------------------------- MODULE LinearResearch ---------------------------
(***************************************************************************)
(* What the research ledger promises: the durable checkpoints are those of *)
(* ONE uninterrupted run, whoever ran its generations and however often    *)
(* they crashed.  One population, one seed that grows by one with every    *)
(* generation, each state computed from the one before it, and nothing     *)
(* after a state that stopped.                                             *)
(***************************************************************************)
EXTENDS ResearchGenerations

CONSTANTS Seeds, Stops

VARIABLE chain

Init == chain = <<>>

Begin ==
    /\ chain = <<>>
    /\ \E p \in Population, seed \in Seeds, stop \in Stops :
          chain' = <<After(Origin(p, seed), stop)>>

Continue ==
    /\ chain # <<>>
    /\ ~Last(chain).stopped
    /\ Last(chain).next \in Generations(Last(chain).population)
    /\ \E stop \in Stops : chain' = Append(chain, After(Last(chain), stop))

Next == Begin \/ Continue

Spec == Init /\ [][Next]_chain
=============================================================================
