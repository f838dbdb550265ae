------------------------- MODULE PortfolioLifecycle -------------------------
(***************************************************************************)
(* The append-only ledger of portfolio health decisions: assessments are   *)
(* appended by any process, read back by the API (portfolio_health.py,     *)
(* portfolio_lifecycle.py, portfolio_lifecycle_store.py, api.py).          *)
(*                                                                         *)
(* A fingerprint is the record itself and created_at is unique.  The       *)
(* SELECT of the latest record runs in autocommit before the INSERT takes  *)
(* the write lock.                                                         *)
(***************************************************************************)
EXTENDS Integers, Sequences, SequencesExt, FiniteSetsExt

CONSTANTS
    Writer, Reader,
    Assessed,       \* the health assessments a writer may be asked to persist
    Generation,     \* the generations it may give them
    MinReturn, MaxVolatility, MaxRisk,  \* the policy, in percent
    MaxRows,        \* bound of the model on the ledger
    None

LifecycleAssumption ==
    /\ Generation \subseteq Nat /\ MaxRows \in Nat
    /\ MinReturn \in Int /\ MaxVolatility \in Nat \ {0} /\ MaxRisk \in 1..100

VARIABLES
    ledger,     \* portfolio_lifecycle, in sequence order
    task        \* what each writer and reader holds in memory

vars == <<ledger, task>>

Process == Writer \union Reader
Idle == [pc |-> "idle", row |-> None, length |-> 0]

(***************************************************************************)
(* assess_portfolio_health.  An attribution is the return, the volatility  *)
(* and the risk contribution of each strategy.                             *)
(***************************************************************************)
Magnitude(n) == IF n < 0 THEN -n ELSE n

TotalRisk(risk) == FoldFunction(LAMBDA r, sum : Magnitude(r) + sum, 0, risk)

\* A strategy whose share of the risk exceeds the limit (no share is taken of
\* no risk).
Concentrated(risk, s) == 100 * Magnitude(risk[s]) > MaxRisk * TotalRisk(risk)

Breached(a) ==
    {limit \in {"total_return", "volatility", "concentration"} :
        CASE limit = "total_return" -> a.return < MinReturn
          [] limit = "volatility" -> a.volatility > MaxVolatility
          [] limit = "concentration" -> \E s \in DOMAIN a.risk : Concentrated(a.risk, s)}

Decision(breached) ==
    CASE breached = {} -> "CONTINUE_PORTFOLIO"
      [] "concentration" \in breached -> "REBALANCE_OR_RESEARCH_REPLACEMENT"
      [] OTHER -> "RESEARCH_REPLACEMENT"

\* new_record: the members and weights of the portfolio with its assessment.
NewRecord(portfolio, generation, a) ==
    [portfolio |-> portfolio, generation |-> generation,
     status |-> IF Breached(a) = {} THEN "HEALTHY" ELSE "REVIEW_REQUIRED",
     decision |-> Decision(Breached(a)),
     breached |-> Breached(a),
     replace |-> {s \in DOMAIN a.risk : Concentrated(a.risk, s)}]

(***************************************************************************)
(* The store.                                                              *)
(***************************************************************************)
Rows(portfolio) == {i \in DOMAIN ledger : ledger[i].record.portfolio = portfolio}

\* A faulty read that takes the row written last.
LatestWritten(portfolio) ==
    IF Rows(portfolio) = {} THEN None ELSE ledger[Max(Rows(portfolio))].record

\* ORDER BY generation DESC, sequence DESC
Before(i, j) ==
    \/ ledger[i].record.generation > ledger[j].record.generation
    \/ ledger[i].record.generation = ledger[j].record.generation /\ i >= j

\* latest: the first row in that order
Latest(portfolio) ==
    IF Rows(portfolio) = {} THEN None
    ELSE ledger[CHOOSE i \in Rows(portfolio) : \A j \in Rows(portfolio) : Before(i, j)].record

\* verify: in sequence order the generations of a portfolio increase.
LedgerVerifies(portfolio) ==
    \A i, j \in Rows(portfolio) :
        i < j => ledger[i].record.generation < ledger[j].record.generation

Init == ledger = <<>> /\ task = [p \in Process |-> Idle]

Set(p, state) == task' = [task EXCEPT ![p] = state] /\ UNCHANGED ledger

\* persist_portfolio_health, as far as the comparison with the latest record.
\* "read" is a ghost: how long the ledger was at that read.
Compare(w) ==
    /\ task[w].pc = "idle" /\ Len(ledger) < MaxRows
    /\ \E portfolio \in DOMAIN Assessed, generation \in Generation :
       \E a \in Assessed[portfolio] :
           /\ Rows(portfolio) # {} => Latest(portfolio).generation < generation
           /\ Set(w, [pc |-> "insert", length |-> 0,
                      row |-> [record |-> NewRecord(portfolio, generation, a),
                               read |-> Len(ledger)]])

Insert(w) ==
    /\ task[w].pc = "insert" /\ Len(ledger) < MaxRows
    /\ ledger' = Append(ledger, task[w].row)
    /\ task' = [task EXCEPT ![w] = Idle]

\* The process of a writer or a reader ends.
Crash(p) == task[p].pc # "idle" /\ Set(p, Idle)

\* GET /portfolios/{id}/lifecycle: verify, then the latest record.
Verify(r) ==
    /\ task[r].pc = "idle"
    /\ \E portfolio \in DOMAIN Assessed :
           /\ Rows(portfolio) # {} /\ LedgerVerifies(portfolio)
           /\ Set(r, [pc |-> "show", row |-> portfolio, length |-> Len(ledger)])

Show(r) ==
    /\ task[r].pc = "show"
    /\ Set(r, [pc |-> "shown", row |-> Latest(task[r].row), length |-> task[r].length])

Next ==
    \/ \E w \in Writer : Compare(w) \/ Insert(w)
    \/ \E r \in Reader : Verify(r) \/ Show(r)
    \/ \E p \in Process : Crash(p)

Spec == Init /\ [][Next]_vars
-----------------------------------------------------------------------------
TypeOK ==
    /\ \A i \in DOMAIN ledger : /\ ledger[i].read \in 0..i - 1
                                /\ ledger[i].record.generation \in Generation
                                /\ ledger[i].record.portfolio \in DOMAIN Assessed
    /\ \A p \in Process : task[p].pc \in {"idle", "insert", "show", "shown"}

\* A record that does not increase the generation was written behind the back
\* of its writer: the row it repeats or falls behind was inserted after that
\* writer had read the latest record.  Writers that take turns never disorder
\* the ledger, even one that is disordered already.
DisorderOnlyByRace ==
    \A i, j \in DOMAIN ledger :
        /\ i < j /\ ledger[i].record.portfolio = ledger[j].record.portfolio
        /\ ledger[j].record.generation <= ledger[i].record.generation
        => ledger[j].read < i

\* A decision shown after the ledger verified is at least as new as every
\* decision recorded before that verification, whatever was written between
\* the verification and the read; and it asks to rebalance exactly when it
\* names the strategies to replace.
ShownIsNewest ==
    \A r \in Reader : task[r].pc = "shown" =>
        /\ \A i \in 1..task[r].length :
               ledger[i].record.portfolio = task[r].row.portfolio
                   => ledger[i].record.generation <= task[r].row.generation
        /\ (task[r].row.decision = "REBALANCE_OR_RESEARCH_REPLACEMENT")
               <=> (task[r].row.replace # {})
=============================================================================
