---------------------------- MODULE PortfolioRuns ----------------------------
(***************************************************************************)
(* The portfolio part of the experiment registry: portfolios are saved,    *)
(* executed in paper mode, replayed, and their runs certified              *)
(* (registry.py, portfolio_executor.py, portfolio_replay.py,               *)
(* reproducibility.py, provenance_graph.py, api.py).                       *)
(*                                                                         *)
(* One portfolio id.  Its members are the strategies of positive weight: a *)
(* member without weight can be saved, but no broker opens without cash.   *)
(* A bundle version stands for the market data it fingerprints, and the    *)
(* caller sends that data.  A digest is what it digests.  "evidence"       *)
(* stands for all the research a certificate attests and anybody may       *)
(* rewrite (experiments, evidence, lineage, feedback).  Each transaction   *)
(* is a step, and so is each group of SELECTs between two reads that       *)
(* another process can make disagree.                                      *)
(* Of an attribution only whether its numbers are finite is kept: the sums *)
(* of weighted percentage changes that are persisted are left out.         *)
(***************************************************************************)
EXTENDS PaperExecution

CONSTANTS
    Market,         \* the data of each bundle version
    Definition,     \* what a publisher may save
    Publisher, Executor, Certifier, Reviser,
    Scene,          \* how it may begin: [portfolio, crew], the crew being
                    \* the processes that run
    None

Members(weights) == {s \in Strategy : weights[s] # 0}

Process == Publisher \union Executor \union Certifier

\* A definition with its members, as save_portfolio validates them.
Portfolio ==
    {d \in [bundle : DOMAIN Market, weights : [Strategy -> 0..100]] :
        Members(d.weights) # {} /\ Total(d.weights) <= 100}

RunsAssumption ==
    /\ \A bundle \in DOMAIN Market : IsMarket(Market[bundle])
    /\ Definition \subseteq Portfolio
    /\ \A scene \in Scene : /\ scene.portfolio \in Portfolio \union {None}
                            /\ scene.crew \subseteq Process \union Reviser
ASSUME RunsAssumption

VARIABLES
    portfolio,      \* the definition and the members of the portfolio
    evidence,       \* the promotion of each strategy: eligible or not
    runs,           \* portfolio_runs, with its provenance and its events
    certificates,
    proc,           \* what each process holds in memory
    crew,           \* the processes of this behaviour
    overlapped      \* ghost: has a save or an execution written past another?

store == <<portfolio, evidence, runs, certificates>>
vars == <<store, proc, crew, overlapped>>

\* "alone": nobody else saved a portfolio or a run since the operation began.
Idle == [pc |-> "idle", definition |-> None, weights |-> None, run |-> None,
         research |-> None, certificate |-> None, alone |-> TRUE]

Init ==
    /\ \E scene \in Scene : portfolio = scene.portfolio /\ crew = scene.crew
    /\ evidence = [s \in Strategy |-> TRUE]
    /\ runs = {} /\ certificates = {}
    /\ proc = [p \in Process |-> Idle]
    /\ overlapped = FALSE

At(p, pc) == proc[p].pc = pc
Set(p, state) == proc' = [proc EXCEPT ![p] = state] /\ UNCHANGED <<store, crew, overlapped>>
Finish(p, pc) == Set(p, [Idle EXCEPT !.pc = pc])


\* The end of an operation of p that saved a portfolio or a run.
Saved(p) ==
    /\ proc' = [q \in Process |-> IF q = p \/ At(q, "idle") THEN Idle
                                  ELSE [proc[q] EXCEPT !.alone = FALSE]]
    /\ overlapped' = (overlapped \/ ~proc[p].alone)
    /\ UNCHANGED crew

Known(id) == \E r \in runs : r.id = id
CertificateOf(id) == {c \in certificates : c.run = id}

(***************************************************************************)
(* save_portfolio: the run of the portfolio is looked for in autocommit,   *)
(* the definition and its members are replaced in a transaction.           *)
(***************************************************************************)
\* A faulty save that does not look for runs.
PublishAnyway(p) ==
    /\ At(p, "idle")
    /\ \E d \in Definition :
           Set(p, [Idle EXCEPT !.pc = "write", !.definition = d])

Publish(p) ==
    /\ At(p, "idle") /\ runs = {}
    /\ \E d \in Definition :
           Set(p, [Idle EXCEPT !.pc = "write", !.definition = d])

Replace(p) ==
    /\ At(p, "write")
    /\ portfolio' = proc[p].definition
    /\ Saved(p)
    /\ UNCHANGED <<evidence, runs, certificates>>

\* save_evaluation_evidence and its kin: INSERT OR REPLACE.
Revise(s) ==
    /\ evidence' = [evidence EXCEPT ![s] = ~@]
    /\ UNCHANGED <<portfolio, runs, certificates, proc, crew, overlapped>>

(***************************************************************************)
(* execute_persisted_portfolio.                                            *)
(***************************************************************************)
\* build_portfolio_run_identity
RunId(weights, bundle) == [weights |-> weights, bundle |-> bundle]

\* The run, with its events and the reasons of its fills.
RowOf(weights, bundle, market, paper) ==
    [id |-> RunId(weights, bundle), bundle |-> bundle,
     equity |-> paper.equity, halted |-> paper.halted, fills |-> paper.fills,
     lineage |-> Lineage(paper.fills, market, paper.halted, paper.last)]

Row(weights, bundle) ==
    RowOf(weights, bundle, Market[bundle], PaperRun(weights, Market[bundle]))

\* get_portfolio is two SELECTs: the definition, with the bundle and the
\* experiments of its members, then the members with their weights.
ReadDefinition(e) ==
    /\ At(e, "idle") /\ portfolio # None
    /\ Set(e, [Idle EXCEPT !.pc = "members", !.definition = portfolio])

ReadMembers(e) ==
    /\ At(e, "members")
    /\ Set(e, [proc[e] EXCEPT !.pc = "run", !.weights = portfolio.weights])

\* A faulty executor that persists a ledger whatever its lineage.
PersistAnyway(row) == "validate"

\* build_fill_lineage raises before anything is persisted.
Persist(row) == IF Refused \in ToSet(row.lineage) THEN "refused" ELSE "validate"

\* An experiment and its evidence for every member, the run not yet there, the
\* run in memory.
Ran(e, row) == [Idle EXCEPT !.pc = Persist(row), !.run = row, !.alone = proc[e].alone]

Run(e) ==
    /\ At(e, "run")
    /\ LET weights == proc[e].weights
           bundle == proc[e].definition.bundle
       IN  IF \/ Members(weights) # Members(proc[e].definition.weights)
              \/ \E s \in Members(weights) : ~evidence[s]
              \/ Known(RunId(weights, bundle))
           THEN Finish(e, "idle")
           ELSE Set(e, Ran(e, Row(weights, bundle)))

\* _validate_portfolio_run_payload, in autocommit: the run, then the members,
\* which may be others by now; the risk contributions, taken from the covariance
\* of the returns, are no numbers when there is one bar only.
Validity(run) ==
    IF Known(run.id) THEN "idle"
    ELSE IF ~(Members(run.id.weights) \subseteq Members(portfolio.weights)) THEN "displaced"
    ELSE IF Bars(Market[run.bundle]) = 1 THEN "refused" ELSE "insert"

Validate(e) ==
    /\ At(e, "validate")
    /\ IF Validity(proc[e].run) = "idle" THEN Finish(e, "idle")
       ELSE Set(e, [proc[e] EXCEPT !.pc = Validity(proc[e].run)])

\* save_portfolio_execution: one transaction, under the primary key.
Insert(e) ==
    /\ At(e, "insert")
    /\ IF Known(proc[e].run.id)
       THEN Finish(e, "idle")
       ELSE /\ runs' = runs \union {proc[e].run}
            /\ Saved(e)
            /\ UNCHANGED <<portfolio, evidence, certificates>>

Acknowledge(p) ==
    (At(p, "refused") \/ At(p, "displaced") \/ At(p, "answered")) /\ Finish(p, "idle")

(***************************************************************************)
(* verify_persisted_portfolio_run with the data of the run.                *)
(***************************************************************************)
ReplayVerifies(run) ==
    /\ run.id = RunId(portfolio.weights, run.bundle)
    /\ run.bundle = portfolio.bundle
    /\ Reconciles(run.fills, portfolio.weights, run.equity)
    /\ run.lineage = Lineage(run.fills, Market[run.bundle], run.halted,
                             IF run.halted /\ run.fills # <<>> THEN Last(run.fills).at ELSE 0)

(***************************************************************************)
(* POST /runs/{id}/certificate: verify, read the research twice (for its   *)
(* own fingerprint and for the graph), save.                               *)
(***************************************************************************)
VerifyRun(c) ==
    /\ At(c, "idle")
    /\ \E run \in runs :
           /\ ReplayVerifies(run)
           /\ Set(c, [Idle EXCEPT !.pc = "research", !.run = run.id])

\* _research_provenance takes the evidence whatever it says.
Research(c) ==
    /\ At(c, "research")
    /\ Set(c, [proc[c] EXCEPT !.pc = "graph", !.research = <<portfolio, evidence>>])

\* build_reproducibility_certificate: the fingerprint of everything read.
CertificateFor(run, research, graph) == [run |-> run, research |-> research, graph |-> graph]

\* The graph refuses a member whose promotion is not eligible any more.
Graph(c) ==
    /\ At(c, "graph")
    /\ IF \A s \in Members(portfolio.weights) : evidence[s]
       THEN Set(c, [proc[c] EXCEPT !.pc = "save", !.certificate =
                       CertificateFor(proc[c].run, proc[c].research, <<portfolio, evidence>>)])
       ELSE Finish(c, "idle")

\* An answer is the certificate that was built.
Answered(c) == [proc[c] EXCEPT !.pc = "answered"]

\* A faulty save that takes any certificate of the run for its own.
SaveCertificateOnce(c) ==
    /\ At(c, "save")
    /\ Set(c, IF CertificateOf(proc[c].run) = {} THEN [proc[c] EXCEPT !.pc = "certify"]
              ELSE Answered(c))

\* save_reproducibility_certificate: the certificate there is looked for ...
SaveCertificate(c) ==
    /\ At(c, "save")
    /\ IF CertificateOf(proc[c].run) = {}
       THEN Set(c, [proc[c] EXCEPT !.pc = "certify"])
       ELSE IF proc[c].certificate \in certificates
            THEN Set(c, Answered(c)) ELSE Finish(c, "idle")

\* ... and one is inserted, under the unique run id.
InsertCertificate(c) ==
    /\ At(c, "certify")
    /\ IF CertificateOf(proc[c].run) = {}
       THEN /\ certificates' = certificates \union {proc[c].certificate}
            /\ proc' = [proc EXCEPT ![c] = Answered(c)]
            /\ UNCHANGED <<portfolio, evidence, runs, crew, overlapped>>
       ELSE Finish(c, "idle")

Next ==
    \/ \E p \in Publisher \intersect crew : Publish(p) \/ Replace(p)
    \/ \E r \in Reviser \intersect crew, s \in Strategy : Revise(s)
    \/ \E e \in Executor \intersect crew : \/ ReadDefinition(e) \/ ReadMembers(e)
                                           \/ Run(e) \/ Validate(e) \/ Insert(e)
                                           \/ Acknowledge(e)
    \/ \E c \in Certifier \intersect crew : \/ VerifyRun(c) \/ Research(c) \/ Graph(c)
                                            \/ SaveCertificate(c) \/ InsertCertificate(c) \/ Acknowledge(c)

Spec == Init /\ [][Next]_vars
-----------------------------------------------------------------------------
Step == {"idle", "write", "members", "run", "validate", "insert", "refused", "displaced",
         "research", "graph", "save", "certify", "answered"}

\* The types of what the registry keeps and the processes hold.
TypeOK ==
    /\ portfolio \in Portfolio \union {None}
    /\ crew \subseteq Process \union Reviser
    /\ evidence \in [Strategy -> BOOLEAN]
    /\ \A run \in runs : run.id = RunId(run.id.weights, run.bundle)
                        /\ Refused \notin ToSet(run.lineage)
    /\ \A c \in certificates : Known(c.run)
    /\ \A p \in Process : proc[p].pc \in Step
    /\ overlapped \in BOOLEAN

\* Costs and prices that whole units can follow: the commission leaves some of
\* a sale, one percent of the capital is a unit, and a sale is never rounded
\* down to nothing.
WholeMarkets ==
    /\ Commission < 100 /\ InitialCash >= 100
    /\ \A bundle \in DOMAIN Market, s \in Strategy : \A t \in 1..Bars(Market[bundle]) :
           (100 - Slippage) * Market[bundle].close[s][t] >= 100

\* What the executor persists the replay verification accepts, halted or not,
\* for as long as the portfolio is the one that was executed; and the portfolio
\* stays that one unless a save and an execution overlapped ("portfolio is
\* immutable after paper execution" is checked outside the transaction that
\* writes, and the definition and the members are read one after the other).
ExecutionReplays ==
    \A run \in runs :
        \/ portfolio.weights = run.id.weights /\ portfolio.bundle = run.bundle
        \/ ~overlapped
            => ReplayVerifies(run)

\* A certificate that was answered is the one persisted for its run: no other
\* is persisted, and none is answered that a later reader would not get.
AnswersAreStored ==
    /\ \A c \in Certifier : At(c, "answered") => proc[c].certificate \in certificates
    /\ \A a, b \in certificates : a.run = b.run => a = b

\* A run that was executed and is then refused, so that its fills are nowhere,
\* had sold on an exit signal before it was halted (the lineage lets a halted
\* run sell only at its halt) or had a single bar; if it was refused for its
\* members, somebody saved the portfolio while it ran.
RefusedOnlyForCause ==
    \A e \in Executor :
        LET run == proc[e].run
            market == Market[run.bundle]
        IN  /\ At(e, "refused") =>
                   \/ Bars(market) = 1
                   \/ /\ run.halted
                      /\ \E i \in 1..Len(run.fills) :
                             /\ run.fills[i].side = "sell" /\ run.fills[i].at < Last(run.fills).at
                             /\ market.exit[run.fills[i].strategy][run.fills[i].at]
            /\ At(e, "displaced") => ~proc[e].alone

\* The sleeves the contributions are computed from (_sleeve_returns) replay what
\* was executed whenever the run was not halted and every first-bar purchase
\* had an entry signal: together with the reserve they end with the equity
\* that is persisted.
SleevesReplayTheRun ==
    \A run \in runs :
        ~run.halted /\ "initial_allocation" \notin ToSet(run.lineage) =>
            LET sleeves == Attribution(run.id.weights, Market[run.bundle])
            IN  run.equity = Reserve(run.id.weights)
                           + Total([s \in Strategy |-> Last(sleeves[s])])
=============================================================================
