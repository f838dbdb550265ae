------------------------- MODULE TradingFactoryProofs -------------------------
(***************************************************************************)
(* The theorems about single stages hold in the factory composed of them:  *)
(* a step of the factory is a step of the stage or leaves it alone.        *)
(*                                                                         *)
(* Instances of one module have definitions of their own; the first steps  *)
(* identify those of the factory with those the theorems are about.        *)
(***************************************************************************)
EXTENDS TradingFactory, PaperExecutionProofs, FiniteSetTheorems, TLAPS

DataProofs == INSTANCE MarketDataCacheProofs WITH left <- loads
LifecycleProofs == INSTANCE PortfolioLifecycleProofs

LEMMA FactoryRunsCache == FactorySpec => DataProofs!Spec
<1>1. Data!Init <=> DataProofs!Init
  BY DEF Data!Init, DataProofs!Init, Data!Kind, DataProofs!Kind, Data!Idle,
         DataProofs!Idle, Data!Loading, DataProofs!Loading
<1>2. Data!Next <=> DataProofs!Next
  BY DEF Data!Next, DataProofs!Next, Data!Exists, DataProofs!Exists,
         Data!ReadManifest, DataProofs!ReadManifest, Data!ReadData,
         DataProofs!ReadData, Data!Provide, DataProofs!Provide, Data!Put,
         DataProofs!Put, Data!Open, DataProofs!Open, Data!Close,
         DataProofs!Close, Data!Rename, DataProofs!Rename, Data!Lookup,
         DataProofs!Lookup, Data!Insert, DataProofs!Insert, Data!Crash,
         DataProofs!Crash, Data!Disk, DataProofs!Disk, Data!Seen,
         DataProofs!Seen, Data!Idle, DataProofs!Idle, Data!Loading,
         DataProofs!Loading, Data!Move, DataProofs!Move, Data!Set,
         DataProofs!Set, Data!At, DataProofs!At, Data!Free, DataProofs!Free,
         Data!Hit, DataProofs!Hit, Data!Kind, DataProofs!Kind
<1>3. FactoryInit => DataProofs!Init
  BY <1>1 DEF FactoryInit
<1>4. [FactoryNext]_allVars => [DataProofs!Next]_(DataProofs!vars)
  BY <1>2 DEF FactoryNext, allVars, dataVars, DataProofs!vars
<1> QED BY <1>3, <1>4, PTL DEF FactorySpec, DataProofs!Spec

LEMMA FactoryRunsLifecycle == FactorySpec => LifecycleProofs!Spec
<1>1. Lifecycle!Init <=> LifecycleProofs!Init
  BY DEF Lifecycle!Init, LifecycleProofs!Init, Lifecycle!Process,
         LifecycleProofs!Process, Lifecycle!Idle, LifecycleProofs!Idle
<1>2. Lifecycle!Next <=> LifecycleProofs!Next
  <2>1. ASSUME NEW risk PROVE Lifecycle!TotalRisk(risk) = LifecycleProofs!TotalRisk(risk)
    BY Zenon
       DEF Lifecycle!TotalRisk, LifecycleProofs!TotalRisk,
           Lifecycle!Magnitude, LifecycleProofs!Magnitude,
           Lifecycle!FoldFunction, LifecycleProofs!FoldFunction,
           Lifecycle!FoldFunctionOnSet, LifecycleProofs!FoldFunctionOnSet,
           Lifecycle!MapThenFoldSet, LifecycleProofs!MapThenFoldSet
  <2>2. ASSUME NEW p, NEW g, NEW a
        PROVE  Lifecycle!NewRecord(p, g, a) = LifecycleProofs!NewRecord(p, g, a)
    <3>1. \A s : Lifecycle!Concentrated(a.risk, s) <=> LifecycleProofs!Concentrated(a.risk, s)
      BY <2>1 DEF Lifecycle!Concentrated, LifecycleProofs!Concentrated,
                  Lifecycle!Magnitude, LifecycleProofs!Magnitude
    <3>2. Lifecycle!Breached(a) = LifecycleProofs!Breached(a)
      BY <3>1 DEF Lifecycle!Breached, LifecycleProofs!Breached
    <3> QED BY <3>1, <3>2 DEF Lifecycle!NewRecord,
                                LifecycleProofs!NewRecord, Lifecycle!Decision,
                                LifecycleProofs!Decision
  <2>3. ASSUME NEW p PROVE Lifecycle!Latest(p) = LifecycleProofs!Latest(p)
    BY Zenon DEF Lifecycle!Latest, LifecycleProofs!Latest, Lifecycle!Rows,
                 LifecycleProofs!Rows, Lifecycle!Before,
                 LifecycleProofs!Before
  <2>4. ASSUME NEW w PROVE Lifecycle!Compare(w) <=> LifecycleProofs!Compare(w)
    BY <2>2, <2>3 DEF Lifecycle!Compare, LifecycleProofs!Compare,
                      Lifecycle!Set, LifecycleProofs!Set, Lifecycle!Rows,
                      LifecycleProofs!Rows
  <2> QED BY <2>3, <2>4
         DEF Lifecycle!Next, LifecycleProofs!Next, Lifecycle!Insert,
             LifecycleProofs!Insert, Lifecycle!Crash, LifecycleProofs!Crash,
             Lifecycle!Verify, LifecycleProofs!Verify, Lifecycle!Show,
             LifecycleProofs!Show, Lifecycle!Set, LifecycleProofs!Set,
             Lifecycle!Idle, LifecycleProofs!Idle, Lifecycle!Process,
             LifecycleProofs!Process, Lifecycle!Rows, LifecycleProofs!Rows,
             Lifecycle!LedgerVerifies, LifecycleProofs!LedgerVerifies
<1>3. FactoryInit => LifecycleProofs!Init
  BY <1>1 DEF FactoryInit
<1>4. [FactoryNext]_allVars => [LifecycleProofs!Next]_(LifecycleProofs!vars)
  BY <1>2 DEF FactoryNext, allVars, lifecycleVars, LifecycleProofs!vars
<1> QED BY <1>3, <1>4, PTL DEF FactorySpec, LifecycleProofs!Spec

\* Every frame that a load returns and every version that is registered was
\* given by the provider, for any number of processes that put and get one
\* key, tear each other's files and crash anywhere.
THEOREM FactoryLoadsProvided ==
    ASSUME Data!CacheAssumption
    PROVE  FactorySpec => []LoadsAreProvided
<1>1. DataProofs!CacheAssumption
  BY DEF Data!CacheAssumption, DataProofs!CacheAssumption, Data!Cardinality,
         DataProofs!Cardinality, Data!IsFiniteSet, DataProofs!IsFiniteSet
<1>2. DataProofs!Spec => []DataProofs!LoadsAreProvided
  BY <1>1, DataProofs!LoadsAlwaysProvided
<1>3. DataProofs!LoadsAreProvided <=> LoadsAreProvided
  BY DEF LoadsAreProvided, Data!LoadsAreProvided, DataProofs!LoadsAreProvided
<1> QED BY <1>2, <1>3, FactoryRunsCache, PTL

\* A decision that does not increase the generation of its portfolio was
\* written by a writer that had read the ledger before the row it falls behind
\* was there, for any number of writers and rows.
THEOREM FactoryOnlyRacesDisorder ==
    ASSUME Lifecycle!LifecycleAssumption
    PROVE  FactorySpec => []DisorderOnlyByRace
<1>1. LifecycleProofs!LifecycleAssumption
  BY DEF Lifecycle!LifecycleAssumption, LifecycleProofs!LifecycleAssumption
<1>2. LifecycleProofs!Spec => []LifecycleProofs!DisorderOnlyByRace
  BY <1>1, LifecycleProofs!OnlyRacesDisorder
<1>3. LifecycleProofs!DisorderOnlyByRace <=> DisorderOnlyByRace
  BY DEF DisorderOnlyByRace, Lifecycle!DisorderOnlyByRace, LifecycleProofs!DisorderOnlyByRace
<1> QED BY <1>2, <1>3, FactoryRunsLifecycle, PTL

\* A decision that the API shows after the ledger verified is at least as new
\* as all recorded before the verification, for any number of readers, and
\* asks to rebalance exactly when it names strategies to replace.
THEOREM FactoryReadersSeeNewest ==
    ASSUME Lifecycle!LifecycleAssumption
    PROVE  FactorySpec => []ShownIsNewest
<1>1. LifecycleProofs!LifecycleAssumption
  BY DEF Lifecycle!LifecycleAssumption, LifecycleProofs!LifecycleAssumption
<1>2. LifecycleProofs!Spec => []LifecycleProofs!ShownIsNewest
  BY <1>1, LifecycleProofs!ReadersSeeNewest
<1>3. LifecycleProofs!ShownIsNewest <=> ShownIsNewest
  BY DEF ShownIsNewest, Lifecycle!ShownIsNewest, LifecycleProofs!ShownIsNewest
<1> QED BY <1>2, <1>3, FactoryRunsLifecycle, PTL
-----------------------------------------------------------------------------
(* Certificates *)

\* r has the fields that a run and its certificate go through.
IsProc(r) == {"pc", "definition", "weights", "run", "certificate"} \subseteq DOMAIN r

\* A process that holds a certificate made it of its run; one that answered
\* finds it in the registry.
Certifies(r, stored) ==
    /\ r.pc \in {"save", "certify"} => r.certificate.run = r.run
    /\ r.pc = "answered" => r.certificate \in stored

CertificateInv ==
    /\ DOMAIN proc = Process
    /\ \A p \in Process : IsProc(proc[p]) /\ Certifies(proc[p], certificates)
    /\ \A a, b \in certificates : a.run = b.run => a = b

LEMMA IdleProc == \A stored : IsProc(Idle) /\ Certifies(Idle, stored)
BY DEF IsProc, Certifies, Idle

\* Any step that gives one process a new state and leaves the certificates alone.
LEMMA SetKeeps ==
    ASSUME CertificateInv, NEW p \in Process, NEW r, IsProc(r), Certifies(r, certificates),
           proc' = [proc EXCEPT ![p] = r], certificates' = certificates
    PROVE  CertificateInv'
BY DEF CertificateInv

LEMMA FinishKeeps ==
    ASSUME CertificateInv, NEW p \in Process, Finish(p, "idle")
    PROVE  CertificateInv'
<1>1. /\ IsProc([Idle EXCEPT !.pc = "idle"])
      /\ Certifies([Idle EXCEPT !.pc = "idle"], certificates)
  BY DEF IsProc, Certifies, Idle
<1>. QED
  BY <1>1, SetKeeps DEF Finish, Set, store

LEMMA SavedKeeps ==
    ASSUME CertificateInv, NEW p \in Process, Saved(p), certificates' = certificates
    PROVE  CertificateInv'
<1>1. ASSUME NEW r, IsProc(r), Certifies(r, certificates)
      PROVE  /\ IsProc([r EXCEPT !.alone = FALSE])
             /\ Certifies([r EXCEPT !.alone = FALSE], certificates)
  BY <1>1 DEF IsProc, Certifies
<1>. QED
  BY <1>1, IdleProc DEF CertificateInv, Saved

LEMMA PublisherKeeps ==
    ASSUME CertificateInv, NEW p \in Process, Publish(p) \/ Replace(p)
    PROVE  CertificateInv'
<1>1. CASE Publish(p)
  <2>. DEFINE r(d) == [Idle EXCEPT !.pc = "write", !.definition = d]
  <2>1. ASSUME NEW d
        PROVE  IsProc(r(d)) /\ Certifies(r(d), certificates)
    BY DEF IsProc, Certifies, Idle
  <2>2. \E d \in Definition : Set(p, r(d))
    BY <1>1, Zenon DEF Publish
  <2>. HIDE DEF r
  <2>. QED
    BY <2>1, <2>2, SetKeeps DEF Set, store
<1>2. CASE Replace(p)
  BY <1>2, SavedKeeps DEF Replace
<1>. QED
  BY <1>1, <1>2

LEMMA ExecutorKeeps ==
    ASSUME CertificateInv, NEW e \in Process,
           ReadDefinition(e) \/ ReadMembers(e) \/ Run(e) \/ Validate(e) \/ Insert(e)
    PROVE  CertificateInv'
<1>0. IsProc(proc[e])
  BY DEF CertificateInv
<1>1. CASE ReadDefinition(e)
  <2>. DEFINE r == [Idle EXCEPT !.pc = "members", !.definition = portfolio]
  <2>1. IsProc(r) /\ Certifies(r, certificates)
    BY DEF IsProc, Certifies, Idle
  <2>2. Set(e, r)
    BY <1>1 DEF ReadDefinition
  <2>. HIDE DEF r
  <2>. QED
    BY <2>1, <2>2, SetKeeps DEF Set, store
<1>2. CASE ReadMembers(e)
  <2>. DEFINE r == [proc[e] EXCEPT !.pc = "run", !.weights = portfolio.weights]
  <2>1. IsProc(r) /\ Certifies(r, certificates)
    BY <1>0 DEF IsProc, Certifies
  <2>2. Set(e, r)
    BY <1>2 DEF ReadMembers
  <2>. HIDE DEF r
  <2>. QED
    BY <2>1, <2>2, SetKeeps DEF Set, store
<1>3. CASE Run(e)
  <2>. DEFINE row == Row(proc[e].weights, proc[e].definition.bundle)
  <2>1. CASE Set(e, Ran(e, row))
    <3>1. Persist(row) \notin {"save", "certify", "answered"}
      BY DEF Persist
    <3>2. IsProc(Ran(e, row)) /\ Certifies(Ran(e, row), certificates)
      BY <3>1 DEF Ran, IsProc, Certifies, Idle
    <3>. DEFINE r == Ran(e, row)
    <3>3. IsProc(r) /\ Certifies(r, certificates) /\ Set(e, r)
      BY <2>1, <3>2
    <3>. HIDE DEF r
    <3>. QED
      BY <3>3, SetKeeps DEF Set, store
  <2>2. CASE Finish(e, "idle")
    BY <2>2, FinishKeeps
  <2>. QED
    BY <1>3, <2>1, <2>2 DEF Run
<1>4. CASE Validate(e)
  <2>. DEFINE r == [proc[e] EXCEPT !.pc = Validity(proc[e].run)]
  <2>1. CASE Set(e, r)
    <3>1. Validity(proc[e].run) \notin {"save", "certify", "answered"}
      BY DEF Validity
    <3>2. IsProc(r) /\ Certifies(r, certificates)
      BY <1>0, <3>1 DEF IsProc, Certifies
    <3>. HIDE DEF r
    <3>. QED
      BY <2>1, <3>2, SetKeeps DEF Set, store
  <2>. QED
    BY <1>4, <2>1, FinishKeeps DEF Validate
<1>5. CASE Insert(e)
  BY <1>5, FinishKeeps, SavedKeeps DEF Insert
<1>. QED
  BY <1>1, <1>2, <1>3, <1>4, <1>5

LEMMA CertifierKeeps ==
    ASSUME CertificateInv, NEW c \in Process,
           \/ VerifyRun(c) \/ Research(c) \/ Graph(c)
           \/ SaveCertificate(c) \/ InsertCertificate(c)
    PROVE  CertificateInv'
<1>0. IsProc(proc[c]) /\ Certifies(proc[c], certificates)
  BY DEF CertificateInv
<1>1. CASE VerifyRun(c)
  <2>. DEFINE r(id) == [Idle EXCEPT !.pc = "research", !.run = id]
  <2>1. ASSUME NEW id
        PROVE  IsProc(r(id)) /\ Certifies(r(id), certificates)
    BY DEF IsProc, Certifies, Idle
  <2>2. \E run \in runs : Set(c, r(run.id))
    BY <1>1, Zenon DEF VerifyRun
  <2>. HIDE DEF r
  <2>. QED
    BY <2>1, <2>2, SetKeeps DEF Set, store
<1>2. CASE Research(c)
  <2>. DEFINE r == [proc[c] EXCEPT !.pc = "graph", !.research = <<portfolio, evidence>>]
  <2>1. IsProc(r) /\ Certifies(r, certificates)
    BY <1>0 DEF IsProc, Certifies
  <2>2. Set(c, r)
    BY <1>2 DEF Research
  <2>. HIDE DEF r
  <2>. QED
    BY <2>1, <2>2, SetKeeps DEF Set, store
<1>3. CASE Graph(c)
  <2>. DEFINE made == CertificateFor(proc[c].run, proc[c].research, <<portfolio, evidence>>)
              next == [proc[c] EXCEPT !.pc = "save", !.certificate = made]
  <2>1. CASE Set(c, next)
    <3>1. made.run = proc[c].run
      BY DEF CertificateFor
    <3>. HIDE DEF made
    <3>2. IsProc(next) /\ Certifies(next, certificates)
      BY <1>0, <3>1 DEF IsProc, Certifies
    <3>. HIDE DEF next
    <3>. QED
      BY <2>1, <3>2, SetKeeps DEF Set, store
  <2>. QED
    BY <1>3, <2>1, FinishKeeps DEF Graph
<1>4. CASE SaveCertificate(c)
  <2>1. CASE CertificateOf(proc[c].run) = {}
    <3>1. /\ IsProc([proc[c] EXCEPT !.pc = "certify"])
          /\ Certifies([proc[c] EXCEPT !.pc = "certify"], certificates)
      BY <1>0, <1>4 DEF IsProc, Certifies, SaveCertificate, At
    <3>. QED
      BY <1>4, <2>1, <3>1, SetKeeps DEF SaveCertificate, Set, store
  <2>2. CASE CertificateOf(proc[c].run) # {} /\ proc[c].certificate \in certificates
    <3>1. IsProc(Answered(c)) /\ Certifies(Answered(c), certificates)
      BY <1>0, <2>2 DEF IsProc, Certifies, Answered
    <3>. QED
      BY <1>4, <2>2, <3>1, SetKeeps DEF SaveCertificate, Set, store
  <2>. QED
    BY <1>4, <2>1, <2>2, FinishKeeps DEF SaveCertificate
<1>5. CASE InsertCertificate(c)
  <2>1. CASE CertificateOf(proc[c].run) = {}
    <3>1. /\ certificates' = certificates \union {proc[c].certificate}
          /\ proc' = [proc EXCEPT ![c] = Answered(c)]
      BY <1>5, <2>1 DEF InsertCertificate
    <3>2. IsProc(Answered(c)) /\ Certifies(Answered(c), certificates')
      BY <1>0, <3>1 DEF IsProc, Certifies, Answered
    <3>3. proc[c].certificate.run = proc[c].run
      BY <1>0, <1>5 DEF InsertCertificate, At, Certifies
    <3>4. \A a \in certificates : a.run # proc[c].run
      BY <2>1 DEF CertificateOf
    <3>5. \A p \in Process : Certifies(proc[p], certificates')
      BY <3>1 DEF CertificateInv, Certifies
    <3>. QED
      BY <3>1, <3>2, <3>3, <3>4, <3>5 DEF CertificateInv
  <2>. QED
    BY <1>5, <2>1, FinishKeeps DEF InsertCertificate
<1>. QED
  BY <1>1, <1>2, <1>3, <1>4, <1>5

\* A certificate that was answered is the one the registry has for its run,
\* for any number of certifiers that race to save theirs and of processes that
\* rewrite what they read (code: save_reproducibility_certificate compares
\* with what is there, and the run id is unique in the table).
THEOREM FactoryAnswersAreStored == FactorySpec => []AnswersAreStored
<1>1. FactoryInit => CertificateInv
  BY IdleProc DEF FactoryInit, Init, CertificateInv
<1>2. CertificateInv /\ [FactoryNext]_allVars => CertificateInv'
  <2>. SUFFICES ASSUME CertificateInv, [FactoryNext]_allVars
                PROVE  CertificateInv'
    OBVIOUS
  <2>1. CASE UNCHANGED vars
    BY <2>1 DEF CertificateInv, vars, store
  <2>2. ASSUME NEW p \in Process, Acknowledge(p)
        PROVE  CertificateInv'
    BY <2>2, FinishKeeps DEF Acknowledge
  <2>3. ASSUME NEW s \in Strategy, Revise(s)
        PROVE  CertificateInv'
    BY <2>3 DEF Revise, CertificateInv
  <2>4. CASE Next
    BY <2>2, <2>3, <2>4, PublisherKeeps, ExecutorKeeps, CertifierKeeps DEF Next, Process
  <2>. QED
    BY <2>1, <2>4 DEF FactoryNext, allVars
<1>3. CertificateInv => AnswersAreStored
  BY DEF CertificateInv, AnswersAreStored, Certifies, At, Process
<1>. QED
  BY <1>1, <1>2, <1>3, PTL DEF FactorySpec
-----------------------------------------------------------------------------
(* Paper runs *)

\* The run is the one the executor computes for some weights and some market.
IsRow(run) ==
    \E weights \in Weights, bundle \in DOMAIN Market :
        Members(weights) # {} /\ run = Row(weights, bundle)

IsFunded(weights) == weights \in Weights /\ Members(weights) # {}

HasRefusal(run) == Refused \in ToSet(run.lineage)

\* What a process holds between two of its steps.
Carries(r, saved, rows) ==
    /\ r.pc \in Step
    /\ r.pc = "write" => r.definition \in Portfolio
    /\ r.pc = "members" => r.definition.bundle \in DOMAIN Market /\ saved \in Portfolio
    /\ r.pc = "run" => r.definition.bundle \in DOMAIN Market /\ IsFunded(r.weights)
    /\ r.pc \in {"validate", "insert"} => IsRow(r.run) /\ ~ HasRefusal(r.run)
    /\ r.pc = "refused" =>
           IsRow(r.run) /\ (HasRefusal(r.run) \/ Bars(Market[r.run.bundle]) = 1)
    /\ r.pc \in {"research", "graph", "save", "certify"} => \E run \in rows : run.id = r.run

PaperInv ==
    /\ portfolio \in Portfolio \union {None}
    /\ crew \subseteq Process \union Reviser
    /\ evidence \in [Strategy -> BOOLEAN]
    /\ overlapped \in BOOLEAN
    /\ \A p \in Process : Carries(proc[p], portfolio, runs)
    /\ \A run \in runs : IsRow(run) /\ ~ HasRefusal(run)
    /\ \A c \in certificates : Known(c.run)

LEMMA PortfolioTyped ==
    ASSUME NEW d \in Portfolio
    PROVE  d.bundle \in DOMAIN Market /\ IsFunded(d.weights)
BY Zenon DEF Portfolio, Weights, IsFunded

LEMMA IdleCarries == \A saved, rows : Carries(Idle, saved, rows)
BY DEF Carries, Idle, Step

\* Any step that gives one process a new state and leaves the registry alone.
LEMMA SetCarries ==
    ASSUME PaperInv, CertificateInv, NEW p \in Process, NEW r,
           Carries(r, portfolio, runs), Set(p, r)
    PROVE  PaperInv'
<1>1. /\ proc' = [proc EXCEPT ![p] = r] /\ portfolio' = portfolio /\ runs' = runs
      /\ crew' = crew /\ evidence' = evidence /\ certificates' = certificates
      /\ overlapped' = overlapped
  BY DEF Set, store
<1>2. \A q \in Process : Carries(proc'[q], portfolio, runs)
  BY <1>1 DEF PaperInv, CertificateInv
<1>. QED
  BY <1>1, <1>2 DEF PaperInv, Known

LEMMA FinishCarries ==
    ASSUME PaperInv, CertificateInv, NEW p \in Process, Finish(p, "idle")
    PROVE  PaperInv'
<1>. DEFINE r == [Idle EXCEPT !.pc = "idle"]
<1>1. Carries(r, portfolio, runs) /\ Set(p, r)
  BY DEF Carries, Idle, Step, Finish
<1>. HIDE DEF r
<1>. QED
  BY <1>1, SetCarries

\* The others go on with what they hold when somebody saves.
LEMMA SavedCarries ==
    ASSUME PaperInv, CertificateInv, NEW p \in Process, Saved(p), NEW saved, NEW rows,
           runs \subseteq rows, portfolio \in Portfolio => saved \in Portfolio
    PROVE  \A q \in Process : Carries(proc'[q], saved, rows)
<1>1. ASSUME NEW q \in Process
      PROVE  Carries([proc[q] EXCEPT !.alone = FALSE], saved, rows)
  <2>1. IsProc(proc[q]) /\ Carries(proc[q], portfolio, runs)
    BY DEF PaperInv, CertificateInv
  <2>. DEFINE r == [proc[q] EXCEPT !.alone = FALSE]
  <2>2. /\ r.pc = proc[q].pc /\ r.definition = proc[q].definition
        /\ r.weights = proc[q].weights /\ r.run = proc[q].run
    BY <2>1 DEF IsProc
  <2>. HIDE DEF r
  <2>3. Carries(r, saved, rows)
    BY <2>1, <2>2 DEF Carries
  <2>. QED
    BY <2>3 DEF r
<1>. QED
  BY <1>1, IdleCarries DEF Saved

LEMMA PublisherCarries ==
    ASSUME PaperInv, CertificateInv, NEW p \in Process, Publish(p) \/ Replace(p)
    PROVE  PaperInv'
<1>1. CASE Publish(p)
  <2>. DEFINE r(d) == [Idle EXCEPT !.pc = "write", !.definition = d]
  <2>1. ASSUME NEW d \in Definition
        PROVE  Carries(r(d), portfolio, runs)
    <3>1. d \in Portfolio
      BY RunsAssumption DEF RunsAssumption
    <3>. QED
      BY <3>1 DEF Carries, Idle, Step
  <2>2. \E d \in Definition : Set(p, r(d))
    BY <1>1, Zenon DEF Publish
  <2>. HIDE DEF r
  <2>. QED
    BY <2>1, <2>2, SetCarries
<1>2. CASE Replace(p)
  <2>1. /\ portfolio' = proc[p].definition /\ Saved(p)
        /\ evidence' = evidence /\ runs' = runs /\ certificates' = certificates
        /\ proc[p].pc = "write"
    BY <1>2 DEF Replace, At
  <2>2. portfolio' \in Portfolio
    BY <2>1 DEF PaperInv, Carries
  <2>3. \A q \in Process : Carries(proc'[q], portfolio', runs')
    BY <2>1, <2>2, SavedCarries
  <2>4. crew' = crew /\ overlapped' \in BOOLEAN
    BY <2>1 DEF Saved, PaperInv
  <2>. QED
    BY <2>1, <2>2, <2>3, <2>4 DEF PaperInv, Known
<1>. QED
  BY <1>1, <1>2

LEMMA RowIs ==
    ASSUME NEW weights, NEW bundle
    PROVE  LET row == Row(weights, bundle)
               paper == PaperRun(weights, Market[bundle])
           IN  /\ row.id = RunId(weights, bundle) /\ row.id.weights = weights
               /\ row.bundle = bundle /\ row.equity = paper.equity
               /\ row.halted = paper.halted /\ row.fills = paper.fills
               /\ row.lineage = Lineage(paper.fills, Market[bundle], paper.halted, paper.last)
BY DEF Row, RowOf, RunId

LEMMA ExecutorCarries ==
    ASSUME PaperInv, CertificateInv, NEW e \in Process,
           ReadDefinition(e) \/ ReadMembers(e) \/ Run(e) \/ Validate(e) \/ Insert(e)
    PROVE  PaperInv'
<1>0. IsProc(proc[e]) /\ Carries(proc[e], portfolio, runs)
  BY DEF CertificateInv, PaperInv
<1>1. CASE ReadDefinition(e)
  <2>. DEFINE r == [Idle EXCEPT !.pc = "members", !.definition = portfolio]
  <2>1. portfolio \in Portfolio /\ Set(e, r)
    BY <1>1 DEF ReadDefinition, PaperInv
  <2>2. portfolio.bundle \in DOMAIN Market
    BY <2>1, PortfolioTyped
  <2>3. Carries(r, portfolio, runs)
    BY <2>1, <2>2 DEF Carries, Idle, Step
  <2>. HIDE DEF r
  <2>. QED
    BY <2>1, <2>3, SetCarries
<1>2. CASE ReadMembers(e)
  <2>. DEFINE r == [proc[e] EXCEPT !.pc = "run", !.weights = portfolio.weights]
  <2>1. proc[e].pc = "members" /\ Set(e, r)
    BY <1>2 DEF ReadMembers, At
  <2>2. IsFunded(portfolio.weights) /\ proc[e].definition.bundle \in DOMAIN Market
    BY <1>0, <2>1, PortfolioTyped DEF Carries
  <2>3. r.pc = "run" /\ r.definition = proc[e].definition /\ r.weights = portfolio.weights
    BY <1>0 DEF IsProc
  <2>. HIDE DEF r
  <2>4. Carries(r, portfolio, runs)
    BY <2>2, <2>3 DEF Carries, Step
  <2>. QED
    BY <2>1, <2>4, SetCarries
<1>3. CASE Run(e)
  <2>. DEFINE row == Row(proc[e].weights, proc[e].definition.bundle)
              r == Ran(e, row)
  <2>1. Finish(e, "idle") \/ Set(e, r)
    BY <1>3 DEF Run
  <2>2. IsRow(row)
    BY <1>0, <1>3 DEF Run, At, Carries, IsFunded, IsRow
  <2>. HIDE DEF row
  <2>3. r.run = row /\ r.pc = IF HasRefusal(row) THEN "refused" ELSE "validate"
    BY DEF Ran, Persist, Idle, HasRefusal
  <2>. HIDE DEF r
  <2>4. Carries(r, portfolio, runs)
    BY <2>2, <2>3 DEF Carries, Step
  <2>. QED
    BY <2>1, <2>4, SetCarries, FinishCarries
<1>4. CASE Validate(e)
  <2>. DEFINE next == Validity(proc[e].run)
              r == [proc[e] EXCEPT !.pc = next]
  <2>1. proc[e].pc = "validate" /\ (Finish(e, "idle") \/ (next # "idle" /\ Set(e, r)))
    BY <1>4, Zenon DEF Validate, At
  <2>2. r.pc = next /\ r.run = proc[e].run
    BY <1>0 DEF IsProc
  <2>3. /\ next \in {"idle", "displaced", "refused", "insert"}
        /\ next = "refused" => Bars(Market[proc[e].run.bundle]) = 1
    BY DEF Validity
  <2>. HIDE DEF next, r
  <2>4. next # "idle" => Carries(r, portfolio, runs)
    BY <1>0, <2>1, <2>2, <2>3 DEF Carries, Step
  <2>. QED
    BY <2>1, <2>4, SetCarries, FinishCarries
<1>5. CASE Insert(e)
  <2>1. CASE Known(proc[e].run.id)
    BY <1>5, <2>1, FinishCarries DEF Insert
  <2>2. CASE ~ Known(proc[e].run.id)
    <3>1. /\ runs' = runs \union {proc[e].run} /\ Saved(e) /\ portfolio' = portfolio
          /\ evidence' = evidence /\ certificates' = certificates /\ proc[e].pc = "insert"
      BY <1>5, <2>2 DEF Insert, At
    <3>2. IsRow(proc[e].run) /\ ~ HasRefusal(proc[e].run)
      BY <1>0, <3>1 DEF Carries
    <3>3. \A q \in Process : Carries(proc'[q], portfolio', runs')
      BY <3>1, SavedCarries
    <3>4. crew' = crew /\ overlapped' \in BOOLEAN
      BY <3>1 DEF Saved, PaperInv
    <3>5. \A c \in certificates : Known(c.run)'
      BY <3>1 DEF PaperInv, Known
    <3>6. \A run \in runs' : IsRow(run) /\ ~ HasRefusal(run)
      BY <3>1, <3>2 DEF PaperInv
    <3>. QED
      BY <3>1, <3>3, <3>4, <3>5, <3>6 DEF PaperInv
  <2>. QED
    BY <2>1, <2>2
<1>. QED
  BY <1>1, <1>2, <1>3, <1>4, <1>5

LEMMA CertifierCarries ==
    ASSUME PaperInv, CertificateInv, NEW c \in Process,
           \/ VerifyRun(c) \/ Research(c) \/ Graph(c)
           \/ SaveCertificate(c) \/ InsertCertificate(c)
    PROVE  PaperInv'
<1>0. /\ IsProc(proc[c]) /\ Carries(proc[c], portfolio, runs)
      /\ Certifies(proc[c], certificates)
  BY DEF CertificateInv, PaperInv
<1>1. CASE VerifyRun(c)
  <2>. DEFINE r(id) == [Idle EXCEPT !.pc = "research", !.run = id]
  <2>1. PICK run \in runs : Set(c, r(run.id))
    BY <1>1, Zenon DEF VerifyRun
  <2>2. Carries(r(run.id), portfolio, runs)
    BY DEF Carries, Idle, Step
  <2>. HIDE DEF r
  <2>. QED
    BY <2>1, <2>2, SetCarries
<1>2. ASSUME NEW r, r.run = proc[c].run, r.pc \in {"graph", "save", "certify", "answered"},
             proc[c].pc \in {"research", "graph", "save", "certify"}, Set(c, r)
      PROVE  PaperInv'
  <2>1. Carries(r, portfolio, runs)
    BY <1>0, <1>2 DEF Carries, Step
  <2>. QED
    BY <1>2, <2>1, SetCarries
<1>3. CASE Research(c)
  <2>. DEFINE r == [proc[c] EXCEPT !.pc = "graph", !.research = <<portfolio, evidence>>]
  <2>1. r.run = proc[c].run /\ r.pc = "graph"
    BY <1>0 DEF IsProc
  <2>2. proc[c].pc = "research" /\ Set(c, r)
    BY <1>3 DEF Research, At
  <2>. HIDE DEF r
  <2>. QED
    BY <1>2, <2>1, <2>2
<1>4. CASE Graph(c)
  <2>. DEFINE made == CertificateFor(proc[c].run, proc[c].research, <<portfolio, evidence>>)
              r == [proc[c] EXCEPT !.pc = "save", !.certificate = made]
  <2>1. r.run = proc[c].run /\ r.pc = "save"
    BY <1>0 DEF IsProc
  <2>2. proc[c].pc = "graph" /\ (Set(c, r) \/ Finish(c, "idle"))
    BY <1>4 DEF Graph, At
  <2>. HIDE DEF r
  <2>. QED
    BY <1>2, <2>1, <2>2, FinishCarries
<1>5. /\ Answered(c).run = proc[c].run /\ Answered(c).pc = "answered"
      /\ [proc[c] EXCEPT !.pc = "certify"].run = proc[c].run
      /\ [proc[c] EXCEPT !.pc = "certify"].pc = "certify"
  BY <1>0 DEF IsProc, Answered
<1>6. CASE SaveCertificate(c)
  <2>. DEFINE r == [proc[c] EXCEPT !.pc = "certify"]
  <2>1. proc[c].pc = "save" /\ (Set(c, r) \/ Set(c, Answered(c)) \/ Finish(c, "idle"))
    BY <1>6 DEF SaveCertificate, At
  <2>. HIDE DEF r
  <2>2. r.run = proc[c].run /\ r.pc = "certify"
    BY <1>5 DEF r
  <2>. QED
    BY <1>2, <1>5, <2>1, <2>2, FinishCarries
<1>7. CASE InsertCertificate(c)
  <2>1. CASE CertificateOf(proc[c].run) = {}
    <3>1. /\ certificates' = certificates \union {proc[c].certificate}
          /\ proc' = [proc EXCEPT ![c] = Answered(c)] /\ proc[c].pc = "certify"
          /\ portfolio' = portfolio /\ evidence' = evidence /\ runs' = runs
          /\ crew' = crew /\ overlapped' = overlapped
      BY <1>7, <2>1 DEF InsertCertificate, At
    <3>2. Carries(Answered(c), portfolio, runs)
      BY <1>5 DEF Carries, Step
    <3>3. \A q \in Process : Carries(proc'[q], portfolio, runs)
      BY <3>1, <3>2 DEF PaperInv, CertificateInv
    <3>4. proc[c].certificate.run = proc[c].run /\ Known(proc[c].run)
      BY <1>0, <3>1 DEF Carries, Certifies, Known
    <3>5. \A x \in certificates' : Known(x.run)'
      BY <3>1, <3>4 DEF PaperInv, Known
    <3>. QED
      BY <3>1, <3>3, <3>5 DEF PaperInv
  <2>. QED
    BY <1>7, <2>1, FinishCarries DEF InsertCertificate
<1>. QED
  BY <1>1, <1>3, <1>4, <1>6, <1>7

LEMMA PaperAlways == FactorySpec => [](CertificateInv /\ PaperInv)
<1>1. FactoryInit => CertificateInv /\ PaperInv
  <2>. SUFFICES ASSUME FactoryInit
                PROVE  CertificateInv /\ PaperInv
    OBVIOUS
  <2>1. CertificateInv
    BY IdleProc DEF FactoryInit, Init, CertificateInv
  <2>2. /\ runs = {} /\ certificates = {} /\ proc = [p \in Process |-> Idle]
        /\ evidence = [s \in Strategy |-> TRUE] /\ overlapped = FALSE
    BY DEF FactoryInit, Init
  <2>3. portfolio \in Portfolio \union {None} /\ crew \subseteq Process \union Reviser
    <3>1. CASE stage = "portfolio"
      <4>1. \E scene \in Scene : portfolio = scene.portfolio /\ crew = scene.crew
        BY <3>1 DEF FactoryInit, Init
      <4>. QED
        BY <4>1, RunsAssumption, Zenon DEF RunsAssumption
    <3>2. CASE stage # "portfolio"
      BY <3>2 DEF FactoryInit
    <3>. QED
      BY <3>1, <3>2
  <2>. QED
    BY <2>1, <2>2, <2>3, IdleCarries DEF PaperInv
<1>2. CertificateInv /\ PaperInv /\ [FactoryNext]_allVars => (CertificateInv /\ PaperInv)'
  <2>. SUFFICES ASSUME CertificateInv, PaperInv, [FactoryNext]_allVars
                PROVE  CertificateInv' /\ PaperInv'
    OBVIOUS
  <2>1. CASE UNCHANGED vars
    BY <2>1 DEF CertificateInv, PaperInv, Known, vars, store
  <2>2. ASSUME NEW p \in Process, Acknowledge(p)
        PROVE  CertificateInv' /\ PaperInv'
    BY <2>2, FinishKeeps, FinishCarries DEF Acknowledge
  <2>3. ASSUME NEW s \in Strategy, Revise(s)
        PROVE  CertificateInv' /\ PaperInv'
    <3>1. evidence' \in [Strategy -> BOOLEAN]
      BY <2>3 DEF Revise, PaperInv
    <3>. QED
      BY <2>3, <3>1 DEF Revise, CertificateInv, PaperInv, Known
  <2>4. CASE Next
    BY <2>2, <2>3, <2>4, PublisherKeeps, ExecutorKeeps, CertifierKeeps,
       PublisherCarries, ExecutorCarries, CertifierCarries DEF Next, Process
  <2>. QED
    BY <2>1, <2>4 DEF FactoryNext, allVars
<1>. QED
  BY <1>1, <1>2, PTL DEF FactorySpec

\* The sleeves that contributions are computed from replay what was executed:
\* of a run that was not halted and bought nothing without a signal they end
\* with the final equity, whatever the market, the weights and the costs (code:
\* _sleeve_returns replays each sleeve alone, run_paper_portfolio trades them
\* side by side).
THEOREM FactorySleevesReplay == FactorySpec => []SleevesReplayTheRun
<1>1. PaperInv => SleevesReplayTheRun
  <2>. SUFFICES ASSUME PaperInv, NEW run \in runs,
                       ~ run.halted, "initial_allocation" \notin ToSet(run.lineage)
                PROVE  LET sleeves == Attribution(run.id.weights, Market[run.bundle])
                       IN  run.equity = Reserve(run.id.weights)
                                      + Total([s \in Strategy |-> Last(sleeves[s])])
    BY DEF SleevesReplayTheRun
  <2>1. PICK weights \in Weights, bundle \in DOMAIN Market : run = Row(weights, bundle)
    BY DEF PaperInv, IsRow
  <2>. DEFINE paper == PaperRun(weights, Market[bundle])
  <2>2. /\ run.id.weights = weights /\ run.equity = paper.equity /\ run.halted = paper.halted
        /\ run.lineage = Lineage(paper.fills, Market[bundle], paper.halted, paper.last)
        /\ run.bundle = bundle
    BY <2>1, RowIs
  <2>3. Explained(paper, weights, Market[bundle])
    BY PaperRunExplained, RunsAssumption DEF RunsAssumption
  <2>. HIDE DEF paper
  <2>. QED
    BY <2>2, <2>3, Zenon DEF Explained
<1>. QED
  BY <1>1, PaperAlways, PTL
-----------------------------------------------------------------------------
(* Runs and the portfolio they are of *)

\* The run is of the portfolio the registry has.
IsOf(run, saved) == run.id.weights = saved.weights /\ run.bundle = saved.bundle

\* A process that nobody has written past holds what the registry has, and is
\* not refused for its members.
Follows(r, saved, rows) ==
    r.alone =>
        /\ r.pc = "write" => rows = {}
        /\ r.pc \in {"members", "run"} => r.definition = saved
        /\ r.pc = "run" => r.weights = saved.weights
        /\ r.pc \in {"validate", "insert"} => IsOf(r.run, saved)
        /\ r.pc # "displaced"

MatchInv ==
    /\ \A p \in Process : "alone" \in DOMAIN proc[p] /\ Follows(proc[p], portfolio, runs)
    /\ ~ overlapped => \A run \in runs : IsOf(run, portfolio)

LEMMA IdleFollows ==
    "alone" \in DOMAIN Idle /\ \A saved, rows : Follows(Idle, saved, rows)
BY DEF Follows, Idle

LEMMA SetFollows ==
    ASSUME MatchInv, CertificateInv, NEW p \in Process, NEW r,
           "alone" \in DOMAIN r, Follows(r, portfolio, runs), Set(p, r)
    PROVE  MatchInv'
<1>1. /\ proc' = [proc EXCEPT ![p] = r] /\ portfolio' = portfolio /\ runs' = runs
      /\ overlapped' = overlapped
  BY DEF Set, store
<1>2. \A q \in Process : "alone" \in DOMAIN proc'[q] /\ Follows(proc'[q], portfolio, runs)
  BY <1>1 DEF MatchInv, CertificateInv
<1>. QED
  BY <1>1, <1>2 DEF MatchInv

\* Steps to where nothing is held any more, or nothing of a portfolio.
LEMMA LeavesFollows ==
    ASSUME MatchInv, CertificateInv, NEW p \in Process, NEW r,
           "alone" \in DOMAIN r, Set(p, r),
           r.pc \notin {"write", "members", "run", "validate", "insert", "displaced"}
    PROVE  MatchInv'
BY SetFollows DEF Follows

LEMMA FinishFollows ==
    ASSUME MatchInv, CertificateInv, NEW p \in Process, Finish(p, "idle")
    PROVE  MatchInv'
<1>. DEFINE r == [Idle EXCEPT !.pc = "idle"]
<1>1. "alone" \in DOMAIN r /\ r.pc = "idle" /\ Set(p, r)
  BY DEF Idle, Finish
<1>. HIDE DEF r
<1>. QED
  BY <1>1, LeavesFollows

\* After a save nobody else is alone, but for those that hold nothing.
LEMMA SavedFollows ==
    ASSUME MatchInv, CertificateInv, NEW p \in Process, Saved(p), NEW saved, NEW rows
    PROVE  \A q \in Process : "alone" \in DOMAIN proc'[q] /\ Follows(proc'[q], saved, rows)
<1>1. ASSUME NEW q \in Process
      PROVE  LET r == [proc[q] EXCEPT !.alone = FALSE]
             IN  "alone" \in DOMAIN r /\ Follows(r, saved, rows)
  <2>1. IsProc(proc[q]) /\ "alone" \in DOMAIN proc[q] /\ Follows(proc[q], portfolio, runs)
    BY DEF MatchInv, CertificateInv
  <2>. DEFINE r == [proc[q] EXCEPT !.alone = FALSE]
  <2>2. /\ r.pc = proc[q].pc /\ r.run = proc[q].run /\ r.alone = FALSE /\ "alone" \in DOMAIN r
    BY <2>1 DEF IsProc
  <2>. HIDE DEF r
  <2>3. Follows(r, saved, rows)
    BY <2>1, <2>2 DEF Follows
  <2>. QED
    BY <2>2, <2>3 DEF r
<1>2. ASSUME NEW q \in Process
      PROVE  "alone" \in DOMAIN proc'[q] /\ Follows(proc'[q], saved, rows)
  <2>1. proc'[q] = Idle \/ proc'[q] = [proc[q] EXCEPT !.alone = FALSE]
    BY DEF Saved
  <2>. QED
    BY <1>1, <2>1, IdleFollows
<1>. QED
  BY <1>2

LEMMA PublisherFollows ==
    ASSUME MatchInv, CertificateInv, NEW p \in Process, Publish(p) \/ Replace(p)
    PROVE  MatchInv'
<1>1. CASE Publish(p)
  <2>. DEFINE r(d) == [Idle EXCEPT !.pc = "write", !.definition = d]
  <2>1. ASSUME NEW d
        PROVE  "alone" \in DOMAIN r(d) /\ r(d).pc = "write"
    BY DEF Idle
  <2>2. runs = {} /\ \E d \in Definition : Set(p, r(d))
    BY <1>1, Zenon DEF Publish
  <2>. HIDE DEF r
  <2>3. \A d : Follows(r(d), portfolio, runs)
    BY <2>1, <2>2 DEF Follows
  <2>. QED
    BY <2>1, <2>2, <2>3, SetFollows
<1>2. CASE Replace(p)
  <2>1. /\ portfolio' = proc[p].definition /\ Saved(p) /\ runs' = runs
        /\ proc[p].pc = "write"
    BY <1>2 DEF Replace, At
  <2>2. \A q \in Process : "alone" \in DOMAIN proc'[q] /\ Follows(proc'[q], portfolio', runs')
    BY <2>1, SavedFollows
  <2>3. overlapped' = (overlapped \/ ~ proc[p].alone)
    BY <2>1 DEF Saved
  <2>4. proc[p].alone => runs = {}
    BY <2>1 DEF MatchInv, Follows
  <2>. QED
    BY <2>1, <2>2, <2>3, <2>4 DEF MatchInv
<1>. QED
  BY <1>1, <1>2

LEMMA ExecutorFollows ==
    ASSUME MatchInv, CertificateInv, NEW e \in Process,
           ReadDefinition(e) \/ ReadMembers(e) \/ Run(e) \/ Validate(e) \/ Insert(e)
    PROVE  MatchInv'
<1>0. /\ IsProc(proc[e]) /\ "alone" \in DOMAIN proc[e] /\ Follows(proc[e], portfolio, runs)
  BY DEF CertificateInv, MatchInv
<1>1. CASE ReadDefinition(e)
  <2>. DEFINE r == [Idle EXCEPT !.pc = "members", !.definition = portfolio]
  <2>1. "alone" \in DOMAIN r /\ r.pc = "members" /\ r.definition = portfolio
    BY DEF Idle
  <2>2. Set(e, r)
    BY <1>1 DEF ReadDefinition
  <2>. HIDE DEF r
  <2>3. Follows(r, portfolio, runs)
    BY <2>1 DEF Follows
  <2>. QED
    BY <2>1, <2>2, <2>3, SetFollows
<1>2. CASE ReadMembers(e)
  <2>. DEFINE r == [proc[e] EXCEPT !.pc = "run", !.weights = portfolio.weights]
  <2>1. proc[e].pc = "members" /\ Set(e, r)
    BY <1>2 DEF ReadMembers, At
  <2>2. /\ "alone" \in DOMAIN r /\ r.pc = "run" /\ r.definition = proc[e].definition
        /\ r.weights = portfolio.weights /\ r.alone = proc[e].alone
    BY <1>0 DEF IsProc
  <2>. HIDE DEF r
  <2>3. Follows(r, portfolio, runs)
    BY <1>0, <2>1, <2>2 DEF Follows
  <2>. QED
    BY <2>1, <2>2, <2>3, SetFollows
<1>3. CASE Run(e)
  <2>. DEFINE row == Row(proc[e].weights, proc[e].definition.bundle)
              r == Ran(e, row)
  <2>1. proc[e].pc = "run" /\ (Finish(e, "idle") \/ Set(e, r))
    BY <1>3 DEF Run, At
  <2>2. row.id.weights = proc[e].weights /\ row.bundle = proc[e].definition.bundle
    BY RowIs
  <2>. HIDE DEF row
  <2>3. /\ "alone" \in DOMAIN r /\ r.run = row /\ r.alone = proc[e].alone
        /\ r.pc \in {"validate", "refused"}
    BY DEF Ran, Persist, Idle
  <2>. HIDE DEF r
  <2>4. Follows(r, portfolio, runs)
    BY <1>0, <2>1, <2>2, <2>3 DEF Follows, IsOf
  <2>. QED
    BY <2>1, <2>3, <2>4, SetFollows, FinishFollows
<1>4. CASE Validate(e)
  <2>. DEFINE next == Validity(proc[e].run)
              r == [proc[e] EXCEPT !.pc = next]
  <2>1. proc[e].pc = "validate" /\ (Finish(e, "idle") \/ Set(e, r))
    BY <1>4, Zenon DEF Validate, At
  <2>2. /\ "alone" \in DOMAIN r /\ r.pc = next /\ r.run = proc[e].run
        /\ r.alone = proc[e].alone
    BY <1>0 DEF IsProc
  <2>3. /\ next \in {"idle", "displaced", "refused", "insert"}
        /\ next = "displaced" => ~ IsOf(proc[e].run, portfolio)
    BY DEF Validity, IsOf
  <2>. HIDE DEF next, r
  <2>4. Follows(r, portfolio, runs)
    BY <1>0, <2>1, <2>2, <2>3 DEF Follows
  <2>. QED
    BY <2>1, <2>2, <2>4, SetFollows, FinishFollows
<1>5. CASE Insert(e)
  <2>1. CASE Known(proc[e].run.id)
    BY <1>5, <2>1, FinishFollows DEF Insert
  <2>2. CASE ~ Known(proc[e].run.id)
    <3>1. /\ runs' = runs \union {proc[e].run} /\ Saved(e) /\ portfolio' = portfolio
          /\ proc[e].pc = "insert"
      BY <1>5, <2>2 DEF Insert, At
    <3>2. \A q \in Process : "alone" \in DOMAIN proc'[q] /\ Follows(proc'[q], portfolio', runs')
      BY <3>1, SavedFollows
    <3>3. overlapped' = (overlapped \/ ~ proc[e].alone)
      BY <3>1 DEF Saved
    <3>4. proc[e].alone => IsOf(proc[e].run, portfolio)
      BY <1>0, <3>1 DEF Follows
    <3>5. ~ overlapped' => \A run \in runs' : IsOf(run, portfolio')
      BY <3>1, <3>3, <3>4 DEF MatchInv
    <3>. QED
      BY <3>2, <3>5 DEF MatchInv
  <2>. QED
    BY <2>1, <2>2
<1>. QED
  BY <1>1, <1>2, <1>3, <1>4, <1>5

LEMMA CertifierFollows ==
    ASSUME MatchInv, CertificateInv, NEW c \in Process,
           \/ VerifyRun(c) \/ Research(c) \/ Graph(c)
           \/ SaveCertificate(c) \/ InsertCertificate(c)
    PROVE  MatchInv'
<1>0. IsProc(proc[c]) /\ "alone" \in DOMAIN proc[c]
  BY DEF CertificateInv, MatchInv
<1>1. /\ "alone" \in DOMAIN Answered(c) /\ Answered(c).pc = "answered"
  BY <1>0 DEF IsProc, Answered
<1>2. CASE VerifyRun(c)
  <2>. DEFINE r(id) == [Idle EXCEPT !.pc = "research", !.run = id]
  <2>1. ASSUME NEW id
        PROVE  "alone" \in DOMAIN r(id) /\ r(id).pc = "research"
    BY DEF Idle
  <2>2. PICK run \in runs : Set(c, r(run.id))
    BY <1>2, Zenon DEF VerifyRun
  <2>. HIDE DEF r
  <2>. QED
    BY <2>1, <2>2, LeavesFollows
<1>3. CASE Research(c)
  <2>. DEFINE r == [proc[c] EXCEPT !.pc = "graph", !.research = <<portfolio, evidence>>]
  <2>1. "alone" \in DOMAIN r /\ r.pc = "graph"
    BY <1>0 DEF IsProc
  <2>2. Set(c, r)
    BY <1>3 DEF Research
  <2>. HIDE DEF r
  <2>. QED
    BY <2>1, <2>2, LeavesFollows
<1>4. CASE Graph(c)
  <2>. DEFINE made == CertificateFor(proc[c].run, proc[c].research, <<portfolio, evidence>>)
              r == [proc[c] EXCEPT !.pc = "save", !.certificate = made]
  <2>1. "alone" \in DOMAIN r /\ r.pc = "save"
    BY <1>0 DEF IsProc
  <2>2. Set(c, r) \/ Finish(c, "idle")
    BY <1>4 DEF Graph
  <2>. HIDE DEF r
  <2>. QED
    BY <2>1, <2>2, LeavesFollows, FinishFollows
<1>5. CASE SaveCertificate(c)
  <2>. DEFINE r == [proc[c] EXCEPT !.pc = "certify"]
  <2>1. "alone" \in DOMAIN r /\ r.pc = "certify"
    BY <1>0 DEF IsProc
  <2>2. Set(c, r) \/ Set(c, Answered(c)) \/ Finish(c, "idle")
    BY <1>5 DEF SaveCertificate
  <2>. HIDE DEF r
  <2>. QED
    BY <1>1, <2>1, <2>2, LeavesFollows, FinishFollows
<1>6. CASE InsertCertificate(c)
  <2>1. CASE CertificateOf(proc[c].run) = {}
    <3>1. /\ proc' = [proc EXCEPT ![c] = Answered(c)] /\ portfolio' = portfolio
          /\ runs' = runs /\ overlapped' = overlapped
      BY <1>6, <2>1 DEF InsertCertificate
    <3>2. Follows(Answered(c), portfolio, runs)
      BY <1>1 DEF Follows
    <3>3. \A q \in Process : "alone" \in DOMAIN proc'[q] /\ Follows(proc'[q], portfolio, runs)
      BY <1>1, <3>1, <3>2 DEF MatchInv, CertificateInv
    <3>. QED
      BY <3>1, <3>3 DEF MatchInv
  <2>. QED
    BY <1>6, <2>1, FinishFollows DEF InsertCertificate
<1>. QED
  BY <1>2, <1>3, <1>4, <1>5, <1>6

LEMMA MatchAlways == FactorySpec => []MatchInv
<1>1. FactoryInit => MatchInv
  <2>. SUFFICES ASSUME FactoryInit
                PROVE  MatchInv
    OBVIOUS
  <2>1. runs = {} /\ proc = [p \in Process |-> Idle]
    BY DEF FactoryInit, Init
  <2>. QED
    BY <2>1, IdleFollows DEF MatchInv
<1>2. MatchInv /\ CertificateInv /\ [FactoryNext]_allVars => MatchInv'
  <2>. SUFFICES ASSUME MatchInv, CertificateInv, [FactoryNext]_allVars
                PROVE  MatchInv'
    OBVIOUS
  <2>1. CASE UNCHANGED vars
    BY <2>1 DEF MatchInv, vars, store
  <2>2. ASSUME NEW p \in Process, Acknowledge(p)
        PROVE  MatchInv'
    BY <2>2, FinishFollows DEF Acknowledge
  <2>3. ASSUME NEW s \in Strategy, Revise(s)
        PROVE  MatchInv'
    BY <2>3 DEF Revise, MatchInv
  <2>4. CASE Next
    BY <2>2, <2>3, <2>4, PublisherFollows, ExecutorFollows, CertifierFollows DEF Next, Process
  <2>. QED
    BY <2>1, <2>4 DEF FactoryNext, allVars
<1>. QED
  BY <1>1, <1>2, PaperAlways, PTL DEF FactorySpec

\* A run that was executed and is lost was halted after it had sold on an exit
\* signal, or had one bar, or somebody saved the portfolio while it ran: the
\* loop of the bars gives every other fill a reason, and a run nobody wrote
\* past is of the members the registry has, whatever the markets, the weights
\* and the costs (code: run_paper_portfolio, build_fill_lineage,
\* _validate_portfolio_run_payload).
THEOREM FactoryRefusedOnlyForCause == FactorySpec => []RefusedOnlyForCause
<1>1. PaperInv /\ MatchInv => RefusedOnlyForCause
  <2>. SUFFICES ASSUME PaperInv, MatchInv, NEW e \in Executor
                PROVE  LET run == proc[e].run
                           market == Market[run.bundle]
                       IN  /\ At(e, "refused") =>
                                  \/ Bars(market) = 1
                                  \/ /\ run.halted
                                     /\ \E i \in 1..Len(run.fills) :
                                            /\ run.fills[i].side = "sell"
                                            /\ run.fills[i].at < Last(run.fills).at
                                            /\ market.exit[run.fills[i].strategy][run.fills[i].at]
                           /\ At(e, "displaced") => ~proc[e].alone
    BY DEF RefusedOnlyForCause
  <2>. DEFINE run == proc[e].run
              market == Market[run.bundle]
  <2>1. At(e, "displaced") => ~proc[e].alone
    BY DEF MatchInv, Follows, At, Process
  <2>2. CASE At(e, "refused") /\ Bars(market) # 1
    <3>1. IsRow(run) /\ HasRefusal(run)
      BY <2>2 DEF PaperInv, Carries, At, Process
    <3>2. PICK weights \in Weights, bundle \in DOMAIN Market : run = Row(weights, bundle)
      BY <3>1 DEF IsRow
    <3>. DEFINE paper == PaperRun(weights, Market[bundle])
    <3>. HIDE DEF run
    <3>3. /\ run.bundle = bundle /\ run.halted = paper.halted /\ run.fills = paper.fills
          /\ run.lineage = Lineage(paper.fills, Market[bundle], paper.halted, paper.last)
      BY <3>2, RowIs
    <3>4. Explained(paper, weights, Market[bundle])
      BY PaperRunExplained, RunsAssumption DEF RunsAssumption
    <3>. HIDE DEF paper
    <3>5. /\ run.halted
          /\ \E i \in 1..Len(run.fills) :
                 /\ run.fills[i].side = "sell" /\ run.fills[i].at < Last(run.fills).at
                 /\ market.exit[run.fills[i].strategy][run.fills[i].at]
      BY <3>1, <3>3, <3>4, ZenonT(60) DEF Explained, HasRefusal
    <3>. QED
      BY <2>1, <3>5, Zenon DEF run
  <2>. QED
    BY <2>1, <2>2, Zenon
<1>. QED
  BY <1>1, PaperAlways, MatchAlways, PTL

\* What the executor persists the replay verification accepts, for as long as
\* the portfolio is the one that was executed, and it stays that one unless a
\* save and an execution overlapped: for every market, definition, crew and
\* costs that whole units can follow (code: save_portfolio looks for runs before
\* it writes, verify_persisted_portfolio_run replays the ledger and its lineage).
THEOREM FactoryExecutionReplays ==
    ASSUME WholeMarkets
    PROVE  FactorySpec => []ExecutionReplays
<1>1. MatchInv /\ PaperInv => ExecutionReplays
  <2>. SUFFICES ASSUME MatchInv, PaperInv, NEW run \in runs,
                       \/ portfolio.weights = run.id.weights /\ portfolio.bundle = run.bundle
                       \/ ~ overlapped
                PROVE  ReplayVerifies(run)
    BY DEF ExecutionReplays
  <2>1. IsOf(run, portfolio)
    BY DEF MatchInv, IsOf
  <2>2. PICK weights \in Weights, bundle \in DOMAIN Market :
               Members(weights) # {} /\ run = Row(weights, bundle)
    BY DEF PaperInv, IsRow
  <2>. DEFINE market == Market[bundle]
              paper == PaperRun(weights, market)
  <2>3. /\ run.id = RunId(weights, bundle) /\ run.id.weights = weights
        /\ run.bundle = bundle /\ run.equity = paper.equity
        /\ run.halted = paper.halted /\ run.fills = paper.fills
        /\ run.lineage = Lineage(paper.fills, market, paper.halted, paper.last)
    BY <2>2, RowIs
  <2>4. IsMarket(market)
    BY RunsAssumption DEF RunsAssumption
  <2>5. WholeUnits(weights, market)
    <3>1. ASSUME NEW s \in Strategy
          PROVE  weights[s] = 0 \/ InitialCash * weights[s] >= 100
      <4>1. weights[s] = 0 \/ weights[s] \in 1 .. 100
        BY DEF Weights
      <4>2. InitialCash \in Nat /\ InitialCash >= 100
        BY ExecutionAssumption DEF ExecutionAssumption, WholeMarkets
      <4>3. \A x \in 1 .. 100 : InitialCash * x >= 100
        BY <4>2
      <4>. QED
        BY <4>1, <4>3
    <3>2. \E s \in Strategy : weights[s] # 0
      BY <2>2 DEF Members
    <3>. QED
      BY <3>1, <3>2 DEF WholeUnits, WholeMarkets
  <2>. HIDE DEF market
  <2>6. /\ Reconciles(paper.fills, weights, paper.equity)
        /\ Lineage(paper.fills, market, paper.halted, paper.last)
               = Lineage(paper.fills, market, paper.halted, HaltOf(paper))
    BY <2>4, <2>5, PaperRunReplays, Zenon
  <2>. HIDE DEF paper
  <2>7. weights = portfolio.weights /\ bundle = portfolio.bundle
    BY <2>1, <2>3 DEF IsOf
  <2>8. run.lineage = Lineage(run.fills, Market[run.bundle], run.halted,
                              IF run.halted /\ run.fills # <<>> THEN Last(run.fills).at ELSE 0)
    BY <2>3, <2>6, Zenon DEF HaltOf, market
  <2>. QED
    BY <2>3, <2>6, <2>7, <2>8 DEF ReplayVerifies
<1>. QED
  BY <1>1, PaperAlways, MatchAlways, PTL
-----------------------------------------------------------------------------
(* The research queue *)

Request == [id : ToSet(Reasons) \X ToSet(StrategyOrder), priority : Int]

Queues == UNION {[ids -> Request] : ids \in SUBSET (ToSet(Reasons) \X ToSet(StrategyOrder))}

PlansTyped ==
    \A next \in MadePlans :
        next.requests \in Seq(Request) /\ next.units \in [DOMAIN next.requests -> Int]

Queueing(c, d, q, request) == Work!Enqueue(q, request)

QueueFold == INSTANCE FoldTheorems WITH Op <- Queueing

\* f is what queue q becomes when the first k requests have been offered.
Filled(f, q, requests, k) ==
    /\ \A id \in DOMAIN f : \/ id \in DOMAIN q /\ f[id] = q[id]
                            \/ \E j \in 1 .. k : requests[j].id = id /\ f[id] = requests[j]
    /\ \A id \in DOMAIN q : id \in DOMAIN f /\ f[id].priority <= q[id].priority
    /\ \A j \in 1 .. k : /\ requests[j].id \in DOMAIN f
                         /\ f[requests[j].id].priority <= requests[j].priority

LEMMA EnqueueType ==
    ASSUME NEW q \in Queues, NEW request \in Request
    PROVE  Work!Enqueue(q, request) \in Queues
<1>1. PICK ids \in SUBSET (ToSet(Reasons) \X ToSet(StrategyOrder)) : q \in [ids -> Request]
  BY DEF Queues
<1>2. /\ ids \union {request.id} \in SUBSET (ToSet(Reasons) \X ToSet(StrategyOrder))
      /\ Work!Queued(q, request) \in [ids \union {request.id} -> Request]
  BY <1>1 DEF Request, Work!Queued
<1>3. Work!Queued(q, request) \in Queues
  BY <1>2 DEF Queues
<1>. QED
  BY <1>3 DEF Work!Enqueue

LEMMA EnqueueFills ==
    ASSUME NEW q \in Queues, NEW requests \in Seq(Request), NEW k \in 1 .. Len(requests),
           NEW f \in Queues, Filled(f, q, requests, k - 1)
    PROVE  Filled(Work!Enqueue(f, requests[k]), q, requests, k)
<1>. DEFINE r == requests[k]
            g == Work!Enqueue(f, r)
<1>0. \A x \in Request : x.priority \in Int
  BY DEF Request
<1>1. r \in Request /\ r.priority \in Int
  BY <1>0
<1>2. \A id \in DOMAIN f : f[id] \in Request /\ f[id].priority \in Int
  BY DEF Queues, Request
<1>3. \A id \in DOMAIN q : q[id] \in Request /\ q[id].priority \in Int
  BY DEF Queues, Request
<1>4. \A j \in 1 .. k - 1 : requests[j] \in Request /\ requests[j].priority \in Int
  BY <1>0
<1>5. /\ DOMAIN g = DOMAIN f \union {r.id}
      /\ \A id \in DOMAIN g : id # r.id => g[id] = f[id]
      /\ r.id \in DOMAIN f /\ ~ (r.priority < f[r.id].priority) => g[r.id] = f[r.id]
      /\ r.id \notin DOMAIN f \/ r.priority < f[r.id].priority => g[r.id] = r
  BY DEF Work!Enqueue, Work!Queued
<1>6. \A j \in 1 .. k : j = k \/ j \in 1 .. k - 1
  OBVIOUS
<1>. HIDE DEF g
<1>7. ASSUME NEW id \in DOMAIN g
      PROVE  \/ id \in DOMAIN q /\ g[id] = q[id]
             \/ \E j \in 1 .. k : requests[j].id = id /\ g[id] = requests[j]
  <2>1. CASE g[id] = r /\ id = r.id
    BY <2>1
  <2>2. CASE id \in DOMAIN f /\ g[id] = f[id]
    BY <2>2 DEF Filled
  <2>. QED
    BY <1>5, <2>1, <2>2
<1>8. ASSUME NEW id \in DOMAIN f
      PROVE  id \in DOMAIN g /\ g[id].priority <= f[id].priority
  BY <1>1, <1>2, <1>5
<1>9. ASSUME NEW id \in DOMAIN q
      PROVE  id \in DOMAIN g /\ g[id].priority <= q[id].priority
  <2>1. id \in DOMAIN f /\ f[id].priority <= q[id].priority
    BY DEF Filled
  <2>2. g[id].priority \in Int
    BY <1>1, <1>2, <1>5, <1>8, <2>1
  <2>. QED
    BY <1>2, <1>3, <1>8, <2>1, <2>2
<1>10. ASSUME NEW j \in 1 .. k
       PROVE  requests[j].id \in DOMAIN g /\ g[requests[j].id].priority <= requests[j].priority
  <2>1. CASE j = k
    BY <1>1, <1>2, <1>5, <2>1
  <2>2. CASE j \in 1 .. k - 1
    <3>1. requests[j].id \in DOMAIN f /\ f[requests[j].id].priority <= requests[j].priority
      BY <2>2 DEF Filled
    <3>2. g[requests[j].id].priority \in Int
      BY <1>1, <1>2, <1>5, <1>8, <3>1
    <3>. QED
      BY <1>2, <1>4, <1>8, <2>2, <3>1, <3>2
  <2>. QED
    BY <1>6, <2>1, <2>2
<1>. QED
  BY <1>7, <1>9, <1>10 DEF Filled, g

\* The loop of execute_research_plan over its requests.
LEMMA QueueFilled ==
    ASSUME NEW q \in Queues, NEW requests \in Seq(Request)
    PROVE  LET filled == Work!FoldLeft(Work!Enqueue, q, requests)
           IN  filled \in Queues /\ Filled(filled, q, requests, Len(requests))
<1>. DEFINE filled == Work!FoldLeft(Work!Enqueue, q, requests)
            I == [k \in 0 .. Len(requests) |-> {f \in Queues : Filled(f, q, requests, k)}]
<1>1. filled = QueueFold!FoldOf(0, 0, q, requests)
  BY Zenon DEF QueueFold!FoldOf, QueueFold!FoldLeft, QueueFold!MapThenFoldSet, QueueFold!Max,
               Work!FoldLeft, Work!MapThenFoldSet, Work!Max, Queueing
<1>2. QueueFold!Closed(0, 0, Queues, requests)
  BY EnqueueType DEF QueueFold!Closed, Queueing
<1>3. I \in [0 .. Len(requests) -> SUBSET Queues]
  OBVIOUS
<1>4. q \in I[0]
  <2>1. \A id \in DOMAIN q : q[id].priority \in Int
    BY DEF Queues, Request
  <2>2. Filled(q, q, requests, 0)
    BY <2>1 DEF Filled
  <2>. QED
    BY <2>2
<1>5. ASSUME NEW k \in 1 .. Len(requests), NEW f \in I[k - 1]
      PROVE  Queueing(0, 0, f, requests[k]) \in I[k]
  <2>1. k - 1 \in 0 .. Len(requests) /\ k \in 0 .. Len(requests)
    OBVIOUS
  <2>2. f \in Queues /\ Filled(f, q, requests, k - 1)
    BY <2>1
  <2>3. Filled(Queueing(0, 0, f, requests[k]), q, requests, k)
    BY <2>2, EnqueueFills DEF Queueing
  <2>4. Queueing(0, 0, f, requests[k]) \in Queues
    BY <2>2, EnqueueType DEF Queueing
  <2>. QED
    BY <2>1, <2>3, <2>4
<1>. HIDE DEF I
<1>6. QueueFold!FoldOf(0, 0, q, requests) \in I[Len(requests)]
  BY <1>2, <1>3, <1>4, <1>5, QueueFold!FoldInduction
<1>7. Len(requests) \in 0 .. Len(requests)
  OBVIOUS
<1>. QED
  BY <1>1, <1>6, <1>7 DEF I

WorkItem == [id : ToSet(Reasons) \X ToSet(StrategyOrder), priority : Int, turn : Int]

\* The queue has the best of what it was offered.
Offers(q, off) ==
    /\ DOMAIN off = DOMAIN q
    /\ \A id \in DOMAIN q :
          /\ q[id].id = id /\ off[id] \subseteq Int
          /\ q[id].priority \in off[id]
          /\ \A x \in off[id] : q[id].priority <= x

\* An item that no longer has the priority of its request lost it to a plan of
\* a later turn.
Undisputed(items, q, by) ==
    \A item \in items :
        item.id \in DOMAIN q /\ q[item.id].priority # item.priority => item.turn < by[item.id]

\* The items of the plans executed before this turn.
MadeBefore(items, now) == \A item \in items : item.turn < now

WorkInv ==
    /\ queue \in Queues /\ Offers(queue, offered) /\ DOMAIN queue \subseteq DOMAIN last
    /\ turn \in Nat
    /\ work \in [Planner -> SUBSET WorkItem]
    /\ \A p \in Planner : Undisputed(work[p], queue, last) /\ MadeBefore(work[p], turn)
    /\ \A l \in lost : l.made < l.offered

LEMMA ExecuteKeeps ==
    ASSUME PlansTyped, WorkInv, NEW p \in Planner, Work!Execute(p)
    PROVE  WorkInv'
<1>1. PICK next \in MadePlans, population \in Population :
         LET filled == Work!FoldLeft(Work!Enqueue, queue, next.requests)
             items == {Work!Item(filled, next.requests[i], turn) : i \in DOMAIN next.requests}
             ids == {r.id : r \in Work!ToSet(next.requests)}
             before(id) == IF id \in DOMAIN queue THEN offered[id] ELSE {}
         IN  /\ queue' = filled
             /\ offered' = [id \in DOMAIN filled |->
                               before(id) \union {r.priority : r \in
                                   {q \in Work!ToSet(next.requests) : q.id = id}}]
             /\ last' = [id \in ids \union DOMAIN last |-> IF id \in ids THEN turn ELSE last[id]]
             /\ work' = [work EXCEPT ![p] = @ \union (IF Work!CanSpawn(items, population) THEN items ELSE {})]
             /\ plan' = [plan EXCEPT ![p] = next.units]
  BY DEF Work!Execute
<1>. DEFINE requests == next.requests
            ids == {r.id : r \in Work!ToSet(requests)}
            items == {Work!Item(queue', requests[i], turn) : i \in DOMAIN requests}
            before(id) == IF id \in DOMAIN queue THEN offered[id] ELSE {}
<1>2. requests \in Seq(Request)
  BY DEF PlansTyped
<1>3. queue' \in Queues /\ Filled(queue', queue, requests, Len(requests))
  BY <1>1, <1>2, QueueFilled DEF WorkInv
<1>4. /\ offered' = [id \in DOMAIN queue' |->
                        before(id) \union {r.priority : r \in
                            {q \in Work!ToSet(requests) : q.id = id}}]
      /\ last' = [id \in ids \union DOMAIN last |-> IF id \in ids THEN turn ELSE last[id]]
      /\ \E more \in {items, {}} : work' = [work EXCEPT ![p] = @ \union more]
      /\ turn' = turn + 1 /\ lost' = lost
  <2>1. \E more \in {items, {}} : work' = [work EXCEPT ![p] = @ \union more]
    <3>1. IF Work!CanSpawn(items, population) THEN work' = [work EXCEPT ![p] = @ \union items]
          ELSE work' = [work EXCEPT ![p] = @ \union {}]
      BY <1>1, Zenon
    <3>. QED
      BY <3>1, Zenon
  <2>2. turn' = turn + 1 /\ lost' = lost
    BY DEF Work!Execute
  <2>. QED
    BY <1>1, <2>1, <2>2, Zenon
<1>5. DOMAIN requests = 1 .. Len(requests) /\ \A i \in DOMAIN requests : requests[i] \in Request
  BY <1>2
<1>6. Work!ToSet(requests) = {requests[i] : i \in DOMAIN requests}
  BY DEF Work!ToSet
<1>. HIDE DEF requests
<1>7. Offers(queue', offered')
  <2>. SUFFICES ASSUME NEW id \in DOMAIN queue'
                PROVE  /\ queue'[id].id = id /\ offered'[id] \subseteq Int
                       /\ queue'[id].priority \in offered'[id]
                       /\ \A x \in offered'[id] : queue'[id].priority <= x
    BY <1>4 DEF Offers
  <2>. DEFINE mine == {r.priority : r \in {q \in Work!ToSet(requests) : q.id = id}}
  <2>1. offered'[id] = before(id) \union mine
    BY <1>4
  <2>2. \A x : x \in mine <=> \E j \in 1 .. Len(requests) :
                                 requests[j].id = id /\ x = requests[j].priority
    BY <1>5, <1>6
  <2>. HIDE DEF mine
  <2>3. \A r \in Request : r.priority \in Int
    BY DEF Request
  <2>4. id \in DOMAIN queue => /\ before(id) = offered[id] /\ queue[id].id = id
                               /\ offered[id] \subseteq Int
                               /\ queue[id].priority \in offered[id]
                               /\ \A x \in offered[id] : queue[id].priority <= x
    BY DEF WorkInv, Offers
  <2>5. id \notin DOMAIN queue => before(id) = {}
    OBVIOUS
  <2>. HIDE DEF before
  <2>6. mine \subseteq Int
    BY <1>5, <2>2, <2>3
  <2>7. \/ id \in DOMAIN queue /\ queue'[id] = queue[id]
        \/ \E j \in 1 .. Len(requests) : requests[j].id = id /\ queue'[id] = requests[j]
    BY <1>3 DEF Filled
  <2>8. queue'[id].id = id /\ queue'[id].priority \in offered'[id]
    BY <2>1, <2>2, <2>4, <2>7
  <2>9. offered'[id] \subseteq Int
    BY <2>1, <2>4, <2>5, <2>6
  <2>10. ASSUME NEW x \in mine
         PROVE  queue'[id].priority <= x
    BY <1>3, <2>2 DEF Filled
  <2>11. ASSUME NEW x \in before(id)
         PROVE  queue'[id].priority <= x
    <3>1. id \in DOMAIN queue
      BY <2>5
    <3>2. queue'[id].priority <= queue[id].priority
      BY <1>3, <3>1 DEF Filled
    <3>. QED
      BY <2>4, <2>8, <2>9, <3>1, <3>2
  <2>. QED
    BY <2>1, <2>8, <2>9, <2>10, <2>11
<1>8. ASSUME NEW i \in DOMAIN requests
      PROVE  Work!Item(queue', requests[i], turn) \in WorkItem
  <2>1. requests[i] \in Request /\ requests[i].id \in DOMAIN queue' /\ turn \in Int
    BY <1>3, <1>5 DEF Filled, WorkInv
  <2>2. queue'[requests[i].id] \in Request
    BY <1>3, <2>1 DEF Queues
  <2>. QED
    BY <2>1, <2>2 DEF Work!Item, WorkItem, Request
<1>9. /\ items \subseteq WorkItem /\ MadeBefore(items, turn')
      /\ Undisputed(items, queue', last')
  <2>1. \A item \in items : item.turn = turn /\ item.priority = queue'[item.id].priority
    BY DEF Work!Item
  <2>. QED
    BY <1>4, <1>8, <2>1 DEF Undisputed, MadeBefore, WorkInv
<1>10. ASSUME NEW a \in Planner
       PROVE  Undisputed(work[a], queue', last') /\ MadeBefore(work[a], turn')
  <2>1. \A item \in work[a] : item.turn \in Int /\ item.turn < turn
    BY DEF WorkInv, MadeBefore, WorkItem
  <2>2. MadeBefore(work[a], turn')
    BY <1>4, <2>1 DEF MadeBefore, WorkInv
  <2>3. ASSUME NEW item \in work[a], NEW id, id = item.id,
               id \in DOMAIN queue', queue'[id].priority # item.priority
        PROVE  item.turn < last'[id]
    <3>1. CASE id \in ids
      BY <1>4, <2>1, <3>1
    <3>2. CASE id \notin ids
      <4>1. \A j \in 1 .. Len(requests) : requests[j].id # id
        BY <1>5, <1>6, <3>2
      <4>2. id \in DOMAIN queue /\ queue'[id] = queue[id]
        BY <1>3, <2>3, <4>1, Zenon DEF Filled
      <4>3. item.turn < last[id] /\ id \in DOMAIN last
        BY <2>3, <4>2 DEF WorkInv, Undisputed
      <4>. QED
        BY <1>4, <3>2, <4>3
    <3>. QED
      BY <3>1, <3>2
  <2>4. Undisputed(work[a], queue', last')
    BY <2>3 DEF Undisputed
  <2>. QED
    BY <2>2, <2>4
<1>11. DOMAIN queue' \subseteq DOMAIN last'
  <2>. SUFFICES ASSUME NEW id \in DOMAIN queue'
                PROVE  id \in DOMAIN last'
    OBVIOUS
  <2>1. id \in DOMAIN queue \/ \E j \in 1 .. Len(requests) : requests[j].id = id
    BY <1>3 DEF Filled
  <2>2. id \in ids \union DOMAIN last
    BY <1>5, <1>6, <2>1 DEF WorkInv
  <2>. QED
    BY <1>4, <2>2
<1>12. work \in [Planner -> SUBSET WorkItem]
  BY DEF WorkInv
<1>. HIDE DEF items, ids
<1>13. work' \in [Planner -> SUBSET WorkItem]
  BY <1>4, <1>9, <1>12
<1>14. ASSUME NEW a \in Planner
       PROVE  Undisputed(work'[a], queue', last') /\ MadeBefore(work'[a], turn')
  <2>1. work'[a] \subseteq work[a] \union items
    BY <1>4, <1>12
  <2>. QED
    BY <1>9, <1>10, <2>1 DEF Undisputed, MadeBefore
<1>15. \A l \in lost' : l.made < l.offered
  BY <1>4 DEF WorkInv
<1>16. turn' \in Nat
  BY <1>4 DEF WorkInv
<1>. QED
  BY <1>3, <1>7, <1>11, <1>13, <1>14, <1>15, <1>16 DEF WorkInv

LEMMA ConsumeKeeps ==
    ASSUME WorkInv, NEW p \in Planner, NEW item \in work[p], Work!Consume(p, item)
    PROVE  WorkInv'
<1>1. /\ work \in [Planner -> SUBSET WorkItem]
      /\ queue' = [x \in DOMAIN queue \ {item.id} |-> queue[x]]
      /\ offered' = [x \in DOMAIN offered \ {item.id} |-> offered[x]]
      /\ work' = [work EXCEPT ![p] = @ \ {item}] /\ last' = last /\ turn' = turn
  BY DEF Work!Consume, Work!Without, WorkInv
<1>2. queue' \in Queues
  <2>1. PICK ids \in SUBSET (ToSet(Reasons) \X ToSet(StrategyOrder)) : queue \in [ids -> Request]
    BY DEF WorkInv, Queues
  <2>2. queue' \in [ids \ {item.id} -> Request]
    BY <1>1, <2>1
  <2>. QED
    BY <2>2 DEF Queues
<1>3. Offers(queue', offered') /\ DOMAIN queue' \subseteq DOMAIN last'
  BY <1>1 DEF WorkInv, Offers
<1>4. ASSUME NEW a \in Planner
      PROVE  Undisputed(work'[a], queue', last') /\ MadeBefore(work'[a], turn')
  <2>1. work'[a] \subseteq work[a]
    BY <1>1
  <2>2. \A id \in DOMAIN queue' : id \in DOMAIN queue /\ queue'[id] = queue[id]
    BY <1>1
  <2>. QED
    BY <1>1, <2>1, <2>2 DEF WorkInv, Undisputed, MadeBefore
<1>5. ASSUME NEW l \in lost'
      PROVE  l.made < l.offered
  <2>1. CASE l \in lost
    BY <2>1 DEF WorkInv
  <2>2. CASE l \notin lost
    <3>1. PICK id \in DOMAIN queue : /\ id = item.id /\ queue[id].priority # item.priority
                                     /\ l = [made |-> item.turn, offered |-> last[id]]
      BY <2>2 DEF Work!Consume
    <3>2. item.turn < last[id]
      BY <3>1 DEF WorkInv, Undisputed
    <3>. QED
      BY <3>1, <3>2
  <2>. QED
    BY <2>1, <2>2
<1>6. work' \in [Planner -> SUBSET WorkItem]
  BY <1>1
<1>7. turn' \in Nat
  BY <1>1 DEF WorkInv
<1>. QED
  BY <1>2, <1>3, <1>4, <1>5, <1>6, <1>7 DEF WorkInv

LEMMA AbandonKeeps ==
    ASSUME WorkInv, NEW p \in Planner, Work!Abandon(p)
    PROVE  WorkInv'
BY DEF WorkInv, Work!Abandon, Undisputed, MadeBefore

LEMMA WorkInvariant ==
    ASSUME PlansTyped
    PROVE  FactorySpec => []WorkInv
<1>1. FactoryInit => WorkInv
  <2>. SUFFICES ASSUME FactoryInit
                PROVE  WorkInv
    OBVIOUS
  <2>1. /\ queue = <<>> /\ offered = <<>> /\ last = <<>> /\ lost = {}
        /\ work = [p \in Planner |-> {}] /\ turn = 0
    BY DEF FactoryInit, Work!Init
  <2>2. <<>> \in [{} -> Request]
    OBVIOUS
  <2>3. queue \in Queues
    BY <2>1, <2>2 DEF Queues
  <2>. QED
    BY <2>1, <2>3 DEF WorkInv, Offers, Undisputed, MadeBefore
<1>2. WorkInv /\ [FactoryNext]_allVars => WorkInv'
  <2>1. UNCHANGED workVars /\ WorkInv => WorkInv'
    BY DEF WorkInv, workVars
  <2>. QED
    BY <2>1, ExecuteKeeps, ConsumeKeeps, AbandonKeeps DEF FactoryNext, Work!Next, allVars
<1>. QED
  BY <1>1, <1>2, PTL DEF FactorySpec
-----------------------------------------------------------------------------
(* Orders on finite sets *)

\* R is a strict total order on S.
IsOrder(R, S) ==
    /\ \A a \in S : <<a, a>> \notin R
    /\ \A a, b \in S : a # b => <<a, b>> \in R \/ <<b, a>> \in R
    /\ \A a, b, c \in S : <<a, b>> \in R /\ <<b, c>> \in R => <<a, c>> \in R

\* k comes first in S.
IsFirst(R, S, k) == k \in S /\ \A j \in S \ {k} : <<k, j>> \in R

\* One more element has a place before the first or after it.
LEMMA FirstOfMore ==
    ASSUME NEW T, NEW R, NEW U \in SUBSET T, NEW m \in T,
           U # {} => \E k : IsFirst(R, U, k),
           \A a, b \in T : a # b => <<a, b>> \in R \/ <<b, a>> \in R,
           \A a, b, c \in T : <<a, b>> \in R /\ <<b, c>> \in R => <<a, c>> \in R
    PROVE  \E k : IsFirst(R, U \union {m}, k)
<1>1. CASE U = {}
  <2>1. IsFirst(R, U \union {m}, m)
    BY <1>1 DEF IsFirst
  <2>. QED
    BY <2>1
<1>2. CASE U # {}
  <2>1. PICK k : IsFirst(R, U, k)
    BY <1>2
  <2>2. CASE k = m \/ <<k, m>> \in R
    <3>1. IsFirst(R, U \union {m}, k)
      BY <2>1, <2>2 DEF IsFirst
    <3>. QED
      BY <3>1
  <2>3. CASE <<m, k>> \in R
    <3>1. \A j \in U \ {k} : <<m, j>> \in R
      BY <2>1, <2>3 DEF IsFirst
    <3>2. IsFirst(R, U \union {m}, m)
      BY <2>1, <2>3, <3>1 DEF IsFirst
    <3>. QED
      BY <3>2
  <2>4. k \in T
    BY <2>1 DEF IsFirst
  <2>. QED
    BY <2>2, <2>3, <2>4
<1>. QED
  BY <1>1, <1>2

\* What min(candidates, key=...) returns is there.
LEMMA FirstOf ==
    ASSUME NEW n \in Nat, NEW T \in SUBSET (1 .. n), T # {}, NEW R,
           \A a, b \in T : a # b => <<a, b>> \in R \/ <<b, a>> \in R,
           \A a, b, c \in T : <<a, b>> \in R /\ <<b, c>> \in R => <<a, c>> \in R
    PROVE  \E k : IsFirst(R, T, k)
<1>. DEFINE U(m) == T \cap (1 .. m)
            S == {m \in 0 .. n : U(m) # {} => \E k : IsFirst(R, U(m), k)}
<1>1. 0 \in S
  OBVIOUS
<1>2. ASSUME NEW m \in 1 .. n, m - 1 \in S
      PROVE  m \in S
  <2>1. /\ U(m) = U(m - 1) \union (T \cap {m})
        /\ U(m - 1) \in SUBSET T
        /\ m \in 0 .. n
    OBVIOUS
  <2>2. U(m - 1) # {} => \E k : IsFirst(R, U(m - 1), k)
    BY <1>2
  <2>. SUFFICES U(m) # {} => \E k : IsFirst(R, U(m), k)
    BY <2>1
  <2>. HIDE DEF U, S
  <2>3. CASE m \in T
    <3>1. \E k : IsFirst(R, U(m - 1) \union {m}, k)
      BY <2>1, <2>2, <2>3, FirstOfMore
    <3>2. U(m) = U(m - 1) \union {m}
      BY <2>1, <2>3
    <3>. QED
      BY <3>1, <3>2
  <2>4. CASE m \notin T
    <3>1. U(m) = U(m - 1)
      BY <2>1, <2>4
    <3>. QED
      BY <2>2, <3>1
  <2>. QED
    BY <2>3, <2>4
<1>. HIDE DEF S
<1>3. 0 .. n \subseteq S
  BY <1>1, <1>2, QueueFold!UpTo
<1>4. n \in S
  BY <1>3
<1>5. U(n) = T
  OBVIOUS
<1>. HIDE DEF U
<1>. QED
  BY <1>4, <1>5 DEF S

\* What a sort puts before k.
Behind(R, K, k) == {a \in K : <<a, k>> \in R}

\* Each place of a sorted list is taken, and by one element.
LEMMA PlacesTaken ==
    ASSUME NEW K, IsFiniteSet(K), NEW R, IsOrder(R, K)
    PROVE  /\ \A i \in 1 .. Cardinality(K) : \E k \in K : Cardinality(Behind(R, K, k)) = i - 1
           /\ \A k, j \in K :
                 Cardinality(Behind(R, K, k)) = Cardinality(Behind(R, K, j)) => k = j
<1>. DEFINE before(k) == Behind(R, K, k)
            f == [k \in K |-> Cardinality(before(k))]
<1>0. PICK n \in Nat : n = Cardinality(K)
  BY FS_CardinalityType
<1>2. ASSUME NEW k \in K
      PROVE  /\ IsFiniteSet(before(k)) /\ Cardinality(before(k)) \in 0 .. n - 1
             /\ k \notin before(k)
  <2>1. before(k) \in SUBSET (K \ {k}) /\ k \notin before(k)
    BY DEF IsOrder, Behind
  <2>2. IsFiniteSet(K \ {k}) /\ Cardinality(K \ {k}) = n - 1
    BY <1>0, FS_RemoveElement
  <2>. HIDE DEF before
  <2>3. IsFiniteSet(before(k)) /\ Cardinality(before(k)) <= Cardinality(K \ {k})
    BY <2>1, <2>2, FS_Subset
  <2>4. Cardinality(before(k)) \in Nat
    BY <2>3, FS_CardinalityType
  <2>. QED
    BY <1>0, <2>1, <2>2, <2>3, <2>4
<1>3. ASSUME NEW k \in K, NEW j \in K, <<k, j>> \in R
      PROVE  Cardinality(before(k)) # Cardinality(before(j))
  <2>1. before(k) \in SUBSET before(j)
    BY <1>3 DEF IsOrder, Behind
  <2>2. k \in before(j)
    BY <1>3 DEF Behind
  <2>3. k \notin before(k) /\ IsFiniteSet(before(j)) /\ IsFiniteSet(before(k))
    BY <1>2
  <2>. HIDE DEF before
  <2>4. before(k) # before(j)
    BY <2>2, <2>3
  <2>. QED
    BY <2>1, <2>3, <2>4, FS_Subset
<1>4. ASSUME NEW k \in K, NEW j \in K, Cardinality(before(k)) = Cardinality(before(j))
      PROVE  k = j
  <2>. HIDE DEF before
  <2>. QED
    BY <1>3, <1>4 DEF IsOrder
<1>5. f \in Injection(K, 0 .. n - 1)
  <2>. HIDE DEF before
  <2>. QED
    BY <1>2, <1>4 DEF Injection, IsInjective
<1>6. IsFiniteSet(0 .. n - 1) /\ Cardinality(0 .. n - 1) = n
  <2>1. IsFiniteSet(0 .. n - 1)
        /\ Cardinality(0 .. n - 1) = IF 0 > n - 1 THEN 0 ELSE (n - 1) - 0 + 1
    BY FS_Interval
  <2>. QED
    BY <2>1
<1>7. f \in Surjection(K, 0 .. n - 1)
  <2>. HIDE DEF f
  <2>. QED
    BY <1>0, <1>5, <1>6, FS_Injection
<1>8. \A i \in 1 .. n : \E k \in K : Cardinality(before(k)) = i - 1
  <2>. HIDE DEF before
  <2>1. \A y \in 0 .. n - 1 : \E k \in K : f[k] = y
    BY <1>7 DEF Surjection
  <2>2. \A i \in 1 .. n : i - 1 \in 0 .. n - 1
    OBVIOUS
  <2>. QED
    BY <2>1, <2>2
<1>. QED
  BY <1>0, <1>4, <1>8
-----------------------------------------------------------------------------
(* The ranking of the director *)

LEMMA MaxIs ==
    ASSUME NEW n \in Nat, NEW s \in SUBSET (0 .. n), s # {}
    PROVE  Max(s) \in s /\ \A x \in s : x <= Max(s)
BY QueueFold!Maximum DEF Max, QueueFold!Max

Signalled ==
    [strategy : ToSet(StrategyOrder), reason : ToSet(Reasons), merit : Merits, sum : Nat]

LEMMA MeritsAre == Merits \subseteq Nat /\ \E n \in Nat : Merits = 0 .. n
<1>1. PICK n \in Nat : n = 1000
  OBVIOUS
<1>2. Merits = 0 .. n
  BY <1>1, Zenon DEF Merits
<1>. QED
  BY <1>2

LEMMA PlaceIs ==
    ASSUME NEW seq, NEW x \in ToSet(seq)
    PROVE  Place(seq, x) \in DOMAIN seq /\ seq[Place(seq, x)] = x
BY DEF Place, ToSet

LEMMA PlacesAreNumbers == DOMAIN Reasons \subseteq Int /\ DOMAIN StrategyOrder \subseteq Int
<1>1. DOMAIN Reasons = 1 .. 4
  BY DEF Reasons
<1>2. StrategyOrder \in Seq(ToSet(StrategyOrder))
  BY PlanningAssumption DEF PlanningAssumption
<1>. QED
  BY <1>1, <1>2

LEMMA SignalsTyped ==
    ASSUME NEW e, IsEvidence(e)
    PROVE  Signals(e) \in Seq(Signalled)
<1>. DEFINE own == [i \in DOMAIN e.evaluations |->
                       Signal(e.evaluations[i].strategy, ReasonOf(e.evaluations[i]),
                              e.evaluations[i])]
            held == [i \in DOMAIN e.portfolio.selected |->
                       Signal(e.portfolio.selected[i], PortfolioReason(e.portfolio), e.portfolio)]
<1>1. own \in Seq(Signalled)
  <2>1. ASSUME NEW v \in Evaluation
        PROVE  Signal(v.strategy, ReasonOf(v), v) \in Signalled
    <3>1. ReasonOf(v) \in ToSet(Reasons)
      BY DEF ReasonOf, Evaluation, Reasons, ToSet
    <3>. QED
      BY <3>1 DEF Evaluation, Signal, Signalled
  <2>2. e.evaluations \in Seq(Evaluation)
    BY DEF IsEvidence
  <2>3. \A i \in DOMAIN e.evaluations :
            Signal(e.evaluations[i].strategy, ReasonOf(e.evaluations[i]), e.evaluations[i])
                \in Signalled
    BY <2>1, <2>2
  <2>4. DOMAIN e.evaluations = 1 .. Len(e.evaluations) /\ Len(e.evaluations) \in Nat
    BY <2>2
  <2>. QED
    BY <2>3, <2>4
<1>2. held \in Seq(Signalled)
  <2>1. /\ e.portfolio.selected \in Seq(ToSet(StrategyOrder))
        /\ e.portfolio.admitted \in BOOLEAN /\ e.portfolio.correlated \in BOOLEAN
        /\ e.portfolio.merit \in Merits /\ e.portfolio.sum \in Nat
    <3>1. \A v \in Intelligence :
             /\ v.selected \in Seq(ToSet(StrategyOrder))
             /\ v.admitted \in BOOLEAN /\ v.correlated \in BOOLEAN
             /\ v.merit \in Merits /\ v.sum \in Nat
      BY DEF Intelligence
    <3>2. e.portfolio \in Intelligence
      BY DEF IsEvidence
    <3>. QED
      BY <3>1, <3>2
  <2>2. PortfolioReason(e.portfolio) \in ToSet(Reasons)
    BY <2>1 DEF PortfolioReason, Reasons, ToSet
  <2>3. \A i \in DOMAIN e.portfolio.selected :
            Signal(e.portfolio.selected[i], PortfolioReason(e.portfolio), e.portfolio)
                \in Signalled
    BY <2>1, <2>2 DEF Signal, Signalled
  <2>4. DOMAIN e.portfolio.selected = 1 .. Len(e.portfolio.selected)
        /\ Len(e.portfolio.selected) \in Nat
    BY <2>1
  <2>. QED
    BY <2>3, <2>4
<1>. HIDE DEF own, held
<1>3. own \o held \in Seq(Signalled)
  BY <1>1, <1>2
<1>. QED
  BY <1>3 DEF Signals, own, held

LEMMA KeysTyped ==
    ASSUME NEW signals \in Seq(Signalled)
    PROVE  /\ Keys(signals) \subseteq ToSet(Reasons) \X ToSet(StrategyOrder)
           /\ IsFiniteSet(Keys(signals))
<1>1. \A i \in DOMAIN signals : Key(signals[i]) \in ToSet(Reasons) \X ToSet(StrategyOrder)
  <2>1. \A x \in Signalled : Key(x) \in ToSet(Reasons) \X ToSet(StrategyOrder)
    BY DEF Key, Signalled
  <2>2. \A i \in DOMAIN signals : signals[i] \in Signalled
    OBVIOUS
  <2>. QED
    BY <2>1, <2>2
<1>2. IsFiniteSet(DOMAIN signals)
  <2>1. Len(signals) \in Nat /\ 1 \in Int /\ DOMAIN signals = 1 .. Len(signals)
    OBVIOUS
  <2>2. IsFiniteSet(1 .. Len(signals))
    BY <2>1, FS_Interval
  <2>. QED
    BY <2>1, <2>2
<1>. DEFINE f == [i \in DOMAIN signals |-> Key(signals[i])]
<1>3. f \in Surjection(DOMAIN signals, Keys(signals))
  BY DEF Surjection, Keys
<1>. HIDE DEF f
<1>4. IsFiniteSet(Keys(signals))
  BY <1>2, <1>3, FS_Surjection
<1>. QED
  BY <1>1, <1>4 DEF Keys

LEMMA BestIs ==
    ASSUME NEW signals \in Seq(Signalled), NEW k \in Keys(signals)
    PROVE  Best(signals, k) \in Merits
<1>. DEFINE S == {signals[i].merit : i \in {j \in DOMAIN signals : Key(signals[j]) = k}}
<1>1. S \in SUBSET Merits
  <2>1. \A x \in Signalled : x.merit \in Merits
    BY DEF Signalled
  <2>2. \A i \in DOMAIN signals : signals[i] \in Signalled
    OBVIOUS
  <2>. QED
    BY <2>1, <2>2
<1>2. S # {}
  BY DEF Keys
<1>. HIDE DEF S
<1>3. Max(S) \in S
  <2>1. PICK n \in Nat : Merits = 0 .. n
    BY MeritsAre
  <2>. QED
    BY <1>1, <1>2, <2>1, MaxIs
<1>4. Max(S) \in Merits
  BY <1>1, <1>3
<1>. QED
  BY <1>4, Zenon DEF Best, S

LEMMA AheadIs ==
    ASSUME NEW signals, NEW a, NEW b
    PROVE  Ahead(signals, a, b) <=>
           \/ -Best(signals, a) < -Best(signals, b)
           \/ /\ -Best(signals, a) = -Best(signals, b)
              /\ Place(Reasons, a[1]) < Place(Reasons, b[1])
           \/ /\ -Best(signals, a) = -Best(signals, b)
              /\ Place(Reasons, a[1]) = Place(Reasons, b[1])
              /\ Place(StrategyOrder, a[2]) < Place(StrategyOrder, b[2])
<1>. DEFINE rank(k) == <<-Best(signals, k), Place(Reasons, k[1]), Place(StrategyOrder, k[2])>>
            less(i) == rank(a)[i] < rank(b)[i] /\ \A j \in 1 .. i - 1 : rank(a)[j] = rank(b)[j]
<1>1. Ahead(signals, a, b) <=> \E i \in 1 .. 3 : less(i)
  BY DEF Ahead
<1>. HIDE DEF rank
<1>2. /\ less(1) <=> rank(a)[1] < rank(b)[1]
      /\ less(2) <=> rank(a)[2] < rank(b)[2] /\ rank(a)[1] = rank(b)[1]
      /\ less(3) <=> /\ rank(a)[3] < rank(b)[3]
                     /\ rank(a)[1] = rank(b)[1] /\ rank(a)[2] = rank(b)[2]
  OBVIOUS
<1>. HIDE DEF less
<1>3. Ahead(signals, a, b) <=> less(1) \/ less(2) \/ less(3)
  BY <1>1
<1>. QED
  BY <1>2, <1>3 DEF rank

LEMMA AheadIsOrder ==
    ASSUME NEW signals \in Seq(Signalled)
    PROVE  LET K == Keys(signals)
           IN  IsOrder({pair \in K \X K : Ahead(signals, pair[1], pair[2])}, K)
<1>. DEFINE K == Keys(signals)
            R == {pair \in K \X K : Ahead(signals, pair[1], pair[2])}
            m(k) == -Best(signals, k)
            r(k) == Place(Reasons, k[1])
            s(k) == Place(StrategyOrder, k[2])
<1>1. ASSUME NEW k \in K
      PROVE  /\ m(k) \in Int /\ r(k) \in Int /\ s(k) \in Int
             /\ k = <<Reasons[r(k)], StrategyOrder[s(k)]>>
  <2>1. k \in ToSet(Reasons) \X ToSet(StrategyOrder)
    BY KeysTyped
  <2>2. Best(signals, k) \in Nat
    BY BestIs, MeritsAre
  <2>3. k[1] \in ToSet(Reasons) /\ k[2] \in ToSet(StrategyOrder) /\ k = <<k[1], k[2]>>
    BY <2>1
  <2>4. DOMAIN Reasons \subseteq Int /\ DOMAIN StrategyOrder \subseteq Int
    BY PlacesAreNumbers
  <2>5. r(k) \in DOMAIN Reasons /\ Reasons[r(k)] = k[1]
    BY <2>3, PlaceIs
  <2>6. s(k) \in DOMAIN StrategyOrder /\ StrategyOrder[s(k)] = k[2]
    BY <2>3, PlaceIs
  <2>7. m(k) \in Int
    BY <2>2
  <2>. QED
    BY <2>3, <2>4, <2>5, <2>6, <2>7
<1>2. ASSUME NEW a \in K, NEW b \in K
      PROVE  <<a, b>> \in R <=> \/ m(a) < m(b)
                                \/ m(a) = m(b) /\ r(a) < r(b)
                                \/ m(a) = m(b) /\ r(a) = r(b) /\ s(a) < s(b)
  BY AheadIs
<1>. HIDE DEF K, R, m, r, s
<1>3. ASSUME NEW a \in K, NEW b \in K, a # b
      PROVE  <<a, b>> \in R \/ <<b, a>> \in R
  BY <1>1, <1>2, <1>3
<1>4. ASSUME NEW a \in K, NEW b \in K, NEW c \in K, <<a, b>> \in R, <<b, c>> \in R
      PROVE  <<a, c>> \in R
  BY <1>1, <1>2, <1>4, SMTT(30)
<1>5. ASSUME NEW a \in K
      PROVE  <<a, a>> \notin R
  <2>1. m(a) \in Int /\ r(a) \in Int /\ s(a) \in Int
    BY <1>1
  <2>2. <<a, a>> \in R <=> \/ m(a) < m(a)
                           \/ m(a) = m(a) /\ r(a) < r(a)
                           \/ m(a) = m(a) /\ r(a) = r(a) /\ s(a) < s(a)
    BY <1>2
  <2>. QED
    BY <2>1, <2>2
<1>6. IsOrder(R, K)
  BY <1>3, <1>4, <1>5 DEF IsOrder
<1>. QED
  BY <1>6 DEF R, K

\* The ranking lists every key once.
LEMMA RankedIs ==
    ASSUME NEW signals \in Seq(Signalled)
    PROVE  /\ Cardinality(Keys(signals)) \in Nat
           /\ Ranked(signals) \in [1 .. Cardinality(Keys(signals)) -> Keys(signals)]
           /\ \A i, j \in 1 .. Cardinality(Keys(signals)) :
                 i # j => Ranked(signals)[i] # Ranked(signals)[j]
<1>. DEFINE K == Keys(signals)
            R == {pair \in K \X K : Ahead(signals, pair[1], pair[2])}
            n == Cardinality(K)
            before(k) == Behind(R, K, k)
            at(i) == CHOOSE k \in K : Cardinality({a \in K : Ahead(signals, a, k)}) = i - 1
            ranked == Ranked(signals)
<1>1. IsFiniteSet(K) /\ IsOrder(R, K)
  BY KeysTyped, AheadIsOrder
<1>2. n \in Nat
  BY <1>1, FS_CardinalityType
<1>3. ranked = [i \in 1 .. n |-> CHOOSE k \in K : Cardinality(before(k)) = i - 1]
  <2>1. ASSUME NEW k \in K
        PROVE  {a \in K : Ahead(signals, a, k)} = before(k)
    BY DEF Behind
  <2>2. ASSUME NEW i \in 1 .. n
        PROVE  at(i) = CHOOSE k \in K : Cardinality(before(k)) = i - 1
    <3>. HIDE DEF before, K
    <3>. QED
      BY <2>1
  <2>3. ranked = [i \in 1 .. n |-> at(i)]
    BY DEF Ranked
  <2>. HIDE DEF at, before, n
  <2>. QED
    BY <2>2, <2>3
<1>. HIDE DEF R, ranked, n
<1>4. \A i \in 1 .. n : \E k \in K : Cardinality(before(k)) = i - 1
  <2>. HIDE DEF K
  <2>1. \A i \in 1 .. Cardinality(K) : \E k \in K : Cardinality(before(k)) = i - 1
    BY <1>1, PlacesTaken
  <2>. QED
    BY <2>1 DEF n
<1>. HIDE DEF K, before
<1>5. \A i \in 1 .. n : ranked[i] \in K /\ Cardinality(before(ranked[i])) = i - 1
  BY <1>3, <1>4
<1>6. \A i, j \in 1 .. n : i # j => ranked[i] # ranked[j]
  BY <1>2, <1>5
<1>7. ranked \in [1 .. n -> K]
  BY <1>3, <1>5
<1>. QED
  BY <1>2, <1>6, <1>7 DEF n, ranked, K

LEMMA OfTwo ==
    ASSUME NEW a \in Int, NEW b \in Int
    PROVE  /\ Min({a, b}) = IF a <= b THEN a ELSE b
           /\ Max({a, b}) = IF a >= b THEN a ELSE b
<1>1. PICK x \in {a, b} : \A y \in {a, b} : x <= y
  OBVIOUS
<1>2. PICK z \in {a, b} : \A y \in {a, b} : z >= y
  OBVIOUS
<1>3. Min({a, b}) \in {a, b} /\ \A y \in {a, b} : Min({a, b}) <= y
  BY <1>1 DEF Min
<1>4. Max({a, b}) \in {a, b} /\ \A y \in {a, b} : Max({a, b}) >= y
  BY <1>2 DEF Max
<1>. QED
  BY <1>3, <1>4

\* The requests are of different keys of the signals.
LEMMA PrioritizeIs ==
    ASSUME NEW signals \in Seq(Signalled)
    PROVE  /\ Prioritize(signals) \in Seq(Request)
           /\ \A i \in DOMAIN Prioritize(signals) : Prioritize(signals)[i].id \in Keys(signals)
           /\ \A i, j \in DOMAIN Prioritize(signals) :
                 i # j => Prioritize(signals)[i].id # Prioritize(signals)[j].id
<1>. DEFINE K == Keys(signals)
            ranked == Ranked(signals)
            m == Min({MaxRequests, Len(ranked)})
            requests == Prioritize(signals)
<1>1. PICK n \in Nat : /\ n = Cardinality(K) /\ ranked \in [1 .. n -> K]
                       /\ \A i, j \in 1 .. n : i # j => ranked[i] # ranked[j]
  BY RankedIs
<1>2. /\ K \subseteq ToSet(Reasons) \X ToSet(StrategyOrder)
      /\ \A k \in K : Best(signals, k) \in Nat
  BY KeysTyped, BestIs, MeritsAre
<1>3. requests = [i \in 1 .. m |-> [id |-> ranked[i], priority |-> 1000 - Best(signals, ranked[i])]]
  BY DEF Prioritize
<1>. HIDE DEF K, ranked, m, requests
<1>4. m \in 0 .. n
  <2>1. Len(ranked) = n
    BY <1>1
  <2>2. MaxRequests \in Nat
    BY PlanningAssumption DEF PlanningAssumption
  <2>. QED
    BY <2>1, <2>2, OfTwo DEF m
<1>5. ASSUME NEW i \in 1 .. m
      PROVE  /\ requests[i] \in Request /\ requests[i].id = ranked[i]
             /\ ranked[i] \in K /\ i \in 1 .. n
  <2>1. i \in 1 .. n
    BY <1>4
  <2>2. ranked[i] \in K
    BY <1>1, <2>1
  <2>3. ranked[i] \in ToSet(Reasons) \X ToSet(StrategyOrder) /\ Best(signals, ranked[i]) \in Nat
    BY <1>2, <2>2
  <2>4. requests[i] = [id |-> ranked[i], priority |-> 1000 - Best(signals, ranked[i])]
    BY <1>3
  <2>5. 1000 - Best(signals, ranked[i]) \in Int
    BY <2>3
  <2>6. requests[i] \in Request
    BY <2>3, <2>4, <2>5 DEF Request
  <2>7. requests[i].id = ranked[i]
    BY <2>4
  <2>. QED
    BY <2>1, <2>2, <2>6, <2>7
<1>6. DOMAIN requests = 1 .. m
  BY <1>3
<1>7. requests \in Seq(Request)
  <2>1. requests \in [1 .. m -> Request]
    BY <1>3, <1>5
  <2>. QED
    BY <1>4, <2>1
<1>8. \A i \in DOMAIN requests : requests[i].id \in K
  BY <1>5, <1>6
<1>9. \A i, j \in DOMAIN requests : i # j => requests[i].id # requests[j].id
  BY <1>1, <1>5, <1>6
<1>. QED
  BY <1>7, <1>8, <1>9 DEF requests, K
-----------------------------------------------------------------------------
(* Sums *)

Adding(c, d, x, y) == x + y

SumFold == INSTANCE FoldTheorems WITH Op <- Adding

\* The sums of the places up to each.
IsTotals(totals, f, n) ==
    totals[0] = 0 /\ \A k \in 1 .. n : totals[k] = totals[k - 1] + f[k]

LEMMA SumIs ==
    ASSUME NEW n \in Nat, NEW f \in [1 .. n -> Int]
    PROVE  \E totals \in [0 .. n -> Int] : IsTotals(totals, f, n) /\ Sum(f) = totals[n]
<1>1. f \in Seq(Int) /\ Len(f) = n /\ 0 \in Int
  OBVIOUS
<1>2. SumFold!Closed(0, 0, Int, f)
  BY <1>1 DEF SumFold!Closed, Adding
<1>3. PICK totals \in [0 .. Len(f) -> Int] : SumFold!IsTrace(totals, 0, 0, 0, f)
  BY <1>1, <1>2, SumFold!FoldTrace
<1>4. SumFold!FoldOf(0, 0, 0, f) = Sum(f)
  BY Zenon DEF SumFold!FoldOf, SumFold!FoldLeft, SumFold!MapThenFoldSet, SumFold!Max,
               Sum, FoldLeft, MapThenFoldSet, Max, Adding
<1>5. IsTotals(totals, f, n) /\ Sum(f) = totals[n]
  BY <1>1, <1>3, <1>4 DEF SumFold!IsTrace, Adding, IsTotals
<1>. QED
  BY <1>1, <1>3, <1>5

LEMMA SumExcept ==
    ASSUME NEW n \in Nat, NEW f \in [1 .. n -> Int], NEW i \in 1 .. n, NEW d \in Int
    PROVE  Sum([f EXCEPT ![i] = @ + d]) = Sum(f) + d
<1>. DEFINE g == [f EXCEPT ![i] = @ + d]
<1>1. g \in [1 .. n -> Int] /\ g[i] = f[i] + d /\ \A k \in 1 .. n : k # i => g[k] = f[k]
  OBVIOUS
<1>. HIDE DEF g
<1>2. PICK t \in [0 .. n -> Int] : IsTotals(t, f, n) /\ Sum(f) = t[n]
  BY SumIs
<1>3. PICK u \in [0 .. n -> Int] : IsTotals(u, g, n) /\ Sum(g) = u[n]
  BY <1>1, SumIs
<1>. DEFINE Shifted(k) == (i <= k => u[k] = t[k] + d) /\ (k < i => u[k] = t[k])
            S == {k \in 0 .. n : Shifted(k)}
<1>4. 0 \in S
  BY <1>2, <1>3 DEF IsTotals
<1>5. ASSUME NEW k \in 1 .. n, k - 1 \in S
      PROVE  k \in S
  <2>1. /\ k - 1 \in 0 .. n /\ t[k - 1] \in Int /\ f[k] \in Int
        /\ u[k] = u[k - 1] + g[k] /\ t[k] = t[k - 1] + f[k]
        /\ i <= k - 1 => u[k - 1] = t[k - 1] + d
        /\ k - 1 < i => u[k - 1] = t[k - 1]
    BY <1>2, <1>3, <1>5 DEF IsTotals
  <2>2. CASE k = i
    <3>1. g[k] = f[k] + d /\ u[k - 1] = t[k - 1]
      BY <1>1, <2>1, <2>2
    <3>2. u[k] = t[k - 1] + (f[k] + d) /\ t[k] = t[k - 1] + f[k]
      BY <2>1, <3>1
    <3>3. \A a, b \in Int : a + (b + d) = (a + b) + d
      OBVIOUS
    <3>4. u[k] = t[k] + d
      BY <2>1, <3>2, <3>3
    <3>. QED
      BY <2>2, <3>4
  <2>3. CASE k # i
    <3>1. g[k] = f[k]
      BY <1>1, <2>3
    <3>2. Shifted(k)
      BY <2>1, <2>3, <3>1, SMTT(30)
    <3>. QED
      BY <3>2
  <2>. QED
    BY <2>2, <2>3
<1>. HIDE DEF S
<1>6. 0 .. n \subseteq S
  BY <1>4, <1>5, SumFold!UpTo
<1>7. n \in S
  BY <1>6
<1>8. Sum(g) = Sum(f) + d
  BY <1>2, <1>3, <1>7 DEF S
<1>. QED
  BY <1>8 DEF g

\* A sum of ones counts them.
LEMMA SumOfOnes ==
    ASSUME NEW n \in Nat
    PROVE  Sum([i \in 1 .. n |-> 1]) = n
<1>. DEFINE f == [i \in 1 .. n |-> 1]
<1>1. f \in [1 .. n -> Int] /\ \A k \in 1 .. n : f[k] = 1
  OBVIOUS
<1>. HIDE DEF f
<1>2. PICK t \in [0 .. n -> Int] : IsTotals(t, f, n) /\ Sum(f) = t[n]
  BY <1>1, SumIs
<1>. DEFINE S == {k \in 0 .. n : t[k] = k}
<1>3. 0 \in S /\ \A k \in 1 .. n : k - 1 \in S => k \in S
  BY <1>1, <1>2 DEF IsTotals
<1>. HIDE DEF S
<1>4. 0 .. n \subseteq S
  BY <1>3, SumFold!UpTo
<1>5. n \in S
  BY <1>4
<1>6. Sum(f) = n
  BY <1>2, <1>5 DEF S
<1>. QED
  BY <1>6 DEF f
-----------------------------------------------------------------------------
(* The budget *)

\* Quotients compared by their cross products are in order.
LEMMA CrossProducts ==
    ASSUME NEW a \in Nat, NEW b \in Nat, NEW c \in Nat,
           NEW x \in Nat \ {0}, NEW y \in Nat \ {0}, NEW z \in Nat \ {0},
           a * y <= b * x, b * z <= c * y
    PROVE  a * z <= c * x
<1>1. \A p, q \in Nat : \A r \in Nat \ {0} : p <= q => p * r <= q * r
  OBVIOUS
<1>2. \A p, q \in Nat : \A r \in Nat \ {0} : p * r <= q * r => p <= q
  <2>. SUFFICES ASSUME NEW p \in Nat, NEW q \in Nat, NEW r \in Nat \ {0}, p > q
                PROVE  p * r > q * r
    OBVIOUS
  <2>1. PICK d \in Nat \ {0} : p = q + d
    <3>1. p - q \in Nat \ {0} /\ p = q + (p - q)
      OBVIOUS
    <3>. QED
      BY <3>1
  <2>2. p * r = q * r + d * r
    BY <2>1
  <2>3. d * r > 0 /\ q * r \in Nat /\ d * r \in Nat
    OBVIOUS
  <2>. QED
    BY <2>2, <2>3
<1>3. /\ a * y \in Nat /\ b * x \in Nat /\ b * z \in Nat /\ c * y \in Nat
      /\ a * z \in Nat /\ c * x \in Nat
  OBVIOUS
<1>4. (a * y) * z <= (b * x) * z /\ (b * z) * x <= (c * y) * x
  BY <1>1, <1>3
<1>5. (a * y) * z = (a * z) * y /\ (b * x) * z = (b * z) * x /\ (c * y) * x = (c * x) * y
  OBVIOUS
<1>6. (a * z) * y \in Nat /\ (b * z) * x \in Nat /\ (c * x) * y \in Nat
  OBVIOUS
<1>7. (a * z) * y <= (c * x) * y
  BY <1>4, <1>5, <1>6
<1>. QED
  BY <1>2, <1>3, <1>7

\* L leaves some elements of S equal.
IsWeakOrder(L, S) ==
    /\ \A a, b \in S : <<a, b>> \in L => <<b, a>> \notin L
    /\ \A a, b, c \in S : <<b, a>> \notin L /\ <<c, b>> \notin L => <<c, a>> \notin L

\* T leaves none equal.
Settles(T, S) ==
    /\ \A a, b \in S : a # b => <<a, b>> \in T \/ <<b, a>> \in T
    /\ \A a, b, c \in S : <<a, b>> \in T /\ <<b, c>> \in T => <<a, c>> \in T

IsFirstTied(L, T, S, k) ==
    \A j \in S \ {k} : <<k, j>> \in L \/ (<<j, k>> \notin L /\ <<k, j>> \in T)

\* First by L, and by T among those L leaves equal.
LEMMA FirstOfTied ==
    ASSUME NEW n \in Nat, NEW S \in SUBSET (1 .. n), S # {}, NEW L, NEW T,
           IsWeakOrder(L, S), Settles(T, S)
    PROVE  \E k \in S : IsFirstTied(L, T, S, k)
<1>. DEFINE before(a, b) == <<a, b>> \in L \/ (<<b, a>> \notin L /\ <<a, b>> \in T)
            R == {pair \in S \X S : before(pair[1], pair[2])}
<1>1. \A a, b \in S : <<a, b>> \in R <=> before(a, b)
  OBVIOUS
<1>. HIDE DEF R
<1>2. \A a, b \in S : a # b => <<a, b>> \in R \/ <<b, a>> \in R
  BY <1>1 DEF Settles
<1>3. ASSUME NEW a \in S, NEW b \in S, NEW c \in S, <<a, b>> \in R, <<b, c>> \in R
      PROVE  <<a, c>> \in R
  <2>1. <<b, a>> \notin L /\ <<c, b>> \notin L /\ <<c, a>> \notin L
    BY <1>1, <1>3 DEF IsWeakOrder
  <2>2. CASE <<a, c>> \notin L
    <3>1. <<b, c>> \notin L /\ <<a, b>> \notin L
      BY <2>1, <2>2 DEF IsWeakOrder
    <3>2. <<a, c>> \in T
      BY <1>1, <1>3, <3>1 DEF Settles
    <3>. QED
      BY <1>1, <2>1, <3>2
  <2>. QED
    BY <1>1, <2>2
<1>4. \E k : IsFirst(R, S, k)
  BY <1>2, <1>3, FirstOf
<1>. QED
  BY <1>1, <1>4 DEF IsFirst, IsFirstTied

Shared(n) == [1 .. n -> MinUnits .. MaxUnits]

\* One id for each request.
Identified(ids, n) ==
    /\ ids \in [1 .. n -> ToSet(Reasons) \X ToSet(StrategyOrder)]
    /\ \A i, j \in 1 .. n : i # j => ids[i] # ids[j]

LEMMA CheaperIs ==
    ASSUME NEW n \in Nat, NEW scores \in [1 .. n -> Nat], NEW u \in Shared(n)
    PROVE  /\ \A i, j \in 1 .. n : Cheaper(scores, u, i, j) => ~ Cheaper(scores, u, j, i)
           /\ \A i, j, k \in 1 .. n :
                 ~ Cheaper(scores, u, j, i) /\ ~ Cheaper(scores, u, k, j)
                 => ~ Cheaper(scores, u, k, i)
<1>1. \A i \in 1 .. n : u[i] \in Nat \ {0} /\ scores[i] \in Nat
  BY PlanningAssumption DEF PlanningAssumption, Shared
<1>2. \A i, j \in 1 .. n : scores[i] * u[j] \in Nat
  BY <1>1
<1>3. \A i, j \in 1 .. n : Cheaper(scores, u, i, j) <=> scores[i] * u[j] < scores[j] * u[i]
  BY DEF Cheaper
<1>4. \A i, j \in 1 .. n : ~ Cheaper(scores, u, j, i) <=> scores[i] * u[j] <= scores[j] * u[i]
  BY <1>2, <1>3
<1>5. ASSUME NEW i \in 1 .. n, NEW j \in 1 .. n, NEW k \in 1 .. n,
             ~ Cheaper(scores, u, j, i), ~ Cheaper(scores, u, k, j)
      PROVE  ~ Cheaper(scores, u, k, i)
  <2>1. scores[i] * u[j] <= scores[j] * u[i] /\ scores[j] * u[k] <= scores[k] * u[j]
    BY <1>4, <1>5
  <2>2. scores[i] * u[k] <= scores[k] * u[i]
    BY <1>1, <2>1, CrossProducts
  <2>. QED
    BY <1>4, <2>2
<1>6. ASSUME NEW i \in 1 .. n, NEW j \in 1 .. n
      PROVE  Cheaper(scores, u, i, j) => ~ Cheaper(scores, u, j, i)
  <2>1. PICK p \in Nat, q \in Nat : p = scores[i] * u[j] /\ q = scores[j] * u[i]
    BY <1>2
  <2>. QED
    BY <1>3, <2>1
<1>. QED
  BY <1>5, <1>6

\* One unit less, unless every request is at its minimum.
LEMMA ReduceIs ==
    ASSUME NEW n \in Nat, NEW scores \in [1 .. n -> Nat], NEW u \in Shared(n),
           NEW ids, Identified(ids, n)
    PROVE  /\ Reduce(scores, u, ids) \in Shared(n)
           /\ IF \A i \in 1 .. n : u[i] = MinUnits THEN Reduce(scores, u, ids) = u
              ELSE Sum(Reduce(scores, u, ids)) = Sum(u) - 1
<1>. DEFINE able == {k \in DOMAIN u : u[k] > MinUnits}
            tie(k, j) == \/ Place(Reasons, ids[k][1]) < Place(Reasons, ids[j][1])
                         \/ /\ ids[k][1] = ids[j][1]
                            /\ Place(StrategyOrder, ids[k][2]) < Place(StrategyOrder, ids[j][2])
            least(k) == \A j \in able \ {k} :
                            \/ Cheaper(scores, u, k, j)
                            \/ ~ Cheaper(scores, u, j, k) /\ tie(k, j)
            i == CHOOSE k \in able : least(k)
            v == Reduce(scores, u, ids)
<1>1. v = IF able = {} THEN u ELSE [u EXCEPT ![i] = @ - 1]
  BY Zenon DEF Reduce
<1>2. /\ DOMAIN u = 1 .. n /\ MinUnits \in Nat /\ MaxUnits \in Nat
      /\ \A k \in 1 .. n : u[k] \in MinUnits .. MaxUnits
  BY PlanningAssumption DEF PlanningAssumption, Shared
<1>3. able \in SUBSET (1 .. n)
  BY <1>2
<1>4. \A k, j \in able : k # j => tie(k, j) \/ tie(j, k)
  <2>. SUFFICES ASSUME NEW k \in able, NEW j \in able, k # j
                PROVE  tie(k, j) \/ tie(j, k)
    OBVIOUS
  <2>1. /\ ids[k] \in ToSet(Reasons) \X ToSet(StrategyOrder)
        /\ ids[j] \in ToSet(Reasons) \X ToSet(StrategyOrder)
        /\ ids[k] # ids[j]
    BY <1>2 DEF Identified
  <2>. DEFINE rk == Place(Reasons, ids[k][1])
              rj == Place(Reasons, ids[j][1])
              sk == Place(StrategyOrder, ids[k][2])
              sj == Place(StrategyOrder, ids[j][2])
  <2>2. /\ ids[k][1] \in ToSet(Reasons) /\ ids[j][1] \in ToSet(Reasons)
        /\ ids[k][2] \in ToSet(StrategyOrder) /\ ids[j][2] \in ToSet(StrategyOrder)
        /\ ids[k][1] = ids[j][1] => ids[k][2] # ids[j][2]
    BY <2>1
  <2>3. /\ rk \in Int /\ Reasons[rk] = ids[k][1]
        /\ rj \in Int /\ Reasons[rj] = ids[j][1]
    BY <2>2, PlaceIs, PlacesAreNumbers
  <2>4. /\ sk \in Int /\ StrategyOrder[sk] = ids[k][2]
        /\ sj \in Int /\ StrategyOrder[sj] = ids[j][2]
    BY <2>2, PlaceIs, PlacesAreNumbers
  <2>. HIDE DEF rk, rj, sk, sj
  <2>5. \/ rk < rj \/ rj < rk
        \/ (ids[k][1] = ids[j][1] /\ (sk < sj \/ sj < sk))
    BY <2>2, <2>3, <2>4
  <2>. QED
    BY <2>5 DEF rk, rj, sk, sj
<1>5. \A k, j, l \in able : tie(k, j) /\ tie(j, l) => tie(k, l)
  <2>. DEFINE r(k) == Place(Reasons, ids[k][1])
              s(k) == Place(StrategyOrder, ids[k][2])
  <2>1. \A k \in able : r(k) \in Int /\ s(k) \in Int
    <3>1. \A k \in able : ids[k][1] \in ToSet(Reasons) /\ ids[k][2] \in ToSet(StrategyOrder)
      BY <1>2 DEF Identified
    <3>. QED
      BY <3>1, PlaceIs, PlacesAreNumbers
  <2>2. \A k, j \in able : ids[k][1] = ids[j][1] => r(k) = r(j)
    OBVIOUS
  <2>3. \A k, j \in able : tie(k, j) <=> (r(k) < r(j) \/ (ids[k][1] = ids[j][1] /\ s(k) < s(j)))
    OBVIOUS
  <2>. HIDE DEF r, s, tie, able
  <2>. QED
    BY <2>1, <2>2, <2>3
<1>. HIDE DEF tie, able
<1>6. ASSUME able # {}
      PROVE  \E k \in able : least(k)
  <2>. DEFINE L == {pair \in able \X able : Cheaper(scores, u, pair[1], pair[2])}
              T == {pair \in able \X able : tie(pair[1], pair[2])}
  <2>1. /\ \A k, j \in able : <<k, j>> \in L <=> Cheaper(scores, u, k, j)
        /\ \A k, j \in able : <<k, j>> \in T <=> tie(k, j)
    OBVIOUS
  <2>. HIDE DEF L, T
  <2>2. \A a, b \in able : <<a, b>> \in L => <<b, a>> \notin L
    BY <1>3, <2>1, CheaperIs
  <2>3. \A a, b, c \in able : <<b, a>> \notin L /\ <<c, b>> \notin L => <<c, a>> \notin L
    BY <1>3, <2>1, CheaperIs
  <2>4. \A a, b \in able : a # b => <<a, b>> \in T \/ <<b, a>> \in T
    BY <1>4, <2>1
  <2>5. \A a, b, c \in able : <<a, b>> \in T /\ <<b, c>> \in T => <<a, c>> \in T
    BY <1>5, <2>1
  <2>6. \E k \in able : IsFirstTied(L, T, able, k)
    <3>1. IsWeakOrder(L, able) /\ Settles(T, able)
      BY <2>2, <2>3, <2>4, <2>5 DEF IsWeakOrder, Settles
    <3>. QED
      BY <1>3, <1>6, <3>1, FirstOfTied
  <2>. QED
    BY <2>1, <2>6 DEF IsFirstTied
<1>. HIDE DEF least, v
<1>7. CASE able = {}
  <2>1. \A k \in 1 .. n : ~ (u[k] > MinUnits)
    BY <1>2, <1>7 DEF able
  <2>2. \A k \in 1 .. n : u[k] = MinUnits
    BY <1>2, <2>1
  <2>3. v = u
    BY <1>1, <1>7
  <2>. QED
    BY <2>2, <2>3 DEF v
<1>8. CASE able # {}
  <2>1. i \in able
    BY <1>6, <1>8
  <2>. HIDE DEF i
  <2>2. i \in 1 .. n /\ u[i] > MinUnits
    BY <1>2, <2>1 DEF able
  <2>3. v = [u EXCEPT ![i] = @ + (-1)]
    BY <1>1, <1>2, <1>8, <2>2
  <2>4. v \in Shared(n)
    BY <1>2, <2>2, <2>3 DEF Shared
  <2>5. u \in [1 .. n -> Int] /\ -1 \in Int
    BY <1>2 DEF Shared
  <2>6. Sum(v) = Sum(u) + (-1)
    BY <2>2, <2>3, <2>5, SumExcept
  <2>7. Sum(u) \in Int
    BY <2>5, SumIs
  <2>. QED
    BY <1>2, <2>2, <2>4, <2>6, <2>7 DEF v
<1>. QED
  BY <1>7, <1>8

\* One unit more, unless every request is at its maximum.
LEMMA GrowIs ==
    ASSUME NEW n \in Nat, NEW scores \in [1 .. n -> Nat], NEW u \in Shared(n)
    PROVE  /\ Grow(scores, u) \in Shared(n)
           /\ IF \A i \in 1 .. n : u[i] = MaxUnits THEN Grow(scores, u) = u
              ELSE Sum(Grow(scores, u)) = Sum(u) + 1
<1>. DEFINE able == {k \in DOMAIN u : u[k] < MaxUnits}
            most(k) == \A j \in able \ {k} :
                           \/ Cheaper(scores, u, j, k)
                           \/ ~ Cheaper(scores, u, k, j) /\ k < j
            i == CHOOSE k \in able : most(k)
            v == Grow(scores, u)
<1>1. v = IF able = {} THEN u ELSE [u EXCEPT ![i] = @ + 1]
  BY Zenon DEF Grow
<1>2. /\ DOMAIN u = 1 .. n /\ MinUnits \in Nat /\ MaxUnits \in Nat
      /\ \A k \in 1 .. n : u[k] \in MinUnits .. MaxUnits
  BY PlanningAssumption DEF PlanningAssumption, Shared
<1>3. able \in SUBSET (1 .. n)
  BY <1>2
<1>. HIDE DEF able
<1>4. ASSUME able # {}
      PROVE  \E k \in able : most(k)
  <2>. DEFINE L == {pair \in able \X able : Cheaper(scores, u, pair[2], pair[1])}
              T == {pair \in able \X able : pair[1] < pair[2]}
  <2>1. /\ \A k, j \in able : <<k, j>> \in L <=> Cheaper(scores, u, j, k)
        /\ \A k, j \in able : <<k, j>> \in T <=> k < j
    OBVIOUS
  <2>. HIDE DEF L, T
  <2>2. IsWeakOrder(L, able)
    <3>1. \A a, b \in able : <<a, b>> \in L => <<b, a>> \notin L
      BY <1>3, <2>1, CheaperIs
    <3>2. \A a, b, c \in able : <<b, a>> \notin L /\ <<c, b>> \notin L => <<c, a>> \notin L
      BY <1>3, <2>1, CheaperIs
    <3>. QED
      BY <3>1, <3>2 DEF IsWeakOrder
  <2>3. Settles(T, able)
    BY <1>3, <2>1 DEF Settles
  <2>4. \E k \in able : IsFirstTied(L, T, able, k)
    BY <1>3, <1>4, <2>2, <2>3, FirstOfTied
  <2>. QED
    BY <2>1, <2>4 DEF IsFirstTied
<1>. HIDE DEF most, v
<1>5. CASE able = {}
  <2>1. \A k \in 1 .. n : ~ (u[k] < MaxUnits)
    BY <1>2, <1>5 DEF able
  <2>2. \A k \in 1 .. n : u[k] = MaxUnits
    BY <1>2, <2>1
  <2>3. v = u
    BY <1>1, <1>5
  <2>. QED
    BY <2>2, <2>3 DEF v
<1>6. CASE able # {}
  <2>1. i \in able
    BY <1>4, <1>6
  <2>. HIDE DEF i
  <2>2. i \in 1 .. n /\ u[i] < MaxUnits
    BY <1>2, <2>1 DEF able
  <2>3. v = [u EXCEPT ![i] = @ + 1]
    BY <1>1, <1>2, <1>6, <2>2
  <2>4. v \in Shared(n)
    BY <1>2, <2>2, <2>3 DEF Shared
  <2>5. u \in [1 .. n -> Int] /\ 1 \in Int
    BY <1>2 DEF Shared
  <2>6. Sum(v) = Sum(u) + 1
    BY <2>2, <2>3, <2>5, SumExcept
  <2>. QED
    BY <1>2, <2>2, <2>4, <2>6 DEF v
<1>. QED
  BY <1>5, <1>6

Reducing(c, d, u, k) == Reduce(c, u, d)
Growing(c, d, u, k) == Grow(c, u)

ReduceFold == INSTANCE FoldTheorems WITH Op <- Reducing
GrowFold == INSTANCE FoldTheorems WITH Op <- Growing

LEMMA StepsAre ==
    ASSUME NEW m \in Int
    PROVE  /\ [k \in 1 .. m |-> k] \in Seq(Int)
           /\ Len([k \in 1 .. m |-> k]) = IF m > 0 THEN m ELSE 0
<1>. DEFINE seq == [k \in 1 .. m |-> k]
<1>1. CASE m > 0
  BY <1>1
<1>2. CASE ~ (m > 0)
  <2>1. 1 .. m = 1 .. 0
    BY <1>2
  <2>2. seq = [k \in 1 .. 0 |-> k]
    BY <2>1
  <2>. HIDE DEF seq
  <2>3. seq \in Seq(Int) /\ Len(seq) = 0
    BY <2>2
  <2>. QED
    BY <1>2, <2>3 DEF seq
<1>. QED
  BY <1>1, <1>2

IsReduced(reduced, n, scores, shares, ids, m) ==
    /\ reduced \in Shared(n)
    /\ reduced = FoldLeft(LAMBDA u, k : Reduce(scores, u, ids), shares, [k \in 1 .. m |-> k])
    /\ \/ m > 0 /\ Sum(reduced) = Sum(shares) - m
       \/ ~ (m > 0) /\ Sum(reduced) = Sum(shares)
       \/ /\ m > 0 /\ Sum(reduced) >= Sum(shares) - m
          /\ \A i \in 1 .. n : reduced[i] = MinUnits

\* m units are taken, or every request is at its minimum before.
LEMMA ReducedIs ==
    ASSUME NEW n \in Nat, NEW scores \in [1 .. n -> Nat], NEW shares \in Shared(n),
           NEW ids, Identified(ids, n), NEW m \in Int
    PROVE  \E reduced : IsReduced(reduced, n, scores, shares, ids, m)
<1>. DEFINE seq == [k \in 1 .. m |-> k]
            steps == Len(seq)
            Left(u, k) == \/ Sum(u) = Sum(shares) - k
                          \/ /\ Sum(u) >= Sum(shares) - k /\ Sum(u) <= Sum(shares)
                             /\ \A i \in 1 .. n : u[i] = MinUnits
            I == [k \in 0 .. steps |-> {u \in Shared(n) : Left(u, k)}]
            reduced == ReduceFold!FoldOf(scores, ids, shares, seq)
<1>1. seq \in Seq(Int) /\ steps = IF m > 0 THEN m ELSE 0
  BY StepsAre
<1>2. reduced = FoldLeft(LAMBDA u, k : Reduce(scores, u, ids), shares, seq)
  BY Zenon DEF ReduceFold!FoldOf, ReduceFold!FoldLeft, ReduceFold!MapThenFoldSet,
               ReduceFold!Max, FoldLeft, MapThenFoldSet, Max, Reducing
<1>3. \A u \in Shared(n) : Sum(u) \in Int
  <2>. SUFFICES ASSUME NEW u \in Shared(n)
                PROVE  Sum(u) \in Int
    OBVIOUS
  <2>1. u \in [1 .. n -> Int]
    BY PlanningAssumption DEF PlanningAssumption, Shared
  <2>. QED
    BY <2>1, SumIs
<1>. HIDE DEF seq, steps, Left, reduced
<1>4. I \in [0 .. steps -> SUBSET Shared(n)]
  OBVIOUS
<1>5. shares \in I[0]
  <2>1. Left(shares, 0) /\ 0 \in 0 .. steps
    BY <1>1, <1>3 DEF Left
  <2>. QED
    BY <2>1
<1>6. ReduceFold!Closed(scores, ids, Shared(n), seq)
  BY ReduceIs DEF ReduceFold!Closed, Reducing
<1>7. ASSUME NEW k \in 1 .. steps, NEW u \in I[k - 1]
      PROVE  Reducing(scores, ids, u, seq[k]) \in I[k]
  <2>1. k \in 0 .. steps /\ k - 1 \in 0 .. steps /\ k \in Int
    BY <1>1
  <2>2. u \in Shared(n) /\ Left(u, k - 1)
    BY <1>7, <2>1
  <2>. DEFINE v == Reduce(scores, u, ids)
  <2>3. /\ v \in Shared(n)
        /\ IF \A i \in 1 .. n : u[i] = MinUnits THEN v = u ELSE Sum(v) = Sum(u) - 1
    BY <2>2, ReduceIs
  <2>. HIDE DEF v
  <2>4. Sum(v) \in Int /\ Sum(u) \in Int /\ Sum(shares) \in Int
    BY <1>3, <2>2, <2>3
  <2>. HIDE DEF I
  <2>5. Left(v, k)
    <3>1. CASE \A i \in 1 .. n : u[i] = MinUnits
      <4>1. v = u /\ Sum(u) >= Sum(shares) - (k - 1) /\ Sum(u) <= Sum(shares)
        BY <2>1, <2>2, <2>3, <2>4, <3>1 DEF Left
      <4>2. Sum(v) >= Sum(shares) - k /\ Sum(v) <= Sum(shares)
        BY <2>1, <2>4, <4>1
      <4>. QED
        BY <3>1, <4>1, <4>2 DEF Left
    <3>2. CASE ~ \A i \in 1 .. n : u[i] = MinUnits
      <4>1. Sum(u) = Sum(shares) - (k - 1) /\ Sum(v) = Sum(u) - 1
        BY <2>2, <2>3, <3>2 DEF Left
      <4>2. Sum(v) = Sum(shares) - k
        BY <2>1, <2>4, <4>1
      <4>. QED
        BY <4>2 DEF Left
    <3>. QED
      BY <3>1, <3>2
  <2>6. v \in I[k]
    BY <2>1, <2>3, <2>5 DEF I
  <2>. QED
    BY <2>6 DEF v, Reducing
<1>. HIDE DEF I
<1>8. reduced \in I[steps]
  BY <1>1, <1>4, <1>5, <1>6, <1>7, ReduceFold!FoldInduction DEF reduced, steps
<1>9. reduced \in Shared(n) /\ Left(reduced, steps)
  BY <1>1, <1>8 DEF I
<1>10. \/ m > 0 /\ Sum(reduced) = Sum(shares) - m
       \/ ~ (m > 0) /\ Sum(reduced) = Sum(shares)
       \/ /\ m > 0 /\ Sum(reduced) >= Sum(shares) - m
          /\ \A i \in 1 .. n : reduced[i] = MinUnits
  <2>. DEFINE r == Sum(reduced)
              s == Sum(shares)
  <2>1. /\ r \in Int /\ s \in Int
        /\ \/ r = s - steps
           \/ /\ r >= s - steps /\ r <= s
              /\ \A i \in 1 .. n : reduced[i] = MinUnits
    BY <1>3, <1>9 DEF Left
  <2>. HIDE DEF r, s
  <2>3. CASE m > 0
    BY <1>1, <2>1, <2>3 DEF r, s
  <2>4. CASE ~ (m > 0)
    BY <1>1, <2>1, <2>4 DEF r, s
  <2>. QED
    BY <2>3, <2>4
<1>. QED
  BY <1>2, <1>9, <1>10, Zenon DEF seq, IsReduced

\* m units are added, or every request is at its maximum before.
LEMMA GrownIs ==
    ASSUME NEW n \in Nat, NEW scores \in [1 .. n -> Nat], NEW base \in Shared(n), NEW m \in Int
    PROVE  \E grown \in Shared(n) :
              /\ grown = FoldLeft(LAMBDA u, k : Grow(scores, u), base, [k \in 1 .. m |-> k])
              /\ \/ m > 0 /\ Sum(grown) = Sum(base) + m
                 \/ ~ (m > 0) /\ grown = base
                 \/ /\ m > 0 /\ Sum(grown) <= Sum(base) + m
                    /\ \A i \in 1 .. n : grown[i] = MaxUnits
<1>. DEFINE seq == [k \in 1 .. m |-> k]
            steps == Len(seq)
            Added(u, k) == /\ k = 0 => u = base
                           /\ \/ Sum(u) = Sum(base) + k
                              \/ Sum(u) <= Sum(base) + k /\ \A i \in 1 .. n : u[i] = MaxUnits
            I == [k \in 0 .. steps |-> {u \in Shared(n) : Added(u, k)}]
            grown == GrowFold!FoldOf(scores, 0, base, seq)
<1>1. seq \in Seq(Int) /\ steps = IF m > 0 THEN m ELSE 0
  BY StepsAre
<1>2. grown = FoldLeft(LAMBDA u, k : Grow(scores, u), base, seq)
  BY Zenon DEF GrowFold!FoldOf, GrowFold!FoldLeft, GrowFold!MapThenFoldSet,
               GrowFold!Max, FoldLeft, MapThenFoldSet, Max, Growing
<1>3. \A u \in Shared(n) : Sum(u) \in Int
  <2>. SUFFICES ASSUME NEW u \in Shared(n)
                PROVE  Sum(u) \in Int
    OBVIOUS
  <2>1. u \in [1 .. n -> Int]
    BY PlanningAssumption DEF PlanningAssumption, Shared
  <2>. QED
    BY <2>1, SumIs
<1>. HIDE DEF seq, steps, Added, grown
<1>4. I \in [0 .. steps -> SUBSET Shared(n)]
  OBVIOUS
<1>5. base \in I[0]
  <2>1. Added(base, 0) /\ 0 \in 0 .. steps
    BY <1>1, <1>3 DEF Added
  <2>. QED
    BY <2>1
<1>6. GrowFold!Closed(scores, 0, Shared(n), seq)
  BY GrowIs DEF GrowFold!Closed, Growing
<1>7. ASSUME NEW k \in 1 .. steps, NEW u \in I[k - 1]
      PROVE  Growing(scores, 0, u, seq[k]) \in I[k]
  <2>1. k \in 0 .. steps /\ k - 1 \in 0 .. steps /\ k \in Int /\ k # 0
    BY <1>1
  <2>2. u \in Shared(n) /\ Added(u, k - 1)
    BY <1>7, <2>1
  <2>. DEFINE v == Grow(scores, u)
  <2>3. /\ v \in Shared(n)
        /\ IF \A i \in 1 .. n : u[i] = MaxUnits THEN v = u ELSE Sum(v) = Sum(u) + 1
    BY <2>2, GrowIs
  <2>. HIDE DEF v
  <2>4. Sum(v) \in Int /\ Sum(u) \in Int /\ Sum(base) \in Int
    BY <1>3, <2>2, <2>3
  <2>. HIDE DEF I
  <2>5. Added(v, k)
    <3>1. CASE \A i \in 1 .. n : u[i] = MaxUnits
      <4>1. v = u /\ Sum(u) <= Sum(base) + (k - 1)
        BY <2>1, <2>2, <2>3, <2>4, <3>1 DEF Added
      <4>2. Sum(v) <= Sum(base) + k
        BY <2>1, <2>4, <4>1
      <4>. QED
        BY <2>1, <3>1, <4>1, <4>2 DEF Added
    <3>2. CASE ~ \A i \in 1 .. n : u[i] = MaxUnits
      <4>1. Sum(u) = Sum(base) + (k - 1) /\ Sum(v) = Sum(u) + 1
        BY <2>2, <2>3, <3>2 DEF Added
      <4>2. Sum(v) = Sum(base) + k
        BY <2>1, <2>4, <4>1
      <4>. QED
        BY <2>1, <4>2 DEF Added
    <3>. QED
      BY <3>1, <3>2
  <2>6. v \in I[k]
    BY <2>1, <2>3, <2>5 DEF I
  <2>. QED
    BY <2>6 DEF v, Growing
<1>. HIDE DEF I
<1>8. grown \in I[steps]
  BY <1>1, <1>4, <1>5, <1>6, <1>7, GrowFold!FoldInduction DEF grown, steps
<1>9. grown \in Shared(n) /\ Added(grown, steps)
  BY <1>1, <1>8 DEF I
<1>10. CASE m > 0
  BY <1>1, <1>2, <1>9, <1>10 DEF Added, seq
<1>11. CASE ~ (m > 0)
  BY <1>1, <1>2, <1>9, <1>11 DEF Added, seq
<1>. QED
  BY <1>10, <1>11

\* The whole budget, within the limits of every request.
LEMMA AllocateIs ==
    ASSUME NEW n \in Nat, NEW sums \in [1 .. n -> Nat], NEW ids, Identified(ids, n)
    PROVE  LET units == Allocate(sums, ids)
           IN  /\ units \in Shared(n)
               /\ Sum(units) > TotalUnits => \A i \in 1 .. n : units[i] = MinUnits
               /\ Sum(units) < TotalUnits => \A i \in 1 .. n : units[i] = MaxUnits
<1>. DEFINE scores == IF Sum(sums) > 0 THEN sums ELSE [i \in DOMAIN sums |-> 1]
            share(i) == Max({MinUnits, Min({MaxUnits, (TotalUnits * scores[i]) \div Sum(scores)})})
            shares == [i \in DOMAIN sums |-> share(i)]
            times(k) == [j \in 1 .. k |-> j]
            reduced == FoldLeft(LAMBDA u, k : Reduce(scores, u, ids), shares,
                                times(Sum(shares) - TotalUnits))
            grown == FoldLeft(LAMBDA u, k : Grow(scores, u), reduced,
                              times(TotalUnits - Sum(reduced)))
<1>1. Allocate(sums, ids) = grown
  BY Zenon DEF Allocate
<1>2. /\ TotalUnits \in Nat /\ MinUnits \in Nat /\ MaxUnits \in Nat /\ MaxUnits >= MinUnits
      /\ DOMAIN sums = 1 .. n /\ Sum(sums) \in Int
  <2>1. sums \in [1 .. n -> Int]
    OBVIOUS
  <2>2. Sum(sums) \in Int
    BY <2>1, SumIs
  <2>. QED
    BY <2>2, PlanningAssumption DEF PlanningAssumption
<1>3. scores \in [1 .. n -> Nat] /\ Sum(scores) \in Int /\ (n > 0 => Sum(scores) > 0)
  <2>1. CASE Sum(sums) > 0
    BY <1>2, <2>1
  <2>2. CASE ~ (Sum(sums) > 0)
    <3>1. scores = [i \in 1 .. n |-> 1]
      BY <1>2, <2>2
    <3>. HIDE DEF scores
    <3>2. Sum(scores) = n
      BY <3>1, SumOfOnes
    <3>. QED
      BY <3>1, <3>2
  <2>. QED
    BY <2>1, <2>2
<1>. HIDE DEF scores, share
<1>4. ASSUME NEW i \in 1 .. n
      PROVE  share(i) \in MinUnits .. MaxUnits
  <2>1. scores[i] \in Nat /\ Sum(scores) \in Nat \ {0}
    BY <1>3
  <2>2. TotalUnits * scores[i] \in Nat
    BY <1>2, <2>1
  <2>3. PICK q \in Int : q = (TotalUnits * scores[i]) \div Sum(scores)
    BY <2>1, <2>2
  <2>4. Max({MinUnits, Min({MaxUnits, q})}) \in MinUnits .. MaxUnits
    <3>1. PICK p \in Int : p = Min({MaxUnits, q}) /\ p <= MaxUnits
      BY <1>2, OfTwo
    <3>2. Max({MinUnits, p}) = IF MinUnits >= p THEN MinUnits ELSE p
      <4>1. MinUnits \in Int
        BY <1>2
      <4>. QED
        BY <3>1, <4>1, OfTwo, Zenon
    <3>3. Max({MinUnits, p}) \in MinUnits .. MaxUnits
      BY <1>2, <3>1, <3>2
    <3>. QED
      BY <3>1, <3>3, Zenon
  <2>. QED
    BY <2>3, <2>4, Zenon DEF share
<1>5. shares \in Shared(n)
  BY <1>2, <1>4 DEF Shared
<1>6. \A u \in Shared(n) : Sum(u) \in Int
  <2>. SUFFICES ASSUME NEW u \in Shared(n)
                PROVE  Sum(u) \in Int
    OBVIOUS
  <2>1. u \in [1 .. n -> Int]
    BY PlanningAssumption DEF PlanningAssumption, Shared
  <2>. QED
    BY <2>1, SumIs
<1>. HIDE DEF shares
<1>7. Sum(shares) \in Int /\ Sum(shares) - TotalUnits \in Int
  BY <1>2, <1>5, <1>6
<1>. DEFINE m == Sum(shares) - TotalUnits
<1>8. PICK r \in Shared(n) :
           /\ r = reduced
           /\ \/ m > 0 /\ Sum(r) = Sum(shares) - m
              \/ ~ (m > 0) /\ Sum(r) = Sum(shares)
              \/ m > 0 /\ Sum(r) >= Sum(shares) - m /\ \A i \in 1 .. n : r[i] = MinUnits
  <2>. HIDE DEF m
  <2>1. m \in Int
    BY <1>7 DEF m
  <2>2. PICK r : IsReduced(r, n, scores, shares, ids, m)
    BY <1>3, <1>5, <2>1, ReducedIs
  <2>. QED
    BY <2>2, Zenon DEF m, IsReduced
<1>. DEFINE d == TotalUnits - Sum(reduced)
<1>9. PICK g \in Shared(n) :
           /\ g = grown
           /\ \/ d > 0 /\ Sum(g) = Sum(reduced) + d
              \/ ~ (d > 0) /\ g = reduced
              \/ d > 0 /\ Sum(g) <= Sum(reduced) + d /\ \A i \in 1 .. n : g[i] = MaxUnits
  <2>. HIDE DEF reduced
  <2>1. d \in Int /\ reduced \in Shared(n)
    BY <1>2, <1>6, <1>8
  <2>. HIDE DEF d
  <2>2. \E g \in Shared(n) :
            /\ g = FoldLeft(LAMBDA u, k : Grow(scores, u), reduced, [k \in 1 .. d |-> k])
            /\ \/ d > 0 /\ Sum(g) = Sum(reduced) + d
               \/ ~ (d > 0) /\ g = reduced
               \/ /\ d > 0 /\ Sum(g) <= Sum(reduced) + d
                  /\ \A i \in 1 .. n : g[i] = MaxUnits
    BY <1>3, <2>1, GrownIs
  <2>. QED
    BY <2>2, Zenon DEF d
<1>. HIDE DEF reduced, grown
<1>10. /\ Sum(r) \in Int /\ Sum(g) \in Int /\ Sum(shares) \in Int /\ TotalUnits \in Int
  BY <1>2, <1>5, <1>6, <1>8, <1>9
<1>11. \/ Sum(r) = TotalUnits
       \/ Sum(r) < TotalUnits
       \/ Sum(r) >= TotalUnits /\ \A i \in 1 .. n : r[i] = MinUnits
  BY <1>8, <1>10
<1>12. CASE Sum(r) < TotalUnits
  <2>1. Sum(g) = TotalUnits \/ (Sum(g) <= TotalUnits /\ \A i \in 1 .. n : g[i] = MaxUnits)
    BY <1>8, <1>9, <1>10, <1>12
  <2>. QED
    BY <1>1, <1>9, <1>10, <2>1
<1>13. CASE Sum(r) >= TotalUnits
  <2>1. g = r
    BY <1>8, <1>9, <1>10, <1>13
  <2>. QED
    BY <1>1, <1>9, <1>10, <1>11, <1>13, <2>1
<1>. QED
  BY <1>10, <1>12, <1>13
-----------------------------------------------------------------------------
(* Plans *)

\* The budget is spent within the limits of the requests.
Spent(units, n) ==
    /\ units \in Shared(n)
    /\ Sum(units) > TotalUnits => \A i \in 1 .. n : units[i] = MinUnits
    /\ Sum(units) < TotalUnits => \A i \in 1 .. n : units[i] = MaxUnits

LEMMA PlanIs ==
    ASSUME NEW e, IsEvidence(e)
    PROVE  \E n \in Nat : /\ Plan(e).requests \in Seq(Request) /\ n = Len(Plan(e).requests)
                          /\ Spent(Plan(e).units, n)
<1>. DEFINE signals == Signals(e)
            requests == Prioritize(signals)
            ids == [i \in DOMAIN requests |-> requests[i].id]
            at(i) == SelectLastInSeq(signals, LAMBDA s : Key(s) = ids[i])
            sums == [i \in DOMAIN ids |-> signals[at(i)].sum]
            n == Len(requests)
<1>1. Plan(e).requests = requests /\ Plan(e).units = Allocate(sums, ids)
  <2>1. Plan(e) = [requests |-> requests, units |-> Allocate(sums, ids)]
    BY Zenon DEF Plan
  <2>. HIDE DEF requests, sums, ids
  <2>. QED
    BY <2>1
<1>2. signals \in Seq(Signalled)
  BY SignalsTyped
<1>. HIDE DEF signals
<1>3. /\ requests \in Seq(Request)
      /\ \A i \in DOMAIN requests : requests[i].id \in Keys(signals)
      /\ \A i, j \in DOMAIN requests : i # j => requests[i].id # requests[j].id
  BY <1>2, PrioritizeIs
<1>. HIDE DEF requests
<1>4. n \in Nat /\ DOMAIN requests = 1 .. n /\ DOMAIN ids = 1 .. n
  BY <1>3
<1>5. Identified(ids, n)
  BY <1>2, <1>3, <1>4, KeysTyped DEF Identified
<1>6. ASSUME NEW i \in 1 .. n
      PROVE  signals[at(i)].sum \in Nat
  <2>. DEFINE I == {j \in 1 .. Len(signals) : Key(signals[j]) = ids[i]}
  <2>1. ids[i] \in Keys(signals)
    BY <1>3, <1>4
  <2>. HIDE DEF ids
  <2>2. I # {} /\ I \in SUBSET (0 .. Len(signals)) /\ Len(signals) \in Nat
    BY <1>2, <2>1 DEF Keys
  <2>3. at(i) = Max(I)
    BY <2>2, Zenon DEF SelectLastInSeq
  <2>. HIDE DEF at, I
  <2>4. at(i) \in I
    BY <2>2, <2>3, MaxIs
  <2>5. signals[at(i)] \in Signalled
    BY <1>2, <2>4 DEF I
  <2>. QED
    BY <2>5 DEF Signalled
<1>7. sums \in [1 .. n -> Nat]
  <2>. HIDE DEF at, ids
  <2>. QED
    BY <1>4, <1>6
<1>. HIDE DEF sums, ids, n
<1>8. Spent(Allocate(sums, ids), n)
  BY <1>4, <1>5, <1>7, AllocateIs DEF Spent
<1>. QED
  BY <1>1, <1>3, <1>4, <1>8 DEF n

LEMMA PlansAreTyped == PlansTyped
<1>. SUFFICES ASSUME NEW e \in Evidence
              PROVE  /\ Plan(e).requests \in Seq(Request)
                     /\ Plan(e).units \in [DOMAIN Plan(e).requests -> Int]
  BY DEF PlansTyped, MadePlans
<1>1. PICK n \in Nat : /\ Plan(e).requests \in Seq(Request) /\ n = Len(Plan(e).requests)
                       /\ Spent(Plan(e).units, n)
  BY EvidenceAssumption, PlanIs DEF EvidenceAssumption
<1>. QED
  BY <1>1, PlanningAssumption, SMTT(30) DEF PlanningAssumption, Spent, Shared

\* However the plans of the callers interleave, a queued request has the best
\* priority it was offered since it last left the queue (code: enqueue, by
\* execute_research_plan and whoever shares the queue).
THEOREM FactoryQueueKeepsBest == FactorySpec => []QueueKeepsBest
<1>1. WorkInv => QueueKeepsBest
  <2>. SUFFICES ASSUME WorkInv, NEW id \in DOMAIN queue
                PROVE  queue[id].priority = Work!Min(offered[id])
    BY DEF QueueKeepsBest, Work!QueueKeepsBest
  <2>1. /\ offered[id] \subseteq Int /\ queue[id].priority \in offered[id]
        /\ \A x \in offered[id] : queue[id].priority <= x
    BY DEF WorkInv, Offers
  <2>2. \A m \in offered[id] : (\A x \in offered[id] : m <= x) => m = queue[id].priority
    BY <2>1
  <2>. QED
    BY <2>1, <2>2 DEF Work!Min
<1>2. FactorySpec => []WorkInv
  BY PlansAreTyped, WorkInvariant
<1>. QED
  BY <1>1, <1>2, PTL

\* A consumption that fails after it removed the request loses only what a
\* later plan offered again (code: consume_research_work, which removes before
\* it compares; execute_research_plan, which may be called with work in hand).
THEOREM FactoryLostOnlyToLaterPlan == FactorySpec => []LostOnlyToLaterPlan
<1>1. WorkInv => LostOnlyToLaterPlan
  BY DEF WorkInv, LostOnlyToLaterPlan, Work!LostOnlyToLaterPlan
<1>2. FactorySpec => []WorkInv
  BY PlansAreTyped, WorkInvariant
<1>. QED
  BY <1>1, <1>2, PTL

\* The units a caller holds are those of a plan.
BudgetInv ==
    /\ plan \in [Planner -> {<<>>} \union {next.units : next \in MadePlans}]

\* Whatever the evidence, a plan spends the whole budget unless the limits of
\* its requests forbid it (code: allocate_budget, its shares and both loops).
THEOREM FactoryBudgetKept == FactorySpec => []BudgetKept
<1>1. FactoryInit => BudgetInv
  BY DEF FactoryInit, Work!Init, BudgetInv
<1>2. BudgetInv /\ [FactoryNext]_allVars => BudgetInv'
  <2>1. UNCHANGED workVars /\ BudgetInv => BudgetInv'
    BY DEF BudgetInv, workVars
  <2>2. ASSUME NEW p \in Planner, BudgetInv, Work!Execute(p)
        PROVE  BudgetInv'
    <3>1. \E next \in MadePlans : plan' = [plan EXCEPT ![p] = next.units]
      BY <2>2, Zenon DEF Work!Execute
    <3>. QED
      BY <2>2, <3>1 DEF BudgetInv
  <2>3. ASSUME NEW p \in Planner, BudgetInv,
               (\E item \in work[p] : Work!Consume(p, item)) \/ Work!Abandon(p)
        PROVE  BudgetInv'
    BY <2>3 DEF BudgetInv, Work!Consume, Work!Abandon
  <2>. QED
    BY <2>1, <2>2, <2>3 DEF FactoryNext, Work!Next, allVars
<1>3. BudgetInv => BudgetKept
  <2>. SUFFICES ASSUME BudgetInv, NEW p \in Planner, plan[p] # <<>>
                PROVE  /\ \A i \in DOMAIN plan[p] : plan[p][i] \in MinUnits .. MaxUnits
                       /\ Sum(plan[p]) > TotalUnits =>
                             \A i \in DOMAIN plan[p] : plan[p][i] = MinUnits
                       /\ Sum(plan[p]) < TotalUnits =>
                             \A i \in DOMAIN plan[p] : plan[p][i] = MaxUnits
    BY DEF BudgetKept
  <2>1. PICK e \in Evidence : plan[p] = Plan(e).units
    BY DEF BudgetInv, MadePlans
  <2>2. PICK n \in Nat : Spent(plan[p], n)
    BY <2>1, EvidenceAssumption, PlanIs DEF EvidenceAssumption
  <2>. QED
    BY <2>2 DEF Spent, Shared
<1>. QED
  BY <1>1, <1>2, <1>3, PTL DEF FactorySpec
-----------------------------------------------------------------------------
(* Types *)

\* The plans of the evidence have priorities a merit can give.
Priorities == 0..1000

Ranged(requests) == \A i \in DOMAIN requests : requests[i].priority \in Priorities

PlansRanged == \A next \in MadePlans : Ranged(next.requests)

LEMMA PlansAreRanged == PlansRanged
<1>. SUFFICES ASSUME NEW e \in Evidence
              PROVE  Ranged(Plan(e).requests)
  BY DEF PlansRanged, MadePlans
<1>. SUFFICES ASSUME NEW i \in DOMAIN Plan(e).requests
              PROVE  Plan(e).requests[i].priority \in Priorities
  BY Zenon DEF Ranged
<1>. DEFINE signals == Signals(e)
            requests == Prioritize(signals)
            best == Best(signals, Ranked(signals)[i])
<1>1. IsEvidence(e)
  BY EvidenceAssumption DEF EvidenceAssumption
<1>2. Plan(e).requests = requests
  BY Zenon DEF Plan
<1>3. signals \in Seq(Signalled)
  BY <1>1, SignalsTyped
<1>. HIDE DEF signals
<1>4. requests[i].id = Ranked(signals)[i] /\ requests[i].priority = 1000 - best
  BY <1>2 DEF Prioritize
<1>5. requests[i].id \in Keys(signals)
  BY <1>2, <1>3, PrioritizeIs
<1>. HIDE DEF requests
<1>6. best \in 0..1000
  <2>1. best \in Merits
    BY <1>3, <1>4, <1>5, BestIs
  <2>. QED
    BY <2>1, Zenon DEF Merits
<1>. HIDE DEF best
<1>. DEFINE priority == 1000 - best
<1>7. priority \in Priorities /\ requests[i].priority = priority
  BY <1>4, <1>6 DEF Priorities
<1>. HIDE DEF priority
<1>. QED
  BY <1>2, <1>7

WorkTyped ==
    /\ \A id \in DOMAIN queue : queue[id].priority \in Priorities
    /\ \A p \in Planner : \A item \in work[p] : item.id \in DOMAIN last
    /\ turn \in 0..Plans

LEMMA ExecuteTyped ==
    ASSUME PlansTyped, PlansRanged, Plans \in Nat, WorkInv, WorkTyped,
           NEW p \in Planner, Work!Execute(p)
    PROVE  WorkTyped'
<1>1. PICK next \in MadePlans, population \in Population :
         LET filled == Work!FoldLeft(Work!Enqueue, queue, next.requests)
             items == {Work!Item(filled, next.requests[i], turn) : i \in DOMAIN next.requests}
             ids == {r.id : r \in Work!ToSet(next.requests)}
             before(id) == IF id \in DOMAIN queue THEN offered[id] ELSE {}
         IN  /\ queue' = filled
             /\ offered' = [id \in DOMAIN filled |->
                               before(id) \union {r.priority : r \in
                                   {q \in Work!ToSet(next.requests) : q.id = id}}]
             /\ last' = [id \in ids \union DOMAIN last |-> IF id \in ids THEN turn ELSE last[id]]
             /\ work' = [work EXCEPT ![p] = @ \union (IF Work!CanSpawn(items, population) THEN items ELSE {})]
             /\ plan' = [plan EXCEPT ![p] = next.units]
  BY DEF Work!Execute
<1>. DEFINE requests == next.requests
            ids == {r.id : r \in Work!ToSet(requests)}
            items == {Work!Item(queue', requests[i], turn) : i \in DOMAIN requests}
<1>2. requests \in Seq(Request) /\ Ranged(requests)
  BY DEF PlansTyped, PlansRanged
<1>3. Filled(queue', queue, requests, Len(requests))
  BY <1>1, <1>2, QueueFilled DEF WorkInv
<1>4. /\ DOMAIN last' = ids \union DOMAIN last
      /\ \E more \in {items, {}} : work' = [work EXCEPT ![p] = @ \union more]
      /\ turn' = turn + 1 /\ turn < Plans
  <2>1. \E more \in {items, {}} : work' = [work EXCEPT ![p] = @ \union more]
    <3>1. IF Work!CanSpawn(items, population) THEN work' = [work EXCEPT ![p] = @ \union items]
          ELSE work' = [work EXCEPT ![p] = @ \union {}]
      BY <1>1, Zenon
    <3>. QED
      BY <3>1, Zenon
  <2>2. turn' = turn + 1 /\ turn < Plans
    BY DEF Work!Execute
  <2>3. DOMAIN last' = ids \union DOMAIN last
    BY <1>1
  <2>. QED
    BY <2>1, <2>2, <2>3, Zenon
<1>5. DOMAIN requests = 1 .. Len(requests)
  BY <1>2
<1>6. \A i \in DOMAIN requests : requests[i].id \in ids
  BY DEF Work!ToSet
<1>. HIDE DEF requests, ids
<1>7. \A id \in DOMAIN queue' : queue'[id].priority \in Priorities
  <2>. SUFFICES ASSUME NEW id \in DOMAIN queue'
                PROVE  queue'[id].priority \in Priorities
    OBVIOUS
  <2>1. \/ id \in DOMAIN queue /\ queue'[id] = queue[id]
        \/ \E j \in DOMAIN requests : queue'[id] = requests[j]
    BY <1>3, <1>5 DEF Filled
  <2>2. CASE id \in DOMAIN queue /\ queue'[id] = queue[id]
    <3>1. queue[id].priority \in Priorities
      BY <2>2 DEF WorkTyped
    <3>. QED
      BY <2>2, <3>1
  <2>3. CASE \E j \in DOMAIN requests : queue'[id] = requests[j]
    <3>1. PICK j \in DOMAIN requests : queue'[id] = requests[j]
      BY <2>3
    <3>2. requests[j].priority \in Priorities
      BY <1>2 DEF Ranged
    <3>. QED
      BY <3>1, <3>2
  <2>. QED
    BY <2>1, <2>2, <2>3
<1>8. \A item \in items : item.id \in DOMAIN last'
  BY <1>4, <1>6 DEF Work!Item
<1>. HIDE DEF items
<1>9. ASSUME NEW a \in Planner
      PROVE  \A item \in work'[a] : item.id \in DOMAIN last'
  <2>1. work \in [Planner -> SUBSET WorkItem]
    BY DEF WorkInv
  <2>2. work'[a] \subseteq work[a] \union items
    BY <1>4, <2>1
  <2>. QED
    BY <1>4, <1>8, <2>2 DEF WorkTyped
<1>10. turn' \in 0..Plans
  BY <1>4 DEF WorkTyped
<1>. QED
  BY <1>7, <1>9, <1>10 DEF WorkTyped

LEMMA ConsumeTyped ==
    ASSUME WorkInv, WorkTyped, NEW p \in Planner,
           (\E item \in work[p] : Work!Consume(p, item)) \/ Work!Abandon(p)
    PROVE  WorkTyped'
<1>1. work \in [Planner -> SUBSET WorkItem] /\ turn' = turn /\ last' = last
  BY DEF Work!Consume, Work!Abandon, WorkInv
<1>2. \A id \in DOMAIN queue' : id \in DOMAIN queue /\ queue'[id] = queue[id]
  BY DEF Work!Consume, Work!Abandon, Work!Without
<1>3. \A a \in Planner : work'[a] \subseteq work[a]
  BY <1>1 DEF Work!Consume, Work!Abandon
<1>4. \A id \in DOMAIN queue' : queue'[id].priority \in Priorities
  BY <1>2 DEF WorkTyped
<1>. QED
  BY <1>1, <1>3, <1>4 DEF WorkTyped

\* The state of every stage has its types, whatever the others did before.
THEOREM FactoryTypes ==
    ASSUME Data!CacheAssumption, Work!WorkAssumption, Lifecycle!LifecycleAssumption
    PROVE  FactorySpec => []StagesTypeOK
<1>1. FactorySpec => []TypeOK
  <2>1. PaperInv => TypeOK
    <3>. SUFFICES ASSUME PaperInv
                  PROVE  TypeOK
      OBVIOUS
    <3>1. ASSUME NEW run \in runs
          PROVE  run.id = RunId(run.id.weights, run.bundle) /\ Refused \notin ToSet(run.lineage)
      <4>1. PICK weights \in Weights, bundle \in DOMAIN Market : run = Row(weights, bundle)
        BY DEF PaperInv, IsRow
      <4>2. run.id = RunId(weights, bundle) /\ run.id.weights = weights /\ run.bundle = bundle
        BY <4>1, RowIs
      <4>. QED
        BY <4>2 DEF PaperInv, HasRefusal
    <3>. QED
      BY <3>1 DEF PaperInv, Carries, TypeOK
  <2>. QED
    BY <2>1, PaperAlways, PTL
<1>2. FactorySpec => []Data!TypeOK
  <2>1. DataProofs!CacheAssumption
    BY DEF Data!CacheAssumption, DataProofs!CacheAssumption, Data!Cardinality,
           DataProofs!Cardinality, Data!IsFiniteSet, DataProofs!IsFiniteSet
  <2>2. DataProofs!Spec => []DataProofs!TypeOK
    BY <2>1, DataProofs!CacheTypes
  <2>3. DataProofs!TypeOK <=> Data!TypeOK
    BY DEF Data!TypeOK, DataProofs!TypeOK, Data!Kind, DataProofs!Kind
  <2>. QED
    BY <2>2, <2>3, FactoryRunsCache, PTL
<1>3. FactorySpec => []Lifecycle!TypeOK
  <2>1. LifecycleProofs!LifecycleAssumption
    BY DEF Lifecycle!LifecycleAssumption, LifecycleProofs!LifecycleAssumption
  <2>2. LifecycleProofs!Spec => []LifecycleProofs!TypeOK
    BY <2>1, LifecycleProofs!LifecycleTypes
  <2>3. LifecycleProofs!TypeOK <=> Lifecycle!TypeOK
    BY DEF Lifecycle!TypeOK, LifecycleProofs!TypeOK, Lifecycle!Process, LifecycleProofs!Process
  <2>. QED
    BY <2>2, <2>3, FactoryRunsLifecycle, PTL
<1>4. FactorySpec => []Work!TypeOK
  <2>1. FactoryInit => WorkTyped
    BY DEF FactoryInit, Work!Init, Work!WorkAssumption, WorkTyped
  <2>2. WorkInv /\ WorkTyped /\ [FactoryNext]_allVars => WorkTyped'
    <3>1. UNCHANGED workVars /\ WorkTyped => WorkTyped'
      BY DEF WorkTyped, workVars
    <3>2. PlansTyped /\ PlansRanged /\ Plans \in Nat
      BY PlansAreTyped, PlansAreRanged DEF Work!WorkAssumption
    <3>. QED
      BY <3>1, <3>2, ExecuteTyped, ConsumeTyped DEF FactoryNext, Work!Next, allVars
  <2>3. WorkInv /\ WorkTyped => Work!TypeOK
    BY DEF WorkInv, WorkTyped, Offers, Priorities, Work!TypeOK
  <2>4. FactorySpec => []WorkInv
    BY PlansAreTyped, WorkInvariant
  <2>. QED
    BY <2>1, <2>2, <2>3, <2>4, PTL DEF FactorySpec
<1>. QED
  BY <1>1, <1>2, <1>3, <1>4, PTL DEF StagesTypeOK
=============================================================================
