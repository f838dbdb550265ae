-------------------------- MODULE StrategyLifecycle --------------------------
(***************************************************************************)
(* The life of a strategy in the registry: lifecycle_store.py (stage and   *)
(* append-only history), lifecycle_integration.py (evaluations),           *)
(* paper_admission.py and its store, successor_paper_handoff.py,           *)
(* paper_health.py, control_plane.py, feedback_registry.py,                *)
(* research_registry.py and replacement_cycle.py.                          *)
(*                                                                         *)
(* Workers run these operations over connections to one SQLite file; the   *)
(* handlers of the API share one connection, other processes have one of   *)
(* their own.  A connection's first write opens a transaction and takes    *)
(* the database's write lock.  It is the CONNECTION that commits or rolls  *)
(* back: a commit publishes, and a rollback discards, whatever any of its  *)
(* workers has written.  An exception the code does not catch leaves the   *)
(* transaction open, for the next commit on that connection to publish.    *)
(*                                                                         *)
(* Abstractions.  A request id is the tuple it hashes (strategy, cause,    *)
(* number of observations), an event's hash the event.  Integrity hashes   *)
(* of intact rows always match.  The evidence a replacement cycle stores   *)
(* on its way (strategies, experiments, lineage) is left out, its three    *)
(* successors are one.  Runs and certificates that only refuse an          *)
(* admission, and reports that are not degraded, change nothing and are    *)
(* left out.                                                               *)
(***************************************************************************)
EXTENDS Naturals, Sequences, FiniteSets

CONSTANTS
    Strategy,         \* strategies
    Candidate,        \* those that research evaluates
    Monitored,        \* those whose paper equity is assessed
    Cause,            \* reasons of a degradation report
    Observations,     \* its numbers of observations
    SuccessorOf,      \* the candidate generated for each request
    Verdict,          \* outcomes of evaluations: validation, promotion gates
    Run,              \* paper runs with a valid certificate
    AdmissionReason,  \* reasons given for an admission
    Worker,           \* threads that run operations
    Connection,       \* connections to the database
    ConnectionOf,     \* the connection each worker uses
    Duty,             \* the operations each worker runs
    NoConnection      \* nobody holds the write lock

Operation == {"sync", "admit", "handoff", "assess", "feedback",
              "replace", "control"}

\* ResearchRequest of _request in paper_health.py.
Request == [strategy: Monitored, cause: Cause, observations: Observations]

ASSUME WiringAssumption ==
    /\ Candidate \subseteq Strategy
    /\ Monitored \subseteq Strategy
    /\ Verdict \subseteq [passed: BOOLEAN, eligible: BOOLEAN]
    /\ NoConnection \notin Connection
    /\ ConnectionOf \in [Worker -> Connection]
    /\ Duty \in [Worker -> SUBSET Operation]
    /\ SuccessorOf \in [Request -> Strategy]

VARIABLES
    disk,     \* the database as last committed
    db,       \* the database as the connection holding the lock sees it
    lock,     \* the connection with an open write transaction
    pc,       \* the step each worker is at
    call,     \* the arguments of its operation
    move,     \* the transition it is making
    resume,   \* the step after its next commit
    result    \* what the operation is going to return

data == <<disk, db, lock>>
local == <<pc, call, move, resume, result>>
vars == <<disk, db, lock, pc, call, move, resume, result>>
-----------------------------------------------------------------------------
Stage == {"RESEARCH", "VALIDATED", "PROMOTED", "PAPER", "DEGRADED",
          "RETIRED", "REPLACED"}

\* _PROMOTION_TRANSITIONS
Transitions ==
    [s \in Stage |->
        CASE s = "RESEARCH"  -> {"VALIDATED", "DEGRADED"}
          [] s = "VALIDATED" -> {"PROMOTED", "DEGRADED"}
          [] s = "PROMOTED"  -> {"PAPER", "DEGRADED", "RETIRED"}
          [] s = "PAPER"     -> {"DEGRADED", "RETIRED", "REPLACED"}
          [] s = "DEGRADED"  -> {"RESEARCH", "RETIRED", "REPLACED"}
          [] OTHER           -> {}]

\* The reason of an evaluation made by run_research ("candidate evaluation").
Evaluation == [evaluation |-> TRUE]

Reason ==
    {Evaluation} \cup Request
    \cup [cause: Cause] \cup [admission: AdmissionReason]

NoRow == [stage |-> "ABSENT"]

Row == [stage: Stage, reason: Reason]

Event == [source: Stage \cup {"ABSENT"}, target: Stage, reason: Reason]

Admission == [strategy: Strategy, run: Run, reason: AdmissionReason]

ControlState == {"NONE", "DEGRADED", "HALTED"}

Database ==
    [row: [Strategy -> Row \cup {NoRow}],   \* strategy_lifecycle
     events: [Strategy -> Seq(Event)],      \* strategy_lifecycle_events
     admissions: SUBSET Admission,          \* paper_admissions
     requests: SUBSET Request,              \* research_requests
     cycles: SUBSET Request,                \* replacement_cycles
     control: [Strategy -> ControlState],   \* strategy_control
     feedback: SUBSET Request]              \* strategy_feedback_events

NoCall == [op |-> "none"]
NoMove == [target |-> "NONE"]

Call ==
    [op: {"sync"}, candidate: Candidate, prefix: {Evaluation}, verdict: Verdict]
    \cup [op: {"admit", "handoff"}, strategy: Strategy, run: Run,
          reason: AdmissionReason]
    \cup [op: {"assess", "feedback"}, strategy: Monitored, request: Request]
    \cup [op: {"replace"}, candidate: Strategy, prefix: Request, verdict: Verdict]
    \cup [op: {"control"}, strategy: Strategy, state: {"HALTED"}]

Move == [strategy: Strategy, source: Stage, target: Stage, reason: Reason]

Step == {"idle", "open", "load", "create", "insertRow", "createEvent",
         "check", "update", "event", "commit", "preflight", "present",
         "lookup", "confirm", "existing", "save", "insert", "health",
         "restore", "request", "newRequest", "control", "mark", "provenance",
         "publish", "verify", "source", "cycle", "record", "reply"}

\* Where a worker goes after a commit: a step, the end, or on from a transition.
Resumption == Step \cup {"done", "moved"}

Result == {"none", "DONE", "REFUSED", "RAISED"}

TypeOK ==
    /\ disk \in Database
    /\ db \in Database
    /\ lock \in Connection \cup {NoConnection}
    /\ pc \in [Worker -> Step]
    /\ call \in [Worker -> Call \cup {NoCall}]
    /\ move \in [Worker -> Move \cup {NoMove}]
    /\ resume \in [Worker -> Resumption]
    /\ result \in [Worker -> Result]

EmptyDatabase ==
    [row |-> [s \in Strategy |-> NoRow],
     events |-> [s \in Strategy |-> <<>>],
     admissions |-> {}, requests |-> {}, cycles |-> {},
     control |-> [s \in Strategy |-> "NONE"],
     feedback |-> {}]

Init ==
    /\ disk = EmptyDatabase
    /\ db = EmptyDatabase
    /\ lock = NoConnection
    /\ pc = [w \in Worker |-> "idle"]
    /\ call = [w \in Worker |-> NoCall]
    /\ move = [w \in Worker |-> NoMove]
    /\ resume = [w \in Worker |-> "idle"]
    /\ result = [w \in Worker |-> "none"]
-----------------------------------------------------------------------------
(* Connections and transactions *)

Conn(w) == ConnectionOf[w]

View(w) == IF lock = Conn(w) THEN db ELSE disk

MayWrite(w) == lock \in {Conn(w), NoConnection}

\* connection.commit(): publish everything written on this connection.
CommitConnection(w) ==
    IF lock = Conn(w) THEN disk' = db /\ lock' = NoConnection /\ UNCHANGED db
                      ELSE UNCHANGED data

\* connection.rollback(): discard everything written on this connection.
RollbackConnection(w) ==
    IF lock = Conn(w) THEN db' = disk /\ lock' = NoConnection /\ UNCHANGED disk
                      ELSE UNCHANGED data

Goto(w, step) ==
    /\ pc' = [pc EXCEPT ![w] = step]
    /\ UNCHANGED <<call, move, resume, result>>

Answer(w, value) ==
    /\ pc' = [pc EXCEPT ![w] = "reply"]
    /\ result' = [result EXCEPT ![w] = value]
    /\ UNCHANGED <<call, move, resume>>

\* An exception nobody catches: the open transaction stays open.
Fail(w) == Answer(w, "RAISED") /\ UNCHANGED data

\* An exception that leaves a "with connection" block.
FailInBlock(w) == Answer(w, "RAISED") /\ RollbackConnection(w)

\* A statement that writes, followed by a jump on this worker.
Write(w, database, step) ==
    /\ MayWrite(w)
    /\ lock' = Conn(w)
    /\ db' = database
    /\ UNCHANGED disk
    /\ Goto(w, step)

\* A statement that writes, then commit(), then a jump.
WriteAndCommit(w, database, step) ==
    /\ MayWrite(w)
    /\ lock' = Conn(w)
    /\ db' = database
    /\ UNCHANGED <<disk, call, move, result>>
    /\ pc' = [pc EXCEPT ![w] = "commit"]
    /\ resume' = [resume EXCEPT ![w] = step]

\* Go on with another transition, or with something else.
Moving(w, next, step) ==
    /\ move' = [move EXCEPT ![w] = next]
    /\ pc' = [pc EXCEPT ![w] = step]
    /\ UNCHANGED <<call, resume, result>>
-----------------------------------------------------------------------------
(* LifecycleStore.transition *)

\* Faulty variant: the stage the row shows is not looked at.
CheckTableOnly(w) ==
    LET m == move[w]
    IN  /\ pc[w] = "check"
        /\ m.target \in Transitions[m.source]
        /\ Goto(w, "update") /\ UNCHANGED data

\* The guards: a legal move from the stage the row shows.  A guard that fails
\* raises ValueError, which only admit_to_paper catches, with a rollback.
Check(w) ==
    LET m == move[w]
        allowed == /\ m.target \in Transitions[m.source]
                   /\ View(w).row[m.strategy].stage = m.source
    IN  /\ pc[w] = "check"
        /\ IF allowed THEN Goto(w, "update") /\ UNCHANGED data
           ELSE IF call[w].op \in {"admit", "handoff"}
                THEN Answer(w, "REFUSED") /\ RollbackConnection(w)
                ELSE Fail(w)

\* Faulty variant: the UPDATE is committed before the event is appended.
UpdateCommitting(w) ==
    LET m == move[w]
    IN  /\ pc[w] = "update"
        /\ WriteAndCommit(w, [db EXCEPT !.row[m.strategy] =
                                [stage |-> m.target, reason |-> m.reason]], "event")

\* The UPDATE names the strategy only, not the stage that was checked.
Update(w) ==
    LET m == move[w]
    IN  /\ pc[w] = "update"
        /\ Write(w, [db EXCEPT !.row[m.strategy] =
                       [stage |-> m.target, reason |-> m.reason]], "event")

EventOf(m) == [source |-> m.source, target |-> m.target, reason |-> m.reason]

\* UNIQUE(strategy_id, integrity_hash)
Logged(database, s, event) ==
    \E k \in DOMAIN database.events[s] : database.events[s][k] = event

Log(database, s, event) ==
    [database EXCEPT !.events[s] = Append(@, event)]

\* Faulty variant: the commit does not wait for the admission record.
AppendEventCommitting(w) ==
    LET m == move[w]
        admission == call[w].op \in {"admit", "handoff"}
    IN  /\ pc[w] = "event"
        /\ MayWrite(w)
        /\ IF Logged(db, m.strategy, EventOf(m)) THEN Fail(w)
           ELSE WriteAndCommit(w, Log(db, m.strategy, EventOf(m)),
                               IF admission THEN "save" ELSE "moved")

\* _append_event, and the commit unless an admission goes on.
AppendEvent(w) ==
    LET m == move[w]
        logged == Logged(db, m.strategy, EventOf(m))
    IN  /\ pc[w] = "event"
        /\ MayWrite(w)
        /\ \/ logged /\ Fail(w)
           \/ /\ ~logged
              /\ call[w].op \in {"admit", "handoff"}
              /\ Write(w, Log(db, m.strategy, EventOf(m)), "save")
           \/ /\ ~logged
              /\ call[w].op \notin {"admit", "handoff"}
              /\ WriteAndCommit(w, Log(db, m.strategy, EventOf(m)), "moved")

MoveTo(s, source, target, reason) ==
    [strategy |-> s, source |-> source, target |-> target, reason |-> reason]

\* Faulty variant: the cycle is recorded before its source is moved.
AfterSyncRecording(w) ==
    IF call[w].op = "sync" THEN Answer(w, "DONE") ELSE Goto(w, "cycle")

\* What an operation does when the evaluation has nothing more to move: a
\* replacement cycle goes on to move its source.
AfterSync(w) ==
    IF call[w].op = "sync" THEN Answer(w, "DONE")
    ELSE LET r == call[w].prefix
         IN  Moving(w, MoveTo(r.strategy, "DEGRADED", "RESEARCH", r), "check")

\* What an operation does after a transition: an assessment goes on to the
\* control plane, a replacement cycle that moved its source records itself, a
\* candidate just validated may be promoted.
AfterMove(w) ==
    LET c == call[w]
        m == move[w]
    IN  CASE c.op = "assess" -> Goto(w, "control")
          [] c.op = "replace" /\ m.target = "RESEARCH" -> Goto(w, "cycle")
          [] c.op \in {"sync", "replace"} /\ m.target = "VALIDATED" /\ c.verdict.eligible ->
               Moving(w, MoveTo(m.strategy, "VALIDATED", "PROMOTED", c.prefix),
                      "check")
          [] OTHER -> AfterSync(w)

Resume(w, step) ==
    CASE step = "done"  -> Answer(w, "DONE")
      [] step = "moved" -> AfterMove(w)
      [] OTHER          -> Goto(w, step)

Commit(w) ==
    /\ pc[w] = "commit"
    /\ CommitConnection(w)
    /\ Resume(w, resume[w])
-----------------------------------------------------------------------------
(* synchronize_candidate_lifecycle *)

Load(w) ==
    LET s == call[w].candidate
        stage == View(w).row[s].stage
    IN  /\ pc[w] = "load"
        /\ UNCHANGED data
        /\ CASE stage = "ABSENT" -> Goto(w, "create")
             [] stage = "RESEARCH" ->
                  Moving(w, MoveTo(s, "RESEARCH",
                           IF call[w].verdict.passed THEN "VALIDATED" ELSE "DEGRADED",
                           call[w].prefix), "check")
             [] stage = "VALIDATED" /\ call[w].verdict.eligible ->
                  Moving(w, MoveTo(s, "VALIDATED", "PROMOTED",
                                   call[w].prefix), "check")
             [] OTHER -> AfterSync(w)

NewRow(w) == [stage |-> "RESEARCH", reason |-> call[w].prefix]

\* save looks again: a row is returned when it is the same, else it raises.
Create(w) ==
    LET found == View(w).row[call[w].candidate]
    IN  /\ pc[w] = "create"
        /\ UNCHANGED data
        /\ CASE found = NoRow     -> Goto(w, "insertRow")
             [] found = NewRow(w) -> Goto(w, "load")
             [] OTHER             -> Answer(w, "RAISED")

\* The INSERT of the row and, in the same block, of its first event.
InsertRow(w) ==
    LET s == call[w].candidate
    IN  /\ pc[w] = "insertRow"
        /\ MayWrite(w)
        /\ IF db.row[s] # NoRow THEN FailInBlock(w)
           ELSE Write(w, [db EXCEPT !.row[s] = NewRow(w)], "createEvent")

CreateEvent(w) ==
    LET s == call[w].candidate
        event == [source |-> "ABSENT", target |-> "RESEARCH",
                  reason |-> call[w].prefix]
    IN  /\ pc[w] = "createEvent"
        /\ MayWrite(w)
        /\ IF Logged(db, s, event) THEN FailInBlock(w)
           ELSE WriteAndCommit(w, Log(db, s, event), "load")
-----------------------------------------------------------------------------
(* admit_to_paper and handoff_successor_to_paper *)

Admitted(database, s, run) ==
    \E a \in database.admissions : a.strategy = s /\ a.run = run

AdmissionOf(c) == [strategy |-> c.strategy, run |-> c.run, reason |-> c.reason]

\* The handoff confirms an admission made before and otherwise calls
\* admit_to_paper for a strategy it has seen PROMOTED.
Preflight(w) ==
    LET stage == View(w).row[call[w].strategy].stage
    IN  /\ pc[w] = "preflight"
        /\ UNCHANGED data
        /\ CASE stage = "PAPER"    -> Goto(w, "present")
             [] stage = "PROMOTED" -> Goto(w, "lookup")
             [] OTHER              -> Answer(w, "REFUSED")

Present(w) ==
    /\ pc[w] = "present"
    /\ UNCHANGED data
    /\ Answer(w, IF Admitted(View(w), call[w].strategy, call[w].run)
                 THEN "DONE" ELSE "REFUSED")

\* The stage is read first, the admission in a second query.
Lookup(w) ==
    LET stage == View(w).row[call[w].strategy].stage
    IN  /\ pc[w] = "lookup"
        /\ UNCHANGED data
        /\ CASE stage = "ABSENT" -> Answer(w, "REFUSED")
             [] stage = "PAPER"  -> Goto(w, "confirm")
             [] OTHER            -> Goto(w, "existing")

\* Faulty variant: the record is written, the strategy is not moved.
ExistingWithoutMove(w) ==
    /\ pc[w] \in {"confirm", "existing"}
    /\ UNCHANGED data
    /\ IF Admitted(View(w), call[w].strategy, call[w].run) THEN Answer(w, "DONE")
       ELSE Goto(w, "save")

\* An admission made before is confirmed when it is the same and the strategy
\* was seen in PAPER; without one the strategy is moved there.
Existing(w) ==
    LET c == call[w]
        same == pc[w] = "confirm" /\ AdmissionOf(c) \in View(w).admissions
    IN  /\ pc[w] \in {"confirm", "existing"}
        /\ UNCHANGED data
        /\ IF Admitted(View(w), c.strategy, c.run)
           THEN Answer(w, IF same THEN "DONE" ELSE "REFUSED")
           ELSE Moving(w, MoveTo(c.strategy, "PROMOTED", "PAPER",
                                 [admission |-> c.reason]), "check")

\* PaperAdmissionStore.save: a conflicting record raises ValueError, which
\* rolls back; an equal one is returned without a commit.
Save(w) ==
    LET c == call[w]
    IN  /\ pc[w] = "save"
        /\ IF ~Admitted(View(w), c.strategy, c.run)
           THEN Goto(w, "insert") /\ UNCHANGED data
           ELSE IF AdmissionOf(c) \in View(w).admissions
           THEN Answer(w, "DONE") /\ UNCHANGED data
           ELSE Answer(w, "REFUSED") /\ RollbackConnection(w)

\* UNIQUE (run_id, strategy_id), and the commit of the block.
Insert(w) ==
    LET c == call[w]
    IN  /\ pc[w] = "insert"
        /\ MayWrite(w)
        /\ IF Admitted(db, c.strategy, c.run) THEN FailInBlock(w)
           ELSE WriteAndCommit(w, [db EXCEPT !.admissions = @ \cup {AdmissionOf(c)}],
                               "done")
-----------------------------------------------------------------------------
(* assess_paper_health and process_strategy_health of a degraded report *)

\* Faulty variant: the strategy is degraded before its replacement is requested.
HealthMovingFirst(w) ==
    LET s == call[w].strategy
    IN  /\ pc[w] = "health"
        /\ UNCHANGED data
        /\ IF View(w).row[s].stage = "PAPER"
           THEN Moving(w, MoveTo(s, "PAPER", "DEGRADED",
                                 [cause |-> call[w].request.cause]), "check")
           ELSE Answer(w, "RAISED")

\* The stage read here decides whether the strategy is moved afterwards.
Health(w) ==
    LET s == call[w].strategy
        stage == View(w).row[s].stage
    IN  /\ pc[w] = "health"
        /\ UNCHANGED data
        /\ CASE stage = "PAPER" ->
                  Moving(w, MoveTo(s, "PAPER", "DEGRADED",
                                   [cause |-> call[w].request.cause]), "request")
             [] stage = "DEGRADED" -> Goto(w, "request")
             [] OTHER -> Answer(w, "RAISED")

AfterRequest(w) == IF move[w] = NoMove THEN "done" ELSE "check"

\* ResearchRequestStore.save
SaveRequest(w) ==
    /\ pc[w] = "request"
    /\ UNCHANGED data
    /\ Resume(w, IF call[w].request \in View(w).requests THEN AfterRequest(w)
                 ELSE "newRequest")

NewRequest(w) ==
    /\ pc[w] = "newRequest"
    /\ MayWrite(w)
    /\ IF call[w].request \in db.requests THEN Fail(w)
       ELSE WriteAndCommit(w, [db EXCEPT !.requests = @ \cup {call[w].request}],
                           AfterRequest(w))

\* process_strategy_health: the stored state is restored first.  Only a
\* strategy that was active is marked, and its request saved after that.
Restore(w) ==
    /\ pc[w] = "restore"
    /\ UNCHANGED data
    /\ Resume(w, IF View(w).control[call[w].strategy] = "NONE"
                 THEN "control" ELSE "done")

\* Faulty variant: the state recorded is the stage the strategy was in.
ControlTargetStage(c) == IF c.op = "control" THEN c.state ELSE "PAPER"

\* The state that is recorded: an operator halts, a report degrades.
ControlTarget(c) == IF c.op = "control" THEN c.state ELSE "DEGRADED"

\* StrategyControlPlane.record: what is halted stays halted, as read here.
Control(w) ==
    LET c == call[w]
    IN  /\ pc[w] = "control"
        /\ UNCHANGED data
        /\ IF View(w).control[c.strategy] = "HALTED" /\ ControlTarget(c) # "HALTED"
           THEN Answer(w, "RAISED") ELSE Goto(w, "mark")

\* INSERT OR REPLACE, the event, and the commit.
Mark(w) ==
    LET c == call[w]
    IN  /\ pc[w] = "mark"
        /\ WriteAndCommit(w, [db EXCEPT !.control[c.strategy] = ControlTarget(c)],
                          CASE c.op = "assess"   -> "provenance"
                            [] c.op = "feedback" -> "request"
                            [] OTHER             -> "done")

\* FeedbackEventStore.save
Provenance(w) ==
    /\ pc[w] = "provenance"
    /\ UNCHANGED data
    /\ Resume(w, IF call[w].request \in View(w).feedback THEN "done" ELSE "publish")

Publish(w) ==
    /\ pc[w] = "publish"
    /\ MayWrite(w)
    /\ IF call[w].request \in db.feedback THEN FailInBlock(w)
       ELSE WriteAndCommit(w, [db EXCEPT !.feedback = @ \cup {call[w].request}],
                           "done")
-----------------------------------------------------------------------------
(* run_replacement_cycle *)

\* The request is stored and its cycle is not.
Verify(w) ==
    LET r == call[w].prefix
    IN  /\ pc[w] = "verify"
        /\ UNCHANGED data
        /\ IF r \in View(w).requests /\ r \notin View(w).cycles
           THEN Goto(w, "source") ELSE Answer(w, "RAISED")

\* Its source is DEGRADED.
Source(w) ==
    /\ pc[w] = "source"
    /\ UNCHANGED data
    /\ IF View(w).row[call[w].prefix.strategy].stage = "DEGRADED"
       THEN Goto(w, "load") ELSE Answer(w, "RAISED")

\* ReplacementCycleStore.save
SaveCycle(w) ==
    /\ pc[w] = "cycle"
    /\ UNCHANGED data
    /\ Resume(w, IF call[w].prefix \in View(w).cycles THEN "done" ELSE "record")

RecordCycle(w) ==
    /\ pc[w] = "record"
    /\ MayWrite(w)
    /\ IF call[w].prefix \in db.cycles THEN Fail(w)
       ELSE WriteAndCommit(w, [db EXCEPT !.cycles = @ \cup {call[w].prefix}], "done")
-----------------------------------------------------------------------------
(* Operations begin and end *)

Begin(w, arguments) ==
    /\ pc[w] = "idle"
    /\ arguments.op \in Duty[w]
    /\ pc' = [pc EXCEPT ![w] = "open"]
    /\ call' = [call EXCEPT ![w] = arguments]
    /\ UNCHANGED <<move, resume, result>> /\ UNCHANGED data

Start(w) ==
    \/ \E s \in Candidate, v \in Verdict :
         Begin(w, [op |-> "sync", candidate |-> s, prefix |-> Evaluation,
                   verdict |-> v])
    \/ \E op \in {"admit", "handoff"}, s \in Strategy, run \in Run,
          reason \in AdmissionReason :
         Begin(w, [op |-> op, strategy |-> s, run |-> run, reason |-> reason])
    \/ \E op \in {"assess", "feedback"}, r \in Request :
         Begin(w, [op |-> op, strategy |-> r.strategy, request |-> r])
    \/ \E r \in Request, v \in Verdict :
         Begin(w, [op |-> "replace", candidate |-> SuccessorOf[r], prefix |-> r,
                   verdict |-> v])
    \/ \E s \in Monitored :
         Begin(w, [op |-> "control", strategy |-> s, state |-> "HALTED"])

FirstStep(op) ==
    CASE op = "sync"    -> "load"
      [] op = "admit"   -> "lookup"
      [] op = "handoff" -> "preflight"
      [] op = "assess"  -> "health"
      [] op = "feedback" -> "restore"
      [] op = "replace" -> "verify"
      [] op = "control" -> "control"

\* Every operation builds its stores first; their constructors commit.
Open(w) ==
    /\ pc[w] = "open"
    /\ CommitConnection(w)
    /\ Goto(w, FirstStep(call[w].op))

\* "database is locked": another connection keeps the write lock too long.
Busy(w) ==
    /\ pc[w] \in {"insertRow", "createEvent", "update", "event", "insert",
                  "newRequest", "mark", "publish", "record"}
    /\ ~MayWrite(w)
    /\ Fail(w)

Forget(ws) ==
    /\ pc' = [w \in Worker |-> IF w \in ws THEN "idle" ELSE pc[w]]
    /\ call' = [w \in Worker |-> IF w \in ws THEN NoCall ELSE call[w]]
    /\ move' = [w \in Worker |-> IF w \in ws THEN NoMove ELSE move[w]]
    /\ resume' = [w \in Worker |-> IF w \in ws THEN "idle" ELSE resume[w]]
    /\ result' = [w \in Worker |-> IF w \in ws THEN "none" ELSE result[w]]

Reply(w) ==
    /\ pc[w] = "reply"
    /\ Forget({w})
    /\ UNCHANGED data

\* A process dies with its connection; its transaction is rolled back.
Crash(c) ==
    LET ws == {w \in Worker : ConnectionOf[w] = c}
    IN  /\ lock = c \/ \E w \in ws : pc[w] # "idle"
        /\ Forget(ws)
        /\ IF lock = c THEN db' = disk /\ lock' = NoConnection /\ UNCHANGED disk
                       ELSE UNCHANGED data

Advance(w) ==
    \/ Open(w) \/ Commit(w) \/ Busy(w) \/ Reply(w)
    \/ Check(w) \/ Update(w) \/ AppendEvent(w)
    \/ Load(w) \/ Create(w) \/ InsertRow(w) \/ CreateEvent(w)
    \/ Preflight(w) \/ Present(w) \/ Lookup(w) \/ Existing(w)
    \/ Save(w) \/ Insert(w)
    \/ Health(w) \/ Restore(w) \/ SaveRequest(w) \/ NewRequest(w)
    \/ Control(w) \/ Mark(w) \/ Provenance(w) \/ Publish(w)
    \/ Verify(w) \/ Source(w) \/ SaveCycle(w) \/ RecordCycle(w)

Next ==
    \/ \E w \in Worker : Start(w) \/ Advance(w)
    \/ \E c \in Connection : Crash(c)

Spec == Init /\ [][Next]_vars
=============================================================================
