----------------------- MODULE StrategyLifecycleProofs -----------------------
(***************************************************************************)
(* First typing, for any number of strategies, workers and connections and *)
(* any wiring between them.  The types alone are not inductive: a step     *)
(* reads the arguments of its operation and the move it is making, so      *)
(* every step must belong to an operation that has them.                   *)
(* Then the safety of what is committed; its argument is told below.       *)
(***************************************************************************)
EXTENDS StrategyLifecycleProps, TLAPS

\* The operations a step, or a resumption, belongs to.
OperationsOf(step) ==
    CASE step \in {"load", "create", "insertRow", "createEvent"}
           -> {"sync", "replace"}
      [] step \in {"check", "update", "event"}
           -> {"sync", "replace", "admit", "handoff", "assess"}
      [] step = "moved"
           -> {"sync", "replace", "assess"}
      [] step \in {"preflight", "present", "lookup", "confirm", "existing",
                   "save", "insert"}
           -> {"admit", "handoff"}
      [] step \in {"request", "newRequest"}
           -> {"assess", "feedback"}
      [] step \in {"health", "provenance", "publish"}
           -> {"assess"}
      [] step = "restore"
           -> {"feedback"}
      [] step \in {"control", "mark"}
           -> {"assess", "feedback", "control"}
      [] step \in {"verify", "source", "cycle", "record"}
           -> {"replace"}
      [] OTHER -> Operation

\* The steps that read the move.
ReadsMove == {"check", "update", "event", "moved"}

\* Where a commit goes on.
AfterCommit == {"load", "moved", "done", "check", "provenance", "request"}

\* The worker has what the step reads.
Fits(w, step) ==
    /\ call[w] \in Call
    /\ call[w].op \in OperationsOf(step)
    /\ step \in ReadsMove => move[w] \in Move

StepInv(w) ==
    /\ pc[w] = "idle" => move[w] = NoMove
    /\ pc[w] # "idle" => Fits(w, pc[w])
    /\ pc[w] = "commit" => resume[w] \in AfterCommit /\ Fits(w, resume[w])
    /\ call[w] \in Call /\ call[w].op = "feedback" => move[w] = NoMove

LocalInv ==
    /\ pc \in [Worker -> Step]
    /\ call \in [Worker -> Call \cup {NoCall}]
    /\ move \in [Worker -> Move \cup {NoMove}]
    /\ resume \in [Worker -> Resumption]
    /\ result \in [Worker -> Result]
    /\ \A w \in Worker : StepInv(w)

DataInv ==
    /\ disk \in Database
    /\ db \in Database
    /\ lock \in Connection \cup {NoConnection}

\* TypeOK and, for every step, the operation it belongs to.
TypeInv == LocalInv /\ DataInv
-----------------------------------------------------------------------------
(* Reading and writing the database *)

LEMMA ConnectionType ==
    ASSUME NEW w \in Worker
    PROVE  Conn(w) \in Connection /\ Conn(w) # NoConnection
  BY WiringAssumption DEF Conn

LEMMA ViewType ==
    ASSUME DataInv, NEW w \in Worker
    PROVE  View(w) \in Database
  BY DEF DataInv, View

LEMMA CommitData ==
    ASSUME DataInv, NEW w \in Worker, CommitConnection(w)
    PROVE  DataInv'
  BY DEF DataInv, CommitConnection, data

LEMMA RollbackData ==
    ASSUME DataInv, NEW w \in Worker, RollbackConnection(w)
    PROVE  DataInv'
  BY DEF DataInv, RollbackConnection, data

LEMMA SameData ==
    ASSUME DataInv, UNCHANGED data
    PROVE  DataInv'
  BY DEF DataInv, data

LEMMA RowData ==
    ASSUME NEW D \in Database, NEW s \in Strategy, NEW x \in Row
    PROVE  [D EXCEPT !.row[s] = x] \in Database
  BY DEF Database

LEMMA LogData ==
    ASSUME NEW D \in Database, NEW s \in Strategy, NEW e \in Event
    PROVE  Log(D, s, e) \in Database
  <1>1. Append(D.events[s], e) \in Seq(Event)
    BY DEF Database
  <1> QED
    BY <1>1 DEF Database, Log

LEMMA AdmissionData ==
    ASSUME NEW D \in Database, NEW a \in Admission
    PROVE  [D EXCEPT !.admissions = @ \cup {a}] \in Database
  BY DEF Database

LEMMA RequestData ==
    ASSUME NEW D \in Database, NEW r \in Request
    PROVE  /\ [D EXCEPT !.requests = @ \cup {r}] \in Database
           /\ [D EXCEPT !.cycles = @ \cup {r}] \in Database
           /\ [D EXCEPT !.feedback = @ \cup {r}] \in Database
  BY DEF Database

LEMMA ControlData ==
    ASSUME NEW D \in Database, NEW s \in Strategy, NEW x \in ControlState
    PROVE  [D EXCEPT !.control[s] = x] \in Database
  BY DEF Database

LEMMA CallFields ==
    ASSUME NEW c \in Call
    PROVE  /\ c.op \in Operation
           /\ c.op \in {"sync", "replace"} =>
                /\ c.candidate \in Strategy
                /\ c.prefix \in Reason
                /\ c.verdict \in Verdict
           /\ c.op = "replace" => c.prefix \in Request
           /\ c.op \in {"admit", "handoff"} =>
                /\ c.strategy \in Strategy
                /\ c.run \in Run
                /\ c.reason \in AdmissionReason
           /\ c.op \in {"assess", "feedback"} =>
                c.strategy \in Strategy /\ c.request \in Request
           /\ c.op = "control" => c.strategy \in Strategy /\ c.state = "HALTED"
  <1>1. CASE c.op = "sync"
    BY <1>1, WiringAssumption DEF Call, Operation, Reason
  <1>2. CASE c.op = "replace"
    BY <1>2 DEF Call, Operation, Reason
  <1>3. CASE c.op \in {"admit", "handoff"}
    BY <1>3 DEF Call, Operation
  <1>4. CASE c.op \in {"assess", "feedback"}
    BY <1>4, WiringAssumption DEF Call, Operation
  <1>5. CASE c.op = "control"
    BY <1>5, WiringAssumption DEF Call, Operation
  <1> QED
    BY <1>1, <1>2, <1>3, <1>4, <1>5 DEF Call
-----------------------------------------------------------------------------
(* Jumps of a worker *)

LEMMA GotoLocal ==
    ASSUME LocalInv, NEW w \in Worker, NEW step \in Step \ {"idle", "commit"},
           pc[w] # "idle", Fits(w, step), Goto(w, step)
    PROVE  LocalInv'
  <1>1. /\ pc' = [pc EXCEPT ![w] = step]
        /\ call' = call /\ move' = move /\ resume' = resume /\ result' = result
    BY DEF Goto
  <1>2. ASSUME NEW v \in Worker PROVE StepInv(v)'
    <2>1. CASE v = w
      BY <1>1, <2>1 DEF LocalInv, StepInv, Fits
    <2>2. CASE v # w
      BY <1>1, <2>2 DEF LocalInv, StepInv, Fits
    <2> QED
      BY <2>1, <2>2
  <1> QED
    BY <1>1, <1>2 DEF LocalInv

LEMMA AnswerLocal ==
    ASSUME LocalInv, NEW w \in Worker, NEW value \in Result,
           pc[w] # "idle", Answer(w, value)
    PROVE  LocalInv'
  <1>1. /\ pc' = [pc EXCEPT ![w] = "reply"]
        /\ call' = call /\ move' = move /\ resume' = resume
        /\ result' = [result EXCEPT ![w] = value]
    BY DEF Answer
  <1>2. call[w] \in Call /\ call[w].op \in OperationsOf("reply")
    BY CallFields DEF LocalInv, StepInv, Fits, OperationsOf
  <1>3. ASSUME NEW v \in Worker PROVE StepInv(v)'
    <2>1. CASE v = w
      BY <1>1, <1>2, <2>1 DEF LocalInv, StepInv, Fits, ReadsMove
    <2>2. CASE v # w
      BY <1>1, <2>2 DEF LocalInv, StepInv, Fits
    <2> QED
      BY <2>1, <2>2
  <1> QED
    BY <1>1, <1>3 DEF LocalInv, Step

LEMMA MovingLocal ==
    ASSUME LocalInv, NEW w \in Worker, NEW step \in {"check", "request"},
           NEW next \in Move, pc[w] # "idle", call[w].op # "feedback",
           call[w].op \in OperationsOf(step), Moving(w, next, step)
    PROVE  LocalInv'
  <1>1. /\ pc' = [pc EXCEPT ![w] = step]
        /\ move' = [move EXCEPT ![w] = next]
        /\ call' = call /\ resume' = resume /\ result' = result
    BY DEF Moving
  <1>2. call[w] \in Call
    BY DEF LocalInv, StepInv, Fits
  <1>3. ASSUME NEW v \in Worker PROVE StepInv(v)'
    <2>1. CASE v = w
      BY <1>1, <1>2, <2>1 DEF LocalInv, StepInv, Fits
    <2>2. CASE v # w
      BY <1>1, <2>2 DEF LocalInv, StepInv, Fits
    <2> QED
      BY <2>1, <2>2
  <1> QED
    BY <1>1, <1>3 DEF LocalInv, Step

LEMMA WriteType ==
    ASSUME TypeInv, NEW w \in Worker, NEW step \in Step \ {"idle", "commit"},
           NEW D \in Database, pc[w] # "idle", Fits(w, step), Write(w, D, step)
    PROVE  TypeInv'
  <1>1. LocalInv'
    BY GotoLocal DEF Write, TypeInv
  <1>2. DataInv'
    BY ConnectionType DEF Write, TypeInv, DataInv
  <1> QED
    BY <1>1, <1>2 DEF TypeInv

LEMMA WriteAndCommitType ==
    ASSUME TypeInv, NEW w \in Worker, NEW step \in AfterCommit,
           NEW D \in Database, pc[w] # "idle", Fits(w, step),
           WriteAndCommit(w, D, step)
    PROVE  TypeInv'
  <1>1. /\ pc' = [pc EXCEPT ![w] = "commit"]
        /\ resume' = [resume EXCEPT ![w] = step]
        /\ call' = call /\ move' = move /\ result' = result
        /\ lock' = Conn(w) /\ db' = D /\ disk' = disk
    BY DEF WriteAndCommit
  <1>2. call[w] \in Call /\ call[w].op \in OperationsOf("commit")
    BY CallFields DEF Fits, OperationsOf
  <1>3. ASSUME NEW v \in Worker PROVE StepInv(v)'
    <2>1. CASE v = w
      BY <1>1, <1>2, <2>1 DEF TypeInv, LocalInv, StepInv, Fits, ReadsMove
    <2>2. CASE v # w
      BY <1>1, <2>2 DEF TypeInv, LocalInv, StepInv, Fits
    <2> QED
      BY <2>1, <2>2
  <1>4. step \in Resumption
    BY DEF AfterCommit, Resumption, Step
  <1>5. LocalInv'
    BY <1>1, <1>3, <1>4 DEF TypeInv, LocalInv, Step
  <1>6. DataInv'
    BY <1>1, ConnectionType DEF TypeInv, DataInv
  <1> QED
    BY <1>5, <1>6 DEF TypeInv

LEMMA FailType ==
    ASSUME TypeInv, NEW w \in Worker, pc[w] # "idle", Fail(w)
    PROVE  TypeInv'
  BY AnswerLocal, SameData DEF TypeInv, Fail, Result

LEMMA FailInBlockType ==
    ASSUME TypeInv, NEW w \in Worker, pc[w] # "idle", FailInBlock(w)
    PROVE  TypeInv'
  BY AnswerLocal, RollbackData DEF TypeInv, FailInBlock, Result

LEMMA MoveType ==
    ASSUME NEW s \in Strategy, NEW source \in Stage, NEW target \in Stage,
           NEW reason \in Reason
    PROVE  MoveTo(s, source, target, reason) \in Move
  BY DEF MoveTo, Move

LEMMA AfterSyncLocal ==
    ASSUME LocalInv, NEW w \in Worker, pc[w] # "idle", call[w] \in Call,
           call[w].op \in {"sync", "replace"}, AfterSync(w)
    PROVE  LocalInv'
  <1>1. CASE call[w].op = "sync"
    BY <1>1, AnswerLocal DEF AfterSync, Result
  <1>2. CASE call[w].op = "replace"
    <2> DEFINE r == call[w].prefix
    <2>1. r \in Request /\ r \in Reason /\ r.strategy \in Strategy
      BY <1>2, CallFields, WiringAssumption DEF Request
    <2>2. MoveTo(r.strategy, "DEGRADED", "RESEARCH", r) \in Move
      BY <2>1, MoveType DEF Stage
    <2>3. Moving(w, MoveTo(r.strategy, "DEGRADED", "RESEARCH", r), "check")
      BY <1>2 DEF AfterSync
    <2> QED
      BY <1>2, <2>2, <2>3, MovingLocal DEF OperationsOf
  <1> QED
    BY <1>1, <1>2

LEMMA AfterMoveLocal ==
    ASSUME LocalInv, NEW w \in Worker, pc[w] # "idle", Fits(w, "moved"),
           AfterMove(w)
    PROVE  LocalInv'
  <1> DEFINE c == call[w]
             m == move[w]
  <1>1. c \in Call /\ c.op \in {"sync", "replace", "assess"} /\ m \in Move
    BY DEF Fits, OperationsOf, ReadsMove
  <1>2. CASE c.op = "assess"
    <2>1. Goto(w, "control")
      BY <1>2 DEF AfterMove
    <2> QED
      BY <1>1, <1>2, <2>1, GotoLocal DEF Fits, OperationsOf, Step, ReadsMove
  <1>3. CASE c.op = "replace" /\ m.target = "RESEARCH"
    <2>1. Goto(w, "cycle")
      BY <1>3 DEF AfterMove
    <2> QED
      BY <1>1, <1>3, <2>1, GotoLocal DEF Fits, OperationsOf, Step, ReadsMove
  <1>4. CASE /\ c.op \in {"sync", "replace"}
             /\ m.target = "VALIDATED" /\ c.verdict.eligible
    <2> DEFINE next == MoveTo(m.strategy, "VALIDATED", "PROMOTED", c.prefix)
    <2>1. next \in Move
      BY <1>1, <1>4, CallFields, MoveType DEF Move, Stage
    <2>2. Moving(w, next, "check")
      BY <1>4 DEF AfterMove
    <2> QED
      BY <1>1, <1>4, <2>1, <2>2, MovingLocal DEF OperationsOf
  <1>5. CASE /\ c.op # "assess"
             /\ ~(c.op = "replace" /\ m.target = "RESEARCH")
             /\ ~(/\ c.op \in {"sync", "replace"}
                  /\ m.target = "VALIDATED" /\ c.verdict.eligible)
    <2>1. AfterSync(w)
      BY <1>5 DEF AfterMove
    <2> QED
      BY <1>1, <1>5, <2>1, AfterSyncLocal
  <1> QED
    BY <1>2, <1>3, <1>4, <1>5

LEMMA ResumeLocal ==
    ASSUME LocalInv, NEW w \in Worker, pc[w] # "idle",
           NEW step \in (Step \ {"idle", "commit"}) \cup {"done", "moved"},
           Fits(w, step), Resume(w, step)
    PROVE  LocalInv'
  <1>1. CASE step = "done"
    BY <1>1, AnswerLocal DEF Resume, Result
  <1>2. CASE step = "moved"
    BY <1>2, AfterMoveLocal DEF Resume
  <1>3. CASE step \in Step \ {"idle", "commit"}
    <2>1. Goto(w, step)
      BY <1>3 DEF Resume, Step
    <2> QED
      BY <1>3, <2>1, GotoLocal
  <1> QED
    BY <1>1, <1>2, <1>3
-----------------------------------------------------------------------------
(* The steps, component by component *)

LEMMA AtWork ==
    ASSUME TypeInv, NEW w \in Worker, pc[w] # "idle"
    PROVE  /\ Fits(w, pc[w])
           /\ call[w] \in Call
           /\ pc[w] \in Step
           /\ move[w] \in Move \cup {NoMove}
           /\ View(w) \in Database
  BY ViewType DEF TypeInv, LocalInv, StepInv, Fits

LEMMA NoMoveIsNoMove ==
    NoMove \notin Move
  BY DEF NoMove, Move, Stage

LEMMA TransitionType ==
    ASSUME TypeInv, NEW w \in Worker,
           Check(w) \/ Update(w) \/ AppendEvent(w)
    PROVE  TypeInv'
  <1> DEFINE c == call[w]
             m == move[w]
  <1>1. /\ pc[w] \in {"check", "update", "event"}
        /\ c \in Call /\ m \in Move
        /\ c.op \in {"sync", "replace", "admit", "handoff", "assess"}
    BY AtWork DEF Check, Update, AppendEvent, Fits, OperationsOf, ReadsMove
  <1>2. CASE Check(w)
    <2>1. CASE Goto(w, "update") /\ UNCHANGED data
      <3>1. Fits(w, "update")
        BY <1>1 DEF Fits, OperationsOf, ReadsMove
      <3> QED
        BY <1>1, <2>1, <3>1, GotoLocal, SameData DEF TypeInv, Step
    <2>2. CASE Answer(w, "REFUSED") /\ RollbackConnection(w)
      BY <1>1, <2>2, AnswerLocal, RollbackData DEF TypeInv, Result
    <2>3. CASE Fail(w)
      BY <1>1, <2>3, FailType
    <2> QED
      BY <1>2, <2>1, <2>2, <2>3 DEF Check
  <1>3. CASE Update(w)
    <2> DEFINE D == [db EXCEPT !.row[m.strategy] =
                       [stage |-> m.target, reason |-> m.reason]]
    <2>1. D \in Database
      BY <1>1, RowData DEF Move, Row, TypeInv, DataInv
    <2>2. Fits(w, "event")
      BY <1>1 DEF Fits, OperationsOf, ReadsMove
    <2>3. Write(w, D, "event")
      BY <1>3 DEF Update
    <2> QED
      BY <1>1, <2>1, <2>2, <2>3, WriteType DEF Step
  <1>4. CASE AppendEvent(w)
    <2> DEFINE D == Log(db, m.strategy, EventOf(m))
    <2>1. D \in Database
      <3>1. EventOf(m) \in Event /\ m.strategy \in Strategy
        BY <1>1 DEF EventOf, Event, Move
      <3> QED
        BY <3>1, LogData DEF TypeInv, DataInv
    <2>2. CASE Fail(w)
      BY <1>1, <2>2, FailType
    <2>3. CASE c.op \in {"admit", "handoff"} /\ Write(w, D, "save")
      <3>1. Fits(w, "save")
        BY <1>1, <2>3 DEF Fits, OperationsOf, ReadsMove
      <3> QED
        BY <1>1, <2>1, <2>3, <3>1, WriteType DEF Step
    <2>4. CASE /\ c.op \notin {"admit", "handoff"}
               /\ WriteAndCommit(w, D, "moved")
      <3>1. Fits(w, "moved")
        BY <1>1, <2>4 DEF Fits, OperationsOf, ReadsMove
      <3> QED
        BY <1>1, <2>1, <2>4, <3>1, WriteAndCommitType DEF AfterCommit
    <2> QED
      BY <1>4, <2>2, <2>3, <2>4 DEF AppendEvent
  <1> QED
    BY <1>2, <1>3, <1>4

LEMMA CommitType ==
    ASSUME TypeInv, NEW w \in Worker, Commit(w)
    PROVE  TypeInv'
  <1>1. pc[w] = "commit" /\ resume[w] \in AfterCommit /\ Fits(w, resume[w])
    BY DEF Commit, TypeInv, LocalInv, StepInv
  <1>2. LocalInv'
    BY <1>1, ResumeLocal DEF Commit, TypeInv, AfterCommit, Step
  <1>3. DataInv'
    BY CommitData DEF Commit, TypeInv
  <1> QED
    BY <1>2, <1>3 DEF TypeInv

LEMMA SyncType ==
    ASSUME TypeInv, NEW w \in Worker,
           Load(w) \/ Create(w) \/ InsertRow(w) \/ CreateEvent(w)
    PROVE  TypeInv'
  <1> DEFINE c == call[w]
             s == c.candidate
  <1>1. /\ pc[w] \in {"load", "create", "insertRow", "createEvent"}
        /\ c \in Call
        /\ c.op \in {"sync", "replace"}
    BY AtWork DEF Load, Create, InsertRow, CreateEvent, Fits, OperationsOf
  <1>2. s \in Strategy /\ c.prefix \in Reason /\ c.verdict \in Verdict
    BY <1>1, CallFields
  <1>3. /\ Fits(w, "load") /\ Fits(w, "create")
        /\ Fits(w, "insertRow") /\ Fits(w, "createEvent")
    BY <1>1 DEF Fits, OperationsOf, ReadsMove
  <1>4. CASE Load(w)
    <2>1. DataInv'
      BY <1>4, SameData DEF Load, TypeInv
    <2>2. ASSUME Goto(w, "create") PROVE LocalInv'
      BY <1>1, <1>3, <2>2, GotoLocal DEF TypeInv, Step
    <2>3. ASSUME AfterSync(w) PROVE LocalInv'
      BY <1>1, <2>3, AfterSyncLocal DEF TypeInv
    <2>4. ASSUME NEW next \in Move, Moving(w, next, "check")
          PROVE  LocalInv'
      BY <1>1, <2>4, MovingLocal DEF TypeInv, OperationsOf
    <2>5. /\ MoveTo(s, "RESEARCH", "VALIDATED", c.prefix) \in Move
          /\ MoveTo(s, "RESEARCH", "DEGRADED", c.prefix) \in Move
          /\ MoveTo(s, "VALIDATED", "PROMOTED", c.prefix) \in Move
      BY <1>2, MoveType DEF Stage
    <2>6. \/ Goto(w, "create") \/ AfterSync(w)
          \/ Moving(w, MoveTo(s, "RESEARCH",
                     IF c.verdict.passed THEN "VALIDATED" ELSE "DEGRADED",
                     c.prefix), "check")
          \/ Moving(w, MoveTo(s, "VALIDATED", "PROMOTED", c.prefix), "check")
      BY <1>4 DEF Load
    <2>7. LocalInv'
      BY <2>2, <2>3, <2>4, <2>5, <2>6 DEF TypeInv
    <2> QED
      BY <2>1, <2>7 DEF TypeInv
  <1>5. CASE Create(w)
    <2>1. DataInv'
      BY <1>5, SameData DEF Create, TypeInv
    <2>2. \/ Goto(w, "insertRow") \/ Goto(w, "load")
          \/ Answer(w, "RAISED")
      BY <1>5 DEF Create
    <2>3. LocalInv'
      BY <1>1, <1>3, <2>2, GotoLocal, AnswerLocal DEF TypeInv, Step, Result
    <2> QED
      BY <2>1, <2>3 DEF TypeInv
  <1>6. CASE InsertRow(w)
    <2> DEFINE D == [db EXCEPT !.row[s] = NewRow(w)]
    <2>1. NewRow(w) \in Row
      BY <1>2 DEF NewRow, Row, Stage
    <2>2. D \in Database
      BY <1>2, <2>1, RowData DEF TypeInv, DataInv
    <2>3. FailInBlock(w) \/ Write(w, D, "createEvent")
      BY <1>6 DEF InsertRow
    <2> QED
      BY <1>1, <1>3, <2>2, <2>3, FailInBlockType, WriteType DEF Step
  <1>7. CASE CreateEvent(w)
    <2> DEFINE e == [source |-> "ABSENT", target |-> "RESEARCH",
                     reason |-> c.prefix]
               D == Log(db, s, e)
    <2>1. e \in Event
      BY <1>2 DEF Event, Stage
    <2>2. D \in Database
      BY <1>2, <2>1, LogData DEF TypeInv, DataInv
    <2>3. FailInBlock(w) \/ WriteAndCommit(w, D, "load")
      BY <1>7 DEF CreateEvent
    <2> QED
      BY <1>1, <1>3, <2>2, <2>3, FailInBlockType, WriteAndCommitType
      DEF AfterCommit
  <1> QED
    BY <1>4, <1>5, <1>6, <1>7

LEMMA AdmissionType ==
    ASSUME TypeInv, NEW w \in Worker,
           \/ Preflight(w) \/ Present(w) \/ Lookup(w) \/ Existing(w)
           \/ Save(w) \/ Insert(w)
    PROVE  TypeInv'
  <1> DEFINE c == call[w]
  <1>1. /\ pc[w] \in {"preflight", "present", "lookup", "confirm", "existing",
                      "save", "insert"}
        /\ c \in Call
        /\ c.op \in {"admit", "handoff"}
    BY AtWork
    DEF Preflight, Present, Lookup, Existing, Save, Insert, Fits, OperationsOf
  <1>2. c.strategy \in Strategy /\ c.run \in Run /\ c.reason \in AdmissionReason
    BY <1>1, CallFields
  <1>3. /\ Fits(w, "present") /\ Fits(w, "lookup") /\ Fits(w, "confirm")
        /\ Fits(w, "existing") /\ Fits(w, "insert") /\ Fits(w, "done")
    BY <1>1, CallFields DEF Fits, OperationsOf, ReadsMove
  <1>4. CASE \/ Preflight(w) \/ Present(w) \/ Lookup(w)
    <2>1. DataInv'
      BY <1>4, SameData DEF Preflight, Present, Lookup, TypeInv
    <2>2. \/ \E step \in {"present", "lookup", "confirm", "existing"} :
               Goto(w, step)
          \/ \E value \in Result : Answer(w, value)
      BY <1>4 DEF Preflight, Present, Lookup, Result
    <2>3. LocalInv'
      BY <1>1, <1>3, <2>2, GotoLocal, AnswerLocal DEF TypeInv, Step
    <2> QED
      BY <2>1, <2>3 DEF TypeInv
  <1>5. CASE Existing(w)
    <2> DEFINE next == MoveTo(c.strategy, "PROMOTED", "PAPER",
                              [admission |-> c.reason])
    <2>1. next \in Move
      BY <1>2, MoveType DEF Stage, Reason
    <2>2. DataInv'
      BY <1>5, SameData DEF Existing, TypeInv
    <2>3. (\E value \in Result : Answer(w, value)) \/ Moving(w, next, "check")
      BY <1>5 DEF Existing, Result
    <2>4. LocalInv'
      BY <1>1, <2>1, <2>3, AnswerLocal, MovingLocal DEF TypeInv, OperationsOf
    <2> QED
      BY <2>2, <2>4 DEF TypeInv
  <1>6. CASE Save(w)
    <2>1. \/ Goto(w, "insert") /\ UNCHANGED data
          \/ Answer(w, "DONE") /\ UNCHANGED data
          \/ Answer(w, "REFUSED") /\ RollbackConnection(w)
      BY <1>6 DEF Save
    <2>2. DataInv'
      BY <2>1, SameData, RollbackData DEF TypeInv
    <2>3. LocalInv'
      BY <1>1, <1>3, <2>1, GotoLocal, AnswerLocal DEF TypeInv, Step, Result
    <2> QED
      BY <2>2, <2>3 DEF TypeInv
  <1>7. CASE Insert(w)
    <2> DEFINE D == [db EXCEPT !.admissions = @ \cup {AdmissionOf(c)}]
    <2>1. AdmissionOf(c) \in Admission
      BY <1>2 DEF AdmissionOf, Admission
    <2>2. D \in Database
      BY <2>1, AdmissionData DEF TypeInv, DataInv
    <2>3. FailInBlock(w) \/ WriteAndCommit(w, D, "done")
      BY <1>7 DEF Insert
    <2> QED
      BY <1>1, <1>3, <2>2, <2>3, FailInBlockType, WriteAndCommitType
      DEF AfterCommit
  <1> QED
    BY <1>4, <1>5, <1>6, <1>7

LEMMA HealthType ==
    ASSUME TypeInv, NEW w \in Worker,
           \/ Health(w) \/ SaveRequest(w) \/ NewRequest(w)
           \/ Provenance(w) \/ Publish(w)
    PROVE  TypeInv'
  <1> DEFINE c == call[w]
  <1>1. /\ pc[w] \in {"health", "request", "newRequest", "provenance", "publish"}
        /\ c \in Call
        /\ c.op \in {"assess", "feedback"}
        /\ move[w] \in Move \cup {NoMove}
        /\ c.op = "feedback" => move[w] = NoMove
    BY AtWork
    DEF Health, SaveRequest, NewRequest, Provenance, Publish, Fits, OperationsOf,
        TypeInv, LocalInv, StepInv
  <1>2. c.strategy \in Strategy /\ c.request \in Request /\ c.request.cause \in Cause
    BY <1>1, CallFields DEF Request
  <1>3. Fits(w, "request") /\ Fits(w, "newRequest") /\ Fits(w, "done")
    BY <1>1, CallFields DEF Fits, OperationsOf, ReadsMove
  <1>4. AfterRequest(w) \in {"done", "check"} /\ Fits(w, AfterRequest(w))
    <2>1. CASE move[w] = NoMove
      BY <2>1, <1>3 DEF AfterRequest
    <2>2. CASE move[w] # NoMove
      BY <2>2, <1>1 DEF AfterRequest, Fits, OperationsOf, ReadsMove
    <2> QED
      BY <2>1, <2>2
  <1>5. CASE Health(w)
    <2> DEFINE next == MoveTo(c.strategy, "PAPER", "DEGRADED",
                              [cause |-> c.request.cause])
    <2>1. next \in Move
      BY <1>2, MoveType DEF Stage, Reason
    <2>2. DataInv'
      BY <1>5, SameData DEF Health, TypeInv
    <2>3. c.op = "assess"
      BY <1>5, AtWork DEF Health, Fits, OperationsOf
    <2>4. \/ Moving(w, next, "request") \/ Goto(w, "request")
          \/ Answer(w, "RAISED")
      BY <1>5 DEF Health
    <2>5. LocalInv'
      BY <1>1, <1>3, <2>1, <2>3, <2>4, GotoLocal, AnswerLocal, MovingLocal
      DEF TypeInv, OperationsOf, Step, Result
    <2> QED
      BY <2>2, <2>5 DEF TypeInv
  <1>6. CASE SaveRequest(w)
    <2>1. DataInv'
      BY <1>6, SameData DEF SaveRequest, TypeInv
    <2>2. Resume(w, AfterRequest(w)) \/ Resume(w, "newRequest")
      BY <1>6 DEF SaveRequest
    <2>3. LocalInv'
      BY <1>1, <1>3, <1>4, <2>2, ResumeLocal DEF TypeInv, Step
    <2> QED
      BY <2>1, <2>3 DEF TypeInv
  <1>7. CASE NewRequest(w)
    <2> DEFINE D == [db EXCEPT !.requests = @ \cup {c.request}]
    <2>1. D \in Database
      BY <1>2, RequestData DEF TypeInv, DataInv
    <2>2. Fail(w) \/ WriteAndCommit(w, D, AfterRequest(w))
      BY <1>7 DEF NewRequest
    <2> QED
      BY <1>1, <1>4, <2>1, <2>2, FailType, WriteAndCommitType DEF AfterCommit
  <1>8. CASE Provenance(w)
    <2>1. DataInv'
      BY <1>8, SameData DEF Provenance, TypeInv
    <2>2. Fits(w, "publish")
      BY <1>8, AtWork DEF Provenance, Fits, OperationsOf, ReadsMove
    <2>3. Resume(w, "done") \/ Resume(w, "publish")
      BY <1>8 DEF Provenance
    <2>4. LocalInv'
      BY <1>1, <1>3, <2>2, <2>3, ResumeLocal DEF TypeInv, Step
    <2> QED
      BY <2>1, <2>4 DEF TypeInv
  <1>9. CASE Publish(w)
    <2> DEFINE D == [db EXCEPT !.feedback = @ \cup {c.request}]
    <2>1. D \in Database
      BY <1>2, RequestData DEF TypeInv, DataInv
    <2>2. FailInBlock(w) \/ WriteAndCommit(w, D, "done")
      BY <1>9 DEF Publish
    <2> QED
      BY <1>1, <1>3, <2>1, <2>2, FailInBlockType, WriteAndCommitType DEF AfterCommit
  <1> QED
    BY <1>5, <1>6, <1>7, <1>8, <1>9

LEMMA ControlType ==
    ASSUME TypeInv, NEW w \in Worker, Restore(w) \/ Control(w) \/ Mark(w)
    PROVE  TypeInv'
  <1> DEFINE c == call[w]
  <1>1. /\ pc[w] \in {"restore", "control", "mark"}
        /\ c \in Call
        /\ c.op \in {"assess", "feedback", "control"}
    BY AtWork DEF Restore, Control, Mark, Fits, OperationsOf
  <1>2. Fits(w, "control") /\ Fits(w, "mark") /\ Fits(w, "done")
    BY <1>1, CallFields DEF Fits, OperationsOf, ReadsMove
  <1>3. CASE Restore(w)
    <2>1. DataInv'
      BY <1>3, SameData DEF Restore, TypeInv
    <2>2. Resume(w, "control") \/ Resume(w, "done")
      BY <1>3 DEF Restore
    <2>3. LocalInv'
      BY <1>1, <1>2, <2>2, ResumeLocal DEF TypeInv, Step
    <2> QED
      BY <2>1, <2>3 DEF TypeInv
  <1>4. CASE Control(w)
    <2>1. DataInv'
      BY <1>4, SameData DEF Control, TypeInv
    <2>2. Answer(w, "RAISED") \/ Goto(w, "mark")
      BY <1>4 DEF Control
    <2>3. LocalInv'
      BY <1>1, <1>2, <2>2, AnswerLocal, GotoLocal DEF TypeInv, Step, Result
    <2> QED
      BY <2>1, <2>3 DEF TypeInv
  <1>5. CASE Mark(w)
    <2> DEFINE D == [db EXCEPT !.control[c.strategy] = ControlTarget(c)]
               step == CASE c.op = "assess"   -> "provenance"
                         [] c.op = "feedback" -> "request"
                         [] OTHER             -> "done"
    <2>1. c.strategy \in Strategy /\ ControlTarget(c) \in ControlState
      BY <1>1, CallFields DEF ControlTarget, ControlState
    <2>2. D \in Database
      BY <2>1, ControlData DEF TypeInv, DataInv
    <2>3. step \in AfterCommit
      BY DEF AfterCommit
    <2>4. Fits(w, step)
      <3>1. CASE c.op = "assess"
        BY <3>1, <1>1 DEF Fits, OperationsOf, ReadsMove
      <3>2. CASE c.op = "feedback"
        BY <3>2, <1>1 DEF Fits, OperationsOf, ReadsMove
      <3>3. CASE c.op = "control"
        BY <3>3, <1>2
      <3> QED
        BY <1>1, <3>1, <3>2, <3>3
    <2>5. WriteAndCommit(w, D, step)
      BY <1>5 DEF Mark
    <2> QED
      BY <1>1, <2>2, <2>3, <2>4, <2>5, WriteAndCommitType
  <1> QED
    BY <1>3, <1>4, <1>5

LEMMA CycleType ==
    ASSUME TypeInv, NEW w \in Worker,
           Verify(w) \/ Source(w) \/ SaveCycle(w) \/ RecordCycle(w)
    PROVE  TypeInv'
  <1> DEFINE c == call[w]
  <1>1. /\ pc[w] \in {"verify", "source", "cycle", "record"}
        /\ c \in Call
        /\ c.op = "replace"
    BY AtWork DEF Verify, Source, SaveCycle, RecordCycle, Fits, OperationsOf
  <1>2. c.prefix \in Request
    BY <1>1, CallFields
  <1>3. Fits(w, "source") /\ Fits(w, "load") /\ Fits(w, "record") /\ Fits(w, "done")
    BY <1>1, CallFields DEF Fits, OperationsOf, ReadsMove
  <1>4. CASE Verify(w) \/ Source(w)
    <2>1. DataInv'
      BY <1>4, SameData DEF Verify, Source, TypeInv
    <2>2. Goto(w, "source") \/ Goto(w, "load") \/ Answer(w, "RAISED")
      BY <1>4 DEF Verify, Source
    <2>3. LocalInv'
      BY <1>1, <1>3, <2>2, GotoLocal, AnswerLocal DEF TypeInv, Step, Result
    <2> QED
      BY <2>1, <2>3 DEF TypeInv
  <1>5. CASE SaveCycle(w)
    <2>1. DataInv'
      BY <1>5, SameData DEF SaveCycle, TypeInv
    <2>2. Resume(w, "done") \/ Resume(w, "record")
      BY <1>5 DEF SaveCycle
    <2>3. LocalInv'
      BY <1>1, <1>3, <2>2, ResumeLocal DEF TypeInv, Step
    <2> QED
      BY <2>1, <2>3 DEF TypeInv
  <1>6. CASE RecordCycle(w)
    <2> DEFINE D == [db EXCEPT !.cycles = @ \cup {c.prefix}]
    <2>1. D \in Database
      BY <1>2, RequestData DEF TypeInv, DataInv
    <2>2. Fail(w) \/ WriteAndCommit(w, D, "done")
      BY <1>6 DEF RecordCycle
    <2> QED
      BY <1>1, <1>3, <2>1, <2>2, FailType, WriteAndCommitType DEF AfterCommit
  <1> QED
    BY <1>4, <1>5, <1>6

LEMMA StartType ==
    ASSUME TypeInv, NEW w \in Worker, Start(w)
    PROVE  TypeInv'
  <1>1. PICK c \in Call : Begin(w, c)
    <2>1. CASE \E s \in Candidate, v \in Verdict :
                 Begin(w, [op |-> "sync", candidate |-> s, prefix |-> Evaluation,
                           verdict |-> v])
      BY <2>1 DEF Call
    <2>2. CASE \E op \in {"admit", "handoff"}, s \in Strategy, run \in Run,
                  reason \in AdmissionReason :
                 Begin(w, [op |-> op, strategy |-> s, run |-> run,
                           reason |-> reason])
      BY <2>2 DEF Call
    <2>3. CASE \E op \in {"assess", "feedback"}, r \in Request :
                 Begin(w, [op |-> op, strategy |-> r.strategy, request |-> r])
      BY <2>3 DEF Call, Request
    <2>4. CASE \E r \in Request, v \in Verdict :
                 Begin(w, [op |-> "replace", candidate |-> SuccessorOf[r],
                           prefix |-> r, verdict |-> v])
      <3>1. \A r \in Request : SuccessorOf[r] \in Strategy
        BY WiringAssumption
      <3> QED
        BY <2>4, <3>1 DEF Call
    <2>5. CASE \E s \in Monitored :
                 Begin(w, [op |-> "control", strategy |-> s, state |-> "HALTED"])
      BY <2>5, WiringAssumption DEF Call
    <2> QED
      BY <2>1, <2>2, <2>3, <2>4, <2>5 DEF Start
  <1>2. /\ pc[w] = "idle"
        /\ pc' = [pc EXCEPT ![w] = "open"]
        /\ call' = [call EXCEPT ![w] = c]
        /\ move' = move /\ resume' = resume /\ result' = result
        /\ UNCHANGED data
    BY <1>1 DEF Begin
  <1>3. c.op \in OperationsOf("open")
    BY CallFields DEF OperationsOf
  <1>4. ASSUME NEW v \in Worker PROVE StepInv(v)'
    <2>1. CASE v = w
      BY <1>2, <1>3, <2>1 DEF TypeInv, LocalInv, StepInv, Fits, ReadsMove
    <2>2. CASE v # w
      BY <1>2, <2>2 DEF TypeInv, LocalInv, StepInv, Fits
    <2> QED
      BY <2>1, <2>2
  <1>5. LocalInv'
    BY <1>2, <1>4 DEF TypeInv, LocalInv, Step
  <1> QED
    BY <1>2, <1>5, SameData DEF TypeInv

LEMMA OpenType ==
    ASSUME TypeInv, NEW w \in Worker, Open(w)
    PROVE  TypeInv'
  <1>1. pc[w] = "open" /\ call[w] \in Call /\ call[w].op \in Operation
    BY AtWork, CallFields DEF Open
  <1>2. /\ FirstStep(call[w].op) \in Step \ {"idle", "commit"}
        /\ Fits(w, FirstStep(call[w].op))
    BY <1>1 DEF FirstStep, Operation, Step, Fits, OperationsOf, ReadsMove
  <1>3. LocalInv'
    BY <1>1, <1>2, GotoLocal DEF Open, TypeInv
  <1> QED
    BY <1>3, CommitData DEF Open, TypeInv

LEMMA ForgetLocal ==
    ASSUME LocalInv, NEW ws, Forget(ws)
    PROVE  LocalInv'
  <1>1. ASSUME NEW v \in Worker PROVE StepInv(v)'
    <2>1. CASE v \in ws
      BY <2>1 DEF LocalInv, StepInv, Forget, Fits, NoCall, Call
    <2>2. CASE v \notin ws
      BY <2>2 DEF LocalInv, StepInv, Forget, Fits
    <2> QED
      BY <2>1, <2>2
  <1> QED
    BY <1>1 DEF LocalInv, Forget, Step, Resumption, Result

LEMMA EndType ==
    ASSUME TypeInv,
           \/ \E w \in Worker : Busy(w) \/ Reply(w)
           \/ \E c \in Connection : Crash(c)
    PROVE  TypeInv'
  <1>1. ASSUME NEW w \in Worker, Busy(w) PROVE TypeInv'
    BY <1>1, FailType DEF Busy
  <1>2. ASSUME NEW w \in Worker, Reply(w) PROVE TypeInv'
    BY <1>2, ForgetLocal, SameData DEF Reply, TypeInv
  <1>3. ASSUME NEW c \in Connection, Crash(c) PROVE TypeInv'
    <2>1. LocalInv'
      BY <1>3, ForgetLocal DEF Crash, TypeInv
    <2>2. DataInv'
      BY <1>3 DEF Crash, TypeInv, DataInv, data
    <2> QED
      BY <2>1, <2>2 DEF TypeInv
  <1> QED
    BY <1>1, <1>2, <1>3

LEMMA TypeInit ==
    ASSUME Init
    PROVE  TypeInv
  <1>1. EmptyDatabase \in Database
    BY DEF EmptyDatabase, Database, ControlState
  <1>2. \A w \in Worker : StepInv(w)
    BY DEF Init, StepInv, NoCall, Call
  <1> QED
    BY <1>1, <1>2 DEF Init, TypeInv, LocalInv, DataInv, Step, Resumption, Result

LEMMA TypeStep ==
    ASSUME TypeInv, [Next]_vars
    PROVE  TypeInv'
  <1>1. CASE Next
    <2>1. ASSUME NEW w \in Worker, Advance(w) PROVE TypeInv'
      BY <2>1, TransitionType, CommitType, SyncType, AdmissionType, HealthType,
         ControlType, CycleType, OpenType, EndType
      DEF Advance
    <2> QED
      BY <1>1, <2>1, StartType, EndType DEF Next
  <1>2. CASE UNCHANGED vars
    BY <1>2 DEF vars, TypeInv, LocalInv, DataInv, StepInv, Fits
  <1> QED
    BY <1>1, <1>2

\* Every variable of the lifecycle keeps its type in every reachable state: in
\* particular a worker never reads an argument or a move its operation does not
\* have, whatever the interleaving, the wiring and the crashes.
THEOREM LifecycleTyping ==
    Spec => []TypeOK
  <1>1. Init => TypeInv
    BY TypeInit
  <1>2. TypeInv /\ [Next]_vars => TypeInv'
    BY TypeStep
  <1>3. TypeInv => TypeOK
    BY DEF TypeInv, LocalInv, DataInv, TypeOK
  <1> QED
    BY <1>1, <1>2, <1>3, PTL DEF Spec
-----------------------------------------------------------------------------
(***************************************************************************)
(* When every process has a connection of its own, stage, history and      *)
(* admissions agree in the committed database, and so do degradations,     *)
(* research requests and replacement cycles, for any number of processes,  *)
(* strategies, runs and reasons.  When one process works at a time, stages *)
(* follow the table of transitions.                                        *)
(*                                                                         *)
(* Stage, history and admissions are proved together, of the committed     *)
(* database and of the one the holder of the write lock sees: each is      *)
(* broken between two statements of a transaction, and a transaction that  *)
(* raised stays open, to be published by the next commit.  It is then      *)
(* whole again only because an event that is refused as a duplicate was    *)
(* logged before, with the admission that belonged to it.                  *)
(*                                                                         *)
(* Degradations and cycles rest on what a process has read before.  A      *)
(* request, an event, an evaluation is never taken back, so what it found  *)
(* is still there when it writes, whatever others committed meanwhile.     *)
(***************************************************************************)

\* No two workers share a connection: every process runs one operation at a
\* time.  The handlers of the API break this (LifecycleApi.cfg).
Separate == \A v, w \in Worker : ConnectionOf[v] = ConnectionOf[w] => v = w

AdmissionFor(x) == [admission |-> x]

Backed(D, s, q) ==
    \E a \in D.admissions : a.strategy = s /\ q = AdmissionFor(a.reason)

EnteredPaper(D, s, q) ==
    \E k \in DOMAIN D.events[s] :
        /\ D.events[s][k].source = "PROMOTED"
        /\ D.events[s][k].target = "PAPER"
        /\ D.events[s][k].reason = q

MatchedFor(D, s, Q) == \A q \in Q : EnteredPaper(D, s, q) <=> Backed(D, s, q)

\* For each reason, the history shows a way into PAPER exactly when there is an
\* admission, under whichever run.
Matched(D, s) == MatchedFor(D, s, Reason)

RowLogged(D, s) ==
    D.row[s].stage # "ABSENT" =>
        \E k \in DOMAIN D.events[s] :
            /\ D.events[s][k].target = D.row[s].stage
            /\ D.events[s][k].reason = D.row[s].reason

Sound(D, s) ==
    /\ D.row[s].stage = "PAPER" => Backed(D, s, D.row[s].reason)
    /\ Matched(D, s)
    /\ RowLogged(D, s)

AllSound(D) == \A s \in Strategy : Sound(D, s)

OthersSound(D, t) == \A s \in Strategy \ {t} : Sound(D, s)

\* The way into PAPER is logged, its admission is still to be recorded.
Owed(D, s, q) ==
    /\ OthersSound(D, s)
    /\ MatchedFor(D, s, Reason \ {q})
    /\ EnteredPaper(D, s, q)
    /\ RowLogged(D, s)
    /\ D.row[s].reason = q

\* Steps between the statements of one transaction.
Midway == {"event", "createEvent", "save", "insert"}

\* What the database shows the holder of the write lock.
Held(w) ==
    LET m == move[w]
        c == call[w]
    IN  /\ pc[w] = "event" =>
             /\ OthersSound(db, m.strategy)
             /\ Matched(db, m.strategy)
             /\ db.row[m.strategy] = [stage |-> m.target, reason |-> m.reason]
        /\ pc[w] = "createEvent" =>
             /\ OthersSound(db, c.candidate)
             /\ Matched(db, c.candidate)
             /\ db.row[c.candidate] = NewRow(w)
        /\ pc[w] \in {"save", "insert"} =>
             Owed(db, c.strategy, AdmissionFor(c.reason))
        /\ pc[w] \notin Midway => AllSound(db)

\* Only an admission moves a strategy to PAPER, and it moves its own.
MoveInv(w) ==
    move[w] # NoMove =>
        IF call[w].op \in {"admit", "handoff"}
        THEN /\ move[w].source = "PROMOTED"
             /\ move[w].target = "PAPER"
             /\ move[w].strategy = call[w].strategy
             /\ move[w].reason = AdmissionFor(call[w].reason)
        ELSE move[w].target # "PAPER"

LockInv ==
    /\ lock = NoConnection => db = disk
    /\ \A w \in Worker : pc[w] \in Midway \cup {"commit"} => lock = Conn(w)

SafeInv ==
    /\ LockInv
    /\ AllSound(disk)
    /\ \A w \in Worker : MoveInv(w) /\ (lock = Conn(w) => Held(w))
-----------------------------------------------------------------------------
(* The relations between the tables *)

LEMMA SoundSame ==
    ASSUME NEW D, NEW E, AllSound(D),
           E.row = D.row, E.events = D.events, E.admissions = D.admissions
    PROVE  AllSound(E)
  BY DEF AllSound, Sound, Backed, EnteredPaper, Matched, MatchedFor, RowLogged

\* An UPDATE or INSERT of a row.
LEMMA RowSound ==
    ASSUME NEW D \in Database, AllSound(D), NEW t \in Strategy, NEW x
    PROVE  LET E == [D EXCEPT !.row[t] = x]
           IN  OthersSound(E, t) /\ Matched(E, t) /\ E.row[t] = x
  <1> DEFINE E == [D EXCEPT !.row[t] = x]
  <1>1. /\ E.events = D.events /\ E.admissions = D.admissions
        /\ E.row = [D.row EXCEPT ![t] = x]
        /\ D.row \in [Strategy -> Row \cup {NoRow}]
    BY DEF Database
  <1>2. E.row[t] = x /\ \A s \in Strategy \ {t} : E.row[s] = D.row[s]
    BY <1>1
  <1>3. Matched(E, t)
    BY <1>1 DEF AllSound, Sound, Backed, EnteredPaper, Matched, MatchedFor
  <1>4. OthersSound(E, t)
    BY <1>1, <1>2
    DEF AllSound, OthersSound, Sound, Backed, EnteredPaper, Matched, MatchedFor,
        RowLogged
  <1> QED
    BY <1>2, <1>3, <1>4

LEMMA LogFields ==
    ASSUME NEW D \in Database, NEW t \in Strategy, NEW e \in Event
    PROVE  LET E == Log(D, t, e)
               n == Len(D.events[t])
           IN  /\ E.row = D.row /\ E.admissions = D.admissions
               /\ \A s \in Strategy \ {t} : E.events[s] = D.events[s]
               /\ DOMAIN D.events[t] = 1 .. n
               /\ DOMAIN E.events[t] = 1 .. n + 1
               /\ n \in Nat
               /\ E.events[t][n + 1] = e
               /\ \A k \in 1 .. n : E.events[t][k] = D.events[t][k]
  <1> DEFINE E == Log(D, t, e)
  <1>1. D.events \in [Strategy -> Seq(Event)] /\ D.events[t] \in Seq(Event)
    BY DEF Database
  <1>2. /\ E.row = D.row /\ E.admissions = D.admissions
        /\ E.events = [D.events EXCEPT ![t] = Append(D.events[t], e)]
    BY DEF Log, Database
  <1>3. E.events[t] = Append(D.events[t], e)
    BY <1>1, <1>2
  <1>4. \A s \in Strategy \ {t} : E.events[s] = D.events[s]
    BY <1>1, <1>2
  <1>5. ASSUME NEW q \in Seq(Event)
        PROVE  /\ Len(q) \in Nat
               /\ DOMAIN q = 1 .. Len(q)
               /\ DOMAIN Append(q, e) = 1 .. Len(q) + 1
               /\ Append(q, e)[Len(q) + 1] = e
               /\ \A k \in 1 .. Len(q) : Append(q, e)[k] = q[k]
    OBVIOUS
  <1> DEFINE n == Len(D.events[t])
  <1>6. /\ DOMAIN D.events[t] = 1 .. n
        /\ DOMAIN E.events[t] = 1 .. n + 1
        /\ n \in Nat
        /\ E.events[t][n + 1] = e
        /\ \A k \in 1 .. n : E.events[t][k] = D.events[t][k]
    BY <1>1, <1>3, <1>5, Zenon
  <1> QED
    BY <1>2, <1>4, <1>6

LEMMA LogOthers ==
    ASSUME NEW D \in Database, NEW t \in Strategy, NEW e \in Event,
           OthersSound(D, t)
    PROVE  OthersSound(Log(D, t, e), t)
  <1> DEFINE E == Log(D, t, e)
  <1>1. ASSUME NEW s \in Strategy \ {t} PROVE Sound(E, s)
    <2>1. /\ E.row = D.row /\ E.admissions = D.admissions
          /\ E.events[s] = D.events[s]
      BY LogFields
    <2>2. Sound(D, s)
      BY DEF OthersSound
    <2>3. \A q : EnteredPaper(E, s, q) <=> EnteredPaper(D, s, q)
      BY <2>1 DEF EnteredPaper
    <2>4. RowLogged(E, s) <=> RowLogged(D, s)
      BY <2>1 DEF RowLogged
    <2>5. \A q : Backed(E, s, q) <=> Backed(D, s, q)
      BY <2>1 DEF Backed
    <2> QED
      BY <2>1, <2>2, <2>3, <2>4, <2>5 DEF Sound, Matched, MatchedFor
  <1> QED
    BY <1>1 DEF OthersSound

LEMMA LogRow ==
    ASSUME NEW D \in Database, NEW t \in Strategy, NEW e \in Event,
           D.row[t].stage = e.target, D.row[t].reason = e.reason
    PROVE  RowLogged(Log(D, t, e), t)
  <1> DEFINE E == Log(D, t, e)
             n == Len(D.events[t])
  <1>1. E.row[t] = D.row[t] /\ n + 1 \in DOMAIN E.events[t] /\ E.events[t][n + 1] = e
    BY LogFields
  <1> QED
    BY <1>1 DEF RowLogged

LEMMA LogEntered ==
    ASSUME NEW D \in Database, NEW t \in Strategy, NEW e \in Event, NEW q
    PROVE  EnteredPaper(Log(D, t, e), t, q) <=>
               \/ EnteredPaper(D, t, q)
               \/ e.source = "PROMOTED" /\ e.target = "PAPER" /\ e.reason = q
  <1> DEFINE E == Log(D, t, e)
             n == Len(D.events[t])
  <1>1. /\ DOMAIN D.events[t] = 1 .. n /\ DOMAIN E.events[t] = 1 .. n + 1
        /\ n \in Nat /\ E.events[t][n + 1] = e
        /\ \A k \in 1 .. n : E.events[t][k] = D.events[t][k]
    BY LogFields
  <1>2. ASSUME NEW k \in 1 .. n + 1, k # n + 1 PROVE k \in 1 .. n
    BY <1>1, <1>2
  <1>3. ASSUME NEW k \in 1 .. n PROVE k \in 1 .. n + 1
    BY <1>1
  <1>4. EnteredPaper(D, t, q) => EnteredPaper(E, t, q)
    BY <1>1, <1>3, Zenon DEF EnteredPaper
  <1>5. n + 1 \in 1 .. n + 1
    BY <1>1
  <1>6. ASSUME e.source = "PROMOTED" /\ e.target = "PAPER" /\ e.reason = q
        PROVE  EnteredPaper(E, t, q)
    BY <1>1, <1>5, <1>6, Zenon DEF EnteredPaper
  <1>7. ASSUME EnteredPaper(E, t, q)
        PROVE  \/ EnteredPaper(D, t, q)
               \/ e.source = "PROMOTED" /\ e.target = "PAPER" /\ e.reason = q
    BY <1>1, <1>2, <1>7, Zenon DEF EnteredPaper
  <1> QED
    BY <1>4, <1>6, <1>7

\* An event that does not enter PAPER completes a transition.
LEMMA LogSound ==
    ASSUME NEW D \in Database, NEW t \in Strategy, NEW e \in Event,
           OthersSound(D, t), Matched(D, t), e.target # "PAPER",
           D.row[t].stage = e.target, D.row[t].reason = e.reason
    PROVE  AllSound(Log(D, t, e))
  <1> DEFINE E == Log(D, t, e)
  <1>1. \A q : EnteredPaper(E, t, q) <=> EnteredPaper(D, t, q)
    BY LogEntered
  <1>2. \A q : Backed(E, t, q) <=> Backed(D, t, q)
    BY LogFields DEF Backed
  <1>3. Matched(E, t)
    BY <1>1, <1>2 DEF Matched, MatchedFor
  <1>4. Sound(E, t)
    BY <1>3, LogRow, LogFields DEF Sound
  <1> QED
    BY <1>4, LogOthers DEF AllSound, OthersSound

\* An event that enters PAPER leaves the admission to be recorded.
LEMMA LogPaper ==
    ASSUME NEW D \in Database, NEW t \in Strategy, NEW e \in Event,
           OthersSound(D, t), Matched(D, t),
           e.source = "PROMOTED", e.target = "PAPER",
           D.row[t].stage = e.target, D.row[t].reason = e.reason
    PROVE  Owed(Log(D, t, e), t, e.reason)
  <1> DEFINE E == Log(D, t, e)
  <1>1. EnteredPaper(E, t, e.reason)
    BY LogEntered
  <1>2. \A q : q # e.reason => (EnteredPaper(E, t, q) <=> EnteredPaper(D, t, q))
    BY LogEntered
  <1>3. \A q : Backed(E, t, q) <=> Backed(D, t, q)
    BY LogFields DEF Backed
  <1>4. MatchedFor(E, t, Reason \ {e.reason})
    BY <1>2, <1>3 DEF Matched, MatchedFor
  <1>5. E.row = D.row
    BY LogFields
  <1> QED
    BY <1>1, <1>4, <1>5, LogOthers, LogRow DEF Owed

\* A transition whose event was logged before is whole without a new one: for
\* that reason the strategy was admitted before.
LEMMA LoggedSound ==
    ASSUME NEW D \in Database, NEW t \in Strategy, NEW e \in Event,
           OthersSound(D, t), Matched(D, t), Logged(D, t, e),
           e.target = "PAPER" => e.source = "PROMOTED",
           D.row[t].stage = e.target, D.row[t].reason = e.reason
    PROVE  AllSound(D)
  <1>1. RowLogged(D, t)
    BY DEF RowLogged, Logged
  <1>2. D.row[t].stage = "PAPER" => EnteredPaper(D, t, e.reason)
    BY DEF Logged, EnteredPaper
  <1>3. e.reason \in Reason
    BY DEF Event
  <1>4. Sound(D, t)
    BY <1>1, <1>2, <1>3 DEF Sound, Matched, MatchedFor
  <1> QED
    BY <1>4 DEF AllSound, OthersSound

LEMMA BackedSound ==
    ASSUME NEW D, NEW t \in Strategy, NEW q, Owed(D, t, q), Backed(D, t, q)
    PROVE  AllSound(D)
  <1>1. Matched(D, t)
    BY DEF Owed, Matched, MatchedFor
  <1>2. Sound(D, t)
    BY <1>1 DEF Owed, Sound
  <1> QED
    BY <1>2 DEF AllSound, OthersSound, Owed

LEMMA AdmissionSound ==
    ASSUME NEW D \in Database, NEW t \in Strategy, NEW a \in Admission,
           a.strategy = t, Owed(D, t, AdmissionFor(a.reason))
    PROVE  AllSound([D EXCEPT !.admissions = @ \cup {a}])
  <1> DEFINE E == [D EXCEPT !.admissions = @ \cup {a}]
             p == AdmissionFor(a.reason)
  <1>1. E.row = D.row /\ E.events = D.events /\ E.admissions = D.admissions \cup {a}
    BY DEF Database
  <1>2. /\ \A s \in Strategy \ {t} : \A q : Backed(E, s, q) <=> Backed(D, s, q)
        /\ \A q : q # p => (Backed(E, t, q) <=> Backed(D, t, q))
        /\ Backed(E, t, p)
    BY <1>1 DEF Backed
  <1>3. \A s \in Strategy : /\ \A q : EnteredPaper(E, s, q) <=> EnteredPaper(D, s, q)
                           /\ RowLogged(E, s) <=> RowLogged(D, s)
    BY <1>1 DEF EnteredPaper, RowLogged
  <1>4. OthersSound(E, t)
    <2>1. ASSUME NEW s \in Strategy \ {t} PROVE Sound(E, s)
      <3>1. Sound(D, s)
        BY DEF OthersSound, Owed
      <3> QED
        BY <1>1, <1>2, <1>3, <3>1 DEF Sound, Matched, MatchedFor
    <2> QED
      BY <2>1 DEF OthersSound
  <1>5. MatchedFor(E, t, Reason \ {p})
    BY <1>2, <1>3 DEF MatchedFor, Owed
  <1>6. Owed(E, t, p)
    BY <1>1, <1>3, <1>4, <1>5 DEF Owed
  <1> QED
    BY <1>2, <1>6, BackedSound
-----------------------------------------------------------------------------
(* Jumps of a worker *)

\* Nothing but worker w moves.
Quiet(w) ==
    \A v \in Worker \ {w} :
        pc'[v] = pc[v] /\ call'[v] = call[v] /\ move'[v] = move[v]

\* Worker w goes on outside the statements of a transaction.
Jumped(w) ==
    /\ Quiet(w)
    /\ pc'[w] \notin Midway \cup {"commit"}
    /\ MoveInv(w)'

\* A worker disturbs the others only through the lock and what is behind it.
LEMMA Stepped ==
    ASSUME SafeInv, Separate, NEW w \in Worker, Quiet(w), MoveInv(w)',
           AllSound(disk'), lock' = NoConnection => db' = disk',
           \/ lock' = lock /\ db' = db
           \/ MayWrite(w) /\ lock' \in {Conn(w), NoConnection},
           pc'[w] \in Midway \cup {"commit"} => lock' = Conn(w),
           lock' = Conn(w) => Held(w)'
    PROVE  SafeInv'
  <1>1. ASSUME NEW v \in Worker, v # w
        PROVE  /\ MoveInv(v)'
               /\ lock' = Conn(v)' => Held(v)'
               /\ pc'[v] \in Midway \cup {"commit"} => lock' = Conn(v)'
    <2>1. Conn(v) # Conn(w) /\ Conn(v)' = Conn(v) /\ Conn(v) # NoConnection
      BY <1>1, ConnectionType DEF Separate, Conn
    <2>2. pc'[v] = pc[v] /\ call'[v] = call[v] /\ move'[v] = move[v]
      BY <1>1 DEF Quiet
    <2>3. MoveInv(v)'
      BY <2>2 DEF SafeInv, MoveInv
    <2>4. lock' = Conn(v) => lock = Conn(v) /\ db' = db
      BY <2>1 DEF MayWrite
    <2>5. lock = Conn(v) => lock' = Conn(v)
      BY <2>1 DEF MayWrite
    <2>6. lock' = Conn(v) => Held(v)'
      <3>1. ASSUME lock' = Conn(v) PROVE Held(v) /\ db' = db
        BY <2>4, <3>1 DEF SafeInv
      <3>2. ASSUME Held(v), db' = db PROVE Held(v)'
        BY <2>2, <3>2 DEF Held, NewRow
      <3> QED
        BY <3>1, <3>2
    <2> QED
      BY <2>1, <2>2, <2>3, <2>5, <2>6 DEF SafeInv, LockInv
  <1>2. Conn(w)' = Conn(w)
    BY DEF Conn
  <1> QED
    BY <1>1, <1>2 DEF SafeInv, LockInv

\* What the holder of the lock has written is whole between transactions.
LEMMA Whole ==
    ASSUME SafeInv, NEW w \in Worker, pc[w] \notin Midway
    PROVE  /\ lock = Conn(w) => AllSound(db)
           /\ MayWrite(w) => AllSound(db)
  BY DEF SafeInv, LockInv, Held, MayWrite

LEMMA WholeHeld ==
    ASSUME NEW w \in Worker, pc'[w] \notin Midway, AllSound(db')
    PROVE  Held(w)'
  BY DEF Held, Midway

LEMMA JumpKept ==
    ASSUME SafeInv, Separate, NEW w \in Worker, Jumped(w), UNCHANGED data,
           lock = Conn(w) => AllSound(db)
    PROVE  SafeInv'
  BY Stepped, WholeHeld DEF Jumped, data, SafeInv, LockInv

LEMMA JumpCommitted ==
    ASSUME SafeInv, Separate, NEW w \in Worker, Jumped(w), CommitConnection(w),
           lock = Conn(w) => AllSound(db)
    PROVE  SafeInv'
  <1>1. CASE lock = Conn(w)
    <2>1. disk' = db /\ lock' = NoConnection /\ db' = db
      BY <1>1 DEF CommitConnection
    <2>2. lock' # Conn(w)
      BY <2>1, ConnectionType
    <2> QED
      BY <1>1, <2>1, <2>2, Stepped DEF Jumped, MayWrite
  <1>2. CASE lock # Conn(w)
    BY <1>2, JumpKept DEF CommitConnection
  <1> QED
    BY <1>1, <1>2

LEMMA JumpRolled ==
    ASSUME SafeInv, Separate, NEW w \in Worker, Jumped(w), RollbackConnection(w)
    PROVE  SafeInv'
  <1>1. CASE lock = Conn(w)
    <2>1. db' = disk /\ lock' = NoConnection /\ disk' = disk
      BY <1>1 DEF RollbackConnection
    <2>2. lock' # Conn(w)
      BY <2>1, ConnectionType
    <2>3. AllSound(disk)
      BY DEF SafeInv
    <2> QED
      BY <1>1, <2>1, <2>2, <2>3, Stepped DEF Jumped, MayWrite
  <1>2. CASE lock # Conn(w)
    BY <1>2, JumpKept DEF RollbackConnection
  <1> QED
    BY <1>1, <1>2

LEMMA Wrote ==
    ASSUME SafeInv, Separate, NEW w \in Worker, Quiet(w), MoveInv(w)',
           MayWrite(w), lock' = Conn(w), disk' = disk, Held(w)'
    PROVE  SafeInv'
  BY Stepped, ConnectionType DEF SafeInv
-----------------------------------------------------------------------------
(* Where a worker goes *)

LEMMA GotoQuiet ==
    ASSUME TypeInv, SafeInv, NEW w \in Worker, NEW step, Goto(w, step)
    PROVE  Quiet(w) /\ MoveInv(w)' /\ pc'[w] = step /\ call' = call /\ move' = move
  BY DEF Goto, Quiet, MoveInv, SafeInv, TypeInv, LocalInv

LEMMA GotoJump ==
    ASSUME TypeInv, SafeInv, NEW w \in Worker,
           NEW step \in Step \ (Midway \cup {"commit"}), Goto(w, step)
    PROVE  Jumped(w)
  BY GotoQuiet DEF Jumped

LEMMA AnswerJump ==
    ASSUME TypeInv, SafeInv, NEW w \in Worker, NEW value, Answer(w, value)
    PROVE  Jumped(w)
  BY DEF Answer, Jumped, Midway, Quiet, MoveInv, SafeInv, TypeInv, LocalInv

\* The move an operation may make.
Proper(w, next) ==
    IF call[w].op \in {"admit", "handoff"}
    THEN /\ next.source = "PROMOTED"
         /\ next.target = "PAPER"
         /\ next.strategy = call[w].strategy
         /\ next.reason = AdmissionFor(call[w].reason)
    ELSE next.target # "PAPER"

LEMMA MovingJump ==
    ASSUME TypeInv, SafeInv, NEW w \in Worker, NEW next, Proper(w, next),
           NEW step \in {"check", "request"}, Moving(w, next, step)
    PROVE  Jumped(w)
  <1>1. /\ pc' = [pc EXCEPT ![w] = step] /\ move' = [move EXCEPT ![w] = next]
        /\ call' = call
    BY DEF Moving
  <1>2. Quiet(w) /\ pc'[w] = step /\ move'[w] = next
    BY <1>1 DEF Quiet, TypeInv, LocalInv
  <1>3. MoveInv(w)'
    BY <1>1, <1>2 DEF MoveInv, Proper
  <1> QED
    BY <1>2, <1>3 DEF Jumped, Midway

LEMMA AfterSyncJump ==
    ASSUME TypeInv, SafeInv, NEW w \in Worker,
           call[w].op \in {"sync", "replace"}, AfterSync(w)
    PROVE  Jumped(w)
  <1>1. CASE call[w].op = "sync"
    BY <1>1, AnswerJump DEF AfterSync
  <1>2. CASE call[w].op = "replace"
    <2> DEFINE r == call[w].prefix
               next == MoveTo(r.strategy, "DEGRADED", "RESEARCH", r)
    <2>1. Moving(w, next, "check")
      BY <1>2 DEF AfterSync
    <2>2. Proper(w, next)
      BY <1>2 DEF Proper, MoveTo
    <2> QED
      BY <2>1, <2>2, MovingJump
  <1> QED
    BY <1>1, <1>2

LEMMA ResumeJump ==
    ASSUME TypeInv, SafeInv, NEW w \in Worker,
           NEW step \in (Step \ (Midway \cup {"commit"})) \cup {"done", "moved"},
           Fits(w, step), Resume(w, step)
    PROVE  Jumped(w)
  <1>1. CASE step = "done"
    BY <1>1, AnswerJump DEF Resume
  <1>2. CASE step = "moved"
    <2> DEFINE c == call[w]
               m == move[w]
               next == MoveTo(m.strategy, "VALIDATED", "PROMOTED", c.prefix)
    <2>1. c.op \in {"sync", "replace", "assess"} /\ AfterMove(w)
      BY <1>2 DEF Resume, Fits, OperationsOf
    <2>2. CASE Goto(w, "control") \/ Goto(w, "cycle")
      BY <2>2, GotoJump DEF Step, Midway
    <2>3. CASE Moving(w, next, "check")
      <3>1. Proper(w, next)
        BY <2>1 DEF Proper, MoveTo
      <3> QED
        BY <2>3, <3>1, MovingJump
    <2>4. CASE c.op \in {"sync", "replace"} /\ AfterSync(w)
      BY <2>4, AfterSyncJump
    <2> QED
      BY <2>1, <2>2, <2>3, <2>4 DEF AfterMove
  <1>3. CASE step \in Step \ (Midway \cup {"commit"})
    <2>1. Goto(w, step)
      BY <1>3 DEF Resume, Step
    <2> QED
      BY <1>3, <2>1, GotoJump
  <1> QED
    BY <1>1, <1>2, <1>3
-----------------------------------------------------------------------------
(* The steps, component by component *)

\* A commit of something that none of the three relations is about.
LEMMA WroteSame ==
    ASSUME TypeInv, SafeInv, Separate, NEW w \in Worker, pc[w] \notin Midway,
           NEW D, D.row = db.row, D.events = db.events,
           D.admissions = db.admissions, NEW step, WriteAndCommit(w, D, step)
    PROVE  SafeInv'
  <1>1. /\ MayWrite(w) /\ lock' = Conn(w) /\ db' = D /\ disk' = disk
        /\ pc' = [pc EXCEPT ![w] = "commit"] /\ call' = call /\ move' = move
    BY DEF WriteAndCommit
  <1>2. AllSound(db')
    BY <1>1, Whole, SoundSame
  <1>3. Quiet(w) /\ pc'[w] = "commit" /\ MoveInv(w)'
    BY <1>1 DEF Quiet, MoveInv, SafeInv, TypeInv, LocalInv
  <1>4. Held(w)'
    BY <1>2, <1>3, WholeHeld DEF Midway
  <1> QED
    BY <1>1, <1>3, <1>4, Wrote

\* The commit that ends a transaction left whole.
LEMMA WroteWhole ==
    ASSUME TypeInv, SafeInv, Separate, NEW w \in Worker, MayWrite(w),
           NEW D, AllSound(D), NEW step, WriteAndCommit(w, D, step)
    PROVE  SafeInv'
  <1>1. /\ lock' = Conn(w) /\ db' = D /\ disk' = disk
        /\ pc' = [pc EXCEPT ![w] = "commit"] /\ call' = call /\ move' = move
    BY DEF WriteAndCommit
  <1>2. Quiet(w) /\ pc'[w] = "commit" /\ MoveInv(w)'
    BY <1>1 DEF Quiet, MoveInv, SafeInv, TypeInv, LocalInv
  <1>3. Held(w)'
    BY <1>1, <1>2, WholeHeld DEF Midway
  <1> QED
    BY <1>1, <1>2, <1>3, Wrote

LEMMA HoldsLock ==
    ASSUME SafeInv, NEW w \in Worker, pc[w] \in Midway
    PROVE  lock = Conn(w) /\ Held(w) /\ MayWrite(w) /\ View(w) = db
  BY DEF SafeInv, LockInv, MayWrite, View

LEMMA CheckSafe ==
    ASSUME TypeInv, SafeInv, Separate, NEW w \in Worker, Check(w)
    PROVE  SafeInv'
  <1>1. pc[w] \notin Midway
    BY DEF Check, Midway
  <1>2. \/ Goto(w, "update") /\ UNCHANGED data
        \/ Answer(w, "REFUSED") /\ RollbackConnection(w)
        \/ Answer(w, "RAISED") /\ UNCHANGED data
    BY DEF Check, Fail
  <1>3. Jumped(w)
    BY <1>2, GotoJump, AnswerJump DEF Step, Midway
  <1> QED
    BY <1>1, <1>2, <1>3, JumpKept, JumpRolled, Whole

LEMMA UpdateSafe ==
    ASSUME TypeInv, SafeInv, Separate, NEW w \in Worker, Update(w)
    PROVE  SafeInv'
  <1> DEFINE m == move[w]
             x == [stage |-> m.target, reason |-> m.reason]
             D == [db EXCEPT !.row[m.strategy] = x]
  <1>1. pc[w] = "update" /\ m \in Move /\ m.strategy \in Strategy
    BY AtWork DEF Update, Fits, ReadsMove, Move
  <1>2. /\ MayWrite(w) /\ Goto(w, "event")
        /\ lock' = Conn(w) /\ db' = D /\ disk' = disk
    BY DEF Update, Write
  <1>3. AllSound(db)
    BY <1>1, <1>2, Whole DEF Midway
  <1>4. /\ OthersSound(D, m.strategy) /\ Matched(D, m.strategy)
        /\ D.row[m.strategy] = x
    BY <1>1, <1>3, RowSound DEF TypeInv, DataInv
  <1>5. Quiet(w) /\ MoveInv(w)' /\ pc'[w] = "event" /\ call' = call /\ move' = move
    BY <1>2, GotoQuiet
  <1>6. Held(w)'
    BY <1>2, <1>4, <1>5 DEF Held, Midway
  <1> QED
    BY <1>2, <1>5, <1>6, Wrote

LEMMA AppendEventSafe ==
    ASSUME TypeInv, SafeInv, Separate, NEW w \in Worker, AppendEvent(w)
    PROVE  SafeInv'
  <1> DEFINE c == call[w]
             m == move[w]
             e == EventOf(m)
             D == Log(db, m.strategy, e)
  <1>1. /\ pc[w] = "event" /\ m \in Move /\ m.strategy \in Strategy
        /\ e \in Event /\ m # NoMove
    BY AtWork, NoMoveIsNoMove
    DEF AppendEvent, Fits, ReadsMove, Move, EventOf, Event
  <1>2. db \in Database /\ lock = Conn(w) /\ MayWrite(w)
    BY <1>1, HoldsLock DEF TypeInv, DataInv, Midway
  <1>3. /\ OthersSound(db, m.strategy) /\ Matched(db, m.strategy)
        /\ db.row[m.strategy].stage = e.target
        /\ db.row[m.strategy].reason = e.reason
    <2>1. pc[w] \in Midway /\ Held(w)
      BY <1>1, HoldsLock DEF Midway
    <2>2. /\ OthersSound(db, m.strategy) /\ Matched(db, m.strategy)
          /\ db.row[m.strategy] = [stage |-> m.target, reason |-> m.reason]
      BY <1>1, <2>1 DEF Held
    <2>3. e.target = m.target /\ e.reason = m.reason
      BY DEF EventOf
    <2> QED
      BY <2>2, <2>3
  <1>4. IF c.op \in {"admit", "handoff"}
        THEN /\ e.source = "PROMOTED" /\ e.target = "PAPER"
             /\ m.strategy = c.strategy
             /\ e.reason = AdmissionFor(c.reason)
        ELSE e.target # "PAPER"
    BY <1>1 DEF SafeInv, MoveInv, EventOf
  <1>5. CASE Logged(db, m.strategy, e) /\ Fail(w)
    <2>1. AllSound(db)
      BY <1>1, <1>2, <1>3, <1>4, <1>5, LoggedSound
    <2>2. Jumped(w) /\ UNCHANGED data
      BY <1>5, AnswerJump DEF Fail
    <2> QED
      BY <2>1, <2>2, JumpKept
  <1>6. CASE c.op \in {"admit", "handoff"} /\ Write(w, D, "save")
    <2>1. Owed(D, c.strategy, AdmissionFor(c.reason))
      BY <1>1, <1>2, <1>3, <1>4, <1>6, LogPaper
    <2>2. Goto(w, "save") /\ lock' = Conn(w) /\ db' = D /\ disk' = disk
      BY <1>6 DEF Write
    <2>3. Quiet(w) /\ MoveInv(w)' /\ pc'[w] = "save" /\ call' = call /\ move' = move
      BY <2>2, GotoQuiet
    <2>4. Held(w)'
      BY <2>1, <2>2, <2>3 DEF Held, Midway
    <2> QED
      BY <1>2, <2>2, <2>3, <2>4, Wrote
  <1>7. CASE c.op \notin {"admit", "handoff"} /\ WriteAndCommit(w, D, "moved")
    <2>1. AllSound(D)
      BY <1>1, <1>2, <1>3, <1>4, <1>7, LogSound
    <2> QED
      BY <1>2, <1>7, <2>1, WroteWhole
  <1> QED
    BY <1>5, <1>6, <1>7 DEF AppendEvent

LEMMA CommitSafe ==
    ASSUME TypeInv, SafeInv, Separate, NEW w \in Worker, Commit(w)
    PROVE  SafeInv'
  <1>1. /\ pc[w] \notin Midway
        /\ resume[w] \in (Step \ (Midway \cup {"commit"})) \cup {"done", "moved"}
        /\ Fits(w, resume[w])
    BY DEF Commit, Midway, TypeInv, LocalInv, StepInv, AfterCommit, Step
  <1>2. Jumped(w) /\ CommitConnection(w)
    BY <1>1, ResumeJump DEF Commit
  <1> QED
    BY <1>1, <1>2, JumpCommitted, Whole

LEMMA SyncSafe ==
    ASSUME TypeInv, SafeInv, Separate, NEW w \in Worker,
           Load(w) \/ Create(w) \/ InsertRow(w) \/ CreateEvent(w)
    PROVE  SafeInv'
  <1> DEFINE c == call[w]
             s == c.candidate
  <1>1. /\ pc[w] \in {"load", "create", "insertRow", "createEvent"}
        /\ c.op \in {"sync", "replace"}
        /\ s \in Strategy /\ c.prefix \in Reason
        /\ db \in Database
    BY AtWork, CallFields
    DEF Load, Create, InsertRow, CreateEvent, Fits, OperationsOf, TypeInv, DataInv
  <1>2. CASE Load(w)
    <2> DEFINE target == IF c.verdict.passed THEN "VALIDATED" ELSE "DEGRADED"
               first == MoveTo(s, "RESEARCH", target, c.prefix)
               second == MoveTo(s, "VALIDATED", "PROMOTED", c.prefix)
    <2>1. Proper(w, first) /\ Proper(w, second)
      BY <1>1 DEF Proper, MoveTo
    <2>2. \/ Goto(w, "create") \/ AfterSync(w)
          \/ Moving(w, first, "check") \/ Moving(w, second, "check")
      BY <1>2 DEF Load
    <2>3. Jumped(w)
      BY <1>1, <2>1, <2>2, GotoJump, MovingJump, AfterSyncJump DEF Step, Midway
    <2>4. UNCHANGED data /\ pc[w] \notin Midway
      BY <1>2 DEF Load, Midway
    <2> QED
      BY <2>3, <2>4, JumpKept, Whole
  <1>3. CASE Create(w)
    <2>1. /\ pc[w] = "create" /\ UNCHANGED data
          /\ \/ Goto(w, "insertRow") \/ Goto(w, "load") \/ Answer(w, "RAISED")
      BY <1>3 DEF Create
    <2>2. Jumped(w)
      BY <2>1, GotoJump, AnswerJump DEF Step, Midway
    <2> QED
      BY <2>1, <2>2, JumpKept, Whole DEF Midway
  <1>4. CASE InsertRow(w)
    <2> DEFINE D == [db EXCEPT !.row[s] = NewRow(w)]
    <2>1. FailInBlock(w) \/ Write(w, D, "createEvent")
      BY <1>4 DEF InsertRow
    <2>2. ASSUME FailInBlock(w) PROVE SafeInv'
      BY <2>2, AnswerJump, JumpRolled DEF FailInBlock
    <2>3. ASSUME Write(w, D, "createEvent") PROVE SafeInv'
      <3>1. /\ MayWrite(w) /\ Goto(w, "createEvent")
            /\ lock' = Conn(w) /\ db' = D /\ disk' = disk
        BY <2>3 DEF Write
      <3>2. AllSound(db)
        BY <1>4, <3>1, Whole DEF InsertRow, Midway
      <3>3. OthersSound(D, s) /\ Matched(D, s) /\ D.row[s] = NewRow(w)
        BY <1>1, <3>2, RowSound
      <3>4. /\ Quiet(w) /\ MoveInv(w)' /\ pc'[w] = "createEvent"
            /\ call' = call /\ move' = move
        BY <3>1, GotoQuiet
      <3>5. Held(w)'
        BY <3>1, <3>3, <3>4 DEF Held, Midway, NewRow
      <3> QED
        BY <3>1, <3>4, <3>5, Wrote
    <2> QED
      BY <2>1, <2>2, <2>3
  <1>5. CASE CreateEvent(w)
    <2> DEFINE e == [source |-> "ABSENT", target |-> "RESEARCH",
                     reason |-> c.prefix]
               D == Log(db, s, e)
    <2>1. FailInBlock(w) \/ WriteAndCommit(w, D, "load")
      BY <1>5 DEF CreateEvent
    <2>2. ASSUME FailInBlock(w) PROVE SafeInv'
      BY <2>2, AnswerJump, JumpRolled DEF FailInBlock
    <2>3. AllSound(D)
      <3>1. e \in Event /\ e.target = "RESEARCH" /\ e.reason = c.prefix
        BY <1>1 DEF Event, Stage
      <3>2. /\ OthersSound(db, s) /\ Matched(db, s)
            /\ db.row[s].stage = "RESEARCH" /\ db.row[s].reason = c.prefix
        <4>1. pc[w] = "createEvent" /\ Held(w)
          BY <1>5, HoldsLock DEF CreateEvent, Midway
        <4>2. /\ OthersSound(db, s) /\ Matched(db, s)
              /\ db.row[s] = NewRow(w)
          BY <4>1 DEF Held
        <4> QED
          BY <4>2 DEF NewRow
      <3> QED
        BY <1>1, <3>1, <3>2, LogSound
    <2> QED
      BY <1>5, <2>1, <2>2, <2>3, WroteWhole DEF CreateEvent
  <1> QED
    BY <1>2, <1>3, <1>4, <1>5

LEMMA AdmissionSafe ==
    ASSUME TypeInv, SafeInv, Separate, NEW w \in Worker,
           \/ Preflight(w) \/ Present(w) \/ Lookup(w) \/ Existing(w)
    PROVE  SafeInv'
  <1> DEFINE c == call[w]
             next == MoveTo(c.strategy, "PROMOTED", "PAPER",
                            [admission |-> c.reason])
  <1>1. /\ pc[w] \in {"preflight", "present", "lookup", "confirm", "existing"}
        /\ c.op \in {"admit", "handoff"}
        /\ UNCHANGED data
    BY AtWork DEF Preflight, Present, Lookup, Existing, Fits, OperationsOf
  <1>2. Proper(w, next)
    BY <1>1 DEF Proper, MoveTo, AdmissionFor
  <1>3. \/ \E step \in {"present", "lookup", "confirm", "existing"} : Goto(w, step)
        \/ \E value \in Result : Answer(w, value)
        \/ Moving(w, next, "check")
    BY DEF Preflight, Present, Lookup, Existing, Result
  <1>4. Jumped(w)
    BY <1>2, <1>3, GotoJump, AnswerJump, MovingJump DEF Step, Midway
  <1> QED
    BY <1>1, <1>4, JumpKept, Whole DEF Midway

LEMMA RecordSafe ==
    ASSUME TypeInv, SafeInv, Separate, NEW w \in Worker, Save(w) \/ Insert(w)
    PROVE  SafeInv'
  <1> DEFINE c == call[w]
             a == AdmissionOf(c)
             q == AdmissionFor(c.reason)
             D == [db EXCEPT !.admissions = @ \cup {a}]
  <1>1. /\ pc[w] \in {"save", "insert"}
        /\ c.strategy \in Strategy /\ a \in Admission
        /\ a.strategy = c.strategy /\ a.reason = c.reason
        /\ db \in Database
    BY AtWork, CallFields
    DEF Save, Insert, Fits, OperationsOf, AdmissionOf, Admission, TypeInv, DataInv
  <1>2. /\ Owed(db, c.strategy, q)
        /\ lock = Conn(w) /\ MayWrite(w) /\ View(w) = db
    BY <1>1, HoldsLock DEF Held, Midway
  <1>3. ASSUME Goto(w, "insert"), UNCHANGED data PROVE SafeInv'
    <2>1. Quiet(w) /\ MoveInv(w)' /\ pc'[w] = "insert" /\ call' = call
      BY <1>3, GotoQuiet
    <2>2. lock' = lock /\ db' = db /\ disk' = disk
      BY <1>3 DEF data
    <2>3. Held(w)'
      BY <1>2, <2>1, <2>2 DEF Held, Midway
    <2> QED
      BY <1>2, <2>1, <2>2, <2>3, Wrote
  <1>4. ASSUME a \in db.admissions, Answer(w, "DONE"), UNCHANGED data
        PROVE  SafeInv'
    <2>1. Backed(db, c.strategy, q)
      BY <1>1, <1>4 DEF Backed
    <2>2. AllSound(db)
      BY <1>1, <1>2, <2>1, BackedSound
    <2> QED
      BY <1>4, <2>2, AnswerJump, JumpKept
  <1>5. ASSUME NEW value, Answer(w, value), RollbackConnection(w) PROVE SafeInv'
    BY <1>5, AnswerJump, JumpRolled
  <1>6. ASSUME WriteAndCommit(w, D, "done") PROVE SafeInv'
    <2>1. AllSound(D)
      BY <1>1, <1>2, AdmissionSound
    <2> QED
      BY <1>2, <1>6, <2>1, WroteWhole
  <1>7. CASE Save(w)
    BY <1>2, <1>3, <1>4, <1>5, <1>7 DEF Save
  <1>8. CASE Insert(w)
    BY <1>5, <1>6, <1>8 DEF Insert, FailInBlock
  <1> QED
    BY <1>7, <1>8

LEMMA ReadSafe ==
    ASSUME TypeInv, SafeInv, Separate, NEW w \in Worker,
           \/ Health(w) \/ Restore(w) \/ SaveRequest(w) \/ Control(w)
           \/ Provenance(w) \/ Verify(w) \/ Source(w) \/ SaveCycle(w)
    PROVE  SafeInv'
  <1> DEFINE c == call[w]
             next == MoveTo(c.strategy, "PAPER", "DEGRADED",
                            [cause |-> c.request.cause])
  <1>1. /\ pc[w] \in {"health", "restore", "request", "control", "provenance",
                      "verify", "source", "cycle"}
        /\ UNCHANGED data
        /\ Fits(w, pc[w])
    BY AtWork
    DEF Health, Restore, SaveRequest, Control, Provenance, Verify, Source, SaveCycle
  <1>2. CASE Health(w)
    <2>1. c.op = "assess"
      BY <1>1, <1>2 DEF Health, Fits, OperationsOf
    <2>2. Proper(w, next)
      BY <2>1 DEF Proper, MoveTo
    <2>3. \/ Moving(w, next, "request") \/ Goto(w, "request")
          \/ Answer(w, "RAISED")
      BY <1>2 DEF Health
    <2>4. Jumped(w)
      BY <2>2, <2>3, GotoJump, AnswerJump, MovingJump DEF Step, Midway
    <2> QED
      BY <1>1, <2>4, JumpKept, Whole DEF Midway
  <1>3. CASE \/ Restore(w) \/ SaveRequest(w) \/ Control(w)
             \/ Provenance(w) \/ Verify(w) \/ Source(w) \/ SaveCycle(w)
    <2>1. \/ Answer(w, "RAISED") \/ Answer(w, "DONE")
          \/ \E step \in {"newRequest", "check", "control", "mark", "publish",
                          "source", "load", "record"} : Goto(w, step)
      BY <1>3
      DEF Restore, SaveRequest, Control, Provenance, Verify, Source, SaveCycle,
          Resume, AfterRequest
    <2>2. Jumped(w)
      BY <2>1, GotoJump, AnswerJump DEF Step, Midway
    <2> QED
      BY <1>1, <2>2, JumpKept, Whole DEF Midway
  <1> QED
    BY <1>2, <1>3

LEMMA OtherWriteSafe ==
    ASSUME TypeInv, SafeInv, Separate, NEW w \in Worker,
           NewRequest(w) \/ Mark(w) \/ Publish(w) \/ RecordCycle(w)
    PROVE  SafeInv'
  <1> DEFINE c == call[w]
  <1>1. pc[w] \notin Midway /\ db \in Database
    BY DEF NewRequest, Mark, Publish, RecordCycle, Midway, TypeInv, DataInv
  <1>2. ASSUME Fail(w) PROVE SafeInv'
    BY <1>1, <1>2, AnswerJump, JumpKept, Whole DEF Fail
  <1>3. ASSUME FailInBlock(w) PROVE SafeInv'
    BY <1>3, AnswerJump, JumpRolled DEF FailInBlock
  <1>4. ASSUME NEW x, NEW step,
               WriteAndCommit(w, [db EXCEPT !.requests = x], step)
        PROVE  SafeInv'
    BY <1>1, <1>4, WroteSame DEF Database
  <1>5. ASSUME NEW x, NEW step,
               WriteAndCommit(w, [db EXCEPT !.control = x], step)
        PROVE  SafeInv'
    BY <1>1, <1>5, WroteSame DEF Database
  <1>6. ASSUME NEW x, NEW step,
               WriteAndCommit(w, [db EXCEPT !.feedback = x], step)
        PROVE  SafeInv'
    BY <1>1, <1>6, WroteSame DEF Database
  <1>7. ASSUME NEW x, NEW step,
               WriteAndCommit(w, [db EXCEPT !.cycles = x], step)
        PROVE  SafeInv'
    BY <1>1, <1>7, WroteSame DEF Database
  <1>8. CASE NewRequest(w)
    BY <1>2, <1>4, <1>8 DEF NewRequest
  <1>9. CASE Mark(w)
    BY <1>5, <1>9 DEF Mark
  <1>10. CASE Publish(w)
    BY <1>3, <1>6, <1>10 DEF Publish
  <1>11. CASE RecordCycle(w)
    BY <1>2, <1>7, <1>11 DEF RecordCycle
  <1> QED
    BY <1>8, <1>9, <1>10, <1>11

LEMMA StartSafe ==
    ASSUME TypeInv, SafeInv, Separate, NEW w \in Worker, Start(w)
    PROVE  SafeInv'
  <1>1. PICK c : Begin(w, c)
    BY DEF Start
  <1>2. /\ pc[w] = "idle" /\ move[w] = NoMove
        /\ pc' = [pc EXCEPT ![w] = "open"]
        /\ call' = [call EXCEPT ![w] = c]
        /\ move' = move /\ UNCHANGED data
    BY <1>1 DEF Begin, TypeInv, LocalInv, StepInv
  <1>3. Quiet(w) /\ pc'[w] = "open" /\ MoveInv(w)'
    BY <1>2 DEF Quiet, MoveInv, TypeInv, LocalInv
  <1> QED
    BY <1>2, <1>3, JumpKept, Whole DEF Jumped, Midway

LEMMA OpenSafe ==
    ASSUME TypeInv, SafeInv, Separate, NEW w \in Worker, Open(w)
    PROVE  SafeInv'
  <1>1. /\ pc[w] = "open" /\ call[w].op \in Operation
        /\ CommitConnection(w) /\ Goto(w, FirstStep(call[w].op))
    BY AtWork, CallFields DEF Open
  <1>2. FirstStep(call[w].op) \in Step \ (Midway \cup {"commit"})
    BY <1>1 DEF FirstStep, Operation, Step, Midway
  <1>3. Jumped(w)
    BY <1>1, <1>2, GotoJump
  <1> QED
    BY <1>1, <1>3, JumpCommitted, Whole DEF Midway

LEMMA BusySafe ==
    ASSUME TypeInv, SafeInv, Separate, NEW w \in Worker, Busy(w)
    PROVE  SafeInv'
  <1>1. lock # Conn(w)
    BY DEF Busy, MayWrite
  <1> QED
    BY <1>1, AnswerJump, JumpKept DEF Busy, Fail

LEMMA ReplySafe ==
    ASSUME TypeInv, SafeInv, Separate, NEW w \in Worker, Reply(w)
    PROVE  SafeInv'
  <1>1. /\ pc[w] = "reply" /\ UNCHANGED data
        /\ pc'[w] = "idle" /\ move'[w] = NoMove
        /\ Quiet(w)
    BY DEF Reply, Forget, Quiet
  <1>2. MoveInv(w)'
    BY <1>1 DEF MoveInv
  <1> QED
    BY <1>1, <1>2, JumpKept, Whole DEF Jumped, Midway

LEMMA CrashSafe ==
    ASSUME TypeInv, SafeInv, NEW c \in Connection, Crash(c)
    PROVE  SafeInv'
  <1> DEFINE ws == {w \in Worker : ConnectionOf[w] = c}
  <1>1. Forget(ws)
    BY DEF Crash
  <1>2. /\ disk' = disk
        /\ IF lock = c THEN db' = disk /\ lock' = NoConnection
                       ELSE db' = db /\ lock' = lock
    BY DEF Crash, data
  <1>3. c # NoConnection
    BY WiringAssumption
  <1>4. ASSUME NEW v \in Worker
        PROVE  /\ MoveInv(v)'
               /\ lock' = Conn(v)' => Held(v)'
               /\ pc'[v] \in Midway \cup {"commit"} => lock' = Conn(v)'
    <2>1. CASE v \in ws
      <3>1. pc'[v] = "idle" /\ move'[v] = NoMove
        BY <1>1, <2>1 DEF Forget
      <3>2. Conn(v)' = c /\ lock' # c
        BY <1>2, <1>3, <2>1 DEF Conn
      <3> QED
        BY <3>1, <3>2 DEF MoveInv, Midway
    <2>2. CASE v \notin ws
      <3>1. pc'[v] = pc[v] /\ call'[v] = call[v] /\ move'[v] = move[v]
        BY <1>1, <2>2 DEF Forget
      <3>2. Conn(v) # c /\ Conn(v)' = Conn(v)
        BY <2>2 DEF Conn
      <3>3. MoveInv(v)'
        BY <3>1 DEF SafeInv, MoveInv
      <3>4. lock' = Conn(v) => lock = Conn(v) /\ db' = db
        BY <1>2, <3>2, ConnectionType
      <3>5. lock = Conn(v) => lock' = Conn(v)
        BY <1>2, <3>2
      <3>6. ASSUME Held(v), db' = db PROVE Held(v)'
        BY <3>1, <3>6 DEF Held, NewRow
      <3> QED
        BY <3>1, <3>2, <3>3, <3>4, <3>5, <3>6 DEF SafeInv, LockInv
    <2> QED
      BY <2>1, <2>2
  <1>5. lock' = NoConnection => db' = disk'
    BY <1>2 DEF SafeInv, LockInv
  <1> QED
    BY <1>2, <1>4, <1>5 DEF SafeInv, LockInv

LEMMA SafeInit ==
    ASSUME Init
    PROVE  SafeInv
  <1>1. AllSound(EmptyDatabase)
    BY DEF AllSound, Sound, Matched, MatchedFor, EnteredPaper, Backed, RowLogged,
           EmptyDatabase, NoRow
  <1>2. \A w \in Worker : pc[w] \notin Midway \cup {"commit"} /\ move[w] = NoMove
    BY DEF Init, Midway
  <1>3. \A w \in Worker : MoveInv(w) /\ Held(w)
    BY <1>1, <1>2 DEF MoveInv, Held, Midway, Init
  <1> QED
    BY <1>1, <1>2, <1>3 DEF SafeInv, LockInv, Init

LEMMA SafeStep ==
    ASSUME Separate, TypeInv, SafeInv, [Next]_vars
    PROVE  SafeInv'
  <1>1. CASE Next
    <2>1. ASSUME NEW w \in Worker, Advance(w) PROVE SafeInv'
      BY <2>1, CheckSafe, UpdateSafe, AppendEventSafe, CommitSafe, SyncSafe,
         AdmissionSafe, RecordSafe, ReadSafe, OtherWriteSafe, OpenSafe,
         BusySafe, ReplySafe
      DEF Advance
    <2> QED
      BY <1>1, <2>1, StartSafe, CrashSafe DEF Next
  <1>2. CASE UNCHANGED vars
    BY <1>2
    DEF vars, SafeInv, LockInv, MoveInv, Held, Conn, NewRow
  <1> QED
    BY <1>1, <1>2

\* What the invariant says of the committed database.
LEMMA SafeMeans ==
    ASSUME TypeInv, SafeInv
    PROVE  PaperIsAdmitted /\ AdmissionIsLogged /\ StageWasLogged
  <1>1. \A s \in Strategy : Sound(disk, s)
    BY DEF SafeInv, AllSound
  <1>2. PaperIsAdmitted
    BY <1>1 DEF PaperIsAdmitted, Committed, Sound, Backed, AdmissionFor
  <1>3. AdmissionIsLogged
    <2>1. ASSUME NEW a \in disk.admissions PROVE Moved(a.strategy, "PROMOTED", "PAPER")
      <3>1. a.strategy \in Strategy /\ AdmissionFor(a.reason) \in Reason
        BY DEF TypeInv, DataInv, Database, Admission, AdmissionFor, Reason
      <3>2. EnteredPaper(disk, a.strategy, AdmissionFor(a.reason))
        BY <1>1, <3>1 DEF Sound, Matched, MatchedFor, Backed
      <3> QED
        BY <3>2 DEF EnteredPaper, Moved
    <2> QED
      BY <2>1 DEF AdmissionIsLogged
  <1>4. StageWasLogged
    BY <1>1 DEF StageWasLogged, Committed, Sound, RowLogged
  <1> QED
    BY <1>2, <1>3, <1>4

LEMMA SafeAlways ==
    ASSUME Separate
    PROVE  Spec => [](PaperIsAdmitted /\ AdmissionIsLogged /\ StageWasLogged)
  <1>1. Init => TypeInv /\ SafeInv
    BY TypeInit, SafeInit
  <1>2. TypeInv /\ SafeInv /\ [Next]_vars => (TypeInv /\ SafeInv)'
    BY TypeStep, SafeStep
  <1>3. TypeInv /\ SafeInv => PaperIsAdmitted /\ AdmissionIsLogged /\ StageWasLogged
    BY SafeMeans
  <1> QED
    BY <1>1, <1>2, <1>3, PTL DEF Spec

\* No strategy is ever committed to PAPER without an admission for the reason
\* its row gives, for any runs and reasons, when every process has a connection
\* of its own: a crash between the two stores of admit_to_paper, or another
\* process, cannot separate the first transition for a reason from its record,
\* and a transition left open because its event is a duplicate has the record
\* of the first.  That need not be the run admitted last
\* (LifecycleAdmission.cfg).
THEOREM PaperAlwaysAdmitted ==
    ASSUME Separate
    PROVE  Spec => []PaperIsAdmitted
  BY SafeAlways, PTL

\* And no admission is committed without the transition it records.
THEOREM AdmissionAlwaysLogged ==
    ASSUME Separate
    PROVE  Spec => []AdmissionIsLogged
  BY SafeAlways, PTL

\* Every committed stage was entered by an event in the committed history.
THEOREM StageAlwaysLogged ==
    ASSUME Separate
    PROVE  Spec => []StageWasLogged
  BY SafeAlways, PTL
-----------------------------------------------------------------------------
(* Degradations and replacement cycles *)

\* A strategy was evaluated: the history shows it leaving RESEARCH, wherever it
\* is by now.
Evaluated(D, s) == \E k \in DOMAIN D.events[s] : D.events[s][k].source = "RESEARCH"

\* What a worker read in D it would still find in E.
Later(E, D) ==
    /\ D.requests \subseteq E.requests
    /\ \A s \in Strategy : \A k \in DOMAIN D.events[s] : Logged(E, s, D.events[s][k])

Requested(D) ==
    \A s \in Strategy : \A k \in DOMAIN D.events[s] :
        D.events[s][k].source = "PAPER" /\ D.events[s][k].target = "DEGRADED"
        => \E r \in D.requests :
             r.strategy = s /\ D.events[s][k].reason = [cause |-> r.cause]

\* Nothing gets past RESEARCH without an evaluation.
Researched(D) ==
    \A s \in Strategy : \A k \in DOMAIN D.events[s] :
        D.events[s][k].target # "RESEARCH" => Evaluated(D, s)

Traced(D) == Requested(D) /\ Researched(D)

\* The move of the strategy that request r replaces.
Return(r) == MoveTo(r.strategy, "DEGRADED", "RESEARCH", r)

Cycled(D) ==
    \A r \in D.cycles :
        /\ r \in D.requests
        /\ Logged(D, r.strategy, EventOf(Return(r)))
        /\ Evaluated(D, SuccessorOf[r])

\* At step p, with arguments c and transition m: only assessments degrade what
\* is on paper, and only a replacement cycle moves a strategy back, the one its
\* request names.
Purpose(p, c, m) ==
    /\ p # "idle" /\ c.op = "assess" => c.strategy = c.request.strategy
    /\ p # "idle" /\ c.op = "replace" => c.candidate = SuccessorOf[c.prefix]
    /\ m # NoMove =>
         /\ m.target = "RESEARCH" => c.op = "replace" /\ m = Return(c.prefix)
         /\ m.source = "PAPER" =>
              /\ c.op = "assess"
              /\ m = MoveTo(c.strategy, "PAPER", "DEGRADED",
                            [cause |-> c.request.cause])
         /\ c.op = "replace" => m.target = "RESEARCH" \/ m.strategy = c.candidate

\* What a worker at step p has found in D, or has written, and still counts on;
\* z is where its commit goes on.
CountsOn(p, c, m, z, D) ==
    LET moved == p = "commit" /\ z = "moved"
    IN  /\ (/\ c.op = "assess"
            /\ \/ p \in {"check", "update", "event"}
               \/ p = "commit" /\ z = "check") => c.request \in D.requests
        /\ p \in {"update", "event"} /\ m.source # "RESEARCH"
             => Evaluated(D, m.strategy)
        /\ c.op = "replace" =>
             /\ p \notin {"open", "verify"} => c.prefix \in D.requests
             /\ (\/ m # NoMove /\ m.target = "RESEARCH"
                 \/ moved) => Evaluated(D, c.candidate)
             /\ moved => Logged(D, m.strategy, EventOf(m))
             /\ p \in {"cycle", "record"} =>
                  m = Return(c.prefix) /\ Logged(D, m.strategy, EventOf(m))

Counting(w) ==
    /\ Purpose(pc[w], call[w], move[w])
    /\ pc[w] \notin {"idle", "reply"} =>
         CountsOn(pc[w], call[w], move[w], resume[w], View(w))

CycleInv ==
    /\ lock = NoConnection => db = disk
    /\ Later(db, disk)
    /\ Traced(disk) /\ Traced(db)
    /\ Cycled(disk) /\ Cycled(db)
    /\ \A w \in Worker : Counting(w)


LEMMA LaterItself == \A D : Later(D, D)
  BY DEF Later, Logged

LEMMA LaterLogged ==
    ASSUME NEW D, NEW E, Later(E, D), NEW s \in Strategy, NEW e, Logged(D, s, e)
    PROVE  Logged(E, s, e)
  BY DEF Later, Logged

LEMMA LaterEvaluated ==
    ASSUME NEW D, NEW E, Later(E, D), NEW s \in Strategy, Evaluated(D, s)
    PROVE  Evaluated(E, s)
  <1>1. PICK k \in DOMAIN D.events[s] : D.events[s][k].source = "RESEARCH"
    BY DEF Evaluated
  <1>2. PICK j \in DOMAIN E.events[s] : E.events[s][j] = D.events[s][k]
    BY DEF Later, Logged
  <1> QED
    BY <1>1, <1>2 DEF Evaluated

\* A strategy that is shown past RESEARCH was evaluated.
LEMMA PastResearch ==
    ASSUME NEW D, Researched(D), NEW s \in Strategy, RowLogged(D, s),
           D.row[s].stage \notin {"ABSENT", "RESEARCH"}
    PROVE  Evaluated(D, s)
  BY DEF Researched, RowLogged

LEMMA LaterTransitive ==
    ASSUME NEW D, NEW E, NEW F, Later(E, D), Later(F, E)
    PROVE  Later(F, D)
  <1>1. ASSUME NEW s \in Strategy, NEW k \in DOMAIN D.events[s]
        PROVE  Logged(F, s, D.events[s][k])
    <2>1. Logged(E, s, D.events[s][k])
      BY DEF Later
    <2> QED
      BY <2>1, LaterLogged
  <1> QED
    BY <1>1 DEF Later

\* What a request names.
LEMMA RequestFields ==
    ASSUME NEW r \in Request
    PROVE  /\ r.strategy \in Strategy
           /\ r.strategy \in Monitored
           /\ SuccessorOf[r] \in Strategy
           /\ Return(r) \in Move /\ Return(r) # NoMove
           /\ Return(r).strategy = r.strategy /\ Return(r).target = "RESEARCH"
  <1>1. r.strategy \in Monitored /\ Monitored \subseteq Strategy
    BY WiringAssumption DEF Request
  <1>2. SuccessorOf[r] \in Strategy
    BY WiringAssumption
  <1>3. r \in Reason
    BY DEF Reason
  <1>4. Return(r) \in Move
    BY <1>1, <1>3 DEF Return, MoveTo, Move, Stage
  <1>5. Return(r) # NoMove
    BY <1>4, NoMoveIsNoMove
  <1> QED
    BY <1>1, <1>2, <1>4, <1>5 DEF Return, MoveTo

LEMMA CycledLater ==
    ASSUME NEW D \in Database, NEW E, Cycled(D), Later(E, D), E.cycles = D.cycles
    PROVE  Cycled(E)
  <1>1. ASSUME NEW r \in D.cycles
        PROVE  /\ r \in E.requests
               /\ Logged(E, r.strategy, EventOf(Return(r)))
               /\ Evaluated(E, SuccessorOf[r])
    <2>1. /\ r \in D.requests /\ Logged(D, r.strategy, EventOf(Return(r)))
          /\ Evaluated(D, SuccessorOf[r]) /\ r \in Request
      BY DEF Cycled, Database
    <2>2. r.strategy \in Strategy /\ SuccessorOf[r] \in Strategy
      BY <2>1, RequestFields
    <2>3. Evaluated(E, SuccessorOf[r])
      BY <2>1, <2>2, LaterEvaluated
    <2> QED
      BY <2>1, <2>2, <2>3, LaterLogged DEF Later
  <1> QED
    BY <1>1 DEF Cycled

\* The writes, and what they leave of what was there.
LEMMA SameLater ==
    ASSUME NEW D \in Database, NEW E, E.row = D.row, E.events = D.events,
           D.requests \subseteq E.requests
    PROVE  Later(E, D) /\ (Traced(D) => Traced(E))
  <1>1. Later(E, D)
    BY DEF Later, Logged
  <1>2. Traced(D) => Traced(E)
    BY DEF Traced, Requested, Researched, Evaluated
  <1> QED
    BY <1>1, <1>2

LEMMA RowLater ==
    ASSUME NEW D \in Database, NEW t \in Strategy, NEW x
    PROVE  LET E == [D EXCEPT !.row[t] = x]
           IN  /\ Later(E, D)
               /\ Traced(D) => Traced(E)
               /\ Cycled(D) => Cycled(E)
               /\ E.requests = D.requests
               /\ \A s : Evaluated(E, s) <=> Evaluated(D, s)
  <1> DEFINE E == [D EXCEPT !.row[t] = x]
  <1>1. E.events = D.events /\ E.requests = D.requests /\ E.cycles = D.cycles
    BY DEF Database
  <1>2. Later(E, D)
    BY <1>1 DEF Later, Logged
  <1>3. \A s : Evaluated(E, s) <=> Evaluated(D, s)
    BY <1>1 DEF Evaluated
  <1>4. Traced(D) => Traced(E)
    BY <1>1, <1>3 DEF Traced, Requested, Researched
  <1>5. Cycled(D) => Cycled(E)
    BY <1>1, <1>2, CycledLater
  <1> QED
    BY <1>1, <1>2, <1>3, <1>4, <1>5

LEMMA LogLater ==
    ASSUME NEW D \in Database, NEW t \in Strategy, NEW e \in Event,
           e.source = "PAPER" /\ e.target = "DEGRADED"
             => \E r \in D.requests : r.strategy = t /\ e.reason = [cause |-> r.cause],
           e.target # "RESEARCH" => e.source = "RESEARCH" \/ Evaluated(D, t)
    PROVE  LET E == Log(D, t, e)
           IN  /\ Later(E, D) /\ Logged(E, t, e)
               /\ Traced(D) => Traced(E)
               /\ Cycled(D) => Cycled(E)
               /\ E.requests = D.requests
  <1> DEFINE E == Log(D, t, e)
             n == Len(D.events[t])
  <1>1. E.requests = D.requests /\ E.cycles = D.cycles
    BY DEF Log, Database
  <1>2. /\ E.row = D.row
        /\ \A s \in Strategy \ {t} : E.events[s] = D.events[s]
        /\ DOMAIN D.events[t] = 1 .. n /\ DOMAIN E.events[t] = 1 .. n + 1 /\ n \in Nat
        /\ E.events[t][n + 1] = e
        /\ \A k \in 1 .. n : E.events[t][k] = D.events[t][k]
    BY LogFields
  <1> HIDE DEF E
  <1>3. n + 1 \in 1 .. n + 1 /\ \A k \in 1 .. n : k \in 1 .. n + 1
    BY <1>2
  <1>4. \A k \in 1 .. n + 1 : k = n + 1 \/ k \in 1 .. n
    BY <1>2
  <1> HIDE DEF n
  <1>5. Logged(E, t, e)
    BY <1>2, <1>3 DEF Logged
  <1>6. ASSUME NEW s \in Strategy, NEW k \in DOMAIN D.events[s]
        PROVE  Logged(E, s, D.events[s][k])
    BY <1>2, <1>3 DEF Logged
  <1>7. Later(E, D)
    BY <1>1, <1>6 DEF Later
  <1>8. ASSUME Requested(D), NEW s \in Strategy, NEW k \in DOMAIN E.events[s],
               E.events[s][k].source = "PAPER", E.events[s][k].target = "DEGRADED"
        PROVE  \E r \in E.requests :
                 r.strategy = s /\ E.events[s][k].reason = [cause |-> r.cause]
    <2>1. CASE s = t /\ k = n + 1
      BY <1>1, <1>2, <1>8, <2>1
    <2>2. CASE ~(s = t /\ k = n + 1)
      <3>1. k \in DOMAIN D.events[s] /\ E.events[s][k] = D.events[s][k]
        BY <1>2, <1>4, <2>2
      <3> QED
        BY <1>1, <1>8, <3>1 DEF Requested
    <2> QED
      BY <2>1, <2>2
  <1>9. ASSUME Researched(D), NEW s \in Strategy, NEW k \in DOMAIN E.events[s],
               E.events[s][k].target # "RESEARCH"
        PROVE  Evaluated(E, s)
    <2>1. CASE s = t /\ k = n + 1
      <3>1. e.source = "RESEARCH" \/ Evaluated(D, t)
        BY <1>2, <1>9, <2>1
      <3>2. e.source = "RESEARCH" => Evaluated(E, t)
        BY <1>2, <1>3 DEF Evaluated
      <3> QED
        BY <1>7, <2>1, <3>1, <3>2, LaterEvaluated
    <2>2. CASE ~(s = t /\ k = n + 1)
      <3>1. k \in DOMAIN D.events[s] /\ E.events[s][k] = D.events[s][k]
        BY <1>2, <1>4, <1>9, <2>2
      <3>2. Evaluated(D, s)
        BY <1>9, <3>1 DEF Researched
      <3> QED
        BY <1>7, <3>2, LaterEvaluated
    <2> QED
      BY <2>1, <2>2
  <1>10. Traced(D) => Traced(E)
    BY <1>8, <1>9 DEF Traced, Requested, Researched
  <1>11. Cycled(D) => Cycled(E)
    BY <1>1, <1>7, CycledLater
  <1> QED
    BY <1>1, <1>5, <1>7, <1>10, <1>11 DEF E
-----------------------------------------------------------------------------
(* Steps that keep the requests and the cycles *)

\* Nothing but worker w moves.
Alone(w) ==
    /\ Quiet(w)
    /\ \A v \in Worker \ {w} : resume'[v] = resume[v]

\* Worker w writes, and keeps what was there.
Writes(w) ==
    /\ MayWrite(w)
    /\ lock' = Conn(w) /\ disk' = disk
    /\ Later(db', db) /\ Traced(db') /\ Cycled(db')

\* What a worker counts on, it would still find in a later database.
LEMMA CountsLater ==
    ASSUME NEW p, NEW c \in Call, NEW m, NEW z, NEW D, NEW E,
           p # "idle", Purpose(p, c, m), CountsOn(p, c, m, z, D), Later(E, D),
           (p \in {"update", "event"} \/ (p = "commit" /\ z = "moved")) => m \in Move
    PROVE  CountsOn(p, c, m, z, E)
  <1>1. D.requests \subseteq E.requests
    BY DEF Later
  <1>2. p \in {"update", "event"} /\ m.source # "RESEARCH"
          => Evaluated(E, m.strategy)
    BY LaterEvaluated DEF CountsOn, Move
  <1>3. CASE c.op = "replace"
    <2>1. c.prefix \in Request /\ c.candidate = SuccessorOf[c.prefix]
      BY <1>3, CallFields DEF Purpose
    <2>2. c.candidate \in Strategy
      BY <2>1, RequestFields
    <2>3. Evaluated(D, c.candidate) => Evaluated(E, c.candidate)
      BY <2>2, LaterEvaluated
    <2>4. \A s \in Strategy : \A e : Logged(D, s, e) => Logged(E, s, e)
      BY LaterLogged
    <2>5. p = "commit" /\ z = "moved" => m.strategy \in Strategy
      BY DEF Move
    <2>6. m = Return(c.prefix) => m.strategy \in Strategy
      BY <2>1, RequestFields
    <2> QED
      BY <1>1, <1>3, <1>2, <2>3, <2>4, <2>5, <2>6 DEF CountsOn
  <1>4. CASE c.op # "replace"
    BY <1>1, <1>4, <1>2 DEF CountsOn
  <1> QED
    BY <1>3, <1>4

\* What a worker sees after its own step.
LEMMA ViewAfter ==
    ASSUME CycleInv, NEW w \in Worker
    PROVE  /\ UNCHANGED data \/ CommitConnection(w) => View(w)' = View(w)
           /\ MayWrite(w) => View(w) = db
           /\ lock' = Conn(w) => View(w)' = db'
  <1>1. Conn(w)' = Conn(w) /\ Conn(w) # NoConnection
    BY ConnectionType DEF Conn
  <1>2. UNCHANGED data => View(w)' = View(w)
    BY <1>1 DEF data, View
  <1>3. CommitConnection(w) => View(w)' = View(w)
    BY <1>1, <1>2 DEF CommitConnection, View
  <1>4. MayWrite(w) => View(w) = db
    BY DEF MayWrite, View, CycleInv
  <1>5. lock' = Conn(w) => View(w)' = db'
    BY <1>1 DEF View
  <1> QED
    BY <1>2, <1>3, <1>4, <1>5

\* Another worker's step leaves what this one sees, or adds to it.
LEMMA OthersView ==
    ASSUME Separate, CycleInv, NEW w \in Worker, NEW v \in Worker, v # w,
           \/ UNCHANGED data \/ CommitConnection(w) \/ RollbackConnection(w)
           \/ Writes(w)
    PROVE  Later(View(v)', View(v))
  <1>1. /\ Conn(v) # Conn(w) /\ Conn(v)' = Conn(v)
        /\ Conn(v) # NoConnection /\ Conn(w) # NoConnection
    BY ConnectionType DEF Separate, Conn
  <1>2. CASE UNCHANGED data
    BY <1>1, <1>2, LaterItself DEF data, View
  <1>3. CASE CommitConnection(w) /\ lock = Conn(w)
    <2>1. View(v) = disk /\ View(v)' = db
      BY <1>1, <1>3 DEF CommitConnection, View
    <2> QED
      BY <2>1 DEF CycleInv
  <1>4. CASE RollbackConnection(w) /\ lock = Conn(w)
    <2>1. View(v) = disk /\ View(v)' = disk
      BY <1>1, <1>4 DEF RollbackConnection, View
    <2> QED
      BY <2>1, LaterItself
  <1>5. CASE Writes(w)
    <2>1. View(v) = disk /\ View(v)' = disk
      BY <1>1, <1>5 DEF Writes, MayWrite, View
    <2> QED
      BY <2>1, LaterItself
  <1> QED
    BY <1>2, <1>3, <1>4, <1>5 DEF CommitConnection, RollbackConnection

LEMMA CycleData ==
    ASSUME CycleInv, NEW w \in Worker,
           \/ UNCHANGED data \/ CommitConnection(w) \/ RollbackConnection(w)
           \/ Writes(w)
    PROVE  /\ lock' = NoConnection => db' = disk'
           /\ Later(db', disk')
           /\ Traced(disk') /\ Traced(db')
           /\ Cycled(disk') /\ Cycled(db')
  <1>1. Conn(w) # NoConnection
    BY ConnectionType
  <1>2. CASE UNCHANGED data
    BY <1>2 DEF data, CycleInv
  <1>3. CASE CommitConnection(w) /\ lock = Conn(w)
    BY <1>3, LaterItself DEF CommitConnection, CycleInv
  <1>4. CASE RollbackConnection(w) /\ lock = Conn(w)
    BY <1>4, LaterItself DEF RollbackConnection, CycleInv
  <1>5. CASE Writes(w)
    <2>1. Later(db, disk) /\ Later(db', db) /\ disk' = disk
      BY <1>5 DEF Writes, CycleInv
    <2>2. Later(db', disk')
      BY <2>1, LaterTransitive
    <2> QED
      BY <1>1, <1>5, <2>2 DEF Writes, CycleInv
  <1> QED
    BY <1>2, <1>3, <1>4, <1>5 DEF CommitConnection, RollbackConnection

LEMMA CycleStepped ==
    ASSUME Separate, TypeInv, CycleInv, NEW w \in Worker, Alone(w),
           \/ UNCHANGED data \/ CommitConnection(w) \/ RollbackConnection(w)
           \/ Writes(w),
           Counting(w)'
    PROVE  CycleInv'
  <1>1. ASSUME NEW v \in Worker, v # w PROVE Counting(v)'
    <2>1. /\ pc'[v] = pc[v] /\ call'[v] = call[v] /\ move'[v] = move[v]
          /\ resume'[v] = resume[v]
      BY <1>1 DEF Alone, Quiet
    <2>2. Counting(v) /\ Later(View(v)', View(v))
      BY <1>1, OthersView DEF CycleInv
    <2>3. Purpose(pc'[v], call'[v], move'[v])
      BY <2>1, <2>2 DEF Counting
    <2>4. ASSUME pc[v] \notin {"idle", "reply"}
          PROVE  CountsOn(pc'[v], call'[v], move'[v], resume'[v], View(v)')
      <3>1. /\ call[v] \in Call
            /\ (\/ pc[v] \in {"update", "event"}
                \/ pc[v] = "commit" /\ resume[v] = "moved") => move[v] \in Move
        BY <2>4 DEF TypeInv, LocalInv, StepInv, Fits, ReadsMove
      <3>2. /\ Purpose(pc[v], call[v], move[v])
            /\ CountsOn(pc[v], call[v], move[v], resume[v], View(v))
        BY <2>2, <2>4 DEF Counting
      <3>3. CountsOn(pc[v], call[v], move[v], resume[v], View(v)')
        BY <2>2, <2>4, <3>1, <3>2, CountsLater
      <3> QED
        BY <2>1, <3>3
    <2> QED
      BY <2>1, <2>3, <2>4 DEF Counting
  <1>2. \A v \in Worker : Counting(v)'
    BY <1>1
  <1> QED
    BY <1>2, CycleData DEF CycleInv
-----------------------------------------------------------------------------
(* Jumps that keep the requests and the cycles *)

LEMMA Counted ==
    ASSUME CycleInv, NEW w \in Worker, pc[w] \notin {"idle", "reply"}
    PROVE  /\ Purpose(pc[w], call[w], move[w])
           /\ CountsOn(pc[w], call[w], move[w], resume[w], View(w))
  BY DEF CycleInv, Counting

LEMMA SamePurpose ==
    ASSUME NEW p, NEW q, NEW c, NEW m, p # "idle", Purpose(p, c, m)
    PROVE  Purpose(q, c, m)
  BY DEF Purpose

LEMMA GotoCycle ==
    ASSUME Separate, TypeInv, CycleInv, NEW w \in Worker, NEW step,
           pc[w] \notin {"idle", "reply"}, Goto(w, step),
           UNCHANGED data \/ CommitConnection(w),
           CountsOn(step, call[w], move[w], resume[w], View(w))
    PROVE  CycleInv'
  <1>1. /\ pc'[w] = step /\ call' = call /\ move' = move /\ resume' = resume
        /\ Alone(w)
    BY DEF Goto, Alone, Quiet, TypeInv, LocalInv
  <1>2. Purpose(step, call[w], move[w])
    BY Counted, SamePurpose
  <1>3. View(w)' = View(w)
    BY ViewAfter
  <1>4. Counting(w)'
    BY <1>1, <1>2, <1>3 DEF Counting
  <1> QED
    BY <1>1, <1>4, CycleStepped

LEMMA AnswerCycle ==
    ASSUME Separate, TypeInv, CycleInv, NEW w \in Worker, NEW value,
           pc[w] \notin {"idle", "reply"}, Answer(w, value),
           UNCHANGED data \/ CommitConnection(w) \/ RollbackConnection(w)
    PROVE  CycleInv'
  <1>1. pc'[w] = "reply" /\ call' = call /\ move' = move /\ Alone(w)
    BY DEF Answer, Alone, Quiet, TypeInv, LocalInv
  <1>2. Purpose("reply", call[w], move[w])
    BY Counted, SamePurpose
  <1>3. Counting(w)'
    BY <1>1, <1>2 DEF Counting
  <1> QED
    BY <1>1, <1>3, CycleStepped

LEMMA FailCycle ==
    ASSUME Separate, TypeInv, CycleInv, NEW w \in Worker,
           pc[w] \notin {"idle", "reply"}, Fail(w) \/ FailInBlock(w)
    PROVE  CycleInv'
  BY AnswerCycle DEF Fail, FailInBlock

LEMMA MovingCycle ==
    ASSUME Separate, TypeInv, CycleInv, NEW w \in Worker, NEW next, NEW step,
           pc[w] \notin {"idle", "reply"}, Moving(w, next, step),
           UNCHANGED data \/ CommitConnection(w),
           Purpose(step, call[w], next),
           CountsOn(step, call[w], next, resume[w], View(w))
    PROVE  CycleInv'
  <1>1. /\ pc'[w] = step /\ call' = call /\ move'[w] = next /\ resume' = resume
        /\ Alone(w)
    BY DEF Moving, Alone, Quiet, TypeInv, LocalInv
  <1>2. View(w)' = View(w)
    BY ViewAfter
  <1>3. Counting(w)'
    BY <1>1, <1>2 DEF Counting
  <1> QED
    BY <1>1, <1>3, CycleStepped

LEMMA WriteCycle ==
    ASSUME Separate, TypeInv, CycleInv, NEW w \in Worker, NEW D, NEW step,
           pc[w] \notin {"idle", "reply"}, Write(w, D, step),
           Later(D, db), Traced(D), Cycled(D),
           CountsOn(step, call[w], move[w], resume[w], D)
    PROVE  CycleInv'
  <1>1. /\ pc'[w] = step /\ call' = call /\ move' = move /\ resume' = resume
        /\ Alone(w)
    BY DEF Write, Goto, Alone, Quiet, TypeInv, LocalInv
  <1>2. Writes(w) /\ View(w)' = D
    BY ViewAfter DEF Write, Writes
  <1>3. Purpose(step, call[w], move[w])
    BY Counted, SamePurpose
  <1>4. Counting(w)'
    BY <1>1, <1>2, <1>3 DEF Counting
  <1> QED
    BY <1>1, <1>2, <1>4, CycleStepped

LEMMA WriteAndCommitCycle ==
    ASSUME Separate, TypeInv, CycleInv, NEW w \in Worker, NEW D, NEW step,
           pc[w] \notin {"idle", "reply"}, WriteAndCommit(w, D, step),
           Later(D, db), Traced(D), Cycled(D),
           CountsOn("commit", call[w], move[w], step, D)
    PROVE  CycleInv'
  <1>1. /\ pc'[w] = "commit" /\ call' = call /\ move' = move
        /\ resume'[w] = step /\ Alone(w)
    BY DEF WriteAndCommit, Alone, Quiet, TypeInv, LocalInv
  <1>2. Writes(w) /\ View(w)' = D
    BY ViewAfter DEF WriteAndCommit, Writes
  <1>3. Purpose("commit", call[w], move[w])
    BY Counted, SamePurpose
  <1>4. Counting(w)'
    BY <1>1, <1>2, <1>3 DEF Counting
  <1> QED
    BY <1>1, <1>2, <1>4, CycleStepped

\* A step that relies on nothing in particular.
Plain == {"load", "create", "insertRow", "createEvent", "source", "control",
          "mark", "provenance", "publish", "request", "newRequest", "done"}

LEMMA CountsPlain ==
    ASSUME NEW p, NEW q \in Plain, NEW c \in Call, NEW m, NEW z, NEW y, NEW D,
           NEW E, p \notin {"open", "verify"}, CountsOn(p, c, m, z, D),
           D.requests \subseteq E.requests,
           c.op = "replace" /\ Evaluated(D, c.candidate) => Evaluated(E, c.candidate)
    PROVE  CountsOn(q, c, m, y, E) /\ CountsOn("commit", c, m, q, E)
  BY DEF CountsOn, Plain

\* Operations other than assessments and replacement cycles rely on nothing but
\* the stage they checked.
LEMMA CountsNothing ==
    ASSUME NEW p, NEW c, NEW m, NEW z, NEW D, c.op \notin {"assess", "replace"},
           p \notin {"update", "event"}
    PROVE  CountsOn(p, c, m, z, D)
  BY DEF CountsOn

\* The end of an evaluation: its successor has left RESEARCH.
LEMMA AfterSyncCycle ==
    ASSUME Separate, TypeInv, CycleInv, NEW w \in Worker,
           pc[w] \notin {"idle", "reply", "open", "verify"},
           call[w].op \in {"sync", "replace"}, AfterSync(w),
           UNCHANGED data \/ CommitConnection(w),
           call[w].op = "replace" => Evaluated(View(w), call[w].candidate)
    PROVE  CycleInv'
  <1> DEFINE c == call[w]
             r == c.prefix
             next == Return(r)
  <1>1. CASE c.op = "sync"
    BY <1>1, AnswerCycle DEF AfterSync
  <1>2. CASE c.op = "replace"
    <2>1. Moving(w, next, "check")
      BY <1>2 DEF AfterSync, Return
    <2>2. c \in Call /\ r \in Request
      BY <1>2, AtWork, CallFields
    <2>3. Purpose(pc[w], c, move[w]) /\ CountsOn(pc[w], c, move[w], resume[w], View(w))
      BY Counted
    <2>4. Purpose("check", c, next)
      BY <1>2, <2>3 DEF Purpose, Return, MoveTo
    <2>5. CountsOn("check", c, next, resume[w], View(w))
      BY <1>2, <2>3 DEF CountsOn
    <2> QED
      BY <2>1, <2>4, <2>5, MovingCycle
  <1> QED
    BY <1>1, <1>2

LEMMA AfterMoveCycle ==
    ASSUME Separate, TypeInv, CycleInv, NEW w \in Worker, pc[w] = "commit",
           resume[w] = "moved", AfterMove(w), CommitConnection(w)
    PROVE  CycleInv'
  <1> DEFINE c == call[w]
             m == move[w]
             next == MoveTo(m.strategy, "VALIDATED", "PROMOTED", c.prefix)
  <1>1. /\ c \in Call /\ c.op \in {"sync", "replace", "assess"}
        /\ m \in Move /\ m # NoMove
    BY NoMoveIsNoMove
    DEF TypeInv, LocalInv, StepInv, Fits, OperationsOf, ReadsMove
  <1>2. Purpose("commit", c, m) /\ CountsOn("commit", c, m, "moved", View(w))
    BY Counted
  <1>3. CASE c.op = "assess"
    <2>1. Goto(w, "control")
      BY <1>3 DEF AfterMove
    <2>2. CountsOn("control", c, m, resume[w], View(w))
      BY <1>3 DEF CountsOn
    <2> QED
      BY <2>1, <2>2, GotoCycle
  <1>4. CASE c.op = "replace" /\ m.target = "RESEARCH"
    <2>1. Goto(w, "cycle")
      BY <1>4 DEF AfterMove
    <2>2. m = Return(c.prefix)
      BY <1>1, <1>2, <1>4 DEF Purpose
    <2>3. CountsOn("cycle", c, m, resume[w], View(w))
      BY <1>2, <1>4, <2>2 DEF CountsOn
    <2> QED
      BY <2>1, <2>3, GotoCycle
  <1>5. CASE /\ c.op \in {"sync", "replace"} /\ m.target = "VALIDATED"
             /\ c.verdict.eligible
    <2>1. Moving(w, next, "check")
      BY <1>5 DEF AfterMove
    <2>2. Purpose("check", c, next)
      BY <1>1, <1>2, <1>5 DEF Purpose, MoveTo
    <2>3. CountsOn("check", c, next, resume[w], View(w))
      BY <1>2, <1>5 DEF CountsOn, MoveTo
    <2> QED
      BY <2>1, <2>2, <2>3, MovingCycle
  <1>6. CASE /\ c.op # "assess"
             /\ ~(c.op = "replace" /\ m.target = "RESEARCH")
             /\ ~(/\ c.op \in {"sync", "replace"} /\ m.target = "VALIDATED"
                  /\ c.verdict.eligible)
    <2>1. AfterSync(w)
      BY <1>6 DEF AfterMove
    <2>2. c.op = "replace" => Evaluated(View(w), c.candidate)
      BY <1>2 DEF CountsOn
    <2> QED
      BY <1>1, <1>6, <2>1, <2>2, AfterSyncCycle
  <1> QED
    BY <1>3, <1>4, <1>5, <1>6
-----------------------------------------------------------------------------
(* The steps, component by component *)

LEMMA WritePlainCycle ==
    ASSUME Separate, TypeInv, CycleInv, NEW w \in Worker, NEW D,
           NEW step \in Plain, pc[w] \notin {"idle", "reply", "open", "verify"},
           Write(w, D, step) \/ WriteAndCommit(w, D, step),
           Later(D, db), Traced(D), Cycled(D)
    PROVE  CycleInv'
  <1> DEFINE c == call[w]
  <1>1. c \in Call /\ View(w) = db
    BY AtWork, ViewAfter DEF Write, WriteAndCommit
  <1>2. Purpose(pc[w], c, move[w]) /\ CountsOn(pc[w], c, move[w], resume[w], db)
    BY <1>1, Counted
  <1>3. c.op = "replace" => c.candidate \in Strategy
    BY <1>1, <1>2, CallFields, RequestFields DEF Purpose
  <1>4. c.op = "replace" /\ Evaluated(db, c.candidate) => Evaluated(D, c.candidate)
    BY <1>3, LaterEvaluated
  <1>5. db.requests \subseteq D.requests
    BY DEF Later
  <1>6. /\ CountsOn(step, c, move[w], resume[w], D)
        /\ CountsOn("commit", c, move[w], step, D)
    BY <1>1, <1>2, <1>4, <1>5, CountsPlain
  <1> QED
    BY <1>6, WriteCycle, WriteAndCommitCycle

LEMMA GotoPlainCycle ==
    ASSUME Separate, TypeInv, CycleInv, NEW w \in Worker, NEW step \in Plain,
           pc[w] \notin {"idle", "reply", "open", "verify"}, Goto(w, step),
           UNCHANGED data \/ CommitConnection(w)
    PROVE  CycleInv'
  <1>1. call[w] \in Call
    BY AtWork
  <1>2. CountsOn(step, call[w], move[w], resume[w], View(w))
    BY <1>1, Counted, CountsPlain
  <1> QED
    BY <1>2, GotoCycle

\* A strategy that a worker sees past RESEARCH was evaluated, for all it sees.
LEMMA SeenEvaluated ==
    ASSUME SafeInv, CycleInv, NEW w \in Worker, pc[w] \notin Midway,
           NEW s \in Strategy, View(w).row[s].stage \notin {"ABSENT", "RESEARCH"}
    PROVE  Evaluated(View(w), s)
  <1>1. AllSound(View(w))
    BY Whole DEF View, SafeInv
  <1>2. Researched(View(w))
    BY DEF View, CycleInv, Traced
  <1> QED
    BY <1>1, <1>2, PastResearch DEF AllSound, Sound

LEMMA CheckCycle ==
    ASSUME Separate, TypeInv, SafeInv, CycleInv, NEW w \in Worker, Check(w)
    PROVE  CycleInv'
  <1> DEFINE m == move[w]
  <1>1. /\ pc[w] = "check"
        /\ \/ /\ View(w).row[m.strategy].stage = m.source
              /\ Goto(w, "update") /\ UNCHANGED data
           \/ Answer(w, "REFUSED") /\ RollbackConnection(w)
           \/ Fail(w)
    BY DEF Check
  <1>2. CountsOn("check", call[w], m, resume[w], View(w))
    BY <1>1, Counted
  <1>3. m \in Move
    BY <1>1, AtWork DEF Fits, ReadsMove
  <1>4. ASSUME View(w).row[m.strategy].stage = m.source
        PROVE  CountsOn("update", call[w], m, resume[w], View(w))
    <2>1. m.source # "RESEARCH" => Evaluated(View(w), m.strategy)
      BY <1>1, <1>3, <1>4, SeenEvaluated DEF Move, Stage, Midway
    <2> QED
      BY <1>2, <2>1 DEF CountsOn
  <1> QED
    BY <1>1, <1>4, GotoCycle, AnswerCycle, FailCycle

\* What the worker of a transition relies on.
LEMMA Transiting ==
    ASSUME TypeInv, CycleInv, NEW w \in Worker, pc[w] \in {"update", "event"},
           MayWrite(w)
    PROVE  LET c == call[w]
               m == move[w]
           IN  /\ c \in Call /\ m \in Move /\ m # NoMove
               /\ db \in Database /\ View(w) = db
               /\ Purpose(pc[w], c, m) /\ CountsOn(pc[w], c, m, resume[w], db)
               /\ c.op = "replace" =>
                    /\ c.prefix \in Request
                    /\ c.candidate \in Strategy
  <1> DEFINE c == call[w]
             m == move[w]
  <1>1. /\ c \in Call /\ m \in Move /\ m # NoMove
        /\ db \in Database /\ View(w) = db
    BY AtWork, NoMoveIsNoMove, ViewAfter DEF Fits, ReadsMove, TypeInv, DataInv
  <1>2. Purpose(pc[w], c, m) /\ CountsOn(pc[w], c, m, resume[w], db)
    BY <1>1, Counted
  <1>3. c.op = "replace" =>
          c.prefix \in Request /\ c.candidate \in Strategy
    BY <1>1, <1>2, CallFields, RequestFields DEF Purpose
  <1> QED
    BY <1>1, <1>2, <1>3

LEMMA UpdateCycle ==
    ASSUME Separate, TypeInv, CycleInv, NEW w \in Worker, Update(w)
    PROVE  CycleInv'
  <1> DEFINE c == call[w]
             m == move[w]
             x == [stage |-> m.target, reason |-> m.reason]
             D == [db EXCEPT !.row[m.strategy] = x]
  <1>1. pc[w] = "update" /\ MayWrite(w) /\ Write(w, D, "event")
    BY DEF Update, Write
  <1>2. /\ m \in Move /\ db \in Database
        /\ CountsOn("update", c, m, resume[w], db)
    BY <1>1, Transiting
  <1>3. m.strategy \in Strategy
    BY <1>2 DEF Move
  <1>4. /\ Later(D, db) /\ Traced(D) /\ Cycled(D)
        /\ D.requests = db.requests
        /\ \A s : Evaluated(D, s) <=> Evaluated(db, s)
    BY <1>2, <1>3, RowLater DEF CycleInv
  <1> HIDE DEF D
  <1>5. CountsOn("event", c, m, resume[w], D)
    BY <1>2, <1>4 DEF CountsOn
  <1> QED
    BY <1>1, <1>4, <1>5, WriteCycle

LEMMA AppendEventCycle ==
    ASSUME Separate, TypeInv, CycleInv, NEW w \in Worker, AppendEvent(w)
    PROVE  CycleInv'
  <1> DEFINE c == call[w]
             m == move[w]
             e == EventOf(m)
             D == Log(db, m.strategy, e)
  <1>1. /\ pc[w] = "event" /\ MayWrite(w)
        /\ \/ Fail(w)
           \/ c.op \in {"admit", "handoff"} /\ Write(w, D, "save")
           \/ WriteAndCommit(w, D, "moved")
    BY DEF AppendEvent
  <1>2. /\ c \in Call /\ m \in Move /\ m # NoMove /\ db \in Database
        /\ Purpose("event", c, m) /\ CountsOn("event", c, m, resume[w], db)
        /\ c.op = "replace" => c.candidate \in Strategy
    BY <1>1, Transiting
  <1>3. /\ e \in Event /\ m.strategy \in Strategy
        /\ e.source = m.source /\ e.target = m.target /\ e.reason = m.reason
    BY <1>2 DEF EventOf, Event, Move
  <1>4. e.source = "PAPER" /\ e.target = "DEGRADED"
          => \E r \in db.requests :
               r.strategy = m.strategy /\ e.reason = [cause |-> r.cause]
    <2>1. ASSUME m.source = "PAPER"
          PROVE  /\ c.request \in db.requests
                 /\ c.request.strategy = m.strategy
                 /\ m.reason = [cause |-> c.request.cause]
      BY <1>2, <2>1 DEF Purpose, CountsOn, MoveTo
    <2> QED
      BY <1>3, <2>1
  <1>5. /\ Later(D, db) /\ Logged(D, m.strategy, e)
        /\ Traced(D) /\ Cycled(D) /\ D.requests = db.requests
    <2>1. e.source = "RESEARCH" \/ Evaluated(db, m.strategy)
      BY <1>2, <1>3 DEF CountsOn
    <2> QED
      BY <1>2, <1>3, <1>4, <2>1, LogLater DEF CycleInv
  <1>6. c.op = "replace" => Evaluated(D, c.candidate)
    <2>1. CASE c.op = "replace" /\ m.target = "RESEARCH"
      <3>1. Evaluated(db, c.candidate)
        BY <1>2, <2>1 DEF CountsOn
      <3> QED
        BY <1>2, <1>5, <2>1, <3>1, LaterEvaluated
    <2>2. CASE c.op = "replace" /\ m.target # "RESEARCH"
      <3>1. m.strategy = c.candidate
        BY <1>2, <2>2 DEF Purpose
      <3>2. PICK k \in DOMAIN D.events[m.strategy] : D.events[m.strategy][k] = e
        BY <1>5 DEF Logged
      <3> QED
        BY <1>3, <1>5, <2>2, <3>1, <3>2 DEF Traced, Researched
    <2> QED
      BY <2>1, <2>2
  <1> HIDE DEF D
  <1>7. CountsOn("commit", c, m, "moved", D)
    BY <1>2, <1>5, <1>6 DEF CountsOn
  <1>8. ASSUME c.op \in {"admit", "handoff"} PROVE CountsOn("save", c, m, resume[w], D)
    BY <1>8, CountsNothing
  <1> QED
    BY <1>1, <1>5, <1>7, <1>8, FailCycle, WriteCycle, WriteAndCommitCycle

LEMMA CommitCycle ==
    ASSUME Separate, TypeInv, CycleInv, NEW w \in Worker, Commit(w)
    PROVE  CycleInv'
  <1> DEFINE c == call[w]
             m == move[w]
  <1>1. /\ pc[w] = "commit" /\ CommitConnection(w) /\ Resume(w, resume[w])
        /\ resume[w] \in AfterCommit
    BY DEF Commit, TypeInv, LocalInv, StepInv
  <1>2. CountsOn("commit", c, m, resume[w], View(w))
    BY <1>1, Counted
  <1>3. CASE resume[w] = "done"
    BY <1>1, <1>3, AnswerCycle DEF Resume
  <1>4. CASE resume[w] = "moved"
    BY <1>1, <1>4, AfterMoveCycle DEF Resume
  <1>5. CASE resume[w] = "check"
    <2>1. CountsOn("check", c, m, resume[w], View(w))
      BY <1>2, <1>5 DEF CountsOn
    <2> QED
      BY <1>1, <1>5, <2>1, GotoCycle DEF Resume
  <1>6. CASE resume[w] \in {"load", "provenance", "request"}
    <2>1. Goto(w, resume[w]) /\ resume[w] \in Plain
      BY <1>1, <1>6 DEF Resume, Plain
    <2> QED
      BY <1>1, <2>1, GotoPlainCycle
  <1> QED
    BY <1>1, <1>3, <1>4, <1>5, <1>6 DEF AfterCommit


LEMMA SyncCycle ==
    ASSUME Separate, TypeInv, SafeInv, CycleInv, NEW w \in Worker,
           Load(w) \/ Create(w) \/ InsertRow(w) \/ CreateEvent(w)
    PROVE  CycleInv'
  <1> DEFINE c == call[w]
             s == c.candidate
             stage == View(w).row[s].stage
  <1>1. /\ pc[w] \in {"load", "create", "insertRow", "createEvent"}
        /\ c \in Call /\ c.op \in {"sync", "replace"}
        /\ s \in Strategy /\ c.prefix \in Reason /\ db \in Database
    BY AtWork, CallFields
    DEF Load, Create, InsertRow, CreateEvent, Fits, OperationsOf, TypeInv, DataInv
  <1>2. /\ Purpose(pc[w], c, move[w])
        /\ CountsOn(pc[w], c, move[w], resume[w], View(w))
    BY <1>1, Counted
  <1>3. CASE Load(w)
    <2>1. ASSUME NEW source \in {"RESEARCH", "VALIDATED"},
                 NEW target \in {"VALIDATED", "DEGRADED", "PROMOTED"},
                 Moving(w, MoveTo(s, source, target, c.prefix), "check")
          PROVE  CycleInv'
      <3> DEFINE next == MoveTo(s, source, target, c.prefix)
      <3>1. next.strategy = s /\ next.source = source /\ next.target = target
        BY DEF MoveTo
      <3>2. Purpose("check", c, next)
        BY <1>1, <1>2, <3>1 DEF Purpose
      <3>3. CountsOn("check", c, next, resume[w], View(w))
        BY <1>1, <1>2, <3>1 DEF CountsOn
      <3>4. UNCHANGED data
        BY <1>3 DEF Load
      <3> QED
        BY <1>1, <2>1, <3>2, <3>3, <3>4, MovingCycle
    <2>2. \/ Goto(w, "create")
          \/ \E source \in {"RESEARCH", "VALIDATED"},
                target \in {"VALIDATED", "DEGRADED", "PROMOTED"} :
               Moving(w, MoveTo(s, source, target, c.prefix), "check")
          \/ stage \notin {"ABSENT", "RESEARCH"} /\ AfterSync(w)
      <3>1. CASE stage = "ABSENT"
        BY <1>3, <3>1 DEF Load
      <3>2. CASE stage = "RESEARCH"
        <4>1. Moving(w, MoveTo(s, "RESEARCH",
                        IF c.verdict.passed THEN "VALIDATED" ELSE "DEGRADED",
                        c.prefix), "check")
          BY <1>3, <3>2 DEF Load
        <4> QED
          BY <4>1
      <3>3. CASE stage = "VALIDATED" /\ c.verdict.eligible
        <4>1. Moving(w, MoveTo(s, "VALIDATED", "PROMOTED", c.prefix), "check")
          BY <1>3, <3>3 DEF Load
        <4> QED
          BY <4>1
      <3>4. CASE /\ stage \notin {"ABSENT", "RESEARCH"}
                 /\ ~(stage = "VALIDATED" /\ c.verdict.eligible)
        BY <1>3, <3>4 DEF Load
      <3> QED
        BY <3>1, <3>2, <3>3, <3>4
    <2>3. ASSUME stage \notin {"ABSENT", "RESEARCH"}, AfterSync(w) PROVE CycleInv'
      <3>1. Evaluated(View(w), s)
        BY <1>1, <1>3, <2>3, SeenEvaluated DEF Load, Midway
      <3> QED
        BY <1>1, <1>3, <2>3, <3>1, AfterSyncCycle DEF Load
    <2> QED
      BY <1>1, <1>3, <2>1, <2>2, <2>3, GotoPlainCycle DEF Load, Plain
  <1>4. CASE Create(w)
    <2>1. /\ pc[w] = "create" /\ UNCHANGED data
          /\ \/ Goto(w, "insertRow") \/ Goto(w, "load") \/ Answer(w, "RAISED")
      BY <1>4 DEF Create
    <2> QED
      BY <2>1, GotoPlainCycle, AnswerCycle DEF Plain
  <1>5. CASE InsertRow(w)
    <2> DEFINE D == [db EXCEPT !.row[s] = NewRow(w)]
    <2>1. /\ pc[w] = "insertRow"
          /\ FailInBlock(w) \/ Write(w, D, "createEvent")
      BY <1>5 DEF InsertRow
    <2>2. Later(D, db) /\ Traced(D) /\ Cycled(D)
      BY <1>1, RowLater DEF CycleInv
    <2> QED
      BY <2>1, <2>2, FailCycle, WritePlainCycle DEF Plain
  <1>6. CASE CreateEvent(w)
    <2> DEFINE e == [source |-> "ABSENT", target |-> "RESEARCH",
                     reason |-> c.prefix]
               D == Log(db, s, e)
    <2>1. /\ pc[w] = "createEvent"
          /\ FailInBlock(w) \/ WriteAndCommit(w, D, "load")
      BY <1>6 DEF CreateEvent
    <2>2. e \in Event /\ e.source = "ABSENT" /\ e.target = "RESEARCH"
      BY <1>1 DEF Event, Stage
    <2>3. Later(D, db) /\ Traced(D) /\ Cycled(D)
      BY <1>1, <2>2, LogLater DEF CycleInv
    <2> QED
      BY <2>1, <2>3, FailCycle, WritePlainCycle DEF Plain
  <1> QED
    BY <1>3, <1>4, <1>5, <1>6

LEMMA AdmissionCycle ==
    ASSUME Separate, TypeInv, CycleInv, NEW w \in Worker,
           \/ Preflight(w) \/ Present(w) \/ Lookup(w) \/ Existing(w)
    PROVE  CycleInv'
  <1> DEFINE c == call[w]
             next == MoveTo(c.strategy, "PROMOTED", "PAPER",
                            [admission |-> c.reason])
  <1>1. /\ pc[w] \in {"preflight", "present", "lookup", "confirm", "existing"}
        /\ c.op \in {"admit", "handoff"}
        /\ UNCHANGED data
    BY AtWork DEF Preflight, Present, Lookup, Existing, Fits, OperationsOf
  <1>2. \/ \E step \in {"present", "lookup", "confirm", "existing"} : Goto(w, step)
        \/ \E value \in Result : Answer(w, value)
        \/ Moving(w, next, "check")
    BY DEF Preflight, Present, Lookup, Existing, Result
  <1>3. Purpose("check", c, next)
    BY <1>1 DEF Purpose, MoveTo
  <1>4. \A p, m : p \notin {"update", "event"}
                     => CountsOn(p, c, m, resume[w], View(w))
    BY <1>1, CountsNothing
  <1> QED
    BY <1>1, <1>2, <1>3, <1>4, GotoCycle, AnswerCycle, MovingCycle

LEMMA RecordedCycle ==
    ASSUME Separate, TypeInv, CycleInv, NEW w \in Worker, Save(w) \/ Insert(w)
    PROVE  CycleInv'
  <1> DEFINE c == call[w]
             D == [db EXCEPT !.admissions = @ \cup {AdmissionOf(c)}]
  <1>1. /\ pc[w] \in {"save", "insert"} /\ c.op \in {"admit", "handoff"}
        /\ db \in Database
    BY AtWork DEF Save, Insert, Fits, OperationsOf, TypeInv, DataInv
  <1>2. \A p, m, z, E : p \notin {"update", "event"} => CountsOn(p, c, m, z, E)
    BY <1>1, CountsNothing
  <1>3. /\ D.row = db.row /\ D.events = db.events /\ D.requests = db.requests
        /\ D.cycles = db.cycles
    BY <1>1 DEF Database
  <1>4. Later(D, db) /\ Traced(D)
    BY <1>1, <1>3, SameLater DEF CycleInv
  <1>5. Cycled(D)
    BY <1>1, <1>3, <1>4, CycledLater DEF CycleInv
  <1>6. CASE Save(w)
    <2>1. \/ Goto(w, "insert") /\ UNCHANGED data
          \/ \E value : Answer(w, value) /\ (UNCHANGED data \/ RollbackConnection(w))
      BY <1>6 DEF Save
    <2> QED
      BY <1>1, <1>2, <2>1, GotoCycle, AnswerCycle
  <1>7. CASE Insert(w)
    <2>1. FailInBlock(w) \/ WriteAndCommit(w, D, "done")
      BY <1>7 DEF Insert
    <2> QED
      BY <1>1, <1>2, <1>4, <1>5, <2>1, FailCycle, WriteAndCommitCycle
  <1> QED
    BY <1>6, <1>7

LEMMA ReadCycle ==
    ASSUME Separate, TypeInv, CycleInv, NEW w \in Worker,
           \/ Health(w) \/ Restore(w) \/ SaveRequest(w) \/ Control(w)
           \/ Provenance(w) \/ Verify(w) \/ Source(w) \/ SaveCycle(w)
    PROVE  CycleInv'
  <1> DEFINE c == call[w]
             m == move[w]
             next == MoveTo(c.strategy, "PAPER", "DEGRADED",
                            [cause |-> c.request.cause])
  <1>1. /\ pc[w] \in {"health", "restore", "request", "control", "provenance",
                      "verify", "source", "cycle"}
        /\ UNCHANGED data
        /\ Fits(w, pc[w])
    BY AtWork
    DEF Health, Restore, SaveRequest, Control, Provenance, Verify, Source, SaveCycle
  <1>2. Purpose(pc[w], c, m) /\ CountsOn(pc[w], c, m, resume[w], View(w))
    BY <1>1, Counted
  <1>3. CASE Health(w)
    <2>1. c.op = "assess" /\ pc[w] = "health"
      BY <1>1, <1>3 DEF Health, Fits, OperationsOf
    <2>2. Purpose("request", c, next)
      BY <1>2, <2>1 DEF Purpose, MoveTo
    <2>3. CountsOn("request", c, next, resume[w], View(w))
      BY <2>1 DEF CountsOn
    <2>4. Moving(w, next, "request") \/ Goto(w, "request") \/ Answer(w, "RAISED")
      BY <1>3 DEF Health
    <2> QED
      BY <1>1, <2>1, <2>2, <2>3, <2>4, MovingCycle, GotoPlainCycle, AnswerCycle
      DEF Plain
  <1>4. CASE SaveRequest(w)
    <2>1. /\ pc[w] = "request" /\ c.op \in {"assess", "feedback"}
      BY <1>1, <1>4 DEF SaveRequest, Fits, OperationsOf
    <2>2. \/ Answer(w, "DONE") \/ Goto(w, "newRequest")
          \/ c.request \in View(w).requests /\ Goto(w, "check")
      BY <1>4 DEF SaveRequest, Resume, AfterRequest
    <2>3. c.request \in View(w).requests => CountsOn("check", c, m, resume[w], View(w))
      BY <2>1 DEF CountsOn
    <2> QED
      BY <1>1, <2>1, <2>2, <2>3, GotoCycle, GotoPlainCycle, AnswerCycle DEF Plain
  <1>5. CASE Verify(w)
    <2>1. pc[w] = "verify" /\ c.op = "replace"
      BY <1>1, <1>5 DEF Verify, Fits, OperationsOf
    <2>2. \/ Answer(w, "RAISED")
          \/ c.prefix \in View(w).requests /\ Goto(w, "source")
      BY <1>5 DEF Verify
    <2>3. c.prefix \in View(w).requests =>
            CountsOn("source", c, m, resume[w], View(w))
      BY <1>2, <2>1 DEF CountsOn
    <2> QED
      BY <1>1, <2>1, <2>2, <2>3, GotoCycle, AnswerCycle
  <1>6. CASE SaveCycle(w)
    <2>1. pc[w] = "cycle"
      BY <1>6 DEF SaveCycle
    <2>2. Answer(w, "DONE") \/ Goto(w, "record")
      BY <1>6 DEF SaveCycle, Resume
    <2>3. CountsOn("record", c, m, resume[w], View(w))
      BY <1>2, <2>1 DEF CountsOn
    <2> QED
      BY <1>1, <2>1, <2>2, <2>3, GotoCycle, AnswerCycle
  <1>7. CASE Restore(w) \/ Control(w) \/ Provenance(w) \/ Source(w)
    <2>1. pc[w] \in {"restore", "control", "provenance", "source"}
      BY <1>7 DEF Restore, Control, Provenance, Source
    <2>2. \/ Answer(w, "RAISED") \/ Answer(w, "DONE")
          \/ \E step \in {"control", "mark", "publish", "load"} : Goto(w, step)
      BY <1>7 DEF Restore, Control, Provenance, Source, Resume
    <2> QED
      BY <1>1, <2>1, <2>2, GotoPlainCycle, AnswerCycle DEF Plain
  <1> QED
    BY <1>3, <1>4, <1>5, <1>6, <1>7


LEMMA OtherWriteCycle ==
    ASSUME Separate, TypeInv, CycleInv, NEW w \in Worker,
           NewRequest(w) \/ Mark(w) \/ Publish(w) \/ RecordCycle(w)
    PROVE  CycleInv'
  <1> DEFINE c == call[w]
             m == move[w]
  <1>1. /\ pc[w] \in {"newRequest", "mark", "publish", "record"}
        /\ c \in Call /\ Fits(w, pc[w]) /\ db \in Database
    BY AtWork DEF NewRequest, Mark, Publish, RecordCycle, TypeInv, DataInv
  <1>2. Traced(db) /\ Cycled(db)
    BY DEF CycleInv
  <1>3. CASE NewRequest(w)
    <2> DEFINE D == [db EXCEPT !.requests = @ \cup {c.request}]
    <2>1. /\ pc[w] = "newRequest" /\ c.op \in {"assess", "feedback"}
          /\ Fail(w) \/ WriteAndCommit(w, D, AfterRequest(w))
      BY <1>1, <1>3 DEF NewRequest, Fits, OperationsOf
    <2>2. /\ D.row = db.row /\ D.events = db.events /\ D.cycles = db.cycles
          /\ D.requests = db.requests \cup {c.request}
      BY <1>1 DEF Database
    <2>3. Later(D, db) /\ Traced(D)
      BY <1>1, <1>2, <2>2, SameLater
    <2>4. Cycled(D)
      BY <1>1, <1>2, <2>2, <2>3, CycledLater
    <2>5. \A z : CountsOn("commit", c, m, z, D)
      BY <2>1, <2>2 DEF CountsOn
    <2> QED
      BY <2>1, <2>3, <2>4, <2>5, FailCycle, WriteAndCommitCycle
  <1>4. CASE Mark(w)
    <2> DEFINE D == [db EXCEPT !.control[c.strategy] = ControlTarget(c)]
               step == CASE c.op = "assess"   -> "provenance"
                         [] c.op = "feedback" -> "request"
                         [] OTHER             -> "done"
    <2>1. pc[w] = "mark" /\ WriteAndCommit(w, D, step)
      BY <1>4 DEF Mark
    <2>2. step \in Plain
      BY DEF Plain
    <2>3. /\ D.row = db.row /\ D.events = db.events /\ D.cycles = db.cycles
          /\ D.requests = db.requests
      BY <1>1 DEF Database
    <2> HIDE DEF step, D
    <2>4. Later(D, db) /\ Traced(D)
      BY <1>1, <1>2, <2>3, SameLater
    <2>5. Cycled(D)
      BY <1>1, <1>2, <2>3, <2>4, CycledLater
    <2> QED
      BY <2>1, <2>2, <2>4, <2>5, WritePlainCycle
  <1>5. CASE Publish(w)
    <2> DEFINE D == [db EXCEPT !.feedback = @ \cup {c.request}]
    <2>1. pc[w] = "publish" /\ (FailInBlock(w) \/ WriteAndCommit(w, D, "done"))
      BY <1>5 DEF Publish
    <2>2. /\ D.row = db.row /\ D.events = db.events /\ D.cycles = db.cycles
          /\ D.requests = db.requests
      BY <1>1 DEF Database
    <2>3. Later(D, db) /\ Traced(D)
      BY <1>1, <1>2, <2>2, SameLater
    <2>4. Cycled(D)
      BY <1>1, <1>2, <2>2, <2>3, CycledLater
    <2> QED
      BY <2>1, <2>3, <2>4, FailCycle, WritePlainCycle DEF Plain
  <1>6. CASE RecordCycle(w)
    <2> DEFINE r == c.prefix
               D == [db EXCEPT !.cycles = @ \cup {r}]
    <2>1. /\ pc[w] = "record" /\ c.op = "replace"
          /\ Fail(w) \/ (MayWrite(w) /\ WriteAndCommit(w, D, "done"))
      BY <1>1, <1>6 DEF RecordCycle, Fits, OperationsOf
    <2>2. /\ D.row = db.row /\ D.events = db.events /\ D.requests = db.requests
          /\ D.cycles = db.cycles \cup {r}
      BY <1>1 DEF Database
    <2>3. Later(D, db) /\ Traced(D)
      BY <1>1, <1>2, <2>2, SameLater
    <2>4. ASSUME MayWrite(w) PROVE Cycled(D)
      <3>1. Purpose("record", c, m) /\ CountsOn("record", c, m, resume[w], db)
        BY <2>1, <2>4, Counted, ViewAfter
      <3>2. r \in Request /\ c.candidate = SuccessorOf[r]
        BY <1>1, <2>1, <3>1, CallFields DEF Purpose
      <3>3. /\ m = Return(r) /\ r \in db.requests
            /\ Logged(db, m.strategy, EventOf(m))
        BY <2>1, <3>1 DEF CountsOn
      <3>4. m # NoMove /\ m.target = "RESEARCH" /\ m.strategy = r.strategy
        BY <3>2, <3>3, RequestFields
      <3>5. Evaluated(db, SuccessorOf[r])
        BY <2>1, <3>1, <3>2, <3>4 DEF CountsOn
      <3>6. Logged(db, r.strategy, EventOf(Return(r)))
        BY <3>3, <3>4
      <3> QED
        BY <1>2, <2>2, <3>3, <3>5, <3>6 DEF Cycled, Logged, Evaluated
    <2> QED
      BY <2>1, <2>3, <2>4, FailCycle, WritePlainCycle DEF Plain
  <1> QED
    BY <1>3, <1>4, <1>5, <1>6

LEMMA BeginCycle ==
    ASSUME Separate, TypeInv, CycleInv, NEW w \in Worker, NEW c, Begin(w, c),
           c.op = "assess" => c.strategy = c.request.strategy,
           c.op = "replace" => c.candidate = SuccessorOf[c.prefix]
    PROVE  CycleInv'
  <1>1. /\ pc[w] = "idle" /\ move[w] = NoMove /\ pc'[w] = "open"
        /\ call'[w] = c /\ move' = move /\ UNCHANGED data /\ Alone(w)
    BY DEF Begin, TypeInv, LocalInv, StepInv, Alone, Quiet
  <1>2. /\ Purpose("open", c, NoMove)
        /\ CountsOn("open", c, NoMove, resume'[w], View(w)')
    BY DEF Purpose, CountsOn
  <1>3. Counting(w)'
    BY <1>1, <1>2 DEF Counting
  <1> QED
    BY <1>1, <1>3, CycleStepped

LEMMA StartCycle ==
    ASSUME Separate, TypeInv, CycleInv, NEW w \in Worker, Start(w)
    PROVE  CycleInv'
  <1>1. ASSUME NEW s, NEW v,
               Begin(w, [op |-> "sync", candidate |-> s, prefix |-> Evaluation,
                         verdict |-> v])
        PROVE  CycleInv'
    BY <1>1, BeginCycle
  <1>2. ASSUME NEW op \in {"admit", "handoff"}, NEW s, NEW run, NEW reason,
               Begin(w, [op |-> op, strategy |-> s, run |-> run, reason |-> reason])
        PROVE  CycleInv'
    BY <1>2, BeginCycle
  <1>3. ASSUME NEW op \in {"assess", "feedback"}, NEW r,
               Begin(w, [op |-> op, strategy |-> r.strategy, request |-> r])
        PROVE  CycleInv'
    BY <1>3, BeginCycle
  <1>4. ASSUME NEW r, NEW v,
               Begin(w, [op |-> "replace", candidate |-> SuccessorOf[r],
                         prefix |-> r, verdict |-> v])
        PROVE  CycleInv'
    BY <1>4, BeginCycle
  <1>5. ASSUME NEW s,
               Begin(w, [op |-> "control", strategy |-> s, state |-> "HALTED"])
        PROVE  CycleInv'
    BY <1>5, BeginCycle
  <1> QED
    BY <1>1, <1>2, <1>3, <1>4, <1>5 DEF Start

LEMMA OpenCycle ==
    ASSUME Separate, TypeInv, CycleInv, NEW w \in Worker, Open(w)
    PROVE  CycleInv'
  <1> DEFINE c == call[w]
  <1>1. /\ pc[w] = "open" /\ c.op \in Operation
        /\ CommitConnection(w) /\ Goto(w, FirstStep(c.op))
    BY AtWork, CallFields DEF Open
  <1>2. CountsOn("open", c, move[w], resume[w], View(w))
    BY <1>1, Counted
  <1>3. /\ FirstStep(c.op) \notin {"check", "update", "event", "commit",
                                   "cycle", "record"}
        /\ c.op = "replace" => FirstStep(c.op) = "verify"
    BY <1>1 DEF FirstStep, Operation
  <1>4. CountsOn(FirstStep(c.op), c, move[w], resume[w], View(w))
    BY <1>2, <1>3 DEF CountsOn
  <1> QED
    BY <1>1, <1>4, GotoCycle

LEMMA EndCycle ==
    ASSUME Separate, TypeInv, CycleInv, NEW w \in Worker, Busy(w) \/ Reply(w)
    PROVE  CycleInv'
  <1>1. CASE Busy(w)
    BY <1>1, FailCycle DEF Busy
  <1>2. CASE Reply(w)
    <2>1. pc'[w] = "idle" /\ move'[w] = NoMove /\ UNCHANGED data /\ Alone(w)
      BY <1>2 DEF Reply, Forget, Alone, Quiet
    <2>2. Counting(w)'
      BY <2>1 DEF Counting, Purpose
    <2> QED
      BY <2>1, <2>2, CycleStepped
  <1> QED
    BY <1>1, <1>2

LEMMA CrashCycle ==
    ASSUME TypeInv, CycleInv, NEW c \in Connection, Crash(c)
    PROVE  CycleInv'
  <1> DEFINE ws == {w \in Worker : ConnectionOf[w] = c}
  <1>1. Forget(ws)
    BY DEF Crash
  <1>2. /\ disk' = disk
        /\ \/ lock = c /\ db' = disk /\ lock' = NoConnection
           \/ lock # c /\ db' = db /\ lock' = lock
    BY DEF Crash, data
  <1>3. ASSUME NEW v \in Worker PROVE Counting(v)'
    <2>1. CASE v \in ws
      <3>1. pc'[v] = "idle" /\ move'[v] = NoMove
        BY <1>1, <2>1 DEF Forget
      <3> QED
        BY <3>1 DEF Counting, Purpose
    <2>2. CASE v \notin ws
      <3>1. /\ pc'[v] = pc[v] /\ call'[v] = call[v] /\ move'[v] = move[v]
            /\ resume'[v] = resume[v]
        BY <1>1, <2>2 DEF Forget
      <3>2. Conn(v) # c /\ Conn(v)' = Conn(v)
        BY <2>2 DEF Conn
      <3>3. View(v)' = View(v)
        BY <1>2, <3>2, ConnectionType DEF View
      <3>4. Counting(v)
        BY DEF CycleInv
      <3> QED
        BY <3>1, <3>3, <3>4 DEF Counting
    <2> QED
      BY <2>1, <2>2
  <1>4. \A v \in Worker : Counting(v)'
    BY <1>3
  <1> QED
    BY <1>2, <1>4, LaterItself DEF CycleInv

LEMMA CycleInit ==
    ASSUME Init
    PROVE  CycleInv
  <1>1. Traced(EmptyDatabase) /\ Cycled(EmptyDatabase)
    BY DEF Traced, Requested, Researched, Cycled, EmptyDatabase
  <1>2. \A w \in Worker : Counting(w)
    BY DEF Init, Counting, Purpose
  <1> QED
    BY <1>1, <1>2, LaterItself DEF CycleInv, Init

LEMMA CycleStep ==
    ASSUME Separate, TypeInv, SafeInv, CycleInv, [Next]_vars
    PROVE  CycleInv'
  <1>1. CASE Next
    <2>1. ASSUME NEW w \in Worker, Advance(w) PROVE CycleInv'
      BY <2>1, CheckCycle, UpdateCycle, AppendEventCycle, CommitCycle, SyncCycle,
         AdmissionCycle, RecordedCycle, ReadCycle, OtherWriteCycle, OpenCycle,
         EndCycle
      DEF Advance
    <2> QED
      BY <1>1, <2>1, StartCycle, CrashCycle DEF Next
  <1>2. CASE UNCHANGED vars
    BY <1>2 DEF vars, CycleInv, Counting, View, Conn
  <1> QED
    BY <1>1, <1>2

\* What the invariant says of the committed database.
LEMMA CycleMeans ==
    ASSUME TypeInv, CycleInv
    PROVE  DegradedIsRequested /\ CycleIsBacked
  <1>1. DegradedIsRequested
    BY DEF CycleInv, Traced, Requested, DegradedIsRequested
  <1>2. CycleIsBacked
    BY DEF CycleInv, Cycled, Logged, Return, EventOf, MoveTo, Evaluated,
           CycleIsBacked
  <1> QED
    BY <1>1, <1>2

LEMMA CycleAlways ==
    ASSUME Separate
    PROVE  Spec => [](DegradedIsRequested /\ CycleIsBacked)
  <1>1. Init => TypeInv /\ SafeInv /\ CycleInv
    BY TypeInit, SafeInit, CycleInit
  <1>2. TypeInv /\ SafeInv /\ CycleInv /\ [Next]_vars
          => (TypeInv /\ SafeInv /\ CycleInv)'
    BY TypeStep, SafeStep, CycleStep
  <1>3. TypeInv /\ CycleInv => DegradedIsRequested /\ CycleIsBacked
    BY CycleMeans
  <1> QED
    BY <1>1, <1>2, <1>3, PTL DEF Spec

\* No strategy is degraded by its paper health before the request to replace
\* it is durable: the request is committed on its own, before the transition
\* is written, and nothing removes it.
THEOREM DegradedAlwaysRequested ==
    ASSUME Separate
    PROVE  Spec => []DegradedIsRequested
  BY CycleAlways, PTL

\* A recorded cycle has its request, moved its source and had its successor
\* evaluated, whatever other processes evaluated, moved or recorded meanwhile,
\* and whatever becomes of the successor: it may be handed to paper, degraded
\* and replaced in its turn.
THEOREM CycleAlwaysBacked ==
    ASSUME Separate
    PROVE  Spec => []CycleIsBacked
  BY CycleAlways, PTL
-----------------------------------------------------------------------------
(* The table of transitions *)

\* One process works at a time.  Between the check of a transition and its
\* UPDATE, another one may change the stage.
Solitary == \A v, w \in Worker : v = w

FollowsTable(E, D, s) ==
    \/ E.row[s].stage = D.row[s].stage
    \/ D.row[s] = NoRow /\ E.row[s].stage = "RESEARCH"
    \/ D.row[s] # NoRow /\ E.row[s].stage \in Transitions[D.row[s].stage]

\* The steps where a transaction may be open with a row it has changed: one
\* that raised stays open until the next operation begins.
Unsettled == {"event", "createEvent", "save", "insert", "commit", "reply",
              "idle", "open"}

\* Outside of those the stages are the committed ones, and the UPDATE finds the
\* stage that was checked.
Settled(w) ==
    LET m == move[w]
    IN  /\ pc[w] \notin Unsettled => db.row = disk.row
        /\ pc[w] = "update" =>
             /\ m.target \in Transitions[m.source]
             /\ disk.row[m.strategy].stage = m.source

TableInv ==
    /\ lock = NoConnection => db = disk
    /\ \A s \in Strategy : FollowsTable(db, disk, s)
    /\ \A w \in Worker : MayWrite(w) /\ Settled(w)

\* A step that leaves the rows alone, or publishes or discards them.
KeepsRows(w) ==
    \/ UNCHANGED data \/ CommitConnection(w) \/ RollbackConnection(w)
    \/ lock' = Conn(w) /\ disk' = disk /\ db'.row = db.row

LEMMA FollowsItself ==
    ASSUME NEW D, NEW E, NEW s, E.row = D.row
    PROVE  FollowsTable(E, D, s)
  BY DEF FollowsTable

LEMMA OneConnection ==
    ASSUME Solitary, NEW w \in Worker, lock' \in {Conn(w), NoConnection},
           lock' = NoConnection => db' = disk',
           \A s \in Strategy : FollowsTable(db', disk', s),
           Settled(w)'
    PROVE  TableInv'
  <1>1. ASSUME NEW v \in Worker PROVE MayWrite(v)' /\ Settled(v)'
    BY <1>1 DEF Solitary, MayWrite, Conn
  <1> QED
    BY <1>1 DEF TableInv

LEMMA KeptTable ==
    ASSUME Solitary, TableInv, NEW w \in Worker, KeepsRows(w),
           pc'[w] # "update",
           \/ CommitConnection(w) \/ pc[w] \notin Unsettled \/ pc'[w] \in Unsettled
    PROVE  TableInv'
  <1>1. lock \in {Conn(w), NoConnection} /\ Conn(w) # NoConnection
    BY ConnectionType DEF TableInv, MayWrite
  <1>2. CASE CommitConnection(w)
    <2>1. lock' = NoConnection /\ db' = disk'
      BY <1>1, <1>2 DEF CommitConnection, data, TableInv
    <2> QED
      BY <2>1, FollowsItself, OneConnection DEF Settled
  <1>3. CASE RollbackConnection(w)
    <2>1. lock' = NoConnection /\ db' = disk'
      BY <1>1, <1>3 DEF RollbackConnection, data, TableInv
    <2> QED
      BY <2>1, FollowsItself, OneConnection DEF Settled
  <1>4. CASE /\ ~CommitConnection(w)
             /\ \/ UNCHANGED data
                \/ lock' = Conn(w) /\ disk' = disk /\ db'.row = db.row
    <2>1. /\ db'.row = db.row /\ disk' = disk
          /\ lock' \in {Conn(w), NoConnection}
          /\ lock' = NoConnection => db' = disk'
      BY <1>1, <1>4 DEF data, TableInv
    <2>2. \A s \in Strategy : FollowsTable(db', disk', s)
      BY <2>1 DEF TableInv, FollowsTable
    <2>3. Settled(w)'
      BY <1>4, <2>1 DEF Settled, TableInv
    <2> QED
      BY <2>1, <2>2, <2>3, OneConnection
  <1> QED
    BY <1>2, <1>3, <1>4 DEF KeepsRows

\* A write of one row that follows the table.
LEMMA RowTable ==
    ASSUME Solitary, TypeInv, TableInv, NEW w \in Worker, NEW t \in Strategy,
           NEW x, NEW step \in Unsettled,
           pc[w] \notin Unsettled, Write(w, [db EXCEPT !.row[t] = x], step),
           \/ disk.row[t] = NoRow /\ x.stage = "RESEARCH"
           \/ disk.row[t] # NoRow /\ x.stage \in Transitions[disk.row[t].stage]
    PROVE  TableInv'
  <1> DEFINE E == [db EXCEPT !.row[t] = x]
  <1>1. /\ lock' = Conn(w) /\ db' = E /\ disk' = disk /\ pc'[w] = step
        /\ Conn(w) # NoConnection
    BY ConnectionType DEF Write, Goto, TypeInv, LocalInv
  <1>2. db.row = disk.row
    BY DEF TableInv, Settled
  <1>3. E.row = [disk.row EXCEPT ![t] = x] /\ disk.row \in [Strategy -> Row \cup {NoRow}]
    BY <1>2 DEF TypeInv, DataInv, Database
  <1>4. E.row[t] = x /\ \A s \in Strategy \ {t} : E.row[s] = disk.row[s]
    BY <1>3
  <1>5. \A s \in Strategy : FollowsTable(E, disk, s)
    BY <1>4 DEF FollowsTable
  <1>6. Settled(w)'
    BY <1>1 DEF Settled, Unsettled
  <1> HIDE DEF E
  <1> QED
    BY <1>1, <1>5, <1>6, OneConnection

LEMMA CheckTable ==
    ASSUME Solitary, TypeInv, TableInv, NEW w \in Worker, Check(w)
    PROVE  TableInv'
  <1> DEFINE m == move[w]
  <1>1. /\ pc[w] = "check"
        /\ \/ /\ Goto(w, "update") /\ UNCHANGED data
              /\ m.target \in Transitions[m.source]
              /\ View(w).row[m.strategy].stage = m.source
           \/ Answer(w, "REFUSED") /\ RollbackConnection(w)
           \/ Fail(w)
    BY DEF Check
  <1>2. db.row = disk.row /\ View(w).row = disk.row
    BY <1>1 DEF TableInv, Settled, Unsettled, View
  <1>3. ASSUME Goto(w, "update"), UNCHANGED data,
               m.target \in Transitions[m.source],
               View(w).row[m.strategy].stage = m.source
        PROVE  TableInv'
    <2>1. pc'[w] = "update" /\ move' = move
      BY <1>3 DEF Goto, TypeInv, LocalInv
    <2>2. db' = db /\ disk' = disk /\ lock' = lock
      BY <1>3 DEF data
    <2>3. Settled(w)'
      BY <1>2, <1>3, <2>1, <2>2 DEF Settled
    <2>4. lock' \in {Conn(w), NoConnection}
      BY <2>2 DEF TableInv, MayWrite
    <2> QED
      BY <2>2, <2>3, <2>4, OneConnection DEF TableInv
  <1>4. ASSUME NEW value, Answer(w, value), UNCHANGED data \/ RollbackConnection(w)
        PROVE  TableInv'
    <2>1. pc'[w] = "reply" /\ KeepsRows(w)
      BY <1>4 DEF Answer, TypeInv, LocalInv, KeepsRows
    <2> QED
      BY <2>1, KeptTable DEF Unsettled
  <1> QED
    BY <1>1, <1>3, <1>4 DEF Fail

LEMMA UpdateTable ==
    ASSUME Solitary, TypeInv, TableInv, NEW w \in Worker, Update(w)
    PROVE  TableInv'
  <1> DEFINE m == move[w]
             x == [stage |-> m.target, reason |-> m.reason]
  <1>1. pc[w] = "update" /\ Write(w, [db EXCEPT !.row[m.strategy] = x], "event")
    BY DEF Update
  <1>2. m \in Move /\ m.strategy \in Strategy /\ m.source \in Stage
    BY <1>1, AtWork DEF Fits, ReadsMove, Move
  <1>3. m.target \in Transitions[m.source] /\ disk.row[m.strategy].stage = m.source
    BY <1>1 DEF TableInv, Settled
  <1>4. disk.row[m.strategy] # NoRow
    BY <1>2, <1>3 DEF NoRow, Stage
  <1>5. x.stage \in Transitions[disk.row[m.strategy].stage]
    BY <1>3
  <1>6. "event" \in Unsettled /\ pc[w] \notin Unsettled
    BY <1>1 DEF Unsettled
  <1> QED
    BY <1>1, <1>2, <1>4, <1>5, <1>6, RowTable

LEMMA InsertRowTable ==
    ASSUME Solitary, TypeInv, TableInv, NEW w \in Worker, InsertRow(w)
    PROVE  TableInv'
  <1> DEFINE s == call[w].candidate
  <1>1. /\ pc[w] = "insertRow" /\ "createEvent" \in Unsettled
        /\ pc[w] \notin Unsettled
        /\ \/ FailInBlock(w)
           \/ /\ db.row[s] = NoRow
              /\ Write(w, [db EXCEPT !.row[s] = NewRow(w)], "createEvent")
    BY DEF InsertRow, Unsettled
  <1>2. s \in Strategy
    BY <1>1, AtWork, CallFields DEF Fits, OperationsOf
  <1>3. db.row = disk.row
    BY <1>1 DEF TableInv, Settled
  <1>4. NewRow(w).stage = "RESEARCH"
    BY DEF NewRow
  <1>5. ASSUME FailInBlock(w) PROVE TableInv'
    <2>1. pc'[w] = "reply" /\ KeepsRows(w)
      BY <1>5 DEF FailInBlock, Answer, TypeInv, LocalInv, KeepsRows
    <2> QED
      BY <2>1, KeptTable DEF Unsettled
  <1>6. ASSUME db.row[s] = NoRow,
               Write(w, [db EXCEPT !.row[s] = NewRow(w)], "createEvent")
        PROVE  TableInv'
    BY <1>1, <1>2, <1>3, <1>4, <1>6, RowTable
  <1> QED
    BY <1>1, <1>5, <1>6

\* Where the other steps go, and that they leave the rows alone.
LEMMA AnswerTable ==
    ASSUME Solitary, TypeInv, TableInv, NEW w \in Worker, NEW value,
           Answer(w, value),
           UNCHANGED data \/ CommitConnection(w) \/ RollbackConnection(w)
    PROVE  TableInv'
  <1>1. pc'[w] = "reply" /\ KeepsRows(w)
    BY DEF Answer, TypeInv, LocalInv, KeepsRows
  <1> QED
    BY <1>1, KeptTable DEF Unsettled

LEMMA GotoTable ==
    ASSUME Solitary, TypeInv, TableInv, NEW w \in Worker, NEW step, NEW next,
           Goto(w, step) \/ Moving(w, next, step), step # "update",
           \/ CommitConnection(w)
           \/ UNCHANGED data /\ (pc[w] \notin Unsettled \/ step \in Unsettled)
    PROVE  TableInv'
  <1>1. pc'[w] = step /\ KeepsRows(w)
    BY DEF Goto, Moving, TypeInv, LocalInv, KeepsRows
  <1> QED
    BY <1>1, KeptTable

LEMMA WriteTable ==
    ASSUME Solitary, TypeInv, TableInv, NEW w \in Worker, NEW D, NEW step,
           \/ Write(w, D, step) /\ step \in Unsettled
           \/ WriteAndCommit(w, D, step),
           D.row = db.row
    PROVE  TableInv'
  <1>1. pc'[w] \in Unsettled /\ pc'[w] # "update" /\ KeepsRows(w)
    BY DEF Write, WriteAndCommit, Goto, TypeInv, LocalInv, KeepsRows, Unsettled
  <1> QED
    BY <1>1, KeptTable

LEMMA FailTable ==
    ASSUME Solitary, TypeInv, TableInv, NEW w \in Worker, Fail(w) \/ FailInBlock(w)
    PROVE  TableInv'
  BY AnswerTable DEF Fail, FailInBlock

LEMMA RecordingTable ==
    ASSUME Solitary, TypeInv, TableInv, NEW w \in Worker,
           AppendEvent(w) \/ CreateEvent(w) \/ Save(w) \/ Insert(w)
    PROVE  TableInv'
  <1>1. db \in Database
    BY DEF TypeInv, DataInv
  <1>2. ASSUME NEW s, NEW e, NEW step,
               \/ Write(w, Log(db, s, e), step) /\ step \in Unsettled
               \/ WriteAndCommit(w, Log(db, s, e), step)
        PROVE  TableInv'
    <2>1. Log(db, s, e).row = db.row
      BY <1>1 DEF Log, Database
    <2> QED
      BY <1>2, <2>1, WriteTable
  <1>3. ASSUME NEW x, WriteAndCommit(w, [db EXCEPT !.admissions = x], "done")
        PROVE  TableInv'
    <2>1. [db EXCEPT !.admissions = x].row = db.row
      BY <1>1 DEF Database
    <2> QED
      BY <1>3, <2>1, WriteTable
  <1>4. CASE AppendEvent(w)
    BY <1>2, <1>4, FailTable DEF AppendEvent, Unsettled
  <1>5. CASE CreateEvent(w)
    BY <1>2, <1>5, FailTable DEF CreateEvent
  <1>6. CASE Save(w)
    BY <1>6, GotoTable, AnswerTable DEF Save, Unsettled
  <1>7. CASE Insert(w)
    BY <1>3, <1>7, FailTable DEF Insert
  <1> QED
    BY <1>4, <1>5, <1>6, <1>7

LEMMA AfterSyncTable ==
    ASSUME Solitary, TypeInv, TableInv, NEW w \in Worker, AfterSync(w),
           \/ CommitConnection(w)
           \/ UNCHANGED data /\ pc[w] \notin Unsettled
    PROVE  TableInv'
  BY AnswerTable, GotoTable DEF AfterSync

LEMMA CommitTable ==
    ASSUME Solitary, TypeInv, TableInv, NEW w \in Worker, Commit(w)
    PROVE  TableInv'
  <1>1. /\ pc[w] = "commit" /\ CommitConnection(w) /\ Resume(w, resume[w])
        /\ resume[w] \in AfterCommit
        /\ resume[w] = "moved" => call[w].op \in {"sync", "replace", "assess"}
    BY DEF Commit, TypeInv, LocalInv, StepInv, Fits, OperationsOf
  <1>2. CASE resume[w] = "done"
    BY <1>1, <1>2, AnswerTable DEF Resume
  <1>3. CASE resume[w] = "moved"
    <2> DEFINE next == MoveTo(move[w].strategy, "VALIDATED", "PROMOTED",
                              call[w].prefix)
    <2>1. \/ Goto(w, "control") \/ Goto(w, "cycle")
          \/ Moving(w, next, "check") \/ AfterSync(w)
      BY <1>1, <1>3 DEF Resume, AfterMove
    <2> QED
      BY <1>1, <2>1, GotoTable, AfterSyncTable
  <1>4. CASE resume[w] \in {"load", "check", "provenance", "request"}
    <2>1. Goto(w, resume[w])
      BY <1>1, <1>4 DEF Resume
    <2> QED
      BY <1>1, <1>4, <2>1, GotoTable
  <1> QED
    BY <1>1, <1>2, <1>3, <1>4 DEF AfterCommit

LEMMA ReadTable ==
    ASSUME Solitary, TypeInv, TableInv, NEW w \in Worker,
           \/ Load(w) \/ Create(w)
           \/ Preflight(w) \/ Present(w) \/ Lookup(w) \/ Existing(w)
           \/ Health(w) \/ Restore(w) \/ SaveRequest(w) \/ Control(w)
           \/ Provenance(w) \/ Verify(w) \/ Source(w) \/ SaveCycle(w)
    PROVE  TableInv'
  <1>1. UNCHANGED data /\ pc[w] \notin Unsettled
    BY DEF Load, Create, Preflight, Present, Lookup, Existing, Health, Restore,
           SaveRequest, Control, Provenance, Verify, Source, SaveCycle, Unsettled
  <1>2. CASE Load(w)
    <2> DEFINE s == call[w].candidate
               first == MoveTo(s, "RESEARCH",
                          IF call[w].verdict.passed THEN "VALIDATED" ELSE "DEGRADED",
                          call[w].prefix)
               second == MoveTo(s, "VALIDATED", "PROMOTED", call[w].prefix)
    <2>1. \/ Goto(w, "create") \/ AfterSync(w)
          \/ Moving(w, first, "check") \/ Moving(w, second, "check")
      BY <1>2 DEF Load
    <2> QED
      BY <1>1, <2>1, GotoTable, AfterSyncTable
  <1>3. CASE Create(w) \/ Health(w)
    <2> DEFINE next == MoveTo(call[w].strategy, "PAPER", "DEGRADED",
                              [cause |-> call[w].request.cause])
    <2>1. \/ Answer(w, "RAISED") \/ Goto(w, "insertRow") \/ Goto(w, "load")
          \/ Goto(w, "request") \/ Moving(w, next, "request")
      BY <1>3 DEF Create, Health
    <2> QED
      BY <1>1, <2>1, GotoTable, AnswerTable
  <1>4. CASE Preflight(w) \/ Present(w) \/ Lookup(w) \/ Existing(w)
    <2> DEFINE next == MoveTo(call[w].strategy, "PROMOTED", "PAPER",
                              [admission |-> call[w].reason])
    <2>1. \/ \E step \in {"present", "lookup", "confirm", "existing"} : Goto(w, step)
          \/ \E value \in Result : Answer(w, value)
          \/ Moving(w, next, "check")
      BY <1>4 DEF Preflight, Present, Lookup, Existing, Result
    <2> QED
      BY <1>1, <2>1, GotoTable, AnswerTable
  <1>5. CASE \/ Restore(w) \/ SaveRequest(w) \/ Control(w)
             \/ Provenance(w) \/ Verify(w) \/ Source(w) \/ SaveCycle(w)
    <2>1. \/ Answer(w, "RAISED") \/ Answer(w, "DONE")
          \/ \E step \in {"newRequest", "check", "control", "mark", "publish",
                          "source", "load", "record"} : Goto(w, step)
      BY <1>5
      DEF Restore, SaveRequest, Control, Provenance, Verify, Source, SaveCycle,
          Resume, AfterRequest
    <2> QED
      BY <1>1, <2>1, GotoTable, AnswerTable
  <1> QED
    BY <1>2, <1>3, <1>4, <1>5

LEMMA OtherWriteTable ==
    ASSUME Solitary, TypeInv, TableInv, NEW w \in Worker,
           NewRequest(w) \/ Mark(w) \/ Publish(w) \/ RecordCycle(w)
    PROVE  TableInv'
  <1>1. db \in Database
    BY DEF TypeInv, DataInv
  <1>2. ASSUME NEW D, NEW step, WriteAndCommit(w, D, step),
               \E x : \/ D = [db EXCEPT !.requests = x]
                      \/ D = [db EXCEPT !.control = x]
                      \/ D = [db EXCEPT !.feedback = x]
                      \/ D = [db EXCEPT !.cycles = x]
        PROVE  TableInv'
    <2>1. D.row = db.row
      BY <1>1, <1>2 DEF Database
    <2> QED
      BY <1>2, <2>1, WriteTable
  <1>3. CASE NewRequest(w)
    BY <1>2, <1>3, FailTable DEF NewRequest
  <1>4. CASE Mark(w)
    BY <1>2, <1>4 DEF Mark
  <1>5. CASE Publish(w)
    BY <1>2, <1>5, FailTable DEF Publish
  <1>6. CASE RecordCycle(w)
    BY <1>2, <1>6, FailTable DEF RecordCycle
  <1> QED
    BY <1>3, <1>4, <1>5, <1>6

LEMMA BeginEndTable ==
    ASSUME Solitary, TypeInv, TableInv, NEW w \in Worker,
           Start(w) \/ Open(w) \/ Busy(w) \/ Reply(w)
    PROVE  TableInv'
  <1>1. CASE Start(w)
    <2>1. pc'[w] = "open" /\ UNCHANGED data
      BY <1>1 DEF Start, Begin, TypeInv, LocalInv
    <2> QED
      BY <2>1, KeptTable DEF KeepsRows, Unsettled
  <1>2. CASE Open(w)
    <2>1. /\ pc[w] = "open" /\ call[w].op \in Operation
          /\ CommitConnection(w) /\ Goto(w, FirstStep(call[w].op))
      BY <1>2, AtWork, CallFields DEF Open
    <2>2. FirstStep(call[w].op) # "update"
      BY <2>1 DEF FirstStep, Operation
    <2> QED
      BY <2>1, <2>2, GotoTable
  <1>3. CASE Busy(w)
    BY <1>3, FailTable DEF Busy
  <1>4. CASE Reply(w)
    <2>1. pc'[w] = "idle" /\ UNCHANGED data
      BY <1>4 DEF Reply, Forget
    <2> QED
      BY <2>1, KeptTable DEF KeepsRows, Unsettled
  <1> QED
    BY <1>1, <1>2, <1>3, <1>4

LEMMA CrashTable ==
    ASSUME Solitary, TypeInv, TableInv, NEW c \in Connection, Crash(c)
    PROVE  TableInv'
  <1> DEFINE ws == {w \in Worker : ConnectionOf[w] = c}
  <1>1. Forget(ws)
    BY DEF Crash
  <1>2. \/ lock = c /\ db' = disk /\ lock' = NoConnection /\ disk' = disk
        \/ lock # c /\ UNCHANGED data
    BY DEF Crash
  <1>3. CASE \E w \in Worker : ConnectionOf[w] = c
    <2>1. PICK w \in Worker : ConnectionOf[w] = c
      BY <1>3
    <2>2. pc'[w] = "idle" /\ KeepsRows(w)
      BY <1>1, <1>2, <2>1 DEF Forget, KeepsRows, RollbackConnection, Conn
    <2> QED
      BY <2>2, KeptTable DEF Unsettled
  <1>4. CASE ~ \E w \in Worker : ConnectionOf[w] = c
    <2>1. lock = c /\ ws = {}
      BY <1>4 DEF Crash
    <2>2. Worker = {}
      BY <1>4, <2>1, WiringAssumption DEF TableInv, MayWrite, Conn
    <2> QED
      BY <1>2, <2>1, <2>2, FollowsItself DEF TableInv
  <1> QED
    BY <1>3, <1>4

LEMMA TableInit ==
    ASSUME Init
    PROVE  TableInv
  <1>1. \A s \in Strategy : FollowsTable(db, disk, s)
    BY FollowsItself DEF Init
  <1>2. \A w \in Worker : MayWrite(w) /\ Settled(w)
    BY DEF Init, MayWrite, Settled
  <1> QED
    BY <1>1, <1>2 DEF TableInv, Init

LEMMA TableStep ==
    ASSUME Solitary, TypeInv, TableInv, [Next]_vars
    PROVE  TableInv'
  <1>1. CASE Next
    <2>1. ASSUME NEW w \in Worker, Advance(w) PROVE TableInv'
      BY <2>1, CheckTable, UpdateTable, InsertRowTable, RecordingTable,
         CommitTable, ReadTable, OtherWriteTable, BeginEndTable
      DEF Advance
    <2> QED
      BY <1>1, <2>1, BeginEndTable, CrashTable DEF Next
  <1>2. CASE UNCHANGED vars
    BY <1>2 DEF vars, TableInv, MayWrite, Settled, Conn, FollowsTable
  <1> QED
    BY <1>1, <1>2

\* Only a commit changes what is committed.
LEMMA DiskOrDb ==
    ASSUME [Next]_vars
    PROVE  disk' = disk \/ disk' = db
  <1>1. ASSUME NEW w \in Worker, Fail(w) \/ FailInBlock(w)
        PROVE  disk' = disk
    BY <1>1 DEF Fail, FailInBlock, RollbackConnection, data
  <1>2. ASSUME NEW w \in Worker, NEW D, NEW step,
               Write(w, D, step) \/ WriteAndCommit(w, D, step)
        PROVE  disk' = disk
    BY <1>2 DEF Write, WriteAndCommit
  <1>3. ASSUME NEW w \in Worker, Open(w) \/ Commit(w)
        PROVE  disk' = disk \/ disk' = db
    BY <1>3 DEF Open, Commit, CommitConnection, data
  <1>4. ASSUME NEW w \in Worker, Check(w) \/ Save(w) PROVE disk' = disk
    BY <1>1, <1>4 DEF Check, Save, RollbackConnection, data
  <1>5. ASSUME NEW w \in Worker,
               \/ Update(w) \/ AppendEvent(w) \/ InsertRow(w) \/ CreateEvent(w)
               \/ Insert(w) \/ NewRequest(w) \/ Mark(w) \/ Publish(w)
               \/ RecordCycle(w) \/ Busy(w)
        PROVE  disk' = disk
    BY <1>1, <1>2, <1>5
    DEF Update, AppendEvent, InsertRow, CreateEvent, Insert, NewRequest, Mark,
        Publish, RecordCycle, Busy
  <1>6. ASSUME NEW w \in Worker,
               \/ Start(w) \/ Reply(w) \/ Load(w) \/ Create(w)
               \/ Preflight(w) \/ Present(w) \/ Lookup(w) \/ Existing(w)
               \/ Health(w) \/ Restore(w) \/ SaveRequest(w) \/ Control(w)
               \/ Provenance(w) \/ Verify(w) \/ Source(w) \/ SaveCycle(w)
        PROVE  UNCHANGED data
    BY <1>6
    DEF Start, Begin, Reply, Load, Create, Preflight, Present, Lookup, Existing,
        Health, Restore, SaveRequest, Control, Provenance, Verify, Source, SaveCycle
  <1>7. ASSUME NEW c \in Connection, Crash(c) PROVE disk' = disk
    BY <1>7 DEF Crash, data
  <1>8. CASE UNCHANGED vars
    BY <1>8 DEF vars
  <1>9. ASSUME NEW w \in Worker, Start(w) \/ Advance(w)
        PROVE  disk' = disk \/ disk' = db
    <2>1. UNCHANGED data => disk' = disk
      BY DEF data
    <2> QED
      BY <1>3, <1>4, <1>5, <1>6, <1>9, <2>1 DEF Advance
  <1> QED
    BY <1>7, <1>8, <1>9 DEF Next

\* A committed stage changes along the table of transitions only, when one
\* process works at a time: whatever transaction an exception left open, the
\* next operation publishes one legal change at most before it reads.
THEOREM StageAlwaysFollowsTable ==
    ASSUME Solitary
    PROVE  Spec => StageFollowsTable
  <1> DEFINE Follows ==
        \A s \in Strategy :
          \/ disk'.row[s].stage = disk.row[s].stage
          \/ disk.row[s] = NoRow /\ disk'.row[s].stage = "RESEARCH"
          \/ /\ disk.row[s] # NoRow
             /\ disk'.row[s].stage \in Transitions[disk.row[s].stage]
  <1>1. Init => TypeInv /\ TableInv
    BY TypeInit, TableInit
  <1>2. TypeInv /\ TableInv /\ [Next]_vars => (TypeInv /\ TableInv)'
    BY TypeStep, TableStep
  <1>3. TypeInv /\ TableInv /\ [Next]_vars => [Follows]_vars
    BY DiskOrDb DEF TableInv, FollowsTable
  <1> QED
    BY <1>1, <1>2, <1>3, PTL DEF Spec, StageFollowsTable
=============================================================================
