--------------------------- MODULE SandboxExecution ---------------------------
(***************************************************************************)
(* The sandbox execution core: sandbox_execution.py (the adapter),         *)
(* sandbox_execution_journal.py (the event journal) and                    *)
(* live_execution_intent_store.py (the intent store), fed by the policy    *)
(* layers of LiveAuthority.                                                *)
(*                                                                         *)
(* Workers are processes with a connection of their own to one SQLite      *)
(* file.  SQLite reads outside a transaction see the last commit; the      *)
(* first write of a call takes the database's write lock, held until the   *)
(* call commits or rolls back.  So a call reads unlocked, and what it read *)
(* may be stale when its first write is made: a write step therefore works *)
(* on what the worker saw, and the constraints of the tables (PRIMARY KEY, *)
(* the WHERE clause of an UPDATE) decide whether it takes effect.          *)
(*                                                                         *)
(* Abstractions.  An event of the journal is its state: sequence number    *)
(* and hash chain are the event's position in a sequence, timestamp and    *)
(* detail are left out.  The three inputs that can only refuse a call      *)
(* (kill switch, market symbol, intact fingerprints) are one: "clear".     *)
(* The duplicate-fingerprint branch of "record" is dead code here: equal   *)
(* fingerprints have equal intent ids.  A call in LIVE mode returns before *)
(* it touches anything and is left out.                                    *)
(***************************************************************************)
EXTENDS LiveAuthority, Sequences, FiniteSets

CONSTANTS
    Worker,           \* the processes that use the database
    Journaled,        \* the workers whose adapter was built with a journal
    OperatorEvent,    \* states an operator appends by hand
    NoWorker,         \* nobody holds the write lock
    MaxAuthorizations, MaxCertificates, MaxIntents  \* bounds on the inputs

ASSUME WorkersAssumption ==
    /\ Journaled \subseteq Worker
    /\ NoWorker \notin Worker

VARIABLES
    authorizations,   \* granted authorizations
    certificates,     \* issued risk certificates
    intents,          \* order intents built by callers
    disk,             \* the database as last committed
    db,               \* the database as the holder of the write lock sees it
    lock,             \* the worker that holds the write lock, or NoWorker
    pc,               \* the step each worker's call is at
    call,             \* the arguments of that call
    seen,             \* the journal of the call's intent as the worker read it
    result,           \* what the call is going to return
    delivered         \* history: the fills handed to callers, per intent

authority == <<authorizations, certificates, intents>>
data == <<disk, db, lock>>
vars == <<authorizations, certificates, intents, disk, db, lock,
          pc, call, seen, result, delivered>>
-----------------------------------------------------------------------------
State == {"CREATED", "VALIDATED", "ADMITTED", "CONSUMED", "FILLED",
          "REJECTED", "CANCELLED", "EXPIRED"}

\* append takes any state, the outcome of an execution included.
ASSUME OperatorAssumption == OperatorEvent \subseteq State

\* _ALLOWED_TRANSITIONS
Allowed ==
    [s \in State |->
        CASE s = "CREATED"   -> {"VALIDATED", "REJECTED", "CANCELLED", "EXPIRED"}
          [] s = "VALIDATED" -> {"ADMITTED", "REJECTED", "CANCELLED", "EXPIRED"}
          [] s = "ADMITTED"  -> {"CONSUMED", "REJECTED", "CANCELLED", "EXPIRED"}
          [] s = "CONSUMED"  -> {"FILLED", "REJECTED", "EXPIRED"}
          [] OTHER           -> {}]

Terminal == {"FILLED", "REJECTED", "CANCELLED", "EXPIRED"}

LastOf(journal) == journal[Len(journal)]

\* Faulty variant of CanAppend: the transition table is not consulted.
CanAppendAnything(journal, state) == journal = <<>> => state = "CREATED"

\* What append_in_transaction demands of the next event.
CanAppend(journal, state) ==
    IF journal = <<>> THEN state = "CREATED"
                      ELSE state \in Allowed[LastOf(journal)]

NoRecord == [status |-> "ABSENT"]

IntentRecord == [status: {"CREATED", "CONSUMED"}, intent: Intent, updated: Time]

Database == [store: [IntentId -> IntentRecord \cup {NoRecord}],
             journal: [IntentId -> Seq(State)]]

NoCall == [op |-> "none"]

Call ==
    [op: {"record"}, intent: Intent, now: Time]
    \cup [op: {"execute", "consume"}, intent: Intent, certificate: Certificate,
          now: Time, clear: BOOLEAN]
    \cup [op: {"append"}, intent: Intent, event: OperatorEvent]

Step == {"idle", "insert", "open", "judge", "lookup", "reject", "refuse",
         "stage", "validate", "admit", "consume", "settle", "fill", "append",
         "commit", "reply"}

Result == {"none", "RECORDED", "CONSUMED", "APPENDED", "FILLED", "REJECTED",
           "RAISED"}

Fill == [intent: Intent, now: Time]

TypeOK ==
    /\ authorizations \subseteq Authorization
    /\ certificates \subseteq Certificate
    /\ intents \subseteq Intent
    /\ disk \in Database
    /\ db \in Database
    /\ lock \in Worker \cup {NoWorker}
    /\ pc \in [Worker -> Step]
    /\ call \in [Worker -> Call \cup {NoCall}]
    /\ seen \in [Worker -> Seq(State)]
    /\ result \in [Worker -> Result]
    /\ delivered \in [IntentId -> Seq(Fill)]

EmptyDatabase == [store |-> [i \in IntentId |-> NoRecord],
                  journal |-> [i \in IntentId |-> <<>>]]

Init ==
    /\ authorizations = {}
    /\ certificates = {}
    /\ intents = {}
    /\ disk = EmptyDatabase
    /\ db = EmptyDatabase
    /\ lock = NoWorker
    /\ pc = [w \in Worker |-> "idle"]
    /\ call = [w \in Worker |-> NoCall]
    /\ seen = [w \in Worker |-> <<>>]
    /\ result = [w \in Worker |-> "none"]
    /\ delivered = [i \in IntentId |-> <<>>]
-----------------------------------------------------------------------------
(* The policy layers *)

Unused == <<disk, db, lock, pc, call, seen, result, delivered>>

Authorize(strategy, eligible, held, approved, requested) ==
    /\ IsAuthorized(eligible, held, approved, requested)
    /\ authorizations' = authorizations \cup
         {[strategy |-> strategy, approved |-> approved, capital |-> requested]}
    /\ UNCHANGED <<certificates, intents>> /\ UNCHANGED Unused

Issue(authorization, loss, issued, expires, nonce) ==
    /\ MayIssue(authorization, issued, expires)
    /\ certificates' = certificates \cup
         {NewCertificate(authorization, loss, issued, expires, nonce)}
    /\ UNCHANGED <<authorizations, intents>> /\ UNCHANGED Unused

Build(id, certificate, quantity, now) ==
    /\ MayBuild(certificate, quantity, now)
    /\ intents' = intents \cup {NewIntent(id, certificate, quantity, now)}
    /\ UNCHANGED <<authorizations, certificates>> /\ UNCHANGED Unused
-----------------------------------------------------------------------------
(* The database as one worker uses it *)

Id(w) == call[w].intent.id

View(w) == IF lock = w THEN db ELSE disk

MayWrite(w) == lock \in {w, NoWorker}

\* The exit of "with connection" by an exception: roll back, give up the lock.
Rollback(w) ==
    /\ disk' = disk
    /\ IF lock = w THEN db' = disk /\ lock' = NoWorker
                   ELSE UNCHANGED <<db, lock>>

Raise(w) ==
    /\ Rollback(w)
    /\ pc' = [pc EXCEPT ![w] = "reply"]
    /\ result' = [result EXCEPT ![w] = "RAISED"]
    /\ UNCHANGED <<call, seen, delivered>>

Goto(w, step) ==
    /\ pc' = [pc EXCEPT ![w] = step]
    /\ UNCHANGED <<disk, db, lock, call, seen, result, delivered>>

\* Leave the "with" block normally with the value the call returns.
Finish(w, value) ==
    /\ pc' = [pc EXCEPT ![w] = "commit"]
    /\ result' = [result EXCEPT ![w] = value]
    /\ UNCHANGED <<disk, db, lock, call, seen, delivered>>

\* journal.latest(...) followed by a jump.
ReadJournal(w, step) ==
    /\ seen' = [seen EXCEPT ![w] = View(w).journal[Id(w)]]
    /\ pc' = [pc EXCEPT ![w] = step]
    /\ UNCHANGED <<disk, db, lock, call, result, delivered>>

\* Faulty variant of AppendEvent: the journal has no primary key.
AppendEventUnkeyed(w, state, step, value) ==
    \/ ~CanAppend(seen[w], state) /\ Raise(w)
    \/ /\ CanAppend(seen[w], state)
       /\ MayWrite(w)
       /\ lock' = w
       /\ db' = [db EXCEPT !.journal[Id(w)] = Append(@, state)]
       /\ seen' = [seen EXCEPT ![w] = Append(@, state)]
       /\ pc' = [pc EXCEPT ![w] = step]
       /\ result' = [result EXCEPT ![w] = value]
       /\ UNCHANGED <<disk, call, delivered>>

\* Faulty variant of AppendEvent: each event is committed on its own, as if the
\* adapter called append instead of append_in_transaction.
AppendEventCommitting(w, state, step, value) ==
    \/ ~CanAppend(seen[w], state) /\ Raise(w)
    \/ /\ CanAppend(seen[w], state)
       /\ MayWrite(w)
       /\ Len(db.journal[Id(w)]) = Len(seen[w])
       /\ db' = [db EXCEPT !.journal[Id(w)] = Append(@, state)]
       /\ disk' = db'
       /\ lock' = NoWorker
       /\ seen' = [seen EXCEPT ![w] = Append(@, state)]
       /\ pc' = [pc EXCEPT ![w] = step]
       /\ result' = [result EXCEPT ![w] = value]
       /\ UNCHANGED <<call, delivered>>

\* append_in_transaction: the event must be allowed after the last event the
\* worker saw, and its (intent_id, sequence) must still be free when inserted.
AppendEvent(w, state, step, value) ==
    \/ /\ ~CanAppend(seen[w], state)
       /\ Raise(w)
    \/ /\ CanAppend(seen[w], state)
       /\ MayWrite(w)
       /\ Len(db.journal[Id(w)]) # Len(seen[w])
       /\ Raise(w)
    \/ /\ CanAppend(seen[w], state)
       /\ MayWrite(w)
       /\ Len(db.journal[Id(w)]) = Len(seen[w])
       /\ lock' = w
       /\ db' = [db EXCEPT !.journal[Id(w)] = Append(@, state)]
       /\ seen' = [seen EXCEPT ![w] = Append(@, state)]
       /\ pc' = [pc EXCEPT ![w] = step]
       /\ result' = [result EXCEPT ![w] = value]
       /\ UNCHANGED <<disk, call, delivered>>
-----------------------------------------------------------------------------
(* LiveExecutionIntentStore *)

Begin(w, arguments, step) ==
    /\ pc[w] = "idle"
    /\ call' = [call EXCEPT ![w] = arguments]
    /\ pc' = [pc EXCEPT ![w] = step]
    /\ UNCHANGED <<disk, db, lock, delivered>>

\* record: an existing record is returned when it is the candidate itself,
\* its status and updated_at included; any other existing record raises.
Record(w, intent, now) ==
    LET existing == disk.store[intent.id]
        candidate == [status |-> "CREATED", intent |-> intent, updated |-> now]
        absent == existing = NoRecord
    IN  /\ Begin(w, [op |-> "record", intent |-> intent, now |-> now],
                 IF absent THEN "insert" ELSE "reply")
        /\ result' = [result EXCEPT ![w] =
                        IF absent THEN "none"
                        ELSE IF existing = candidate THEN "RECORDED"
                        ELSE "RAISED"]
        /\ UNCHANGED seen

\* Faulty variant of Insert: INSERT OR REPLACE.
InsertOrReplace(w) ==
    /\ pc[w] = "insert"
    /\ MayWrite(w)
    /\ lock' = w
    /\ db' = [db EXCEPT !.store[Id(w)] =
                [status |-> "CREATED", intent |-> call[w].intent,
                 updated |-> call[w].now]]
    /\ pc' = [pc EXCEPT ![w] = "commit"]
    /\ result' = [result EXCEPT ![w] = "RECORDED"]
    /\ UNCHANGED <<disk, call, seen, delivered>>

\* The INSERT of record, in a transaction of its own.
Insert(w) ==
    /\ pc[w] = "insert"
    /\ MayWrite(w)
    /\ \/ /\ db.store[Id(w)] # NoRecord
          /\ Raise(w)
       \/ /\ db.store[Id(w)] = NoRecord
          /\ lock' = w
          /\ db' = [db EXCEPT !.store[Id(w)] =
                      [status |-> "CREATED", intent |-> call[w].intent,
                       updated |-> call[w].now]]
          /\ pc' = [pc EXCEPT ![w] = "commit"]
          /\ result' = [result EXCEPT ![w] = "RECORDED"]
          /\ UNCHANGED <<disk, call, seen, delivered>>

\* consume: the same steps as for the adapter, in a transaction of its own.
Consume(w, intent, certificate, now, clear) ==
    /\ Begin(w, [op |-> "consume", intent |-> intent, now |-> now,
                 certificate |-> certificate, clear |-> clear], "consume")
    /\ UNCHANGED <<seen, result>>

\* validate_live_risk_certificate on the arguments of the call.
Admissible(c) ==
    /\ c.clear
    /\ IsValidCertificate(c.certificate, c.intent.certificate.strategy, c.now,
                          c.intent.quantity)

\* Faulty variant of Consumable: the status is not compared.
ConsumableAgain(record, c) ==
    /\ Admissible(c)
    /\ c.certificate = c.intent.certificate
    /\ record # NoRecord
    /\ record.intent = c.intent

\* consume_in_transaction: the checks, in any order since each one raises,
\* and the compare-and-set UPDATE, whose WHERE clause repeats the last two.
Consumable(record, c) ==
    /\ Admissible(c)
    /\ c.certificate = c.intent.certificate
    /\ record # NoRecord
    /\ record.intent = c.intent
    /\ record.status = "CREATED"

\* Faulty variant of ConsumedRecord: a status the table does not know.
ConsumedRecordFilled(c) ==
    [status |-> "FILLED", intent |-> c.intent, updated |-> c.now]

\* The row after the UPDATE.
ConsumedRecord(c) ==
    [status |-> "CONSUMED", intent |-> c.intent, updated |-> c.now]

AfterConsume(w) ==
    IF call[w].op = "execute" /\ w \in Journaled THEN "settle" ELSE "commit"

ConsumeInTransaction(w) ==
    /\ pc[w] = "consume"
    /\ \/ /\ ~Consumable(View(w).store[Id(w)], call[w])
          /\ Raise(w)
       \/ /\ MayWrite(w)
          /\ Consumable(db.store[Id(w)], call[w])
          /\ lock' = w
          /\ db' = [db EXCEPT !.store[Id(w)] = ConsumedRecord(call[w])]
          /\ seen' = [seen EXCEPT ![w] = db.journal[Id(w)]]
          /\ pc' = [pc EXCEPT ![w] = AfterConsume(w)]
          /\ result' = [result EXCEPT ![w] =
                IF call[w].op = "consume" THEN "CONSUMED"
                ELSE IF w \in Journaled THEN "none" ELSE "FILLED"]
          /\ UNCHANGED <<disk, call, delivered>>
-----------------------------------------------------------------------------
(* SandboxExecutionAdapter.execute *)

\* The call reads the journal first; without any event it appends CREATED.
Execute(w, intent, certificate, now, clear) ==
    LET history == disk.journal[intent.id]
    IN  /\ Begin(w, [op |-> "execute", intent |-> intent, now |-> now,
                     certificate |-> certificate, clear |-> clear],
                 IF w \in Journaled /\ history = <<>> THEN "open" ELSE "judge")
        /\ seen' = [seen EXCEPT ![w] =
                      IF w \in Journaled THEN history ELSE <<>>]
        /\ UNCHANGED result

Open(w) ==
    /\ pc[w] = "open"
    /\ AppendEvent(w, "CREATED", "judge", "none")

Judge(w) ==
    /\ pc[w] = "judge"
    /\ Goto(w, IF Admissible(call[w]) THEN "lookup" ELSE "reject")

\* store.get: unknown intents are refused, spent ones answered at once.
Lookup(w) ==
    LET record == View(w).store[Id(w)]
    IN  /\ pc[w] = "lookup"
        /\ \/ record = NoRecord /\ Goto(w, "reject")
           \/ /\ record # NoRecord
              /\ record.status # "CREATED"
              /\ Finish(w, "REJECTED")
           \/ /\ record # NoRecord
              /\ record.status = "CREATED"
              /\ Goto(w, IF w \in Journaled THEN "stage" ELSE "consume")

\* _reject: a journal with an event that is not terminal is closed.
Reject(w) ==
    LET history == View(w).journal[Id(w)]
    IN  /\ pc[w] = "reject"
        /\ IF w \in Journaled /\ history # <<>> /\ LastOf(history) \notin Terminal
           THEN ReadJournal(w, "refuse")
           ELSE Finish(w, "REJECTED")

Refuse(w) ==
    /\ pc[w] = "refuse"
    /\ AppendEvent(w, "REJECTED", "commit", "REJECTED")

Stage(w) ==
    /\ pc[w] = "stage"
    /\ ReadJournal(w, IF LastOf(View(w).journal[Id(w)]) = "CREATED"
                      THEN "validate" ELSE "consume")

Validate(w) ==
    /\ pc[w] = "validate"
    /\ AppendEvent(w, "VALIDATED", "admit", "none")

AdmitStep(w) ==
    /\ pc[w] = "admit"
    /\ AppendEvent(w, "ADMITTED", "consume", "none")

Settle(w) ==
    /\ pc[w] = "settle"
    /\ AppendEvent(w, "CONSUMED", "fill", "none")

FillStep(w) ==
    /\ pc[w] = "fill"
    /\ AppendEvent(w, "FILLED", "commit", "FILLED")
-----------------------------------------------------------------------------
(* SandboxExecutionJournal.append *)

OperatorAppend(w, intent, event) ==
    /\ Begin(w, [op |-> "append", intent |-> intent, event |-> event], "append")
    /\ seen' = [seen EXCEPT ![w] = disk.journal[intent.id]]
    /\ UNCHANGED result

AppendStep(w) ==
    /\ pc[w] = "append"
    /\ AppendEvent(w, call[w].event, "commit", "APPENDED")
-----------------------------------------------------------------------------
(* The end of a call *)

Commit(w) ==
    /\ pc[w] = "commit"
    /\ IF lock = w THEN disk' = db /\ lock' = NoWorker
                   ELSE UNCHANGED <<disk, lock>>
    /\ pc' = [pc EXCEPT ![w] = "reply"]
    /\ UNCHANGED <<db, call, seen, result, delivered>>

\* Faulty variant of Busy: a worker waits for the write lock without a timeout.
NeverBusy(w) == FALSE /\ Raise(w)

\* "database is locked": the write lock is not released within the timeout.
Busy(w) ==
    /\ pc[w] \in {"insert", "open", "refuse", "validate", "consume", "append"}
    /\ ~MayWrite(w)
    /\ Raise(w)

Idle(w) ==
    /\ pc' = [pc EXCEPT ![w] = "idle"]
    /\ call' = [call EXCEPT ![w] = NoCall]
    /\ seen' = [seen EXCEPT ![w] = <<>>]
    /\ result' = [result EXCEPT ![w] = "none"]

Reply(w) ==
    /\ pc[w] = "reply"
    /\ Idle(w)
    /\ delivered' =
         IF result[w] = "FILLED"
         THEN [delivered EXCEPT ![Id(w)] =
                 Append(@, [intent |-> call[w].intent, now |-> call[w].now])]
         ELSE delivered
    /\ UNCHANGED data

\* The process dies and restarts: what was not committed is gone.
Crash(w) ==
    /\ pc[w] # "idle"
    /\ Rollback(w)
    /\ Idle(w)
    /\ UNCHANGED delivered
-----------------------------------------------------------------------------
Grant ==
    \/ /\ Cardinality(authorizations) < MaxAuthorizations
       /\ \E strategy \in Strategy, requested \in Fraction,
             eligible, held, approved \in BOOLEAN :
            Authorize(strategy, eligible, held, approved, requested)
    \/ /\ Cardinality(certificates) < MaxCertificates
       /\ \E authorization \in authorizations, loss \in Loss, nonce \in Nonce,
             issued, expires \in Time :
            Issue(authorization, loss, issued, expires, nonce)
    \/ /\ Cardinality(intents) < MaxIntents
       /\ \E id \in IntentId, certificate \in certificates,
             quantity \in Fraction, now \in Time :
            Build(id, certificate, quantity, now)

Start(w) ==
    \/ \E intent \in intents, now \in Time : Record(w, intent, now)
    \/ \E intent \in intents, certificate \in certificates, now \in Time,
          clear \in BOOLEAN :
            \/ Execute(w, intent, certificate, now, clear)
            \/ Consume(w, intent, certificate, now, clear)
    \/ \E intent \in intents, event \in OperatorEvent :
            OperatorAppend(w, intent, event)

Advance(w) ==
    \/ Insert(w) \/ ConsumeInTransaction(w)
    \/ Open(w) \/ Judge(w) \/ Lookup(w) \/ Reject(w) \/ Refuse(w)
    \/ Stage(w) \/ Validate(w) \/ AdmitStep(w) \/ Settle(w) \/ FillStep(w)
    \/ AppendStep(w) \/ Commit(w) \/ Busy(w) \/ Reply(w)

Next ==
    \/ Grant
    \/ \E w \in Worker :
         (Start(w) \/ Advance(w) \/ Crash(w)) /\ UNCHANGED authority

Spec == Init /\ [][Next]_vars

\* A call that has begun keeps running; callers, operators and crashes owe
\* nothing.
FairSpec == Spec /\ \A w \in Worker : WF_vars(Advance(w) /\ UNCHANGED authority)
=============================================================================
