----------------------- MODULE SandboxExecutionProofs -----------------------
(***************************************************************************)
(* Proofs about the sandbox execution core, for any number of workers,     *)
(* intents, certificates and calls.                                        *)
(***************************************************************************)
EXTENDS SandboxExecutionProps, TLAPS

-----------------------------------------------------------------------------
(* Types *)

ExecuteSteps == {"open", "judge", "lookup", "reject", "refuse", "stage",
                 "validate", "admit", "settle", "fill"}

\* A call at a step of an operation is a call of that operation.
CallMatches(w) ==
    /\ pc[w] # "idle" => call[w] \in Call
    /\ pc[w] = "insert" => call[w].op = "record"
    /\ pc[w] = "append" => call[w].op = "append"
    /\ pc[w] = "consume" => call[w].op \in {"execute", "consume"}
    /\ pc[w] \in ExecuteSteps => call[w].op = "execute"
    /\ result[w] = "FILLED" => pc[w] \in {"commit", "reply"} /\ call[w].op = "execute"

TypeInv == TypeOK /\ \A w \in Worker : CallMatches(w)

\* The fields of a call, whatever its operation.
LEMMA CallFields ==
    ASSUME NEW c \in Call
    PROVE  /\ c.intent \in Intent
           /\ c.intent.id \in IntentId
           /\ c.op \in {"record", "execute", "consume"} => c.now \in Time
           /\ c.op \in {"execute", "consume"} => c.certificate \in Certificate
           /\ c.op = "append" => c.event \in State
BY OperatorAssumption DEF Call, Intent

LEMMA StoreUpdate ==
    ASSUME NEW d \in Database, NEW i \in IntentId, NEW r \in IntentRecord
    PROVE  [d EXCEPT !.store[i] = r] \in Database
BY DEF Database

LEMMA JournalUpdate ==
    ASSUME NEW d \in Database, NEW i \in IntentId, NEW s \in State
    PROVE  [d EXCEPT !.journal[i] = Append(@, s)] \in Database
<1>1. d.journal[i] \in Seq(State)
  BY DEF Database
<1>2. Append(d.journal[i], s) \in Seq(State)
  BY <1>1
<1>. QED
  BY <1>2 DEF Database

\* A write step of the journal raises, or extends the journal with the event.
LEMMA AppendEventCases ==
    ASSUME TypeInv, NEW w \in Worker, pc[w] # "idle", NEW s \in State,
           NEW step, NEW value, AppendEvent(w, s, step, value), ~Raise(w)
    PROVE  /\ MayWrite(w) /\ CanAppend(seen[w], s)
           /\ Len(db.journal[Id(w)]) = Len(seen[w])
           /\ lock' = w
           /\ db' = [db EXCEPT !.journal[Id(w)] = Append(@, s)]
           /\ db' \in Database
           /\ Append(seen[w], s) \in Seq(State)
           /\ seen' = [seen EXCEPT ![w] = Append(seen[w], s)]
           /\ pc' = [pc EXCEPT ![w] = step]
           /\ result' = [result EXCEPT ![w] = value]
           /\ UNCHANGED <<disk, call, delivered>>
<1>1. Id(w) \in IntentId
  BY CallFields DEF TypeInv, CallMatches, Id
<1>2. /\ MayWrite(w) /\ CanAppend(seen[w], s)
      /\ Len(db.journal[Id(w)]) = Len(seen[w])
      /\ lock' = w
      /\ db' = [db EXCEPT !.journal[Id(w)] = Append(@, s)]
      /\ seen' = [seen EXCEPT ![w] = Append(@, s)]
      /\ pc' = [pc EXCEPT ![w] = step]
      /\ result' = [result EXCEPT ![w] = value]
      /\ UNCHANGED <<disk, call, delivered>>
  BY DEF AppendEvent
<1>3. db' \in Database
  BY <1>1, <1>2, JournalUpdate DEF TypeInv, TypeOK
<1>4. Append(seen[w], s) \in Seq(State)
  BY DEF TypeInv, TypeOK
<1>. QED
  BY <1>2, <1>3, <1>4

LEMMA InitTypes == Init => TypeInv
BY DEF Init, TypeInv, TypeOK, CallMatches, EmptyDatabase, Database, Step, Result,
       ExecuteSteps, NoCall

\* The policy layers touch only their own sets.
LEMMA GrantTypes == TypeInv /\ Grant => TypeInv'
<1>. SUFFICES ASSUME TypeInv, Grant PROVE TypeInv'
  OBVIOUS
<1>1. /\ authorizations' \subseteq Authorization
      /\ certificates' \subseteq Certificate
      /\ intents' \subseteq Intent
      /\ UNCHANGED Unused
  <2>1. ASSUME NEW strategy \in Strategy, NEW requested \in Fraction,
               NEW eligible \in BOOLEAN, NEW held \in BOOLEAN,
               NEW approved \in BOOLEAN,
               Authorize(strategy, eligible, held, approved, requested)
        PROVE  <1>1!1 /\ <1>1!2 /\ <1>1!3 /\ <1>1!4
    BY <2>1 DEF Authorize, Authorization, TypeInv, TypeOK
  <2>2. ASSUME NEW authorization \in authorizations, NEW loss \in Loss,
               NEW nonce \in Nonce, NEW issued \in Time, NEW expires \in Time,
               Issue(authorization, loss, issued, expires, nonce)
        PROVE  <1>1!1 /\ <1>1!2 /\ <1>1!3 /\ <1>1!4
    BY <2>2 DEF Issue, NewCertificate, Certificate, Authorization, TypeInv, TypeOK
  <2>3. ASSUME NEW id \in IntentId, NEW certificate \in certificates,
               NEW quantity \in Fraction, NEW now \in Time,
               Build(id, certificate, quantity, now)
        PROVE  <1>1!1 /\ <1>1!2 /\ <1>1!3 /\ <1>1!4
    BY <2>3 DEF Build, NewIntent, Intent, TypeInv, TypeOK
  <2>. QED
    BY <2>1, <2>2, <2>3 DEF Grant
<1>. QED
  BY <1>1 DEF TypeInv, TypeOK, CallMatches, Unused

\* A new call has the shape its first step expects.
LEMMA StartTypes ==
    ASSUME TypeInv, NEW w \in Worker, Start(w), UNCHANGED authority
    PROVE  TypeInv'
<1>. USE DEF TypeInv, TypeOK, CallMatches, Begin, Step, Result, ExecuteSteps, authority
<1>1. ASSUME NEW intent \in intents, NEW now \in Time, Record(w, intent, now)
      PROVE  TypeInv'
  <2>1. [op |-> "record", intent |-> intent, now |-> now] \in Call
    BY DEF Call
  <2>. QED
    BY <1>1, <2>1 DEF Record
<1>2. ASSUME NEW intent \in intents, NEW certificate \in certificates,
             NEW now \in Time, NEW clear \in BOOLEAN
      PROVE  [op |-> "execute", intent |-> intent, now |-> now,
              certificate |-> certificate, clear |-> clear] \in Call
             /\ [op |-> "consume", intent |-> intent, now |-> now,
                 certificate |-> certificate, clear |-> clear] \in Call
  BY DEF Call
<1>3. ASSUME NEW intent \in intents, NEW certificate \in certificates,
             NEW now \in Time, NEW clear \in BOOLEAN,
             Execute(w, intent, certificate, now, clear)
      PROVE  TypeInv'
  <2>. DEFINE arguments == [op |-> "execute", intent |-> intent, now |-> now,
                            certificate |-> certificate, clear |-> clear]
  <2>1. disk.journal[intent.id] \in Seq(State) /\ <<>> \in Seq(State)
    BY DEF Database, Intent
  <2>2. PICK history \in Seq(State) : seen' = [seen EXCEPT ![w] = history]
    BY <1>3, <2>1 DEF Execute
  <2>3. PICK step \in {"open", "judge"} : pc' = [pc EXCEPT ![w] = step]
    BY <1>3 DEF Execute
  <2>4. arguments \in Call /\ arguments.op = "execute"
    BY <1>2
  <2>5. pc[w] = "idle" /\ call' = [call EXCEPT ![w] = arguments]
        /\ UNCHANGED <<disk, db, lock, delivered, result>>
    BY <1>3 DEF Execute
  <2>. HIDE DEF arguments
  <2>. QED
    BY <2>2, <2>3, <2>4, <2>5
<1>4. ASSUME NEW intent \in intents, NEW certificate \in certificates,
             NEW now \in Time, NEW clear \in BOOLEAN,
             Consume(w, intent, certificate, now, clear)
      PROVE  TypeInv'
  BY <1>2, <1>4 DEF Consume
<1>5. ASSUME NEW intent \in intents, NEW event \in OperatorEvent,
             OperatorAppend(w, intent, event)
      PROVE  TypeInv'
  <2>1. [op |-> "append", intent |-> intent, event |-> event] \in Call
    BY DEF Call
  <2>2. disk.journal[intent.id] \in Seq(State)
    BY DEF Database, Intent
  <2>. QED
    BY <1>5, <2>1, <2>2 DEF OperatorAppend
<1>. QED
  BY <1>1, <1>3, <1>4, <1>5 DEF Start

\* The step of a worker that moves its call from one step to the next.
LEMMA MoveTypes ==
    ASSUME TypeInv, NEW w \in Worker, pc[w] # "idle",
           disk' \in Database, db' \in Database, lock' \in Worker \cup {NoWorker},
           UNCHANGED <<authority, call, delivered>>,
           NEW j \in Seq(State), seen' = [seen EXCEPT ![w] = j],
           NEW step \in Step, pc' = [pc EXCEPT ![w] = step],
           NEW value \in Result, result' = [result EXCEPT ![w] = value],
           step \in ExecuteSteps => call[w].op = "execute",
           step = "consume" => call[w].op = "execute",
           step \notin {"insert", "append"},
           value = "FILLED" =>
             call[w].op = "execute" /\ step \in {"commit", "reply"}
    PROVE  TypeInv'
BY DEF TypeInv, TypeOK, CallMatches, authority, Step, ExecuteSteps, Result

LEMMA RaiseTypes ==
    ASSUME TypeInv, NEW w \in Worker, pc[w] # "idle", Raise(w), UNCHANGED authority
    PROVE  TypeInv'
<1>1. /\ disk' \in Database /\ db' \in Database
      /\ lock' \in Worker \cup {NoWorker}
      /\ UNCHANGED <<call, delivered, seen>>
      /\ pc' = [pc EXCEPT ![w] = "reply"] /\ result' = [result EXCEPT ![w] = "RAISED"]
  BY DEF Raise, Rollback, TypeInv, TypeOK
<1>. QED
  BY <1>1 DEF TypeInv, TypeOK, CallMatches, authority, Step, ExecuteSteps, Result

LEMMA JournalStepTypes ==
    ASSUME TypeInv, NEW w \in Worker, pc[w] # "idle", UNCHANGED authority,
           NEW s \in State, NEW step \in Step, NEW value \in Result,
           AppendEvent(w, s, step, value),
           step \in ExecuteSteps \cup {"consume"} => call[w].op = "execute",
           step \notin {"insert", "append"},
           value = "FILLED" => call[w].op = "execute" /\ step \in {"commit", "reply"}
    PROVE  TypeInv'
<1>1. CASE Raise(w)
  BY <1>1, RaiseTypes
<1>2. CASE ~Raise(w)
  <2>1. /\ disk' \in Database /\ db' \in Database
        /\ lock' \in Worker \cup {NoWorker}
        /\ UNCHANGED <<authority, call, delivered>>
        /\ Append(seen[w], s) \in Seq(State)
        /\ seen' = [seen EXCEPT ![w] = Append(seen[w], s)]
        /\ pc' = [pc EXCEPT ![w] = step]
        /\ result' = [result EXCEPT ![w] = value]
    BY <1>2, AppendEventCases DEF TypeInv, TypeOK
  <2>. QED
    BY <2>1, MoveTypes
<1>. QED
  BY <1>1, <1>2

\* The three ways a step only moves on: jump, jump after a read, finish.
LEMMA GotoTypes ==
    ASSUME TypeInv, NEW w \in Worker, pc[w] \in ExecuteSteps, UNCHANGED authority,
           NEW step \in ExecuteSteps \cup {"consume"},
           Goto(w, step) \/ ReadJournal(w, step) \/ Finish(w, "REJECTED")
    PROVE  TypeInv'
<1>1. /\ call[w] \in Call /\ Id(w) \in IntentId /\ call[w].op = "execute"
      /\ result[w] # "FILLED" /\ pc[w] # "idle"
  BY CallFields DEF TypeInv, CallMatches, Id, ExecuteSteps
<1>2. step \in Step /\ step \notin {"insert", "append", "commit", "reply", "idle"}
  BY DEF Step, ExecuteSteps
<1>3. View(w).journal[Id(w)] \in Seq(State)
  BY <1>1 DEF View, Database, TypeInv, TypeOK
<1>4. CASE Goto(w, step)
  <2>1. /\ seen' = [seen EXCEPT ![w] = seen[w]] /\ seen[w] \in Seq(State)
        /\ result' = [result EXCEPT ![w] = result[w]] /\ result[w] \in Result
    BY <1>4 DEF Goto, TypeInv, TypeOK
  <2>. QED
    BY <1>1, <1>2, <1>4, <2>1, MoveTypes DEF Goto, TypeInv, TypeOK
<1>5. CASE ReadJournal(w, step)
  <2>1. result' = [result EXCEPT ![w] = result[w]] /\ result[w] \in Result
    BY <1>5 DEF ReadJournal, TypeInv, TypeOK
  <2>. QED
    BY <1>1, <1>2, <1>3, <1>5, <2>1, MoveTypes DEF ReadJournal, TypeInv, TypeOK
<1>6. CASE Finish(w, "REJECTED")
  <2>1. seen' = [seen EXCEPT ![w] = seen[w]] /\ seen[w] \in Seq(State)
    BY <1>6 DEF Finish, TypeInv, TypeOK
  <2>. QED
    BY <1>1, <1>6, <2>1, MoveTypes
       DEF Finish, TypeInv, TypeOK, Step, ExecuteSteps, Result
<1>. QED
  BY <1>4, <1>5, <1>6

\* Only a worker with a call under way advances.
LEMMA AdvanceIsBusy ==
    ASSUME NEW w \in Worker, Advance(w)
    PROVE  pc[w] # "idle"
<1>1. Insert(w) \/ ConsumeInTransaction(w) \/ Busy(w) \/ Commit(w) \/ Reply(w)
      => pc[w] # "idle"
  BY DEF Insert, ConsumeInTransaction, Busy, Commit, Reply
<1>2. Judge(w) \/ Lookup(w) \/ Reject(w) \/ Stage(w) => pc[w] # "idle"
  BY DEF Judge, Lookup, Reject, Stage
<1>3. Open(w) \/ Refuse(w) \/ Validate(w) \/ AdmitStep(w) \/ Settle(w)
      \/ FillStep(w) \/ AppendStep(w) => pc[w] # "idle"
  BY DEF Open, Refuse, Validate, AdmitStep, Settle, FillStep, AppendStep
<1>. QED
  BY <1>1, <1>2, <1>3 DEF Advance

LEMMA AdvanceTypes ==
    ASSUME TypeInv, NEW w \in Worker, Advance(w), UNCHANGED authority
    PROVE  TypeInv'
<1>1. pc[w] # "idle"
  BY AdvanceIsBusy
<1>. USE <1>1
<1>2. call[w] \in Call /\ Id(w) \in IntentId
  BY CallFields DEF TypeInv, CallMatches, Id
<1>3. View(w).journal[Id(w)] \in Seq(State)
  BY <1>2 DEF View, Database, TypeInv, TypeOK
<1>4. CASE Insert(w)
  <2>1. CASE Raise(w)
    BY <2>1, RaiseTypes
  <2>2. CASE ~Raise(w)
    <3>. DEFINE row == [status |-> "CREATED", intent |-> call[w].intent,
                        updated |-> call[w].now]
    <3>1. row \in IntentRecord
      BY <1>2, <1>4, CallFields DEF Insert, TypeInv, CallMatches, IntentRecord
    <3>2. /\ lock' = w
          /\ db' = [db EXCEPT !.store[Id(w)] = row]
          /\ pc' = [pc EXCEPT ![w] = "commit"]
          /\ result' = [result EXCEPT ![w] = "RECORDED"]
          /\ UNCHANGED <<disk, call, seen, delivered>>
      BY <1>4, <2>2 DEF Insert
    <3>. HIDE DEF row
    <3>3. db' \in Database
      BY <1>2, <3>1, <3>2, StoreUpdate DEF TypeInv, TypeOK
    <3>. QED
      BY <3>2, <3>3 DEF TypeInv, TypeOK, CallMatches, authority, Step, ExecuteSteps, Result
  <2>. QED
    BY <2>1, <2>2
<1>5. CASE ConsumeInTransaction(w)
  <2>1. CASE Raise(w)
    BY <2>1, RaiseTypes
  <2>2. CASE ~Raise(w)
    <3>1. ConsumedRecord(call[w]) \in IntentRecord
      BY <1>2, <1>5, CallFields
         DEF ConsumeInTransaction, TypeInv, CallMatches, ConsumedRecord, IntentRecord
    <3>2. /\ pc[w] = "consume"
          /\ lock' = w
          /\ db' = [db EXCEPT !.store[Id(w)] = ConsumedRecord(call[w])]
          /\ seen' = [seen EXCEPT ![w] = db.journal[Id(w)]]
          /\ pc' = [pc EXCEPT ![w] = AfterConsume(w)]
          /\ result' = [result EXCEPT ![w] =
                IF call[w].op = "consume" THEN "CONSUMED"
                ELSE IF w \in Journaled THEN "none" ELSE "FILLED"]
          /\ UNCHANGED <<disk, call, delivered>>
      BY <1>5, <2>2 DEF ConsumeInTransaction
    <3>3. db' \in Database /\ db.journal[Id(w)] \in Seq(State)
      BY <1>2, <3>1, <3>2, StoreUpdate DEF TypeInv, TypeOK, Database
    <3>4. call[w].op \in {"execute", "consume"}
      BY <3>2 DEF TypeInv, CallMatches
    <3>5. AfterConsume(w) = IF call[w].op = "execute" /\ w \in Journaled
                            THEN "settle" ELSE "commit"
      BY DEF AfterConsume
    <3>6. CASE call[w].op = "execute" /\ w \in Journaled
      BY <3>2, <3>3, <3>4, <3>5, <3>6, MoveTypes
         DEF TypeInv, TypeOK, Step, ExecuteSteps, Result
    <3>7. CASE call[w].op = "execute" /\ w \notin Journaled
      BY <3>2, <3>3, <3>4, <3>5, <3>7, MoveTypes
         DEF TypeInv, TypeOK, Step, ExecuteSteps, Result
    <3>8. CASE call[w].op = "consume"
      BY <3>2, <3>3, <3>4, <3>5, <3>8, MoveTypes
         DEF TypeInv, TypeOK, Step, ExecuteSteps, Result
    <3>. QED
      BY <3>4, <3>6, <3>7, <3>8
  <2>. QED
    BY <2>1, <2>2
<1>6. CASE Judge(w)
  <2>1. PICK step \in {"lookup", "reject"} : Goto(w, step)
    BY <1>6 DEF Judge
  <2>. QED
    BY <1>6, <2>1, GotoTypes DEF Judge, ExecuteSteps
<1>7. CASE Lookup(w)
  <2>1. Finish(w, "REJECTED") \/ \E step \in {"reject", "stage", "consume"} : Goto(w, step)
    BY <1>7 DEF Lookup
  <2>2. pc[w] \in ExecuteSteps
    BY <1>7 DEF Lookup, ExecuteSteps
  <2>. QED
    BY <2>1, <2>2, GotoTypes DEF ExecuteSteps
<1>8. CASE Reject(w)
  BY <1>8, GotoTypes DEF Reject, ExecuteSteps
<1>9. CASE Stage(w)
  BY <1>9, GotoTypes DEF Stage, ExecuteSteps
<1>10. CASE Open(w)
  BY <1>10, JournalStepTypes DEF Open, State, Step, Result, TypeInv, CallMatches, ExecuteSteps
<1>11. CASE Refuse(w)
  BY <1>11, JournalStepTypes DEF Refuse, State, Step, Result, ExecuteSteps
<1>12. CASE Validate(w)
  BY <1>12, JournalStepTypes DEF Validate, State, Step, Result, TypeInv, CallMatches, ExecuteSteps
<1>13. CASE AdmitStep(w)
  BY <1>13, JournalStepTypes DEF AdmitStep, State, Step, Result, TypeInv, CallMatches, ExecuteSteps
<1>14. CASE Settle(w)
  BY <1>14, JournalStepTypes DEF Settle, State, Step, Result, TypeInv, CallMatches, ExecuteSteps
<1>15. CASE FillStep(w)
  BY <1>15, JournalStepTypes DEF FillStep, State, Step, Result, TypeInv, CallMatches, ExecuteSteps
<1>16. CASE AppendStep(w)
  <2>1. call[w].event \in State
    BY <1>2, <1>16, CallFields DEF AppendStep, TypeInv, CallMatches
  <2>. QED
    BY <1>16, <2>1, JournalStepTypes DEF AppendStep, Step, Result, ExecuteSteps
<1>17. CASE Commit(w)
  BY <1>17 DEF Commit, TypeInv, TypeOK, CallMatches, authority, Step,
               ExecuteSteps, Result
<1>18. CASE Busy(w)
  BY <1>18, RaiseTypes DEF Busy
<1>19. CASE Reply(w)
  <2>1. call[w].op = "execute" => [intent |-> call[w].intent, now |-> call[w].now] \in Fill
    BY <1>2, CallFields DEF Fill
  <2>2. delivered' \in [IntentId -> Seq(Fill)]
    <3>1. CASE result[w] = "FILLED"
      <4>. DEFINE fill == [intent |-> call[w].intent, now |-> call[w].now]
      <4>1. fill \in Fill
        BY <2>1, <3>1 DEF TypeInv, CallMatches
      <4>2. delivered' = [delivered EXCEPT ![Id(w)] = Append(@, fill)]
        BY <1>19, <3>1 DEF Reply
      <4>. HIDE DEF fill
      <4>3. Append(delivered[Id(w)], fill) \in Seq(Fill)
        BY <1>2, <4>1 DEF TypeInv, TypeOK
      <4>. QED
        BY <1>2, <4>2, <4>3 DEF TypeInv, TypeOK
    <3>2. CASE result[w] # "FILLED"
      BY <1>19, <3>2 DEF Reply, TypeInv, TypeOK
    <3>. QED
      BY <3>1, <3>2
  <2>. QED
    BY <1>19, <2>2 DEF Reply, Idle, data, TypeInv, TypeOK, CallMatches, authority,
                       Step, ExecuteSteps, Result
<1>. QED
  BY <1>4, <1>5, <1>6, <1>7, <1>8, <1>9, <1>10, <1>11, <1>12, <1>13, <1>14,
     <1>15, <1>16, <1>17, <1>18, <1>19 DEF Advance

LEMMA CrashTypes ==
    ASSUME TypeInv, NEW w \in Worker, Crash(w), UNCHANGED authority
    PROVE  TypeInv'
BY DEF Crash, Rollback, Idle, TypeInv, TypeOK, CallMatches, authority, Step,
       ExecuteSteps, Result

\* Every reachable state is well typed, and a worker's call always has the
\* arguments its current step reads (code: no step of execute, record, consume
\* or append runs on another operation's arguments).
THEOREM Typing == Spec => []TypeOK
<1>1. Init => TypeInv
  BY InitTypes
<1>2. TypeInv /\ [Next]_vars => TypeInv'
  <2>1. CASE UNCHANGED vars
    BY <2>1 DEF vars, TypeInv, TypeOK, CallMatches
  <2>2. TypeInv /\ Next => TypeInv'
    BY GrantTypes, StartTypes, AdvanceTypes, CrashTypes DEF Next
  <2>. QED
    BY <2>1, <2>2
<1>3. TypeInv => TypeOK
  BY DEF TypeInv
<1>. QED
  BY <1>1, <1>2, <1>3, PTL DEF Spec
-----------------------------------------------------------------------------
(* One fill per intent *)

\* Steps at which the write lock can be held before the intent is consumed.
EarlySteps == {"judge", "lookup", "reject", "refuse", "stage", "validate",
               "admit", "consume"}

\* The call has consumed its intent and is on its way to a fill.
InFlight(w) ==
    \/ pc[w] \in {"settle", "fill"}
    \/ pc[w] = "commit" /\ result[w] = "FILLED"

\* The call has committed a fill its caller has not received.
Pending(w) == pc[w] = "reply" /\ result[w] = "FILLED"

\* Whoever holds the lock is inside a transaction; without one, the pending
\* state is the committed state.
LockInv ==
    /\ lock = NoWorker => db = disk
    /\ \A w \in Worker :
         lock = w => pc[w] \in EarlySteps \cup {"settle", "fill", "commit"}

\* The two ways a call changes the record of its intent.
RecordStep(before, after) ==
    \/ before = NoRecord /\ after.status = "CREATED"
    \/ /\ before # NoRecord
       /\ before.status = "CREATED"
       /\ after.status = "CONSUMED"
       /\ after.intent = before.intent

\* The store of the transaction is the committed one, but for one such step on
\* the record of the call once the call is past its early steps.
StoreInv ==
    \A w \in Worker : lock = w =>
        \/ db.store = disk.store
        \/ /\ pc[w] \notin EarlySteps
           /\ \E record \in IntentRecord :
                /\ RecordStep(disk.store[Id(w)], record)
                /\ db.store = [disk.store EXCEPT ![Id(w)] = record]

\* A fill in the making holds the lock on an intent the disk still shows as
\* CREATED; no two calls can be there for the same intent.
FlightInv ==
    \A w \in Worker : InFlight(w) =>
        /\ lock = w
        /\ call[w].op = "execute"
        /\ disk.store[Id(w)] # NoRecord
        /\ disk.store[Id(w)].status = "CREATED"
        /\ db.store[Id(w)] = ConsumedRecord(call[w])

\* A committed fill is durable, not yet handed over, and the only one.
PendingInv ==
    \A w \in Worker : Pending(w) =>
        /\ Spent(disk, Id(w))
        /\ disk.store[Id(w)].intent = call[w].intent
        /\ delivered[Id(w)] = <<>>
        /\ \A v \in Worker : Pending(v) /\ v # w => Id(v) # Id(w)

DeliveredInv ==
    \A i \in IntentId : delivered[i] # <<>> =>
        /\ Len(delivered[i]) = 1
        /\ Spent(disk, i)
        /\ disk.store[i].intent = delivered[i][1].intent

OnceInv ==
    TypeInv /\ LockInv /\ StoreInv /\ FlightInv /\ PendingInv /\ DeliveredInv
\* A step of one worker leaves the calls of the others alone.
OthersKeep(w) ==
    \A v \in Worker : v # w =>
        pc'[v] = pc[v] /\ call'[v] = call[v] /\ result'[v] = result[v]

\* A record that is spent is not changed by a record step of anybody.
LEMMA SpentStays ==
    ASSUME TypeInv, NEW i \in IntentId, NEW j \in IntentId, NEW record,
           RecordStep(disk.store[j], record), Spent(disk, i)
    PROVE  i # j
BY DEF RecordStep, Spent

\* A step of w outside the database, while w is in no transaction or in its
\* early steps, and no fill is in the making.
LEMMA QuietStep ==
    ASSUME OnceInv, TypeInv', NEW w \in Worker, OthersKeep(w),
           UNCHANGED <<disk, db, lock, delivered>>,
           lock = w => /\ pc[w] \in EarlySteps
                       /\ pc'[w] \in EarlySteps \cup {"commit"}
                       /\ call'[w] = call[w],
           ~InFlight(w)', ~Pending(w)'
    PROVE  OnceInv'
<1>1. LockInv'
  BY DEF OnceInv, LockInv, OthersKeep
<1>2. StoreInv'
  BY DEF OnceInv, StoreInv, OthersKeep, Id
<1>3. FlightInv'
  BY DEF OnceInv, FlightInv, InFlight, OthersKeep, Id, ConsumedRecord
<1>4. PendingInv'
  BY DEF OnceInv, PendingInv, Pending, OthersKeep, Id, Spent
<1>5. DeliveredInv'
  BY DEF OnceInv, DeliveredInv, Spent
<1>. QED
  BY <1>1, <1>2, <1>3, <1>4, <1>5 DEF OnceInv

\* A step of w that ends its transaction by a rollback.
LEMMA RollbackStep ==
    ASSUME OnceInv, TypeInv', NEW w \in Worker, OthersKeep(w), Rollback(w),
           UNCHANGED delivered, pc'[w] \in {"idle", "reply"},
           result'[w] # "FILLED"
    PROVE  OnceInv'
<1>0. ~InFlight(w)' /\ ~Pending(w)' /\ NoWorker \notin Worker
  BY WorkersAssumption DEF InFlight, Pending
<1>1. LockInv'
  BY <1>0 DEF OnceInv, LockInv, OthersKeep, Rollback
<1>2. StoreInv'
  BY <1>0 DEF OnceInv, StoreInv, OthersKeep, Id, Rollback
<1>3. FlightInv'
  BY <1>0 DEF OnceInv, FlightInv, InFlight, OthersKeep, Id, ConsumedRecord, Rollback
<1>4. PendingInv'
  BY <1>0 DEF OnceInv, PendingInv, Pending, OthersKeep, Id, Spent, Rollback
<1>5. DeliveredInv'
  BY DEF OnceInv, DeliveredInv, Spent, Rollback
<1>. QED
  BY <1>1, <1>2, <1>3, <1>4, <1>5 DEF OnceInv

\* A step of w that writes to the journal only.
LEMMA JournalStep ==
    ASSUME OnceInv, TypeInv', NEW w \in Worker, OthersKeep(w), MayWrite(w),
           disk' = disk, db'.store = db.store, lock' = w,
           UNCHANGED <<call, delivered>>,
           pc[w] \in EarlySteps \cup {"open", "append", "settle", "fill"},
           pc'[w] \in EarlySteps \cup {"fill", "commit"},
           pc[w] \in {"settle", "fill"} => pc'[w] \in {"fill", "commit"},
           InFlight(w)' => InFlight(w)
    PROVE  OnceInv'
<1>0. ~Pending(w)' /\ NoWorker \notin Worker
  BY WorkersAssumption DEF Pending, EarlySteps
<1>1. LockInv'
  BY <1>0 DEF OnceInv, LockInv
<1>2. StoreInv'
  <2>1. lock = NoWorker => db.store = disk.store
    BY DEF OnceInv, LockInv
  <2>2. pc[w] \in {"open", "append"} => lock # w
    BY DEF OnceInv, LockInv, EarlySteps
  <2>3. pc'[w] \in EarlySteps /\ lock = w => db.store = disk.store
    BY <2>2 DEF OnceInv, StoreInv, EarlySteps
  <2>. QED
    BY <1>0, <2>1, <2>2, <2>3 DEF OnceInv, StoreInv, MayWrite, Id, EarlySteps
<1>3. FlightInv'
  BY <1>0 DEF OnceInv, FlightInv, InFlight, OthersKeep, Id, ConsumedRecord, MayWrite
<1>4. PendingInv'
  BY <1>0 DEF OnceInv, PendingInv, Pending, OthersKeep, Id, Spent
<1>5. DeliveredInv'
  BY DEF OnceInv, DeliveredInv, Spent
<1>. QED
  BY <1>1, <1>2, <1>3, <1>4, <1>5 DEF OnceInv

\* A step of w that changes the record of its intent: an INSERT, or the
\* compare-and-set UPDATE.
LEMMA StoreStep ==
    ASSUME OnceInv, TypeInv', NEW w \in Worker, OthersKeep(w), MayWrite(w),
           Id(w) \in IntentId, disk' = disk, lock' = w,
           UNCHANGED <<call, delivered>>,
           pc[w] \in {"insert", "consume"}, pc'[w] \in {"settle", "commit"},
           NEW record \in IntentRecord,
           RecordStep(db.store[Id(w)], record),
           db' = [db EXCEPT !.store[Id(w)] = record],
           InFlight(w)' => /\ call[w].op = "execute"
                           /\ record = ConsumedRecord(call[w])
                           /\ db.store[Id(w)] # NoRecord
                           /\ db.store[Id(w)].status = "CREATED"
    PROVE  OnceInv'
<1>0. ~Pending(w)' /\ NoWorker \notin Worker
  BY WorkersAssumption DEF Pending
<1>1. db.store = disk.store
  BY DEF OnceInv, LockInv, StoreInv, MayWrite, EarlySteps
<1>2. db'.store = [disk.store EXCEPT ![Id(w)] = record]
  BY <1>1 DEF OnceInv, TypeInv, TypeOK, Database
<1>3. LockInv'
  BY <1>0 DEF OnceInv, LockInv
<1>4. StoreInv'
  BY <1>0, <1>1, <1>2 DEF StoreInv, Id, EarlySteps
<1>5. FlightInv'
  <2>1. db'.store[Id(w)] = record
    BY <1>2 DEF OnceInv, TypeInv, TypeOK, Database
  <2>2. \A v \in Worker : v # w => ~InFlight(v)'
    BY <1>0 DEF OnceInv, FlightInv, InFlight, OthersKeep, MayWrite
  <2>. QED
    BY <1>1, <2>1, <2>2 DEF FlightInv, Id, ConsumedRecord
<1>6. PendingInv'
  BY <1>0 DEF OnceInv, PendingInv, Pending, OthersKeep, Id, Spent
<1>7. DeliveredInv'
  BY DEF OnceInv, DeliveredInv, Spent
<1>. QED
  BY <1>3, <1>4, <1>5, <1>6, <1>7 DEF OnceInv

\* The commit: a fill in the making becomes a pending one.
LEMMA CommitStep ==
    ASSUME OnceInv, TypeInv', NEW w \in Worker, Commit(w)
    PROVE  OnceInv'
<1>0. /\ NoWorker \notin Worker /\ OthersKeep(w) /\ call' = call /\ db' = db
      /\ pc[w] = "commit" /\ pc'[w] = "reply" /\ result' = result
      /\ delivered' = delivered /\ Id(w) \in IntentId
  BY WorkersAssumption, CallFields
     DEF Commit, OthersKeep, OnceInv, TypeInv, TypeOK, CallMatches, Id
<1>1. LockInv'
  BY <1>0 DEF OnceInv, LockInv, Commit, OthersKeep
<1>2. StoreInv'
  <2>1. CASE lock = w
    BY <1>0, <2>1 DEF StoreInv, Commit
  <2>2. CASE lock # w
    <3>1. UNCHANGED <<disk, db, lock>>
      BY <1>0, <2>2 DEF Commit
    <3>2. \A v \in Worker : lock' = v => lock = v /\ pc'[v] = pc[v] /\ v # w
      BY <1>0, <2>2, <3>1 DEF OthersKeep
    <3>. QED
      BY <1>0, <3>1, <3>2 DEF OnceInv, StoreInv, Id
  <2>. QED
    BY <2>1, <2>2
<1>3. FlightInv'
  BY <1>0 DEF OnceInv, FlightInv, InFlight, Commit, OthersKeep, Id, ConsumedRecord
<1>4. \A i \in IntentId : Spent(disk, i) => disk'.store[i] = disk.store[i]
  <2>1. CASE lock # w
    BY <2>1 DEF Commit
  <2>2. CASE lock = w
    <3>1. disk' = db
      BY <2>2 DEF Commit
    <3>2. CASE db.store = disk.store
      BY <3>1, <3>2
    <3>3. CASE db.store # disk.store
      <4>1. PICK record \in IntentRecord :
              /\ RecordStep(disk.store[Id(w)], record)
              /\ db.store = [disk.store EXCEPT ![Id(w)] = record]
        BY <2>2, <3>3 DEF OnceInv, StoreInv
      <4>. QED
        BY <1>0, <3>1, <4>1, SpentStays DEF OnceInv, TypeInv, TypeOK, Database
    <3>. QED
      BY <3>2, <3>3
  <2>. QED
    BY <2>1, <2>2
<1>5. PendingInv'
  <2>1. ASSUME result[w] = "FILLED"
        PROVE  /\ Spent(disk', Id(w))
               /\ disk'.store[Id(w)].intent = call[w].intent
               /\ ~Spent(disk, Id(w))
    <3>1. InFlight(w)
      BY <1>0, <2>1 DEF InFlight
    <3>2. disk' = db
      BY <3>1 DEF OnceInv, FlightInv, Commit
    <3>3. /\ disk.store[Id(w)].status = "CREATED"
          /\ db.store[Id(w)] = ConsumedRecord(call[w])
      BY <3>1 DEF OnceInv, FlightInv
    <3>4. /\ ConsumedRecord(call[w]).status = "CONSUMED"
          /\ ConsumedRecord(call[w]).intent = call[w].intent
          /\ NoRecord.status = "ABSENT"
      BY DEF ConsumedRecord, NoRecord
    <3>. QED
      BY <3>2, <3>3, <3>4 DEF Spent
  <2>2. ASSUME result[w] = "FILLED" PROVE delivered[Id(w)] = <<>>
    BY <1>0, <2>1, <2>2 DEF OnceInv, DeliveredInv
  <2>3. \A v \in Worker : v # w =>
          /\ Pending(v)' <=> Pending(v)
          /\ Pending(v) => Id(v) \in IntentId /\ Spent(disk, Id(v))
    BY <1>0, CallFields
       DEF OnceInv, PendingInv, Pending, OthersKeep, TypeInv, CallMatches, Id
  <2>4. \A i \in IntentId : Spent(disk, i) => Spent(disk', i)
    BY <1>4 DEF Spent
  <2>. QED
    BY <1>0, <1>4, <2>1, <2>2, <2>3, <2>4 DEF OnceInv, PendingInv, Pending, Id
<1>6. DeliveredInv'
  BY <1>0, <1>4 DEF OnceInv, DeliveredInv, Spent
<1>. QED
  BY <1>1, <1>2, <1>3, <1>5, <1>6 DEF OnceInv

\* The answer: a pending fill is handed over and stops being pending.
LEMMA ReplyStep ==
    ASSUME OnceInv, TypeInv', NEW w \in Worker, Reply(w)
    PROVE  OnceInv'
<1>0. /\ OthersKeep(w) /\ UNCHANGED <<disk, db, lock>> /\ pc[w] = "reply"
      /\ pc'[w] = "idle" /\ ~InFlight(w)' /\ ~Pending(w)' /\ Id(w) \in IntentId
      /\ lock # w
  BY CallFields DEF Reply, Idle, data, OthersKeep, InFlight, Pending, OnceInv,
     TypeInv, TypeOK, CallMatches, Id, LockInv, EarlySteps
<1>1. CASE result[w] # "FILLED"
  BY <1>0, <1>1, QuietStep DEF Reply
<1>2. CASE result[w] = "FILLED"
  <2>. DEFINE fill == [intent |-> call[w].intent, now |-> call[w].now]
  <2>1. delivered[Id(w)] = <<>> /\ Spent(disk, Id(w))
        /\ disk.store[Id(w)].intent = call[w].intent
        /\ \A v \in Worker : Pending(v) /\ v # w => Id(v) # Id(w)
    BY <1>0, <1>2 DEF OnceInv, PendingInv, Pending
  <2>2. delivered' = [delivered EXCEPT ![Id(w)] = Append(@, fill)]
    BY <1>2 DEF Reply
  <2>3. fill.intent = call[w].intent
    OBVIOUS
  <2>. HIDE DEF fill
  <2>4. Append(delivered[Id(w)], fill) = <<fill>>
    BY <2>1
  <2>5. /\ delivered'[Id(w)] = <<fill>>
        /\ \A i \in IntentId : i # Id(w) => delivered'[i] = delivered[i]
    BY <1>0, <2>2, <2>4 DEF OnceInv, TypeInv, TypeOK
  <2>6. LockInv' /\ StoreInv' /\ FlightInv'
    BY <1>0 DEF OnceInv, LockInv, StoreInv, FlightInv, InFlight, OthersKeep, Id, ConsumedRecord
  <2>7. PendingInv'
    <3>1. \A v \in Worker : v # w =>
            /\ Pending(v)' <=> Pending(v)
            /\ Id(v)' = Id(v) /\ call'[v] = call[v]
            /\ Pending(v) => Id(v) \in IntentId
      BY <1>0, CallFields DEF Pending, OthersKeep, OnceInv, TypeInv, CallMatches, Id
    <3>. QED
      BY <1>0, <2>1, <2>5, <3>1 DEF OnceInv, PendingInv, Spent
  <2>8. DeliveredInv'
    <3>1. Len(<<fill>>) = 1 /\ <<fill>>[1] = fill
      OBVIOUS
    <3>2. /\ Len(delivered'[Id(w)]) = 1 /\ Spent(disk', Id(w))
          /\ disk'.store[Id(w)].intent = delivered'[Id(w)][1].intent
      BY <1>0, <2>1, <2>3, <2>5, <3>1
    <3>3. ASSUME NEW i \in IntentId, i # Id(w), delivered'[i] # <<>>
          PROVE  /\ Len(delivered'[i]) = 1 /\ Spent(disk', i)
                 /\ disk'.store[i].intent = delivered'[i][1].intent
      BY <1>0, <2>5, <3>3 DEF OnceInv, DeliveredInv
    <3>. QED
      BY <3>2, <3>3, Zenon DEF DeliveredInv
  <2>. QED
    BY <2>6, <2>7, <2>8 DEF OnceInv
<1>. QED
  BY <1>1, <1>2
LEMMA InitOnce == Init => OnceInv
<1>. SUFFICES ASSUME Init PROVE OnceInv
  OBVIOUS
<1>1. TypeInv
  BY InitTypes
<1>2. \A w \in Worker : ~InFlight(w) /\ ~Pending(w)
  BY DEF Init, InFlight, Pending
<1>3. LockInv /\ StoreInv
  BY WorkersAssumption DEF Init, LockInv, StoreInv
<1>4. DeliveredInv
  BY DEF Init, DeliveredInv
<1>. QED
  BY <1>1, <1>2, <1>3, <1>4 DEF OnceInv, FlightInv, PendingInv

LEMMA GrantOnce == OnceInv /\ Grant => OnceInv'
<1>. SUFFICES ASSUME OnceInv, Grant PROVE OnceInv'
  OBVIOUS
<1>1. TypeInv' /\ UNCHANGED Unused
  BY GrantTypes DEF OnceInv, Grant, Authorize, Issue, Build
<1>. QED
  BY <1>1 DEF Unused, OnceInv, LockInv, StoreInv, FlightInv, InFlight, PendingInv,
              Pending, DeliveredInv, Spent, Id, ConsumedRecord

LEMMA StartOnce ==
    ASSUME OnceInv, NEW w \in Worker, Start(w), UNCHANGED authority
    PROVE  OnceInv'
<1>1. TypeInv'
  BY StartTypes DEF OnceInv
<1>2. /\ pc[w] = "idle" /\ UNCHANGED <<disk, db, lock, delivered>>
      /\ pc'[w] # "settle" /\ pc'[w] # "fill" /\ result'[w] # "FILLED"
      /\ OthersKeep(w)
  <2>. USE DEF Begin, OthersKeep, OnceInv, TypeInv, TypeOK, CallMatches
  <2>1. ASSUME NEW intent \in intents, NEW now \in Time, Record(w, intent, now)
        PROVE  <1>2
    BY <2>1 DEF Record
  <2>2. ASSUME NEW intent \in intents, NEW certificate \in certificates,
               NEW now \in Time, NEW clear \in BOOLEAN,
               \/ Execute(w, intent, certificate, now, clear)
               \/ Consume(w, intent, certificate, now, clear)
        PROVE  <1>2
    BY <2>2 DEF Execute, Consume
  <2>3. ASSUME NEW intent \in intents, NEW event \in OperatorEvent,
               OperatorAppend(w, intent, event)
        PROVE  <1>2
    BY <2>3 DEF OperatorAppend
  <2>. QED
    BY <2>1, <2>2, <2>3 DEF Start
<1>3. ~InFlight(w)' /\ ~Pending(w)'
  BY <1>2 DEF InFlight, Pending
<1>4. lock # w
  BY <1>2 DEF OnceInv, LockInv, EarlySteps
<1>. QED
  BY <1>1, <1>2, <1>3, <1>4, QuietStep

LEMMA RaiseOnce ==
    ASSUME OnceInv, TypeInv', NEW w \in Worker, Raise(w)
    PROVE  OnceInv'
BY RollbackStep DEF Raise, OthersKeep, OnceInv, TypeInv, TypeOK

LEMMA CrashOnce ==
    ASSUME OnceInv, NEW w \in Worker, Crash(w), UNCHANGED authority
    PROVE  OnceInv'
<1>1. TypeInv'
  BY CrashTypes DEF OnceInv
<1>. QED
  BY <1>1, RollbackStep DEF Crash, Idle, OthersKeep, OnceInv, TypeInv, TypeOK

\* The jumps of execute up to the consumption.
LEMMA JumpOnce ==
    ASSUME OnceInv, TypeInv', NEW w \in Worker, pc[w] \in EarlySteps,
           NEW step \in EarlySteps,
           Goto(w, step) \/ ReadJournal(w, step) \/ Finish(w, "REJECTED")
    PROVE  OnceInv'
<1>1. /\ UNCHANGED <<disk, db, lock, delivered, call>> /\ OthersKeep(w)
      /\ pc'[w] \in EarlySteps \cup {"commit"}
      /\ pc'[w] = "commit" => result'[w] = "REJECTED"
  BY DEF Goto, ReadJournal, Finish, OthersKeep, OnceInv, TypeInv, TypeOK, EarlySteps
<1>2. ~InFlight(w)' /\ ~Pending(w)'
  BY <1>1 DEF InFlight, Pending, EarlySteps
<1>. QED
  BY <1>1, <1>2, QuietStep

\* The journal writes, before and after the consumption.
LEMMA AppendOnce ==
    ASSUME OnceInv, TypeInv', NEW w \in Worker, NEW s \in State,
           NEW step, NEW value, AppendEvent(w, s, step, value),
           pc[w] \in EarlySteps \cup {"open", "append", "settle", "fill"},
           step \in EarlySteps \cup {"fill", "commit"},
           pc[w] \in {"settle", "fill"} => step \in {"fill", "commit"},
           step = "fill" \/ value = "FILLED" => pc[w] \in {"settle", "fill"}
    PROVE  OnceInv'
<1>1. CASE Raise(w)
  BY <1>1, RaiseOnce
<1>2. CASE ~Raise(w)
  <2>1. pc[w] # "idle" /\ Id(w) \in IntentId
    BY CallFields DEF EarlySteps, OnceInv, TypeInv, CallMatches, Id
  <2>2. /\ MayWrite(w) /\ lock' = w
        /\ db' = [db EXCEPT !.journal[Id(w)] = Append(@, s)]
        /\ pc' = [pc EXCEPT ![w] = step]
        /\ result' = [result EXCEPT ![w] = value]
        /\ UNCHANGED <<disk, call, delivered>>
    BY <1>2, <2>1, AppendEventCases DEF OnceInv
  <2>3. db'.store = db.store
    BY <2>2 DEF OnceInv, TypeInv, TypeOK, Database
  <2>4. OthersKeep(w) /\ pc'[w] = step /\ result'[w] = value
    BY <2>2 DEF OthersKeep, OnceInv, TypeInv, TypeOK
  <2>5. InFlight(w)' => InFlight(w)
    BY <2>4 DEF InFlight, EarlySteps
  <2>. QED
    BY <2>2, <2>3, <2>4, <2>5, JournalStep
<1>. QED
  BY <1>1, <1>2

LEMMA InsertOnce ==
    ASSUME OnceInv, TypeInv', NEW w \in Worker, Insert(w)
    PROVE  OnceInv'
<1>1. CASE Raise(w)
  BY <1>1, RaiseOnce
<1>2. CASE ~Raise(w)
  <2>. DEFINE row == [status |-> "CREATED", intent |-> call[w].intent,
                      updated |-> call[w].now]
  <2>1. call[w] \in Call /\ call[w].op = "record" /\ Id(w) \in IntentId
    BY CallFields DEF Insert, OnceInv, TypeInv, CallMatches, Id
  <2>2. row \in IntentRecord /\ row.status = "CREATED"
    BY <2>1, CallFields DEF IntentRecord
  <2>3. /\ pc[w] = "insert" /\ MayWrite(w) /\ lock' = w
        /\ db.store[Id(w)] = NoRecord
        /\ db' = [db EXCEPT !.store[Id(w)] = row]
        /\ pc' = [pc EXCEPT ![w] = "commit"]
        /\ result' = [result EXCEPT ![w] = "RECORDED"]
        /\ UNCHANGED <<disk, call, seen, delivered>>
    BY <1>2 DEF Insert
  <2>. HIDE DEF row
  <2>4. RecordStep(db.store[Id(w)], row)
    BY <2>2, <2>3 DEF RecordStep
  <2>5. OthersKeep(w) /\ pc'[w] = "commit" /\ ~InFlight(w)'
    BY <2>3 DEF OthersKeep, InFlight, OnceInv, TypeInv, TypeOK
  <2>. QED
    BY <2>1, <2>2, <2>3, <2>4, <2>5, StoreStep
<1>. QED
  BY <1>1, <1>2

LEMMA ConsumeOnce ==
    ASSUME OnceInv, TypeInv', NEW w \in Worker, ConsumeInTransaction(w)
    PROVE  OnceInv'
<1>1. CASE Raise(w)
  BY <1>1, RaiseOnce
<1>2. CASE ~Raise(w)
  <2>1. /\ pc[w] = "consume" /\ MayWrite(w) /\ lock' = w
        /\ Consumable(db.store[Id(w)], call[w])
        /\ db' = [db EXCEPT !.store[Id(w)] = ConsumedRecord(call[w])]
        /\ pc' = [pc EXCEPT ![w] = AfterConsume(w)]
        /\ result' = [result EXCEPT ![w] =
              IF call[w].op = "consume" THEN "CONSUMED"
              ELSE IF w \in Journaled THEN "none" ELSE "FILLED"]
        /\ UNCHANGED <<disk, call, delivered>>
    BY <1>2 DEF ConsumeInTransaction
  <2>2. call[w] \in Call /\ Id(w) \in IntentId /\ call[w].op \in {"execute", "consume"}
    BY <2>1, CallFields DEF OnceInv, TypeInv, CallMatches, Id
  <2>3. /\ ConsumedRecord(call[w]) \in IntentRecord
        /\ ConsumedRecord(call[w]).status = "CONSUMED"
        /\ ConsumedRecord(call[w]).intent = call[w].intent
    BY <2>2, CallFields DEF ConsumedRecord, IntentRecord
  <2>4. /\ db.store[Id(w)] # NoRecord /\ db.store[Id(w)].status = "CREATED"
        /\ RecordStep(db.store[Id(w)], ConsumedRecord(call[w]))
    BY <2>1, <2>3 DEF Consumable, RecordStep
  <2>5. pc'[w] \in {"settle", "commit"} /\ OthersKeep(w)
    BY <2>1 DEF AfterConsume, OthersKeep, OnceInv, TypeInv, TypeOK
  <2>6. InFlight(w)' => call[w].op = "execute"
    BY <2>1, <2>2 DEF InFlight, AfterConsume, OnceInv, TypeInv, TypeOK
  <2>. QED
    BY <2>1, <2>2, <2>3, <2>4, <2>5, <2>6, StoreStep
<1>. QED
  BY <1>1, <1>2

LEMMA AdvanceOnce ==
    ASSUME OnceInv, NEW w \in Worker, Advance(w), UNCHANGED authority
    PROVE  OnceInv'
<1>1. TypeInv'
  BY AdvanceTypes DEF OnceInv
<1>. USE <1>1
<1>2. CASE Insert(w)
  BY <1>2, InsertOnce
<1>3. CASE ConsumeInTransaction(w)
  BY <1>3, ConsumeOnce
<1>4. CASE Commit(w)
  BY <1>4, CommitStep
<1>5. CASE Reply(w)
  BY <1>5, ReplyStep
<1>6. CASE Busy(w)
  BY <1>6, RaiseOnce DEF Busy
<1>7. CASE Judge(w)
  <2>1. PICK step \in {"lookup", "reject"} : Goto(w, step)
    BY <1>7 DEF Judge
  <2>. QED
    BY <1>7, <2>1, JumpOnce DEF Judge, EarlySteps
<1>8. CASE Lookup(w)
  <2>1. Finish(w, "REJECTED") \/ \E step \in {"reject", "stage", "consume"} : Goto(w, step)
    BY <1>8 DEF Lookup
  <2>2. pc[w] \in EarlySteps
    BY <1>8 DEF Lookup, EarlySteps
  <2>. QED
    BY <2>1, <2>2, JumpOnce DEF EarlySteps
<1>9. CASE Reject(w)
  BY <1>9, JumpOnce DEF Reject, EarlySteps
<1>10. CASE Stage(w)
  BY <1>10, JumpOnce DEF Stage, EarlySteps
<1>11. CASE Open(w)
  BY <1>11, AppendOnce DEF Open, State, EarlySteps
<1>12. CASE Refuse(w)
  BY <1>12, AppendOnce DEF Refuse, State, EarlySteps
<1>13. CASE Validate(w)
  BY <1>13, AppendOnce DEF Validate, State, EarlySteps
<1>14. CASE AdmitStep(w)
  BY <1>14, AppendOnce DEF AdmitStep, State, EarlySteps
<1>15. CASE Settle(w)
  BY <1>15, AppendOnce DEF Settle, State, EarlySteps
<1>16. CASE FillStep(w)
  BY <1>16, AppendOnce DEF FillStep, State, EarlySteps
<1>17. CASE AppendStep(w)
  <2>1. call[w].event \in State
    BY <1>17, CallFields DEF AppendStep, OnceInv, TypeInv, CallMatches
  <2>. QED
    BY <1>17, <2>1, AppendOnce DEF AppendStep, EarlySteps
<1>. QED
  BY <1>2, <1>3, <1>4, <1>5, <1>6, <1>7, <1>8, <1>9, <1>10, <1>11, <1>12, <1>13,
     <1>14, <1>15, <1>16, <1>17 DEF Advance

LEMMA StutterOnce == OnceInv /\ UNCHANGED vars => OnceInv'
BY DEF vars, OnceInv, TypeInv, TypeOK, CallMatches, LockInv, StoreInv, FlightInv,
       InFlight, PendingInv, Pending, DeliveredInv, Spent, Id, ConsumedRecord

\* The strengthening of the two invariants below is inductive: who holds the
\* write lock, what its transaction changed, and which fills are under way.
THEOREM OnceInvariant == Spec => []OnceInv
<1>1. Init => OnceInv
  BY InitOnce
<1>2. OnceInv /\ [Next]_vars => OnceInv'
  BY StutterOnce, GrantOnce, StartOnce, AdvanceOnce, CrashOnce DEF Next
<1>. QED
  BY <1>1, <1>2, PTL DEF Spec

\* Whatever the number of workers, retries and crashes, at most one fill per
\* intent id reaches a caller (code: the compare-and-set of
\* consume_in_transaction decides, and only its winner answers FILLED).
THEOREM OneFill == Spec => []AtMostOneFill
<1>1. OnceInv => AtMostOneFill
  <2>. SUFFICES ASSUME OnceInv, NEW i \in IntentId PROVE Len(delivered[i]) <= 1
    BY DEF AtMostOneFill
  <2>1. Len(delivered[i]) \in {0, 1}
    BY DEF OnceInv, TypeInv, TypeOK, DeliveredInv
  <2>2. \A n \in {0, 1} : n <= 1
    OBVIOUS
  <2>. QED
    BY <2>1, <2>2, Zenon
<1>. QED
  BY <1>1, OnceInvariant, PTL

\* A fill a caller holds survives every later crash: the record of its intent
\* is committed as CONSUMED (code: the adapter answers after "with connection"
\* has committed).
THEOREM DurableFill == Spec => []FillIsDurable
<1>1. OnceInv => FillIsDurable
  <2>. SUFFICES ASSUME OnceInv, NEW i \in IntentId, NEW k \in DOMAIN delivered[i]
                PROVE  /\ Spent(disk, i)
                       /\ disk.store[i].intent = delivered[i][k].intent
    BY DEF FillIsDurable
  <2>1. delivered[i] \in Seq(Fill) /\ k \in 1..Len(delivered[i])
    BY DEF OnceInv, TypeInv, TypeOK
  <2>2. delivered[i] # <<>>
    BY <2>1
  <2>3. Len(delivered[i]) = 1 /\ Spent(disk, i)
        /\ disk.store[i].intent = delivered[i][1].intent
    BY <2>2 DEF OnceInv, DeliveredInv
  <2>. QED
    BY <2>1, <2>3
<1>. QED
  BY <1>1, OnceInvariant, PTL
-----------------------------------------------------------------------------
(* The refinement *)

\* A step that leaves the committed database and the delivered fills alone is
\* invisible to the abstract specification; these are all but two.
LEMMA OnlyCommitAndReplyShow ==
    ASSUME NEW w \in Worker, Start(w) \/ Advance(w) \/ Crash(w),
           ~Commit(w), ~Reply(w)
    PROVE  UNCHANGED <<disk, delivered>>
<1>1. Start(w) => UNCHANGED <<disk, delivered>>
  BY DEF Start, Record, Execute, Consume, OperatorAppend, Begin
<1>2. Crash(w) \/ Busy(w) => UNCHANGED <<disk, delivered>>
  BY DEF Crash, Busy, Raise, Rollback
<1>3. Insert(w) \/ ConsumeInTransaction(w) => UNCHANGED <<disk, delivered>>
  BY DEF Insert, ConsumeInTransaction, Raise, Rollback
<1>4. Judge(w) \/ Lookup(w) \/ Reject(w) \/ Stage(w) => UNCHANGED <<disk, delivered>>
  BY DEF Judge, Lookup, Reject, Stage, Goto, ReadJournal, Finish
<1>5. ASSUME NEW s, NEW step, NEW value, AppendEvent(w, s, step, value)
      PROVE  UNCHANGED <<disk, delivered>>
  BY <1>5 DEF AppendEvent, Raise, Rollback
<1>6. Open(w) \/ Refuse(w) \/ Validate(w) \/ AdmitStep(w) \/ Settle(w)
      \/ FillStep(w) \/ AppendStep(w) => UNCHANGED <<disk, delivered>>
  BY <1>5 DEF Open, Refuse, Validate, AdmitStep, Settle, FillStep, AppendStep
<1>. QED
  BY <1>1, <1>2, <1>3, <1>4, <1>6 DEF Advance

\* A commit is a step of the abstract specification on one intent, or none.
LEMMA CommitRefines ==
    ASSUME OnceInv, NEW w \in Worker, Commit(w)
    PROVE  [Once!OnceNext]_(Once!onceVars)
<1>. DEFINE Status(database) == [i \in IntentId |-> database.store[i].status]
<1>1. delivered' = delivered
  BY DEF Commit
<1>2. CASE disk'.store = disk.store
  BY <1>1, <1>2 DEF Once!onceVars
<1>3. CASE disk'.store # disk.store
  <2>1. lock = w /\ disk' = db
    BY <1>3 DEF Commit
  <2>2. PICK record \in IntentRecord :
          /\ RecordStep(disk.store[Id(w)], record)
          /\ db.store = [disk.store EXCEPT ![Id(w)] = record]
    BY <1>3, <2>1 DEF OnceInv, StoreInv
  <2>3. Id(w) \in IntentId
    BY CallFields DEF Commit, OnceInv, TypeInv, CallMatches, Id
  <2>4. Status(disk') = [Status(disk) EXCEPT ![Id(w)] = record.status]
    BY <2>1, <2>2, <2>3 DEF OnceInv, TypeInv, TypeOK, Database
  <2>5. \/ Status(disk)[Id(w)] = "ABSENT" /\ record.status = "CREATED"
        \/ Status(disk)[Id(w)] = "CREATED" /\ record.status = "CONSUMED"
    BY <2>2, <2>3 DEF RecordStep, NoRecord
  <2>6. [i \in IntentId |-> Len(delivered'[i])] = [i \in IntentId |-> Len(delivered[i])]
    BY <1>1
  <2>7. PICK i \in IntentId : i = Id(w)
    BY <2>3
  <2>8. Once!Admit(i) \/ Once!Spend(i)
    BY <2>4, <2>5, <2>6, <2>7 DEF Once!Admit, Once!Spend
  <2>9. Once!OnceNext
    BY <2>8, Zenon DEF Once!OnceNext
  <2>. QED
    BY <2>9
<1>. QED
  BY <1>2, <1>3

\* A reply hands over the pending fill of its intent, or nothing.
LEMMA ReplyRefines ==
    ASSUME OnceInv, NEW w \in Worker, Reply(w)
    PROVE  [Once!OnceNext]_(Once!onceVars)
<1>1. disk' = disk
  BY DEF Reply, data
<1>2. CASE result[w] # "FILLED"
  BY <1>1, <1>2 DEF Reply, Once!onceVars
<1>3. CASE result[w] = "FILLED"
  <2>. DEFINE fill == [intent |-> call[w].intent, now |-> call[w].now]
              Fills(fills) == [i \in IntentId |-> Len(fills[i])]
  <2>1. Pending(w) /\ Id(w) \in IntentId
    BY <1>3, CallFields DEF Reply, Pending, OnceInv, TypeInv, CallMatches, Id
  <2>2. delivered[Id(w)] = <<>> /\ Spent(disk, Id(w))
    BY <2>1 DEF OnceInv, PendingInv
  <2>3. delivered' = [delivered EXCEPT ![Id(w)] = Append(@, fill)]
    BY <1>3 DEF Reply
  <2>. HIDE DEF fill
  <2>4. Append(delivered[Id(w)], fill) = <<fill>> /\ Len(<<fill>>) = 1
        /\ Len(delivered[Id(w)]) = 0
    BY <2>2
  <2>5. \A i \in IntentId :
          delivered'[i] = IF i = Id(w) THEN <<fill>> ELSE delivered[i]
    BY <2>1, <2>3, <2>4 DEF OnceInv, TypeInv, TypeOK
  <2>6. Fills(delivered') = [Fills(delivered) EXCEPT ![Id(w)] = 1]
    BY <2>1, <2>4, <2>5
  <2>7. Fills(delivered)[Id(w)] = 0
    BY <2>1, <2>4
  <2>8. [i \in IntentId |-> disk.store[i].status][Id(w)] = "CONSUMED"
    BY <2>1, <2>2 DEF Spent
  <2>9. PICK i \in IntentId : i = Id(w)
    BY <2>1
  <2>10. Once!HandOver(i)
    BY <1>1, <2>6, <2>7, <2>8, <2>9 DEF Once!HandOver
  <2>11. Once!OnceNext
    BY <2>10, Zenon DEF Once!OnceNext
  <2>. QED
    BY <2>11
<1>. QED
  BY <1>2, <1>3

\* The execution core implements the once-only specification: what the store,
\* the adapter and the journal do together, for any number of workers, is to
\* admit, spend and hand over each intent at most once, in that order.
THEOREM Refinement == Spec => ImplementsOnce
<1>1. Init => Once!OnceInit
  <2>. SUFFICES ASSUME Init PROVE Once!OnceInit
    OBVIOUS
  <2>1. \A i \in IntentId : disk.store[i].status = "ABSENT" /\ Len(delivered[i]) = 0
    BY DEF Init, EmptyDatabase, NoRecord
  <2>. QED
    BY <2>1 DEF Once!OnceInit
<1>2. OnceInv /\ [Next]_vars => [Once!OnceNext]_(Once!onceVars)
  <2>1. UNCHANGED <<disk, delivered>> => UNCHANGED Once!onceVars
    BY DEF Once!onceVars
  <2>2. CASE UNCHANGED vars \/ Grant
    BY <2>1, <2>2 DEF vars, Grant, Authorize, Issue, Build, Unused
  <2>3. ASSUME OnceInv, NEW w \in Worker, Start(w) \/ Advance(w) \/ Crash(w)
        PROVE  [Once!OnceNext]_(Once!onceVars)
    BY <2>1, <2>3, CommitRefines, ReplyRefines, OnlyCommitAndReplyShow
  <2>. QED
    BY <2>2, <2>3 DEF Next
<1>. QED
  BY <1>1, <1>2, OnceInvariant, PTL DEF Spec, ImplementsOnce, Once!OnceSpec
-----------------------------------------------------------------------------
(* The journal *)

\* later is earlier with events added at its end.
Extends(later, earlier) ==
    /\ Len(earlier) <= Len(later)
    /\ \A k \in 1 .. Len(earlier) : later[k] = earlier[k]

\* The journal a worker decides from is one the database had: as long as its
\* call may append, what it saw is the beginning of what it would read now.
SeenInv ==
    \A w \in Worker :
        /\ pc[w] = "idle" => seen[w] = <<>>
        /\ pc[w] \notin {"idle", "reply"} =>
             Extends(View(w).journal[Id(w)], seen[w])

\* A transaction extends the journal of its own intent and no other, and an
\* execution with a journal answers FILLED only if the journal says so.
TransactionInv ==
    \A w \in Worker : lock = w =>
        /\ \A i \in IntentId :
             /\ LegalJournal(db.journal[i])
             /\ Extends(db.journal[i], disk.journal[i])
             /\ i # Id(w) => db.journal[i] = disk.journal[i]
        /\ LET journal == db.journal[Id(w)]
           IN  pc[w] = "commit" /\ result[w] = "FILLED" /\ w \in Journaled =>
                 journal # <<>> /\ LastOf(journal) = "FILLED"

\* A fill not yet handed over by a worker with a journal is journaled.
AnswerInv ==
    \A w \in Worker : Pending(w) /\ w \in Journaled =>
        disk.journal[Id(w)] # <<>> /\ LastOf(disk.journal[Id(w)]) = "FILLED"

JournalInv ==
    /\ OnceInv
    /\ JournalVerifies
    /\ SeenInv /\ TransactionInv /\ AnswerInv

LEMMA ExtendsItself ==
    ASSUME NEW s \in Seq(State)
    PROVE  Extends(s, s) /\ Extends(s, <<>>)
BY DEF Extends

LEMMA ExtendsTransitive ==
    ASSUME NEW s \in Seq(State), NEW t \in Seq(State), NEW u \in Seq(State),
           Extends(t, s), Extends(u, t)
    PROVE  Extends(u, s)
BY DEF Extends

\* The primary key (intent_id, sequence): a reader that knows the length of
\* the journal knows the journal.
LEMMA SameLengthSame ==
    ASSUME NEW s \in Seq(State), NEW t \in Seq(State), Extends(t, s), Len(t) = Len(s)
    PROVE  t = s
BY DEF Extends

LEMMA ExtendsAppend ==
    ASSUME NEW s \in Seq(State), NEW t \in Seq(State), NEW x \in State, Extends(t, s)
    PROVE  Extends(Append(t, x), s)
BY DEF Extends

\* What append_in_transaction lets through keeps a journal verifiable.
LEMMA LegalAppend ==
    ASSUME NEW s \in Seq(State), NEW x \in State, LegalJournal(s), CanAppend(s, x)
    PROVE  LegalJournal(Append(s, x))
<1>1. CASE s = <<>>
  <2>1. Append(s, x) = <<x>> /\ x = "CREATED"
    BY <1>1 DEF CanAppend
  <2>. QED
    BY <2>1 DEF LegalJournal
<1>2. CASE s # <<>>
  <2>1. x \in Allowed[s[Len(s)]] /\ Len(s) \in Nat \ {0}
    BY <1>2 DEF CanAppend, LastOf
  <2>2. /\ Len(Append(s, x)) = Len(s) + 1
        /\ \A k \in 1 .. Len(s) : Append(s, x)[k] = s[k]
        /\ Append(s, x)[Len(s) + 1] = x
    OBVIOUS
  <2>. HIDE DEF State
  <2>3. Append(s, x)[1] = "CREATED"
    BY <1>2, <2>1, <2>2 DEF LegalJournal
  <2>4. ASSUME NEW k \in 1 .. Len(s)
        PROVE  Append(s, x)[k + 1] \in Allowed[Append(s, x)[k]]
    BY <2>1, <2>2 DEF LegalJournal
  <2>. QED
    BY <2>2, <2>3, <2>4 DEF LegalJournal
<1>. QED
  BY <1>1, <1>2

LEMMA TerminalIsFinal == \A s \in Terminal : s \in State /\ Allowed[s] = {}
<1>1. SUFFICES ASSUME NEW s \in Terminal PROVE s \in State /\ Allowed[s] = {}
  OBVIOUS
<1>2. s \in State /\ s # "CREATED" /\ s # "VALIDATED" /\ s # "ADMITTED" /\ s # "CONSUMED"
  BY DEF Terminal, State
<1>. QED
  BY <1>2, Zenon DEF Allowed

\* Nothing is ever appended to a closed journal.
LEMMA ClosedIsComplete ==
    ASSUME NEW s \in Seq(State), NEW t \in Seq(State), Extends(t, s),
           LegalJournal(t), s # <<>>, LastOf(s) \in Terminal
    PROVE  t = s
<1>1. CASE Len(t) = Len(s)
  BY <1>1, SameLengthSame
<1>2. CASE Len(t) # Len(s)
  <2>1. Len(s) \in 1 .. Len(t) - 1 /\ t[Len(s)] = LastOf(s)
    BY <1>2 DEF Extends, LastOf
  <2>2. t[Len(s) + 1] \in Allowed[LastOf(s)]
    BY <2>1 DEF LegalJournal
  <2>. QED
    BY <2>2, TerminalIsFinal
<1>. QED
  BY <1>1, <1>2

\* A step of one worker leaves what the others saw alone.
OthersSee(w) == \A v \in Worker : v # w => seen'[v] = seen[v]

\* The types the lemmas below keep needing.
LEMMA JournalTypes ==
    ASSUME TypeInv
    PROVE  /\ \A i \in IntentId :
                disk.journal[i] \in Seq(State) /\ db.journal[i] \in Seq(State)
           /\ \A w \in Worker :
                seen[w] \in Seq(State) /\ (pc[w] # "idle" => Id(w) \in IntentId)
BY CallFields DEF TypeInv, TypeOK, CallMatches, Id, Database

\* A step of w outside the database, whose answer is no fill.
LEMMA QuietJournal ==
    ASSUME JournalInv, OnceInv', NEW w \in Worker, OthersKeep(w), OthersSee(w),
           UNCHANGED <<disk, db, lock>>,
           lock = w => /\ pc[w] # "fill" /\ call'[w] = call[w]
                       /\ ~(pc'[w] = "commit" /\ result'[w] = "FILLED"),
           ~Pending(w)',
           pc'[w] = "idle" => seen'[w] = <<>>,
           pc'[w] \notin {"idle", "reply"} =>
             Extends(View(w)'.journal[Id(w)'], seen'[w])
    PROVE  JournalInv'
<1>1. JournalVerifies'
  BY DEF JournalInv, JournalVerifies, Spent
<1>2. SeenInv'
  <2>1. \A v \in Worker : v # w => View(v)' = View(v) /\ Id(v)' = Id(v)
    BY DEF View, Id, OthersKeep
  <2>. QED
    BY <2>1 DEF JournalInv, SeenInv, OthersKeep, OthersSee
<1>3. TransactionInv'
  <2>1. \A v \in Worker : lock = v => Id(v)' = Id(v)
    BY DEF Id, OthersKeep
  <2>. QED
    BY <2>1 DEF JournalInv, TransactionInv, OthersKeep, Spent
<1>4. AnswerInv'
  BY DEF JournalInv, AnswerInv, Pending, OthersKeep, Id
<1>. QED
  BY <1>1, <1>2, <1>3, <1>4 DEF JournalInv

\* A step of w that ends its transaction by a rollback.
LEMMA RollbackJournal ==
    ASSUME JournalInv, OnceInv', NEW w \in Worker, OthersKeep(w), OthersSee(w),
           Rollback(w), pc'[w] \in {"idle", "reply"}, ~Pending(w)',
           pc'[w] = "idle" => seen'[w] = <<>>
    PROVE  JournalInv'
<1>0. NoWorker \notin Worker
  BY WorkersAssumption
<1>1. JournalVerifies'
  BY DEF JournalInv, JournalVerifies, Spent, Rollback
<1>2. SeenInv'
  <2>1. \A v \in Worker : v # w => View(v)' = View(v) /\ Id(v)' = Id(v)
    BY <1>0 DEF View, Id, OthersKeep, Rollback
  <2>. QED
    BY <2>1 DEF JournalInv, SeenInv, OthersKeep, OthersSee
<1>3. TransactionInv'
  <2>1. \A v \in Worker : lock' = v =>
          v # w /\ lock = v /\ UNCHANGED <<disk, db>> /\ Id(v)' = Id(v)
    BY <1>0 DEF Id, OthersKeep, Rollback
  <2>. QED
    BY <2>1 DEF JournalInv, TransactionInv, OthersKeep, Spent
<1>4. AnswerInv'
  BY DEF JournalInv, AnswerInv, Pending, OthersKeep, Id, Rollback
<1>. QED
  BY <1>1, <1>2, <1>3, <1>4 DEF JournalInv

\* What a worker that may write finds: the journals it may extend.
LEMMA WritableJournals ==
    ASSUME JournalInv, NEW w \in Worker, MayWrite(w)
    PROVE  /\ \A i \in IntentId :
                /\ LegalJournal(db.journal[i])
                /\ Extends(db.journal[i], disk.journal[i])
                /\ i # Id(w) => db.journal[i] = disk.journal[i]
           /\ pc[w] \notin {"idle", "reply"} =>
                Extends(db.journal[Id(w)], seen[w])
<1>1. CASE lock = w
  BY <1>1 DEF JournalInv, SeenInv, TransactionInv, View
<1>2. CASE lock # w
  <2>1. db = disk /\ View(w) = disk
    BY <1>2 DEF MayWrite, View, JournalInv, OnceInv, LockInv
  <2>2. /\ \A i \in IntentId : disk.journal[i] \in Seq(State)
        /\ pc[w] # "idle" => Id(w) \in IntentId
    BY JournalTypes DEF JournalInv, OnceInv
  <2>3. \A i \in IntentId : Extends(db.journal[i], disk.journal[i])
    BY <2>1, <2>2, ExtendsItself
  <2>4. \A i \in IntentId : LegalJournal(db.journal[i])
    BY <2>1 DEF JournalInv, JournalVerifies
  <2>5. pc[w] \notin {"idle", "reply"} => Extends(db.journal[Id(w)], seen[w])
    BY <2>1 DEF JournalInv, SeenInv
  <2>. QED
    BY <2>1, <2>3, <2>4, <2>5
<1>. QED
  BY <1>1, <1>2

\* A step of w inside its transaction: the journal of its intent is extended
\* or left as it is, and the other workers notice nothing.
LEMMA WriteJournal ==
    ASSUME JournalInv, OnceInv', NEW w \in Worker, OthersKeep(w), OthersSee(w),
           MayWrite(w), disk' = disk, lock' = w, UNCHANGED call,
           pc[w] # "idle", pc'[w] \notin {"idle", "reply"},
           NEW journal \in Seq(State), LegalJournal(journal),
           Extends(journal, db.journal[Id(w)]),
           db'.journal = [db.journal EXCEPT ![Id(w)] = journal],
           Extends(journal, seen'[w]),
           pc'[w] = "commit" /\ result'[w] = "FILLED" /\ w \in Journaled =>
             journal # <<>> /\ LastOf(journal) = "FILLED"
    PROVE  JournalInv'
<1>0. NoWorker \notin Worker /\ TypeInv /\ ~Pending(w)'
  BY WorkersAssumption DEF JournalInv, OnceInv, Pending
<1>1. JournalVerifies'
  BY DEF JournalInv, JournalVerifies, Spent
<1>2. /\ Id(w) \in IntentId /\ Id(w)' = Id(w)
      /\ \A i \in IntentId :
           /\ db.journal[i] \in Seq(State) /\ disk.journal[i] \in Seq(State)
           /\ db'.journal[i] = IF i = Id(w) THEN journal ELSE db.journal[i]
  BY <1>0, JournalTypes DEF TypeInv, TypeOK, Database, Id
<1>3. SeenInv'
  <2>1. View(w)' = db'
    BY DEF View
  <2>2. \A v \in Worker : v # w => View(v)' = View(v) /\ Id(v)' = Id(v)
    BY <1>0 DEF View, Id, OthersKeep, MayWrite
  <2>. QED
    BY <1>2, <2>1, <2>2 DEF JournalInv, SeenInv, OthersKeep, OthersSee
<1>4. TransactionInv'
  <2>1. \A i \in IntentId :
          /\ LegalJournal(db'.journal[i])
          /\ Extends(db'.journal[i], disk.journal[i])
          /\ i # Id(w) => db'.journal[i] = disk.journal[i]
    BY <1>2, WritableJournals, ExtendsTransitive
  <2>. QED
    BY <1>2, <2>1 DEF TransactionInv
<1>5. AnswerInv'
  BY <1>0 DEF JournalInv, AnswerInv, Pending, OthersKeep, Id
<1>. QED
  BY <1>1, <1>3, <1>4, <1>5 DEF JournalInv

\* Reading and writing one step each, until the call commits or raises.
LEMMA RaiseJournal ==
    ASSUME JournalInv, OnceInv', NEW w \in Worker, pc[w] # "idle", Raise(w)
    PROVE  JournalInv'
<1>1. /\ OthersKeep(w) /\ OthersSee(w) /\ Rollback(w)
      /\ pc'[w] = "reply" /\ result'[w] = "RAISED"
  BY DEF Raise, OthersKeep, OthersSee, JournalInv, OnceInv, TypeInv, TypeOK
<1>. QED
  BY <1>1, RollbackJournal DEF Pending

LEMMA CrashJournal ==
    ASSUME JournalInv, NEW w \in Worker, Crash(w), UNCHANGED authority
    PROVE  JournalInv'
<1>1. OnceInv'
  BY CrashOnce DEF JournalInv
<1>2. /\ OthersKeep(w) /\ OthersSee(w) /\ Rollback(w)
      /\ pc'[w] = "idle" /\ seen'[w] = <<>>
  BY DEF Crash, Idle, OthersKeep, OthersSee, JournalInv, OnceInv, TypeInv, TypeOK
<1>. QED
  BY <1>1, <1>2, RollbackJournal DEF Pending

LEMMA JumpJournal ==
    ASSUME JournalInv, OnceInv', NEW w \in Worker, pc[w] \in EarlySteps,
           NEW step \in EarlySteps,
           Goto(w, step) \/ ReadJournal(w, step) \/ Finish(w, "REJECTED")
    PROVE  JournalInv'
<1>1. TypeInv /\ pc[w] \notin {"idle", "reply", "fill"}
  BY DEF JournalInv, OnceInv, EarlySteps
<1>2. /\ UNCHANGED <<disk, db, lock, call>> /\ OthersKeep(w) /\ OthersSee(w)
      /\ pc'[w] \in EarlySteps \cup {"commit"}
      /\ pc'[w] = "commit" => result'[w] = "REJECTED"
      /\ seen'[w] = seen[w] \/ seen'[w] = View(w).journal[Id(w)]
  BY <1>1 DEF Goto, ReadJournal, Finish, OthersKeep, OthersSee, TypeInv, TypeOK, EarlySteps
<1>3. View(w).journal[Id(w)] \in Seq(State) /\ UNCHANGED <<View(w), Id(w)>>
  BY <1>1, <1>2, JournalTypes DEF View, Id
<1>4. Extends(View(w)'.journal[Id(w)'], seen'[w])
  BY <1>1, <1>2, <1>3, ExtendsItself DEF JournalInv, SeenInv
<1>5. pc'[w] \notin {"idle", "reply"}
  BY <1>2 DEF EarlySteps
<1>6. ~(pc'[w] = "commit" /\ result'[w] = "FILLED") /\ ~Pending(w)'
  BY <1>2, <1>5 DEF Pending
<1>. QED
  BY <1>1, <1>2, <1>4, <1>5, <1>6, QuietJournal

LEMMA StartJournal ==
    ASSUME JournalInv, NEW w \in Worker, Start(w), UNCHANGED authority
    PROVE  JournalInv'
<1>1. OnceInv' /\ TypeInv' /\ TypeInv
  BY StartOnce DEF JournalInv, OnceInv
<1>2. /\ pc[w] = "idle" /\ UNCHANGED <<disk, db, lock>>
      /\ result'[w] # "FILLED" /\ pc'[w] # "idle"
      /\ OthersKeep(w) /\ OthersSee(w)
      /\ seen'[w] = <<>> \/ seen'[w] = disk.journal[Id(w)']
  <2>. USE <1>1 DEF Begin, OthersKeep, OthersSee, TypeInv, TypeOK, CallMatches, Id,
                    JournalInv, SeenInv
  <2>1. ASSUME NEW intent \in intents, NEW now \in Time, Record(w, intent, now)
        PROVE  <1>2
    BY <2>1 DEF Record
  <2>2. ASSUME NEW intent \in intents, NEW certificate \in certificates,
               NEW now \in Time, NEW clear \in BOOLEAN,
               Execute(w, intent, certificate, now, clear)
        PROVE  <1>2
    BY <2>2 DEF Execute
  <2>3. ASSUME NEW intent \in intents, NEW certificate \in certificates,
               NEW now \in Time, NEW clear \in BOOLEAN,
               Consume(w, intent, certificate, now, clear)
        PROVE  <1>2
    BY <2>3 DEF Consume
  <2>4. ASSUME NEW intent \in intents, NEW event \in OperatorEvent,
               OperatorAppend(w, intent, event)
        PROVE  <1>2
    BY <2>4 DEF OperatorAppend
  <2>. QED
    BY <2>1, <2>2, <2>3, <2>4 DEF Start
<1>3. lock # w
  BY <1>2 DEF JournalInv, OnceInv, LockInv, EarlySteps
<1>4. Id(w)' \in IntentId /\ disk.journal[Id(w)'] \in Seq(State) /\ View(w)' = disk
  <2>1. Id(w)' \in IntentId
    BY <1>1, <1>2, CallFields DEF TypeInv, CallMatches, Id
  <2>. QED
    BY <1>1, <1>2, <1>3, <2>1, JournalTypes DEF View
<1>5. Extends(View(w)'.journal[Id(w)'], seen'[w])
  BY <1>2, <1>4, ExtendsItself
<1>. QED
  BY <1>1, <1>2, <1>3, <1>5, QuietJournal DEF Pending

LEMMA GrantJournal == JournalInv /\ Grant => JournalInv'
<1>. SUFFICES ASSUME JournalInv, Grant PROVE JournalInv'
  OBVIOUS
<1>1. OnceInv' /\ UNCHANGED Unused
  BY GrantOnce DEF JournalInv, Grant, Authorize, Issue, Build
<1>. QED
  BY <1>1 DEF Unused, JournalInv, JournalVerifies, SeenInv, View,
              TransactionInv, AnswerInv, Pending, Spent, Id

LEMMA StutterJournal == JournalInv /\ UNCHANGED vars => JournalInv'
<1>. SUFFICES ASSUME JournalInv, UNCHANGED vars PROVE JournalInv'
  OBVIOUS
<1>1. OnceInv'
  BY StutterOnce DEF JournalInv
<1>. QED
  BY <1>1 DEF vars, JournalInv, JournalVerifies, SeenInv, View,
              TransactionInv, AnswerInv, Pending, Spent, Id

LEMMA ReplyJournal ==
    ASSUME JournalInv, OnceInv', NEW w \in Worker, Reply(w)
    PROVE  JournalInv'
<1>1. /\ pc[w] = "reply" /\ UNCHANGED <<disk, db, lock>>
      /\ OthersKeep(w) /\ OthersSee(w) /\ pc'[w] = "idle" /\ seen'[w] = <<>>
  BY DEF Reply, Idle, data, OthersKeep, OthersSee, JournalInv, OnceInv, TypeInv, TypeOK
<1>2. lock # w
  BY <1>1 DEF JournalInv, OnceInv, LockInv, EarlySteps
<1>. QED
  BY <1>1, <1>2, QuietJournal DEF Pending

\* The commit: the journals of the transaction become the committed ones.
LEMMA CommitJournal ==
    ASSUME JournalInv, OnceInv', NEW w \in Worker, Commit(w)
    PROVE  JournalInv'
<1>0. /\ NoWorker \notin Worker /\ TypeInv /\ OthersKeep(w) /\ UNCHANGED <<call, db, seen, result>>
      /\ pc[w] = "commit" /\ pc'[w] = "reply" /\ Id(w) \in IntentId
      /\ \A v \in Worker : Id(v)' = Id(v)
  BY WorkersAssumption, JournalTypes
     DEF Commit, OthersKeep, JournalInv, OnceInv, TypeInv, TypeOK, Id
<1>1. CASE lock # w
  <2>1. UNCHANGED <<disk, lock>>
    BY <1>1 DEF Commit
  <2>2. ~(Pending(w)' /\ w \in Journaled)
    BY <1>0, <1>1 DEF Pending, JournalInv, OnceInv, FlightInv, InFlight
  <2>3. JournalVerifies'
    BY <2>1 DEF JournalInv, JournalVerifies, Spent
  <2>4. SeenInv'
    BY <1>0, <2>1 DEF JournalInv, SeenInv, View, OthersKeep
  <2>5. TransactionInv'
    BY <1>0, <1>1, <2>1 DEF JournalInv, TransactionInv, Spent, OthersKeep
  <2>6. AnswerInv'
    BY <1>0, <2>1, <2>2 DEF JournalInv, AnswerInv, Pending, OthersKeep
  <2>. QED
    BY <2>3, <2>4, <2>5, <2>6 DEF JournalInv
<1>2. CASE lock = w
  <2>1. disk' = db /\ lock' = NoWorker
    BY <1>2 DEF Commit
  <2>2. \A i \in IntentId :
          /\ disk.journal[i] \in Seq(State) /\ db.journal[i] \in Seq(State)
          /\ LegalJournal(db.journal[i])
          /\ Extends(db.journal[i], disk.journal[i])
          /\ i # Id(w) => db.journal[i] = disk.journal[i]
    BY <1>0, <1>2, JournalTypes DEF JournalInv, TransactionInv
  <2>3. JournalVerifies'
    BY <2>1, <2>2 DEF JournalVerifies
  <2>6. SeenInv'
    <3>1. ASSUME NEW v \in Worker, v # w, pc[v] \notin {"idle", "reply"}
          PROVE  Extends(db.journal[Id(v)], seen[v])
      <4>1. Extends(disk.journal[Id(v)], seen[v])
        BY <1>2, <3>1 DEF JournalInv, SeenInv, View
      <4>2. seen[v] \in Seq(State) /\ Id(v) \in IntentId
        BY <1>0, <3>1, JournalTypes
      <4>. QED
        BY <2>2, <4>1, <4>2, ExtendsTransitive
    <3>2. \A v \in Worker : View(v)' = db
      BY <1>0, <2>1 DEF View
    <3>. QED
      BY <1>0, <3>1, <3>2 DEF SeenInv, JournalInv, OthersKeep
  <2>7. TransactionInv'
    BY <1>0, <2>1 DEF TransactionInv
  <2>8. AnswerInv'
    <3>1. ASSUME NEW v \in Worker, v # w, Pending(v), v \in Journaled
          PROVE  db.journal[Id(v)] # <<>> /\ LastOf(db.journal[Id(v)]) = "FILLED"
      <4>1. /\ disk.journal[Id(v)] # <<>> /\ LastOf(disk.journal[Id(v)]) = "FILLED"
            /\ Id(v) \in IntentId
        BY <1>0, <3>1, JournalTypes DEF JournalInv, AnswerInv, Pending
      <4>2. db.journal[Id(v)] = disk.journal[Id(v)]
        BY <2>2, <4>1, ClosedIsComplete DEF Terminal
      <4>. QED
        BY <4>1, <4>2
    <3>2. result[w] = "FILLED" /\ w \in Journaled =>
            db.journal[Id(w)] # <<>> /\ LastOf(db.journal[Id(w)]) = "FILLED"
      BY <1>0, <1>2 DEF JournalInv, TransactionInv
    <3>. QED
      BY <1>0, <2>1, <3>1, <3>2 DEF AnswerInv, Pending, OthersKeep
  <2>. QED
    BY <2>3, <2>6, <2>7, <2>8 DEF JournalInv
<1>. QED
  BY <1>1, <1>2

\* append_in_transaction.
LEMMA AppendJournal ==
    ASSUME JournalInv, OnceInv', NEW w \in Worker, pc[w] \notin {"idle", "reply"},
           NEW s \in State, NEW step, step \notin {"idle", "reply"}, NEW value,
           AppendEvent(w, s, step, value),
           step = "commit" /\ value = "FILLED" => s = "FILLED"
    PROVE  JournalInv'
<1>1. CASE Raise(w)
  BY <1>1, RaiseJournal
<1>2. CASE ~Raise(w)
  <2>. DEFINE before == db.journal[Id(w)]
              journal == Append(before, s)
  <2>0. TypeInv /\ Id(w) \in IntentId /\ before \in Seq(State) /\ seen[w] \in Seq(State)
    BY JournalTypes DEF JournalInv, OnceInv
  <2>1. /\ MayWrite(w) /\ CanAppend(seen[w], s) /\ Len(before) = Len(seen[w])
        /\ lock' = w /\ db' = [db EXCEPT !.journal[Id(w)] = Append(@, s)]
        /\ seen' = [seen EXCEPT ![w] = Append(seen[w], s)]
        /\ pc' = [pc EXCEPT ![w] = step]
        /\ result' = [result EXCEPT ![w] = value]
        /\ UNCHANGED <<disk, call, delivered>>
    BY <1>2, <2>0, AppendEventCases
  <2>2. /\ LegalJournal(before) /\ Extends(before, seen[w])
    BY <2>0, <2>1, WritableJournals
  <2>3. before = seen[w]
    BY <2>0, <2>1, <2>2, SameLengthSame
  <2>4. journal \in Seq(State) /\ LegalJournal(journal)
    BY <2>0, <2>1, <2>2, <2>3, LegalAppend
  <2>5. Extends(journal, before) /\ Extends(journal, journal)
    BY <2>0, <2>4, ExtendsItself, ExtendsAppend
  <2>6. journal # <<>> /\ LastOf(journal) = s
    BY <2>0 DEF LastOf
  <2>7. db'.journal = [db.journal EXCEPT ![Id(w)] = journal] /\ db'.store = db.store
    BY <2>0, <2>1 DEF TypeInv, TypeOK, Database
  <2>8. /\ OthersKeep(w) /\ OthersSee(w)
        /\ pc'[w] = step /\ result'[w] = value /\ seen'[w] = journal
    BY <2>0, <2>1, <2>3 DEF OthersKeep, OthersSee, TypeInv, TypeOK
  <2>. HIDE DEF before, journal
  <2>. QED
    BY <2>1, <2>4, <2>5, <2>6, <2>7, <2>8, WriteJournal DEF before
<1>. QED
  BY <1>1, <1>2

\* The writes to the store leave the journals alone.
LEMMA StoreJournal ==
    ASSUME JournalInv, OnceInv', NEW w \in Worker, OthersKeep(w), OthersSee(w),
           MayWrite(w), disk' = disk, lock' = w, UNCHANGED call,
           pc[w] \in {"insert", "consume"}, pc'[w] \in {"settle", "commit"},
           ~(pc'[w] = "commit" /\ result'[w] = "FILLED" /\ w \in Journaled),
           NEW record \in IntentRecord, RecordStep(db.store[Id(w)], record),
           db' = [db EXCEPT !.store[Id(w)] = record],
           Extends(db.journal[Id(w)], seen'[w])
    PROVE  JournalInv'
<1>. DEFINE journal == db.journal[Id(w)]
<1>1. TypeInv /\ Id(w) \in IntentId /\ journal \in Seq(State)
  BY JournalTypes DEF JournalInv, OnceInv
<1>2. /\ db'.journal = [db.journal EXCEPT ![Id(w)] = journal]
      /\ db'.store[Id(w)] = record
  BY <1>1 DEF TypeInv, TypeOK, Database
<1>4. LegalJournal(journal) /\ Extends(journal, journal)
  BY <1>1, WritableJournals, ExtendsItself
<1>6. pc[w] # "idle" /\ pc'[w] \notin {"idle", "reply"}
  OBVIOUS
<1>. HIDE DEF journal
<1>. QED
  BY <1>1, <1>2, <1>4, <1>6, WriteJournal DEF journal

LEMMA InsertJournal ==
    ASSUME JournalInv, OnceInv', NEW w \in Worker, Insert(w)
    PROVE  JournalInv'
<1>1. CASE Raise(w)
  BY <1>1, RaiseJournal DEF Insert
<1>2. CASE ~Raise(w)
  <2>. DEFINE row == [status |-> "CREATED", intent |-> call[w].intent,
                      updated |-> call[w].now]
  <2>1. TypeInv /\ call[w] \in Call /\ call[w].op = "record"
    BY DEF Insert, JournalInv, OnceInv, TypeInv, CallMatches
  <2>2. row \in IntentRecord /\ row.status = "CREATED"
    BY <2>1, CallFields DEF IntentRecord
  <2>3. /\ pc[w] = "insert" /\ MayWrite(w) /\ lock' = w
        /\ db.store[Id(w)] = NoRecord
        /\ db' = [db EXCEPT !.store[Id(w)] = row]
        /\ pc' = [pc EXCEPT ![w] = "commit"]
        /\ result' = [result EXCEPT ![w] = "RECORDED"]
        /\ UNCHANGED <<disk, call, seen, delivered>>
    BY <1>2 DEF Insert
  <2>. HIDE DEF row
  <2>4. RecordStep(db.store[Id(w)], row)
    BY <2>2, <2>3 DEF RecordStep
  <2>5. /\ OthersKeep(w) /\ OthersSee(w)
        /\ pc'[w] = "commit" /\ result'[w] = "RECORDED" /\ seen'[w] = seen[w]
    BY <2>1, <2>3 DEF OthersKeep, OthersSee, TypeInv, TypeOK
  <2>6. Extends(db.journal[Id(w)], seen'[w])
    BY <2>3, <2>5, WritableJournals
  <2>. QED
    BY <2>2, <2>3, <2>4, <2>5, <2>6, StoreJournal
<1>. QED
  BY <1>1, <1>2

LEMMA ConsumeJournal ==
    ASSUME JournalInv, OnceInv', NEW w \in Worker, ConsumeInTransaction(w)
    PROVE  JournalInv'
<1>1. CASE Raise(w)
  BY <1>1, RaiseJournal DEF ConsumeInTransaction
<1>2. CASE ~Raise(w)
  <2>1. /\ pc[w] = "consume" /\ MayWrite(w) /\ lock' = w
        /\ Consumable(db.store[Id(w)], call[w])
        /\ db' = [db EXCEPT !.store[Id(w)] = ConsumedRecord(call[w])]
        /\ seen' = [seen EXCEPT ![w] = db.journal[Id(w)]]
        /\ pc' = [pc EXCEPT ![w] = AfterConsume(w)]
        /\ result' = [result EXCEPT ![w] =
              IF call[w].op = "consume" THEN "CONSUMED"
              ELSE IF w \in Journaled THEN "none" ELSE "FILLED"]
        /\ UNCHANGED <<disk, call, delivered>>
    BY <1>2 DEF ConsumeInTransaction
  <2>2. /\ TypeInv /\ call[w] \in Call /\ call[w].op \in {"execute", "consume"}
        /\ db.journal[Id(w)] \in Seq(State)
    BY <2>1, JournalTypes DEF JournalInv, OnceInv, TypeInv, CallMatches
  <2>3. /\ ConsumedRecord(call[w]) \in IntentRecord
        /\ ConsumedRecord(call[w]).status = "CONSUMED"
        /\ ConsumedRecord(call[w]).intent = call[w].intent
    BY <2>2, CallFields DEF ConsumedRecord, IntentRecord
  <2>4. RecordStep(db.store[Id(w)], ConsumedRecord(call[w]))
    BY <2>1, <2>3 DEF Consumable, RecordStep
  <2>5. /\ OthersKeep(w) /\ OthersSee(w)
        /\ pc'[w] \in {"settle", "commit"} /\ seen'[w] = db.journal[Id(w)]
        /\ result'[w] = "FILLED" => w \notin Journaled
    BY <2>1, <2>2 DEF AfterConsume, OthersKeep, OthersSee, TypeInv, TypeOK
  <2>6. Extends(db.journal[Id(w)], seen'[w])
    BY <2>2, <2>5, ExtendsItself
  <2>. QED
    BY <2>1, <2>3, <2>4, <2>5, <2>6, StoreJournal
<1>. QED
  BY <1>1, <1>2

LEMMA AdvanceJournal ==
    ASSUME JournalInv, NEW w \in Worker, Advance(w), UNCHANGED authority
    PROVE  JournalInv'
<1>1. OnceInv'
  BY AdvanceOnce DEF JournalInv
<1>. USE <1>1
<1>2. CASE Insert(w)
  BY <1>2, InsertJournal
<1>3. CASE ConsumeInTransaction(w)
  BY <1>3, ConsumeJournal
<1>4. CASE Commit(w)
  BY <1>4, CommitJournal
<1>5. CASE Reply(w)
  BY <1>5, ReplyJournal
<1>6. CASE Busy(w)
  BY <1>6, RaiseJournal DEF Busy
<1>7. CASE Judge(w)
  <2>1. PICK step \in {"lookup", "reject"} : Goto(w, step)
    BY <1>7 DEF Judge
  <2>. QED
    BY <1>7, <2>1, JumpJournal DEF Judge, EarlySteps
<1>8. CASE Lookup(w)
  <2>1. Finish(w, "REJECTED") \/ \E step \in {"reject", "stage", "consume"} : Goto(w, step)
    BY <1>8 DEF Lookup
  <2>2. pc[w] \in EarlySteps
    BY <1>8 DEF Lookup, EarlySteps
  <2>. QED
    BY <2>1, <2>2, JumpJournal DEF EarlySteps
<1>9. CASE Reject(w)
  BY <1>9, JumpJournal DEF Reject, EarlySteps
<1>10. CASE Stage(w)
  BY <1>10, JumpJournal DEF Stage, EarlySteps
<1>11. CASE Open(w)
  BY <1>11, AppendJournal DEF Open, State
<1>12. CASE Refuse(w)
  BY <1>12, AppendJournal DEF Refuse, State
<1>13. CASE Validate(w)
  BY <1>13, AppendJournal DEF Validate, State
<1>14. CASE AdmitStep(w)
  BY <1>14, AppendJournal DEF AdmitStep, State
<1>15. CASE Settle(w)
  BY <1>15, AppendJournal DEF Settle, State
<1>16. CASE FillStep(w)
  BY <1>16, AppendJournal DEF FillStep, State
<1>17. CASE AppendStep(w)
  <2>1. call[w] \in Call /\ call[w].op = "append"
    BY <1>17 DEF AppendStep, JournalInv, OnceInv, TypeInv, CallMatches
  <2>2. call[w].event \in State
    BY <2>1, CallFields
  <2>. QED
    BY <1>17, <2>2, AppendJournal DEF AppendStep
<1>. QED
  BY <1>2, <1>3, <1>4, <1>5, <1>6, <1>7, <1>8, <1>9, <1>10, <1>11, <1>12, <1>13,
     <1>14, <1>15, <1>16, <1>17 DEF Advance

LEMMA InitJournal == Init => JournalInv
<1>. SUFFICES ASSUME Init PROVE JournalInv
  OBVIOUS
<1>1. OnceInv
  BY InitOnce
<1>2. JournalVerifies
  BY DEF Init, EmptyDatabase, JournalVerifies, LegalJournal
<1>3. SeenInv /\ TransactionInv /\ AnswerInv
  BY WorkersAssumption DEF Init, SeenInv, TransactionInv, AnswerInv, Pending
<1>. QED
  BY <1>1, <1>2, <1>3 DEF JournalInv

\* What the journals of all transactions, reads and answers under way look
\* like: the strengthening of the journal's properties is inductive.
THEOREM JournalInvariant == Spec => []JournalInv
<1>1. Init => JournalInv
  BY InitJournal
<1>2. JournalInv /\ [Next]_vars => JournalInv'
  BY StutterJournal, GrantJournal, StartJournal, AdvanceJournal, CrashJournal DEF Next
<1>. QED
  BY <1>1, <1>2, PTL DEF Spec

\* Every committed journal passes SandboxExecutionJournal.verify, although
\* its events were chosen from stale reads (code: the primary key (intent_id,
\* sequence) refuses what was chosen for another end of the journal).
THEOREM VerifiableJournals == Spec => []JournalVerifies
<1>1. JournalInv => JournalVerifies
  BY DEF JournalInv
<1>. QED
  BY <1>1, JournalInvariant, PTL

\* Only a commit changes the database, and only by what its call wrote.
LEMMA CommittedChange ==
    ASSUME JournalInv, [Next]_vars
    PROVE  \/ disk' = disk
           \/ \E w \in Worker : lock = w /\ pc[w] = "commit" /\ disk' = db
<1>1. UNCHANGED vars \/ Grant => disk' = disk
  BY DEF vars, Grant, Authorize, Issue, Build, Unused
<1>2. ASSUME NEW w \in Worker, Start(w) \/ Advance(w) \/ Crash(w)
      PROVE  disk' = disk \/ (lock = w /\ pc[w] = "commit" /\ disk' = db)
  BY <1>2, OnlyCommitAndReplyShow DEF Commit, Reply, data
<1>. QED
  BY <1>1, <1>2 DEF Next

\* Committed events are never changed or removed, and a record goes from
\* CREATED to CONSUMED once, for the same intent (code: no UPDATE or DELETE on
\* the journal, and the WHERE clause of the one UPDATE on the store).
THEOREM CommittedOnlyGrows == Spec => AppendOnly
<1>. DEFINE Grown(i) ==
               /\ Len(disk.journal[i]) <= Len(disk'.journal[i])
               /\ SubSeq(disk'.journal[i], 1, Len(disk.journal[i])) = disk.journal[i]
               /\ \/ disk'.store[i] = disk.store[i]
                  \/ disk.store[i] = NoRecord /\ disk'.store[i].status = "CREATED"
                  \/ /\ disk.store[i] # NoRecord
                     /\ disk.store[i].status = "CREATED"
                     /\ disk'.store[i].status = "CONSUMED"
                     /\ disk'.store[i].intent = disk.store[i].intent
<1>1. ASSUME JournalInv, [Next]_vars, NEW i \in IntentId
      PROVE  Grown(i)
  <2>1. TypeInv /\ disk.journal[i] \in Seq(State) /\ db.journal[i] \in Seq(State)
    BY <1>1, JournalTypes DEF JournalInv, OnceInv
  <2>2. Extends(disk.journal[i], disk.journal[i])
    BY <2>1, ExtendsItself
  <2>3. ASSUME NEW later \in Seq(State), Extends(later, disk.journal[i])
        PROVE  /\ Len(disk.journal[i]) <= Len(later)
               /\ SubSeq(later, 1, Len(disk.journal[i])) = disk.journal[i]
    BY <2>1, <2>3 DEF Extends
  <2>4. CASE disk' = disk
    BY <2>1, <2>2, <2>3, <2>4
  <2>5. ASSUME NEW w \in Worker, lock = w, pc[w] = "commit", disk' = db
        PROVE  Grown(i)
    <3>1. Extends(db.journal[i], disk.journal[i])
      BY <1>1, <2>5 DEF JournalInv, TransactionInv
    <3>2. CASE db.store = disk.store
      BY <2>1, <2>3, <2>5, <3>1, <3>2
    <3>3. CASE db.store # disk.store
      <4>1. PICK record \in IntentRecord :
              /\ RecordStep(disk.store[Id(w)], record)
              /\ db.store = [disk.store EXCEPT ![Id(w)] = record]
        BY <1>1, <2>5, <3>3 DEF JournalInv, OnceInv, StoreInv
      <4>2. db.store[i] = IF i = Id(w) THEN record ELSE disk.store[i]
        BY <2>1, <4>1 DEF TypeInv, TypeOK, Database
      <4>. QED
        BY <2>1, <2>3, <2>5, <3>1, <4>1, <4>2 DEF RecordStep
    <3>. QED
      BY <3>2, <3>3
  <2>. QED
    BY <1>1, <2>4, <2>5, CommittedChange
<1>2. JournalInv /\ [Next]_vars => \A i \in IntentId : Grown(i)
  BY <1>1
<1>. QED
  BY <1>2, JournalInvariant, PTL DEF Spec, AppendOnly

\* With a journal on every adapter, an intent closed without a fill is never
\* filled: not even by an execution under way, which finds the end of the
\* journal taken and rolls its consumption back.
THEOREM ClosedStaysClosed ==
    ASSUME Journaled = Worker
    PROVE  Spec => ClosedNeverFills
<1>1. ASSUME JournalInv, [Next]_vars
      PROVE  \A i \in IntentId :
               /\ disk.journal[i] # <<>>
               /\ LastOf(disk.journal[i]) \in Terminal \ {"FILLED"}
               => delivered'[i] = delivered[i]
  <2>. SUFFICES ASSUME NEW i \in IntentId, disk.journal[i] # <<>>,
                       LastOf(disk.journal[i]) # "FILLED"
                PROVE  delivered'[i] = delivered[i]
    OBVIOUS
  <2>1. UNCHANGED vars \/ Grant => delivered' = delivered
    BY DEF vars, Grant, Authorize, Issue, Build, Unused
  <2>2. ASSUME NEW w \in Worker, Start(w) \/ Advance(w) \/ Crash(w)
        PROVE  delivered'[i] = delivered[i]
    <3>1. CASE ~Reply(w)
      BY <2>2, <3>1, OnlyCommitAndReplyShow DEF Commit
    <3>2. CASE Reply(w) /\ result[w] # "FILLED"
      BY <3>2 DEF Reply
    <3>3. CASE Reply(w) /\ result[w] = "FILLED"
      <4>1. Pending(w)
        BY <3>3 DEF Reply, Pending
      <4>2. Id(w) # i
        BY <1>1, <4>1 DEF JournalInv, AnswerInv
      <4>. QED
        BY <1>1, <3>3, <4>2 DEF Reply, JournalInv, OnceInv, TypeInv, TypeOK
    <3>. QED
      BY <3>1, <3>2, <3>3
  <2>. QED
    BY <1>1, <2>1, <2>2 DEF Next
<1>. QED
  BY <1>1, JournalInvariant, PTL DEF Spec, ClosedNeverFills
-----------------------------------------------------------------------------
(* Store and journal as one unit *)

\* The outcome events the transaction of w has added to its journal.
Fresh(w) ==
    {k \in Len(disk.journal[Id(w)]) + 1 .. Len(db.journal[Id(w)]) :
        db.journal[Id(w)][k] \in Outcome}

\* The transaction of an execution shows no part of a fill until it has
\* consumed its intent; then it owes CONSUMED, then FILLED, then the commit.
OutcomeOf(w) ==
    LET journal == db.journal[Id(w)]
    IN  /\ pc[w] \in EarlySteps \cup {"settle"} => Fresh(w) = {}
        /\ pc[w] = "fill" =>
             /\ Fresh(w) = {Len(journal)}
             /\ journal[Len(journal)] = "CONSUMED"
        /\ pc[w] = "commit" /\ result[w] # "FILLED" =>
             Fresh(w) = {} /\ db.store = disk.store
        /\ pc[w] = "commit" /\ result[w] = "FILLED" =>
             /\ Fresh(w) = {Len(journal) - 1, Len(journal)}
             /\ journal[Len(journal) - 1] = "CONSUMED"
             /\ journal[Len(journal)] = "FILLED"

OutcomeInv ==
    \A w \in Journaled : lock = w /\ call[w].op = "execute" => OutcomeOf(w)

AtomicInv == JournalInv /\ OutcomeInv

\* A step of w concerns the transaction of w alone.
LEMMA OutcomeStep ==
    ASSUME OutcomeInv, NEW w \in Worker, OthersKeep(w),
           \A v \in Worker : v # w /\ lock' = v => lock = v /\ UNCHANGED <<disk, db>>,
           w \in Journaled /\ lock' = w /\ call'[w].op = "execute" => OutcomeOf(w)'
    PROVE  OutcomeInv'
<1>1. ASSUME NEW v \in Journaled, v # w, lock' = v, call'[v].op = "execute"
      PROVE  OutcomeOf(v)'
  <2>1. v \in Worker
    BY WorkersAssumption
  <2>2. /\ lock = v /\ UNCHANGED <<disk, db>>
        /\ pc'[v] = pc[v] /\ call'[v] = call[v] /\ result'[v] = result[v]
    BY <1>1, <2>1 DEF OthersKeep
  <2>3. OutcomeOf(v) /\ Id(v)' = Id(v)
    BY <1>1, <2>2 DEF OutcomeInv, Id
  <2>4. Fresh(v)' = Fresh(v)
    BY <2>2, <2>3 DEF Fresh
  <2>. QED
    BY <2>2, <2>3, <2>4 DEF OutcomeOf
<1>. QED
  BY <1>1 DEF OutcomeInv

\* A step after which w is in no transaction.
LEMMA OutcomeGone ==
    ASSUME AtomicInv, NEW w \in Worker, OthersKeep(w), lock' # w,
           lock' # lock => lock' = NoWorker,
           lock' = lock => UNCHANGED <<disk, db>>
    PROVE  OutcomeInv'
<1>1. NoWorker \notin Worker
  BY WorkersAssumption
<1>. QED
  BY <1>1, OutcomeStep DEF AtomicInv

\* What an execution finds before its first outcome event.
LEMMA NothingFresh ==
    ASSUME AtomicInv, NEW w \in Journaled, MayWrite(w), call[w].op = "execute",
           pc[w] \in EarlySteps \cup {"open", "settle"}
    PROVE  Fresh(w) = {} /\ Id(w) \in IntentId
           /\ disk.journal[Id(w)] \in Seq(State) /\ db.journal[Id(w)] \in Seq(State)
<1>1. w \in Worker /\ pc[w] # "idle"
  BY WorkersAssumption DEF EarlySteps
<1>2. /\ Id(w) \in IntentId
      /\ disk.journal[Id(w)] \in Seq(State) /\ db.journal[Id(w)] \in Seq(State)
  BY <1>1, JournalTypes DEF AtomicInv, JournalInv, OnceInv
<1>3. CASE lock = w
  <2>1. pc[w] # "open"
    BY <1>1, <1>3 DEF AtomicInv, JournalInv, OnceInv, LockInv, EarlySteps
  <2>. QED
    BY <1>2, <1>3, <2>1 DEF AtomicInv, OutcomeInv, OutcomeOf
<1>4. CASE lock # w
  <2>1. db = disk
    BY <1>4 DEF MayWrite, AtomicInv, JournalInv, OnceInv, LockInv
  <2>. QED
    BY <1>2, <2>1 DEF Fresh
<1>. QED
  BY <1>3, <1>4

\* An event added is the only change of what is fresh.
LEMMA FreshAppend ==
    ASSUME NEW before \in Seq(State), NEW journal \in Seq(State), NEW s \in State,
           Len(before) <= Len(journal)
    PROVE  {k \in Len(before) + 1 .. Len(Append(journal, s)) :
              Append(journal, s)[k] \in Outcome}
           = {k \in Len(before) + 1 .. Len(journal) : journal[k] \in Outcome}
             \cup (IF s \in Outcome THEN {Len(journal) + 1} ELSE {})
<1>1. /\ Len(Append(journal, s)) = Len(journal) + 1
      /\ Append(journal, s)[Len(journal) + 1] = s
      /\ \A k \in 1 .. Len(journal) : Append(journal, s)[k] = journal[k]
  OBVIOUS
<1>2. Len(before) \in Nat /\ Len(journal) \in Nat
  OBVIOUS
<1>. HIDE DEF Outcome, State
<1>. QED
  BY <1>1, <1>2

\* The steps before the consumption that only read.
LEMMA JumpOutcome ==
    ASSUME AtomicInv, NEW w \in Worker, pc[w] \in EarlySteps,
           NEW step \in EarlySteps,
           Goto(w, step) \/ ReadJournal(w, step) \/ Finish(w, "REJECTED")
    PROVE  OutcomeInv'
<1>1. /\ UNCHANGED <<disk, db, lock, call>> /\ OthersKeep(w)
      /\ pc'[w] \in EarlySteps \cup {"commit"}
      /\ pc'[w] = "commit" => result'[w] # "FILLED"
  BY DEF Goto, ReadJournal, Finish, OthersKeep, AtomicInv, JournalInv, OnceInv,
         TypeInv, TypeOK, EarlySteps
<1>2. ASSUME w \in Journaled, lock' = w, call'[w].op = "execute"
      PROVE  OutcomeOf(w)'
  <2>1. Fresh(w) = {} /\ db.store = disk.store
    BY <1>1, <1>2 DEF AtomicInv, OutcomeInv, OutcomeOf, JournalInv, OnceInv, StoreInv
  <2>2. Fresh(w)' = {}
    BY <1>1, <2>1 DEF Fresh, Id
  <2>. QED
    BY <1>1, <2>1, <2>2 DEF OutcomeOf, EarlySteps
<1>. QED
  BY <1>1, <1>2, OutcomeStep DEF AtomicInv

\* The compare-and-set leaves the journal to the two events that follow.
LEMMA ConsumeOutcome ==
    ASSUME AtomicInv, NEW w \in Worker, ConsumeInTransaction(w), ~Raise(w)
    PROVE  OutcomeInv'
<1>1. /\ pc[w] = "consume" /\ MayWrite(w) /\ lock' = w
      /\ db' = [db EXCEPT !.store[Id(w)] = ConsumedRecord(call[w])]
      /\ pc' = [pc EXCEPT ![w] = AfterConsume(w)]
      /\ UNCHANGED <<disk, call>>
      /\ result' = [result EXCEPT ![w] =
            IF call[w].op = "consume" THEN "CONSUMED"
            ELSE IF w \in Journaled THEN "none" ELSE "FILLED"]
  BY DEF ConsumeInTransaction
<1>2. OthersKeep(w) /\ pc'[w] = AfterConsume(w) /\ db'.journal = db.journal
  BY <1>1 DEF OthersKeep, AtomicInv, JournalInv, OnceInv, TypeInv, TypeOK, Database
<1>3. ASSUME w \in Journaled, call'[w].op = "execute" PROVE OutcomeOf(w)'
  <2>1. Fresh(w) = {}
    BY <1>1, <1>3, NothingFresh DEF EarlySteps
  <2>2. Fresh(w)' = {}
    BY <1>1, <1>2, <2>1 DEF Fresh, Id
  <2>3. pc'[w] = "settle"
    BY <1>1, <1>2, <1>3 DEF AfterConsume
  <2>. QED
    BY <2>2, <2>3 DEF OutcomeOf
<1>4. NoWorker \notin Worker
  BY WorkersAssumption
<1>. QED
  BY <1>1, <1>2, <1>3, <1>4, OutcomeStep DEF AtomicInv, MayWrite

\* append_in_transaction within an execution: at "fill" it adds FILLED behind
\* the CONSUMED of "settle", and nowhere else an outcome.
LEMMA AppendOutcome ==
    ASSUME AtomicInv, NEW w \in Worker, NEW s \in State, NEW step, NEW value,
           AppendEvent(w, s, step, value), ~Raise(w),
           call[w].op = "execute" =>
             \/ /\ pc[w] \in EarlySteps \cup {"open"} /\ s \notin Outcome
                /\ step \in EarlySteps \/ (step = "commit" /\ value # "FILLED")
             \/ pc[w] = "settle" /\ s = "CONSUMED" /\ step = "fill"
             \/ /\ pc[w] = "fill" /\ s = "FILLED" /\ step = "commit"
                /\ value = "FILLED",
           pc[w] # "idle"
    PROVE  OutcomeInv'
<1>1. TypeInv /\ Id(w) \in IntentId /\ NoWorker \notin Worker
      /\ disk.journal[Id(w)] \in Seq(State) /\ db.journal[Id(w)] \in Seq(State)
  BY JournalTypes, WorkersAssumption DEF AtomicInv, JournalInv, OnceInv
<1>2. /\ MayWrite(w) /\ lock' = w
      /\ db' = [db EXCEPT !.journal[Id(w)] = Append(@, s)]
      /\ pc' = [pc EXCEPT ![w] = step]
      /\ result' = [result EXCEPT ![w] = value]
      /\ UNCHANGED <<disk, call, delivered>>
  BY <1>1, AppendEventCases
<1>3. /\ OthersKeep(w) /\ pc'[w] = step /\ result'[w] = value
      /\ db'.journal[Id(w)] = Append(db.journal[Id(w)], s)
      /\ db'.store = db.store /\ Id(w)' = Id(w)
  BY <1>1, <1>2 DEF OthersKeep, TypeInv, TypeOK, Database, Id
<1>4. ASSUME w \in Journaled, call'[w].op = "execute" PROVE OutcomeOf(w)'
  <2>. DEFINE journal == db.journal[Id(w)]
              n == Len(journal)
  <2>1. Len(disk.journal[Id(w)]) <= n /\ n \in Nat
    BY <1>1, <1>2, WritableJournals DEF AtomicInv, Extends
  <2>2. Fresh(w)' = Fresh(w) \cup (IF s \in Outcome THEN {n + 1} ELSE {})
    BY <1>1, <1>2, <1>3, <2>1, FreshAppend DEF Fresh
  <2>3. /\ Len(Append(journal, s)) = n + 1 /\ Append(journal, s)[n + 1] = s
        /\ n > 0 => Append(journal, s)[n] = journal[n]
    BY <1>1
  <2>4. CASE pc[w] \in EarlySteps \cup {"open"}
    <3>1. Fresh(w) = {}
      BY <1>2, <1>4, <2>4, NothingFresh
    <3>2. s \notin Outcome
          /\ (step \in EarlySteps \/ (step = "commit" /\ value # "FILLED"))
      BY <1>2, <1>4, <2>4 DEF EarlySteps
    <3>3. Fresh(w)' = {}
      BY <2>2, <3>1, <3>2
    <3>4. db.store = disk.store
      BY <1>2, <2>4 DEF AtomicInv, JournalInv, OnceInv, LockInv, StoreInv, MayWrite,
                        EarlySteps
    <3>. QED
      BY <1>2, <1>3, <3>2, <3>3, <3>4 DEF OutcomeOf, EarlySteps
  <2>5. CASE pc[w] = "settle"
    <3>1. Fresh(w) = {}
      BY <1>2, <1>4, <2>5, NothingFresh
    <3>2. s = "CONSUMED" /\ step = "fill"
      BY <1>2, <1>4, <2>5 DEF EarlySteps
    <3>3. Fresh(w)' = {n + 1}
      BY <2>2, <3>1, <3>2 DEF Outcome
    <3>. QED
      BY <1>3, <2>3, <3>2, <3>3 DEF OutcomeOf, EarlySteps
  <2>6. CASE pc[w] = "fill"
    <3>1. lock = w
      BY <2>6 DEF AtomicInv, JournalInv, OnceInv, FlightInv, InFlight
    <3>2. Fresh(w) = {n} /\ journal[n] = "CONSUMED"
      BY <1>2, <1>4, <2>6, <3>1 DEF AtomicInv, OutcomeInv, OutcomeOf
    <3>3. s = "FILLED" /\ step = "commit" /\ value = "FILLED"
      BY <1>2, <1>4, <2>6 DEF EarlySteps
    <3>4. n > 0
      BY <1>1, <2>1, <3>2 DEF Fresh
    <3>5. Fresh(w)' = {n, n + 1}
      BY <2>2, <3>2, <3>3 DEF Outcome
    <3>6. n = (n + 1) - 1
      BY <2>1
    <3>. QED
      BY <1>3, <2>3, <3>2, <3>3, <3>4, <3>5, <3>6 DEF OutcomeOf, EarlySteps
  <2>. QED
    BY <1>2, <1>4, <2>4, <2>5, <2>6
<1>. QED
  BY <1>1, <1>2, <1>3, <1>4, OutcomeStep DEF AtomicInv, MayWrite

LEMMA RaiseOutcome ==
    ASSUME AtomicInv, NEW w \in Worker, Raise(w) \/ Crash(w)
    PROVE  OutcomeInv'
<1>1. NoWorker \notin Worker
  BY WorkersAssumption
<1>2. OthersKeep(w) /\ Rollback(w)
  BY DEF Raise, Crash, Idle, OthersKeep, AtomicInv, JournalInv, OnceInv, TypeInv, TypeOK
<1>. QED
  BY <1>1, <1>2, OutcomeGone DEF Rollback

LEMMA AdvanceOutcome ==
    ASSUME AtomicInv, NEW w \in Worker, Advance(w)
    PROVE  OutcomeInv'
<1>0. TypeInv /\ CallMatches(w) /\ NoWorker \notin Worker
  BY WorkersAssumption DEF AtomicInv, JournalInv, OnceInv, TypeInv
<1>1. CASE Raise(w)
  BY <1>1, RaiseOutcome
<1>. SUFFICES ASSUME ~Raise(w) PROVE OutcomeInv'
  BY <1>1
<1>2. CASE Insert(w)
  <2>1. /\ pc[w] = "insert" /\ MayWrite(w) /\ lock' = w /\ UNCHANGED <<disk, call>>
        /\ pc' = [pc EXCEPT ![w] = "commit"]
        /\ result' = [result EXCEPT ![w] = "RECORDED"]
    BY <1>2 DEF Insert
  <2>2. OthersKeep(w) /\ call'[w].op # "execute"
    BY <1>0, <2>1 DEF OthersKeep, CallMatches, TypeInv, TypeOK
  <2>. QED
    BY <1>0, <2>1, <2>2, OutcomeStep DEF AtomicInv
<1>3. CASE ConsumeInTransaction(w)
  BY <1>3, ConsumeOutcome
<1>4. CASE Commit(w)
  <2>1. OthersKeep(w)
    BY <1>0, <1>4 DEF Commit, OthersKeep, TypeInv, TypeOK
  <2>. QED
    BY <1>0, <1>4, <2>1, OutcomeGone DEF Commit
<1>5. CASE Reply(w)
  <2>1. OthersKeep(w) /\ UNCHANGED <<disk, db, lock>> /\ pc[w] = "reply"
    BY <1>0, <1>5 DEF Reply, Idle, data, OthersKeep, TypeInv, TypeOK
  <2>2. lock # w
    BY <2>1 DEF AtomicInv, JournalInv, OnceInv, LockInv, EarlySteps
  <2>. QED
    BY <2>1, <2>2, OutcomeGone
<1>6. CASE Busy(w)
  BY <1>6 DEF Busy
<1>7. CASE Judge(w)
  <2>1. PICK step \in {"lookup", "reject"} : Goto(w, step)
    BY <1>7 DEF Judge
  <2>. QED
    BY <1>7, <2>1, JumpOutcome DEF Judge, EarlySteps
<1>8. CASE Lookup(w)
  <2>1. Finish(w, "REJECTED") \/ \E step \in {"reject", "stage", "consume"} : Goto(w, step)
    BY <1>8 DEF Lookup
  <2>2. pc[w] \in EarlySteps
    BY <1>8 DEF Lookup, EarlySteps
  <2>. QED
    BY <2>1, <2>2, JumpOutcome DEF EarlySteps
<1>9. CASE Reject(w)
  BY <1>9, JumpOutcome DEF Reject, EarlySteps
<1>10. CASE Stage(w)
  BY <1>10, JumpOutcome DEF Stage, EarlySteps
<1>11. CASE Open(w)
  BY <1>11, AppendOutcome DEF Open, State, EarlySteps, Outcome
<1>12. CASE Refuse(w)
  BY <1>12, AppendOutcome DEF Refuse, State, EarlySteps, Outcome
<1>13. CASE Validate(w)
  BY <1>13, AppendOutcome DEF Validate, State, EarlySteps, Outcome
<1>14. CASE AdmitStep(w)
  BY <1>14, AppendOutcome DEF AdmitStep, State, EarlySteps, Outcome
<1>15. CASE Settle(w)
  BY <1>15, AppendOutcome DEF Settle, State, EarlySteps, Outcome
<1>16. CASE FillStep(w)
  BY <1>16, AppendOutcome DEF FillStep, State, EarlySteps, Outcome
<1>17. CASE AppendStep(w)
  <2>1. call[w].event \in State /\ call[w].op = "append"
    BY <1>0, <1>17, CallFields DEF AppendStep, CallMatches
  <2>. QED
    BY <1>17, <2>1, AppendOutcome DEF AppendStep
<1>. QED
  BY <1>2, <1>3, <1>4, <1>5, <1>6, <1>7, <1>8, <1>9, <1>10, <1>11, <1>12, <1>13,
     <1>14, <1>15, <1>16, <1>17 DEF Advance

LEMMA StartOutcome ==
    ASSUME AtomicInv, NEW w \in Worker, Start(w)
    PROVE  OutcomeInv'
<1>1. /\ pc[w] = "idle" /\ UNCHANGED <<disk, db, lock>> /\ OthersKeep(w)
  BY DEF Start, Record, Execute, Consume, OperatorAppend, Begin, OthersKeep,
         AtomicInv, JournalInv, OnceInv, TypeInv, TypeOK
<1>2. lock # w
  BY <1>1 DEF AtomicInv, JournalInv, OnceInv, LockInv, EarlySteps
<1>. QED
  BY <1>1, <1>2, OutcomeGone

\* What a step of execute publishes is no part of a fill or the whole of it:
\* the spent record, CONSUMED and FILLED, whatever crashes, races or writes to
\* the journal by hand, CONSUMED and FILLED included (code: the adapter appends
\* both in the transaction that consumes, and an end of the journal that is no
\* longer the one it saw rolls all of it back).
THEOREM AtomicExecution == Spec => ExecutionIsAtomic
<1>. DEFINE Added(w) == {k \in Len(disk.journal[Id(w)]) + 1 .. Len(disk'.journal[Id(w)]) :
                           disk'.journal[Id(w)][k] \in Outcome}
            Whole(w) ==
               LET after == disk'.journal[Id(w)]
               IN  \/ Added(w) = {} /\ disk'.store = disk.store
                   \/ /\ Added(w) = {Len(after) - 1, Len(after)}
                      /\ after[Len(after) - 1] = "CONSUMED"
                      /\ after[Len(after)] = "FILLED"
                      /\ ~Spent(disk, Id(w)) /\ Spent(disk', Id(w))
<1>1. Init => OutcomeInv
  BY WorkersAssumption DEF Init, OutcomeInv
<1>2. AtomicInv /\ [Next]_vars => OutcomeInv'
  <2>1. ASSUME AtomicInv, UNCHANGED vars \/ Grant PROVE OutcomeInv'
    <3>1. UNCHANGED <<disk, db, lock, pc, call, result>>
      BY <2>1 DEF vars, Grant, Authorize, Issue, Build, Unused
    <3>. QED
      BY <2>1, <3>1 DEF AtomicInv, OutcomeInv, OutcomeOf, Fresh, Id
  <2>. QED
    BY <2>1, StartOutcome, AdvanceOutcome, RaiseOutcome DEF Next
<1>3. ASSUME AtomicInv, [Next]_vars, NEW w \in Journaled,
             call[w].op = "execute", pc'[w] # pc[w]
      PROVE  Whole(w)
  <2>1. TypeInv /\ w \in Worker
    BY <1>3, WorkersAssumption DEF AtomicInv, JournalInv, OnceInv
  <2>2. CASE disk' = disk
    <3>1. Added(w) = {}
      BY <2>2
    <3>. QED
      BY <2>2, <3>1
  <2>3. CASE disk' # disk
    <3>1. PICK v \in Worker : Start(v) \/ Advance(v) \/ Crash(v)
      BY <1>3, <2>3 DEF Next, vars, Grant, Authorize, Issue, Build, Unused
    <3>2. Commit(v) /\ lock = v /\ disk' = db
      BY <2>3, <3>1, OnlyCommitAndReplyShow DEF Commit, Reply, data
    <3>3. v = w
      BY <1>3, <2>1, <3>2 DEF Commit, TypeInv, TypeOK
    <3>4. OutcomeOf(w) /\ pc[w] = "commit"
      BY <1>3, <3>2, <3>3 DEF AtomicInv, OutcomeInv, Commit
    <3>5. Added(w) = Fresh(w)
      BY <3>2 DEF Fresh
    <3>6. CASE result[w] # "FILLED"
      BY <3>2, <3>4, <3>5, <3>6 DEF OutcomeOf
    <3>7. CASE result[w] = "FILLED"
      <4>1. /\ disk.store[Id(w)] # NoRecord /\ disk.store[Id(w)].status = "CREATED"
            /\ db.store[Id(w)] = ConsumedRecord(call[w])
        <5>1. InFlight(w)
          BY <3>4, <3>7 DEF InFlight
        <5>2. FlightInv
          BY <1>3 DEF AtomicInv, JournalInv, OnceInv
        <5>. QED
          BY <2>1, <5>1, <5>2 DEF FlightInv
      <4>2. ~Spent(disk, Id(w)) /\ Spent(disk', Id(w))
        BY <3>2, <4>1 DEF Spent, ConsumedRecord, NoRecord
      <4>. QED
        BY <3>2, <3>4, <3>5, <3>7, <4>2 DEF OutcomeOf
    <3>. QED
      BY <3>6, <3>7
  <2>. QED
    BY <2>2, <2>3
<1>4. AtomicInv /\ [Next]_vars =>
        \A w \in Journaled : call[w].op = "execute" /\ pc'[w] # pc[w] => Whole(w)
  BY <1>3
<1>5. Spec => []AtomicInv
  BY <1>1, <1>2, JournalInvariant, PTL DEF Spec, AtomicInv
<1>. QED
  BY <1>4, <1>5, PTL DEF Spec, ExecutionIsAtomic
-----------------------------------------------------------------------------
(* The authority of a fill: the chain from fill to intent, from intent to *)
(* certificate and from certificate to authorization is kept.             *)

\* The authorization a certificate was issued from.
Granted(certificate) ==
    /\ certificate.capital <= MaxRiskCapital
    /\ \E a \in authorizations :
         /\ a.strategy = certificate.strategy
         /\ a.capital = certificate.capital

ApprovedInv ==
    \A a \in authorizations : a.approved /\ a.capital <= MaxAuthorizedCapital

CertificatesInv == \A certificate \in certificates : Granted(certificate)

IntentsInv == \A intent \in intents : intent.certificate \in certificates

\* A call works on an intent that was built, and a call that is going to
\* answer FILLED was admissible for the very certificate of its intent.
CallsInv ==
    \A w \in Worker :
        /\ pc[w] # "idle" => call[w].intent \in intents
        /\ InFlight(w) \/ Pending(w) =>
             Admissible(call[w]) /\ call[w].certificate = call[w].intent.certificate

\* What FillWithinAuthority asks of one fill.
Covered(fill) ==
    /\ fill.intent.certificate \in certificates
    /\ fill.intent.certificate.issued <= fill.now
    /\ fill.now < fill.intent.certificate.expires
    /\ fill.intent.certificate.loss <= MaxLoss
    /\ fill.intent.quantity <= fill.intent.certificate.capital

DeliveredCovered ==
    \A i \in IntentId : \A k \in DOMAIN delivered[i] : Covered(delivered[i][k])

AuthInv ==
    OnceInv /\ ApprovedInv /\ CertificatesInv /\ IntentsInv /\ CallsInv
    /\ DeliveredCovered

LEMMA InitAuth == Init => AuthInv
<1>. SUFFICES ASSUME Init PROVE AuthInv
  OBVIOUS
<1>1. OnceInv
  BY InitOnce
<1>2. CallsInv
  BY DEF Init, CallsInv, InFlight, Pending
<1>. QED
  BY <1>1, <1>2 DEF Init, AuthInv, ApprovedInv, CertificatesInv, IntentsInv,
                    DeliveredCovered

\* Authorizations, certificates and intents are only ever added.
LEMMA GrantAuth == AuthInv /\ Grant => AuthInv'
<1>. SUFFICES ASSUME AuthInv, Grant PROVE AuthInv'
  OBVIOUS
<1>1. OnceInv'
  BY GrantOnce DEF AuthInv
<1>2. /\ authorizations \subseteq authorizations'
      /\ certificates \subseteq certificates' /\ intents \subseteq intents'
      /\ UNCHANGED <<pc, call, result, delivered>>
  BY DEF Grant, Authorize, Issue, Build, Unused
<1>3. ApprovedInv'
  BY DEF Grant, Authorize, Issue, Build, IsAuthorized, AuthInv, ApprovedInv
<1>4. CertificatesInv'
  <2>1. \A c \in certificates : Granted(c)'
    BY <1>2 DEF Granted, AuthInv, CertificatesInv
  <2>2. \A c \in certificates' \ certificates : Granted(c)'
    BY DEF Grant, Authorize, Issue, Build, MayIssue, NewCertificate, Granted
  <2>. QED
    BY <2>1, <2>2 DEF CertificatesInv
<1>5. IntentsInv'
  BY <1>2 DEF Grant, Authorize, Issue, Build, NewIntent, AuthInv, IntentsInv
<1>6. CallsInv'
  BY <1>2 DEF AuthInv, CallsInv, InFlight, Pending
<1>7. DeliveredCovered'
  BY <1>2 DEF AuthInv, DeliveredCovered, Covered
<1>. QED
  BY <1>1, <1>3, <1>4, <1>5, <1>6, <1>7 DEF AuthInv

\* A step of a worker that delivers nothing keeps the invariant when what it
\* makes of the worker's own call is covered.
LEMMA WorkerAuth ==
    ASSUME AuthInv, OnceInv', UNCHANGED authority, NEW w \in Worker, OthersKeep(w),
           UNCHANGED delivered,
           pc'[w] # "idle" => call'[w].intent \in intents,
           InFlight(w)' \/ Pending(w)' =>
             /\ Admissible(call'[w])
             /\ call'[w].certificate = call'[w].intent.certificate
    PROVE  AuthInv'
<1>1. UNCHANGED <<authorizations, certificates, intents>>
  BY DEF authority
<1>2. CallsInv'
  BY <1>1 DEF AuthInv, CallsInv, OthersKeep, InFlight, Pending
<1>. QED
  BY <1>1, <1>2 DEF AuthInv, ApprovedInv, CertificatesInv, IntentsInv, Granted,
                    DeliveredCovered, Covered

LEMMA StartAuth ==
    ASSUME AuthInv, NEW w \in Worker, Start(w), UNCHANGED authority
    PROVE  AuthInv'
<1>1. OnceInv'
  BY StartOnce DEF AuthInv
<1>2. /\ call'[w].intent \in intents /\ UNCHANGED delivered /\ OthersKeep(w)
      /\ pc'[w] \notin {"settle", "fill"} /\ result'[w] # "FILLED"
  <2>. USE DEF Begin, OthersKeep, AuthInv, OnceInv, TypeInv, TypeOK, CallMatches
  <2>1. ASSUME NEW intent \in intents, NEW now \in Time, Record(w, intent, now)
        PROVE  <1>2
    BY <2>1 DEF Record
  <2>2. ASSUME NEW intent \in intents, NEW certificate \in certificates,
               NEW now \in Time, NEW clear \in BOOLEAN,
               \/ Execute(w, intent, certificate, now, clear)
               \/ Consume(w, intent, certificate, now, clear)
        PROVE  <1>2
    <3>1. \E op : call' = [call EXCEPT ![w] =
                          [op |-> op, intent |-> intent, now |-> now,
                           certificate |-> certificate, clear |-> clear]]
      BY <2>2 DEF Execute, Consume
    <3>2. call'[w].intent \in intents
      BY <3>1
    <3>. QED
      BY <2>2, <3>2 DEF Execute, Consume
  <2>3. ASSUME NEW intent \in intents, NEW event \in OperatorEvent,
               OperatorAppend(w, intent, event)
        PROVE  <1>2
    BY <2>3 DEF OperatorAppend
  <2>. QED
    BY <2>1, <2>2, <2>3 DEF Start
<1>3. ~InFlight(w)' /\ ~Pending(w)'
  BY <1>2 DEF InFlight, Pending
<1>. QED
  BY <1>1, <1>2, <1>3, WorkerAuth

LEMMA CrashAuth ==
    ASSUME AuthInv, NEW w \in Worker, Crash(w), UNCHANGED authority
    PROVE  AuthInv'
<1>1. OnceInv'
  BY CrashOnce DEF AuthInv
<1>2. pc'[w] = "idle" /\ UNCHANGED delivered /\ OthersKeep(w)
  BY DEF Crash, Idle, OthersKeep, AuthInv, OnceInv, TypeInv, TypeOK
<1>. QED
  BY <1>1, <1>2, WorkerAuth DEF InFlight, Pending

\* The answer of a call becomes a fill only when it is covered.
LEMMA ReplyAuth ==
    ASSUME AuthInv, OnceInv', UNCHANGED authority, NEW w \in Worker, Reply(w)
    PROVE  AuthInv'
<1>1. pc[w] = "reply" /\ pc'[w] = "idle" /\ OthersKeep(w)
      /\ ~InFlight(w)' /\ ~Pending(w)'
  BY DEF Reply, Idle, OthersKeep, InFlight, Pending, AuthInv, OnceInv, TypeInv, TypeOK
<1>2. CASE result[w] # "FILLED"
  BY <1>1, <1>2, WorkerAuth DEF Reply
<1>3. CASE result[w] = "FILLED"
  <2>. DEFINE fill == [intent |-> call[w].intent, now |-> call[w].now]
  <2>1. /\ Pending(w) /\ Id(w) \in IntentId /\ call[w] \in Call
        /\ call[w].op = "execute" /\ call[w].intent \in intents
    BY <1>1, <1>3, CallFields
       DEF Pending, AuthInv, CallsInv, OnceInv, TypeInv, CallMatches, Id
  <2>2. Admissible(call[w]) /\ call[w].certificate = call[w].intent.certificate
    BY <2>1 DEF AuthInv, CallsInv
  <2>3. Covered(fill)
    BY <2>1, <2>2 DEF Covered, Admissible, IsValidCertificate, AuthInv, IntentsInv
  <2>4. delivered[Id(w)] = <<>>
    BY <2>1 DEF AuthInv, OnceInv, PendingInv
  <2>5. delivered' = [delivered EXCEPT ![Id(w)] = Append(@, fill)]
    BY <1>3 DEF Reply
  <2>. HIDE DEF fill
  <2>6. \A i \in IntentId :
          delivered'[i] = IF i = Id(w) THEN <<fill>> ELSE delivered[i]
    BY <2>1, <2>4, <2>5 DEF AuthInv, OnceInv, TypeInv, TypeOK
  <2>7. DOMAIN <<fill>> = {1} /\ <<fill>>[1] = fill
    OBVIOUS
  <2>8. UNCHANGED <<authorizations, certificates, intents>>
    BY DEF authority
  <2>9. DeliveredCovered'
    BY <2>3, <2>6, <2>7, <2>8 DEF AuthInv, DeliveredCovered, Covered
  <2>10. CallsInv'
    BY <1>1, <2>8 DEF AuthInv, CallsInv, OthersKeep, InFlight, Pending
  <2>. QED
    BY <2>8, <2>9, <2>10 DEF AuthInv, ApprovedInv, CertificatesInv, IntentsInv, Granted
<1>. QED
  BY <1>2, <1>3

\* What any other step makes of its worker's call: the same call, and a fill in
\* the making only where there was one or where the intent is just consumed.
LEMMA AdvanceCall ==
    ASSUME OnceInv, NEW w \in Worker, Advance(w), ~Reply(w)
    PROVE  /\ OthersKeep(w) /\ UNCHANGED <<call, delivered>>
           /\ InFlight(w)' \/ Pending(w)' =>
                \/ InFlight(w) \/ Pending(w)
                \/ \E record : Consumable(record, call[w])
<1>. DEFINE Goal == /\ OthersKeep(w) /\ UNCHANGED <<call, delivered>>
                    /\ InFlight(w)' \/ Pending(w)' =>
                         \/ InFlight(w) \/ Pending(w)
                         \/ \E record : Consumable(record, call[w])
<1>. USE DEF OthersKeep, InFlight, Pending, OnceInv, TypeInv, TypeOK
<1>1. CASE Raise(w)
  BY <1>1 DEF Raise
<1>2. CASE Insert(w) \/ Commit(w)
  BY <1>1, <1>2 DEF Insert, Commit
<1>3. CASE ConsumeInTransaction(w)
  BY <1>1, <1>3 DEF ConsumeInTransaction
<1>4. CASE Judge(w) \/ Lookup(w) \/ Reject(w) \/ Stage(w)
  BY <1>4 DEF Judge, Lookup, Reject, Stage, Goto, ReadJournal, Finish
<1>5. ASSUME NEW s, NEW step, NEW value, AppendEvent(w, s, step, value), ~Raise(w)
      PROVE  /\ OthersKeep(w) /\ UNCHANGED <<call, delivered>>
             /\ pc'[w] = step /\ result'[w] = value
  BY <1>5 DEF AppendEvent
<1>6. CASE Open(w) \/ Refuse(w) \/ Validate(w) \/ AdmitStep(w) \/ AppendStep(w)
  BY <1>1, <1>5, <1>6 DEF Open, Refuse, Validate, AdmitStep, AppendStep
<1>7. CASE Settle(w) \/ FillStep(w)
  BY <1>1, <1>5, <1>7 DEF Settle, FillStep
<1>. QED
  BY <1>1, <1>2, <1>3, <1>4, <1>6, <1>7 DEF Advance, Busy

LEMMA AdvanceAuth ==
    ASSUME AuthInv, NEW w \in Worker, Advance(w), UNCHANGED authority
    PROVE  AuthInv'
<1>1. OnceInv' /\ pc[w] # "idle"
  BY AdvanceOnce, AdvanceIsBusy DEF AuthInv
<1>2. CASE Reply(w)
  BY <1>1, <1>2, ReplyAuth
<1>3. CASE ~Reply(w)
  <2>1. /\ OthersKeep(w) /\ UNCHANGED <<call, delivered>>
        /\ InFlight(w)' \/ Pending(w)' =>
             \/ InFlight(w) \/ Pending(w)
             \/ \E record : Consumable(record, call[w])
    BY <1>3, AdvanceCall DEF AuthInv
  <2>2. call[w].intent \in intents
    BY <1>1 DEF AuthInv, CallsInv
  <2>3. InFlight(w)' \/ Pending(w)' =>
          Admissible(call[w]) /\ call[w].certificate = call[w].intent.certificate
    BY <2>1 DEF AuthInv, CallsInv, Consumable
  <2>. QED
    BY <1>1, <2>1, <2>2, <2>3, WorkerAuth
<1>. QED
  BY <1>2, <1>3

\* No fill exceeds what a human approved for the strategy, nor falls outside
\* the window of the certificate it was ordered under (code: the layers of
\* authorize_live_strategy, issue_live_risk_certificate, build_execution_intent
\* and consume_in_transaction compose, although each sees only the one before).
THEOREM WithinAuthority == Spec => []FillWithinAuthority
<1>1. Init => AuthInv
  BY InitAuth
<1>2. AuthInv /\ [Next]_vars => AuthInv'
  <2>1. ASSUME AuthInv, UNCHANGED vars PROVE AuthInv'
    <3>1. OnceInv'
      BY <2>1, StutterOnce DEF AuthInv
    <3>. QED
      BY <2>1, <3>1 DEF vars, AuthInv, ApprovedInv, CertificatesInv, IntentsInv,
                        Granted, CallsInv, InFlight, Pending, DeliveredCovered, Covered
  <2>2. AuthInv /\ Next => AuthInv'
    BY GrantAuth, StartAuth, AdvanceAuth, CrashAuth DEF Next
  <2>. QED
    BY <2>1, <2>2
<1>3. AuthInv => FillWithinAuthority
  <2>. SUFFICES ASSUME AuthInv, NEW i \in IntentId, NEW k \in DOMAIN delivered[i],
                       NEW fill, fill = delivered[i][k]
                PROVE  /\ fill.intent.certificate.issued <= fill.now
                       /\ fill.now < fill.intent.certificate.expires
                       /\ fill.intent.certificate.loss <= MaxLoss
                       /\ fill.intent.quantity <= MaxRiskCapital
                       /\ \E a \in authorizations :
                            /\ a.approved
                            /\ a.strategy = fill.intent.certificate.strategy
                            /\ fill.intent.quantity <= a.capital
                            /\ a.capital <= MaxAuthorizedCapital
    BY DEF FillWithinAuthority
  <2>1. Covered(fill)
    BY DEF AuthInv, DeliveredCovered
  <2>2. Granted(fill.intent.certificate)
    BY <2>1 DEF Covered, AuthInv, CertificatesInv
  <2>3. fill.intent.quantity \in Nat /\ fill.intent.certificate.capital \in Nat
    <3>1. fill \in Fill
      BY DEF AuthInv, OnceInv, TypeInv, TypeOK
    <3>. QED
      BY <3>1, NumbersAssumption DEF Fill, Intent, Certificate
  <2>4. MaxRiskCapital \in Nat
    BY NumbersAssumption
  <2>. QED
    BY <2>1, <2>2, <2>3, <2>4 DEF Covered, Granted, AuthInv, ApprovedInv
<1>. QED
  BY <1>1, <1>2, <1>3, PTL DEF Spec
=============================================================================
