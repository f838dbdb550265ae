------------------------ MODULE SandboxExecutionProps ------------------------
(***************************************************************************)
(* What must be true of the sandbox execution core.                        *)
(***************************************************************************)
EXTENDS SandboxExecution

Spent(database, i) ==
    /\ database.store[i] # NoRecord
    /\ database.store[i].status = "CONSUMED"

\* At most one fill is ever handed to a caller for one intent id, whichever
\* workers execute it, retry it, crash or race for it: the compare-and-set in
\* consume_in_transaction is the only thing that keeps two executions apart.
AtMostOneFill == \A i \in IntentId : Len(delivered[i]) <= 1

\* A fill that reached a caller is backed by the committed database: the
\* record of exactly that intent is CONSUMED.  A crash after the fill cannot
\* bring the intent back.
FillIsDurable ==
    \A i \in IntentId : \A k \in DOMAIN delivered[i] :
        /\ Spent(disk, i)
        /\ disk.store[i].intent = delivered[i][k].intent

\* The two events by which an execution reports a fill.
Outcome == {"CONSUMED", "FILLED"}

\* Store and journal are written by different classes but as one unit: what a
\* step of execute commits, with a journal, is either no part of a fill, or all
\* of it at once: the record of its intent, not spent before, is spent, and its
\* journal ends with CONSUMED and FILLED, both new.  The claim is about the
\* events execute writes: append lets an operator write any state the table
\* allows, CONSUMED and FILLED included, and no record goes with those.
ExecutionIsAtomic ==
    [][ \A w \in Journaled :
          call[w].op = "execute" /\ pc'[w] # pc[w] =>
            LET before == disk.journal[Id(w)]
                after == disk'.journal[Id(w)]
                outcome == {k \in Len(before) + 1 .. Len(after) : after[k] \in Outcome}
            IN  \/ outcome = {} /\ disk'.store = disk.store
                \/ /\ outcome = {Len(after) - 1, Len(after)}
                   /\ after[Len(after) - 1] = "CONSUMED"
                   /\ after[Len(after)] = "FILLED"
                   /\ ~Spent(disk, Id(w)) /\ Spent(disk', Id(w)) ]_vars

\* SandboxExecutionJournal.verify on the states of a journal.
LegalJournal(journal) ==
    /\ journal # <<>> => journal[1] = "CREATED"
    /\ \A k \in 1..Len(journal) - 1 : journal[k + 1] \in Allowed[journal[k]]

\* Every committed journal passes verify(), although each event was chosen
\* from a read that other workers may have overtaken before the insert.
JournalVerifies == \A i \in IntentId : LegalJournal(disk.journal[i])

\* Every fill lies within what a human approved: its certificate comes from an
\* approved authorization of its strategy, the quantity is within the approved
\* capital and both limits, and the fill was made inside the window of the
\* certificate the intent was built from.
FillWithinAuthority ==
    \A i \in IntentId : \A k \in DOMAIN delivered[i] :
        LET fill == delivered[i][k]
            certificate == fill.intent.certificate
        IN  /\ certificate.issued <= fill.now
            /\ fill.now < certificate.expires
            /\ certificate.loss <= MaxLoss
            /\ fill.intent.quantity <= MaxRiskCapital
            /\ \E a \in authorizations :
                 /\ a.approved
                 /\ a.strategy = certificate.strategy
                 /\ fill.intent.quantity <= a.capital
                 /\ a.capital <= MaxAuthorizedCapital

\* Rejection and cancellation are final: when every adapter has a journal, an
\* intent whose committed journal was closed without a fill never gets one,
\* not even from an execution that was under way when it was closed.
ClosedNeverFills ==
    [][ \A i \in IntentId :
          /\ disk.journal[i] # <<>>
          /\ LastOf(disk.journal[i]) \in Terminal \ {"FILLED"}
          => delivered'[i] = delivered[i] ]_vars

\* The committed journals only grow, an event never changes, and a record
\* changes once at most: from CREATED to CONSUMED, for the same intent.
AppendOnly ==
    [][ \A i \in IntentId :
          /\ Len(disk.journal[i]) <= Len(disk'.journal[i])
          /\ SubSeq(disk'.journal[i], 1, Len(disk.journal[i])) = disk.journal[i]
          /\ \/ disk'.store[i] = disk.store[i]
             \/ disk.store[i] = NoRecord /\ disk'.store[i].status = "CREATED"
             \/ /\ disk.store[i] # NoRecord
                /\ disk.store[i].status = "CREATED"
                /\ disk'.store[i].status = "CONSUMED"
                /\ disk'.store[i].intent = disk.store[i].intent ]_vars

\* Every call that begins ends, with an answer, an exception or a crash:
\* nobody waits for the write lock forever.
CallsEnd == \A w \in Worker : pc[w] # "idle" ~> pc[w] = "idle"

\* record() is documented as "identical retries return the durable record":
\* it raises only for an id that is taken by a different intent.
IdenticalRetriesReturn ==
    \A w \in Worker :
        /\ pc[w] = "reply"
        /\ call[w].op = "record"
        /\ result[w] = "RAISED"
        => disk.store[Id(w)].intent # call[w].intent

\* The execution core implements the once-only promise: the committed status
\* of each record and the fills handed over are the abstract state.
Once ==
    INSTANCE OnceOnlyExecution WITH
        status <- [i \in IntentId |-> disk.store[i].status],
        fills <- [i \in IntentId |-> Len(delivered[i])]

ImplementsOnce == Once!OnceSpec
=============================================================================
