----------------------- MODULE StrategyLifecycleProps ------------------------
(***************************************************************************)
(* What must be true of the strategy lifecycle.                            *)
(***************************************************************************)
EXTENDS StrategyLifecycle

Committed(s) == disk.row[s].stage

\* The strategy was moved from source to target, and the history shows it.
Moved(s, source, target) ==
    \E k \in DOMAIN disk.events[s] :
        disk.events[s][k].source = source /\ disk.events[s][k].target = target

\* No strategy trades on paper without an admission for the reason its row
\* gives: admit_to_paper writes PROMOTED -> PAPER and the admission record in
\* one transaction, and the first PAPER for a reason commits with its record.
\* It need not be a record of the run that was admitted last.  The event's hash
\* leaves the run out, so admitting a strategy again, under another run for the
\* same reason, raises IntegrityError after the UPDATE; the PAPER that a later
\* commit publishes then rests on the earlier admission.
PaperIsAdmitted ==
    \A s \in Strategy :
        Committed(s) = "PAPER" =>
            \E a \in disk.admissions :
                a.strategy = s /\ disk.row[s].reason = [admission |-> a.reason]

\* An admission is backed by the transition it records.
AdmissionIsLogged ==
    \A a \in disk.admissions : Moved(a.strategy, "PROMOTED", "PAPER")

\* Every committed stage was entered by a logged transition, even where a
\* raised exception left an UPDATE behind that a later commit published.
StageWasLogged ==
    \A s \in Strategy :
        Committed(s) # "ABSENT" =>
            \E k \in DOMAIN disk.events[s] :
                /\ disk.events[s][k].target = Committed(s)
                /\ disk.events[s][k].reason = disk.row[s].reason

\* A strategy is degraded by its paper health only after the request to replace
\* it is durable, so a crash cannot leave a strategy degraded and forgotten.
DegradedIsRequested ==
    \A s \in Strategy : \A k \in DOMAIN disk.events[s] :
        disk.events[s][k].source = "PAPER" /\ disk.events[s][k].target = "DEGRADED"
        => \E r \in disk.requests :
             r.strategy = s /\ disk.events[s][k].reason = [cause |-> r.cause]

\* A recorded replacement cycle has its request, did move its source back to
\* RESEARCH, and did have its successor evaluated: the history shows that the
\* successor left RESEARCH, wherever it is by now.  This is one direction of
\* run_replacement_cycle: a crash after the source was moved leaves all of it
\* without a recorded cycle.
CycleIsBacked ==
    \A r \in disk.cycles :
        /\ r \in disk.requests
        /\ \E k \in DOMAIN disk.events[r.strategy] :
             disk.events[r.strategy][k] =
               [source |-> "DEGRADED", target |-> "RESEARCH", reason |-> r]
        /\ \E k \in DOMAIN disk.events[SuccessorOf[r]] :
             disk.events[SuccessorOf[r]][k].source = "RESEARCH"

\* A committed stage only changes along the table of legal transitions.
StageFollowsTable ==
    [][ \A s \in Strategy :
          \/ disk'.row[s].stage = disk.row[s].stage
          \/ disk.row[s] = NoRow /\ disk'.row[s].stage = "RESEARCH"
          \/ /\ disk.row[s] # NoRow
             /\ disk'.row[s].stage \in Transitions[disk.row[s].stage] ]_vars

\* "Durable, integrity-checked lifecycle state with append-only history": the
\* committed stage is the target of the last event.
StageIsLastEvent ==
    \A s \in Strategy :
        Committed(s) =
          IF disk.events[s] = <<>> THEN "ABSENT"
          ELSE disk.events[s][Len(disk.events[s])].target

\* "halted strategies cannot be reactivated automatically".
HaltIsFinal ==
    [][ \A s \in Strategy :
          disk.control[s] = "HALTED" => disk'.control[s] = "HALTED" ]_vars

\* "persists the replacement request and feedback provenance, and is idempotent
\* across restarts": when an assessment returns normally for a strategy that
\* its paper health has degraded, the feedback event is there, also when an
\* earlier assessment died half-way.
HealthIsRecorded ==
    \A w \in Worker :
        /\ pc[w] = "reply" /\ result[w] = "DONE" /\ call[w].op = "assess"
        /\ Moved(call[w].strategy, "PAPER", "DEGRADED")
        => \E r \in disk.feedback : r.strategy = call[w].strategy
=============================================================================
