---------------------------- MODULE ResearchWork ----------------------------
(***************************************************************************)
(* The shared request queue and the callers that materialise, execute and  *)
(* consume the work of their plans (research_queue.py,                     *)
(* research_executor.py, research_pipeline.py).  Each call on the queue is *)
(* one step; callers take turns between calls.  A caller may execute plan  *)
(* after plan before it consumes, and consumes in any order.               *)
(***************************************************************************)
EXTENDS Integers, SequencesExt, FiniteSetsExt

CONSTANTS
    Planner,
    Planned,    \* the plans a caller may execute: requests with their units
    Population, \* the strategies a caller may execute a plan against
    Plans       \* bound of the model on the plans executed

WorkAssumption == Plans \in Nat

VARIABLES
    queue,      \* ResearchQueue: request by id
    plan,       \* the units of the plan each caller executed last
    work,       \* the work items each caller still has to consume
    turn,       \* ghost: the plans executed so far
    offered,    \* ghost: the offers of each id since it last left the queue
    last,       \* ghost: the turn of the plan that last offered each id
    lost        \* ghost: the consumptions that removed an entry and then failed

vars == <<queue, plan, work, turn, offered, last, lost>>

(***************************************************************************)
(* The queue.                                                              *)
(***************************************************************************)
Queued(q, request) ==
    [id \in DOMAIN q \union {request.id} |-> IF id = request.id THEN request ELSE q[id]]

\* A faulty queue that always takes the newer request.
EnqueueNewer(q, request) == Queued(q, request)

\* enqueue: of two requests with one id the lower priority number stays.
Enqueue(q, request) ==
    IF request.id \notin DOMAIN q \/ request.priority < q[request.id].priority
    THEN Queued(q, request) ELSE q

Without(f, id) == [x \in DOMAIN f \ {id} |-> f[x]]

\* A faulty work item that keeps the priority of the plan.
ItemOfPlan(q, request, made) ==
    [id |-> request.id, priority |-> request.priority, turn |-> made]

\* The work item takes what the queue holds for the request; "turn" is a ghost.
Item(q, request, made) ==
    [id |-> request.id, priority |-> q[request.id].priority, turn |-> made]

\* spawn_research_candidates raises on a source outside the population.
CanSpawn(items, population) == \A item \in items : item.id[2] \in population

Init ==
    /\ queue = <<>> /\ offered = <<>>
    /\ work = [p \in Planner |-> {}] /\ plan = [p \in Planner |-> <<>>]
    /\ turn = 0 /\ last = <<>> /\ lost = {}

\* execute_research_plan: every request is queued, then candidates are spawned
\* item by item; an unknown source raises, the requests stay queued and the
\* caller has none of their items.  What it had in hand it still has.
Execute(p) ==
    /\ turn < Plans
    /\ \E next \in Planned, population \in Population :
           LET filled == FoldLeft(Enqueue, queue, next.requests)
               items == {Item(filled, next.requests[i], turn) :
                            i \in DOMAIN next.requests}
               ids == {r.id : r \in ToSet(next.requests)}
               before(id) == IF id \in DOMAIN queue THEN offered[id] ELSE {}
           IN  /\ queue' = filled
               /\ offered' = [id \in DOMAIN filled |->
                                 before(id) \union {r.priority : r \in
                                     {q \in ToSet(next.requests) : q.id = id}}]
               /\ last' = [id \in ids \union DOMAIN last |-> IF id \in ids THEN turn ELSE last[id]]
               /\ work' = [work EXCEPT ![p] = @ \union (IF CanSpawn(items, population) THEN items ELSE {})]
               /\ plan' = [plan EXCEPT ![p] = next.units]
    /\ turn' = turn + 1
    /\ UNCHANGED lost

\* consume_research_work: the entry is removed, then compared; an id that is
\* not queued raises and removes nothing.
Consume(p, item) ==
    /\ item \in work[p]
    /\ queue' = Without(queue, item.id)
    /\ offered' = Without(offered, item.id)
    /\ lost' = lost \union
           {[made |-> item.turn, offered |-> last[id]] : id \in
               {i \in DOMAIN queue : i = item.id /\ queue[i].priority # item.priority}}
    /\ work' = [work EXCEPT ![p] = @ \ {item}]
    /\ UNCHANGED <<plan, turn, last>>

\* The caller stops with work in hand.
Abandon(p) ==
    /\ work[p] # {}
    /\ work' = [work EXCEPT ![p] = {}]
    /\ UNCHANGED <<queue, plan, turn, offered, last, lost>>

Next == \E p \in Planner : Execute(p) \/ (\E item \in work[p] : Consume(p, item)) \/ Abandon(p)

Spec == Init /\ [][Next]_vars
-----------------------------------------------------------------------------
TypeOK ==
    /\ DOMAIN queue = DOMAIN offered
    /\ \A id \in DOMAIN queue : queue[id].id = id /\ queue[id].priority \in 0..1000
    /\ \A p \in Planner : \A item \in work[p] : item.id \in DOMAIN last
    /\ turn \in 0..Plans

\* However the plans of the callers interleave, a queued request has the best
\* priority it was offered since it last left the queue.
QueueKeepsBest ==
    \A id \in DOMAIN queue : queue[id].priority = Min(offered[id])

\* A failed consumption loses a queued request only when a later plan offered
\* that request again: another caller's, or one the same caller executed before
\* it consumed the work of the first (consume_research_work).
LostOnlyToLaterPlan == \A l \in lost : l.made < l.offered
=============================================================================
