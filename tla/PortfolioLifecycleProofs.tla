----------------------- MODULE PortfolioLifecycleProofs -----------------------
(***************************************************************************)
(* Theorems about the ledger of portfolio health decisions, for any number *)
(* of writers and readers, any assessments and generations and a ledger of *)
(* any length.                                                             *)
(***************************************************************************)
EXTENDS PortfolioLifecycle, WellFoundedInduction, TLAPS

AllAssessed == UNION {Assessed[p] : p \in DOMAIN Assessed}

\* The records a writer can make.
Record == {NewRecord(p, g, a) : p \in DOMAIN Assessed, g \in Generation, a \in AllAssessed}
LedgerRow == [record : Record, read : Nat]

GenerationAt(i) == ledger[i].record.generation

(***************************************************************************)
(* What is true of the state between any two steps.                        *)
(***************************************************************************)
LedgerInv ==
    /\ ledger \in Seq(LedgerRow)
    /\ task \in [Process -> [pc : {"idle", "insert", "show", "shown"},
                             row : {None} \union LedgerRow \union DOMAIN Assessed \union Record,
                             length : Nat]]
    /\ \A i \in DOMAIN ledger : ledger[i].read < i

\* A writer on its way to the INSERT holds a row newer than all it has read.
WriterInv ==
    \A p \in Process : task[p].pc = "insert" =>
        /\ task[p].row \in LedgerRow
        /\ task[p].row.read <= Len(ledger)
        /\ \A i \in DOMAIN ledger :
              /\ i <= task[p].row.read
              /\ ledger[i].record.portfolio = task[p].row.record.portfolio
              => GenerationAt(i) < task[p].row.record.generation

\* A reader between its two SELECTs has seen a row of its portfolio; after
\* them it holds a record at least as new as all it has verified.
ReaderInv ==
    \A p \in Process :
        /\ task[p].pc \in {"show", "shown"} => task[p].length <= Len(ledger)
        /\ task[p].pc = "show" =>
              \E i \in DOMAIN ledger : ledger[i].record.portfolio = task[p].row
        /\ task[p].pc = "shown" =>
              /\ task[p].row \in Record
              /\ \A i \in DOMAIN ledger :
                    /\ i <= task[p].length
                    /\ ledger[i].record.portfolio = task[p].row.portfolio
                    => GenerationAt(i) <= task[p].row.generation

HistoryInv == LedgerInv /\ WriterInv /\ ReaderInv /\ DisorderOnlyByRace

(***************************************************************************)
(* Lemmas.                                                                 *)
(***************************************************************************)
\* A set of naturals has a least member.
LEMMA LeastNat ==
    ASSUME NEW T, T \subseteq Nat, T # {}
    PROVE  \E x \in T : \A y \in T : x <= y
<1>1. PICK x \in T : \A y \in T : ~ (<<y, x>> \in OpToRel(<, Nat))
  BY WFMin, NatLessThanWellFounded
<1>2. \A y \in T : ~ (y < x)
  BY <1>1 DEF OpToRel
<1>3. \A y \in T : x <= y
  BY <1>2, T \subseteq Nat, SMT
<1> QED BY <1>3

\* A record that was made has the fields of one, and it asks to rebalance
\* exactly when it names strategies to replace.
LEMMA RecordFields ==
    ASSUME LifecycleAssumption, NEW r \in Record
    PROVE  /\ r.portfolio \in DOMAIN Assessed
           /\ r.generation \in Nat
           /\ (r.decision = "REBALANCE_OR_RESEARCH_REPLACEMENT") <=> (r.replace # {})
<1>1. PICK p \in DOMAIN Assessed, g \in Generation, a \in AllAssessed : r = NewRecord(p, g, a)
  BY DEF Record
<1>2. r.portfolio = p /\ r.generation = g /\ r.decision = Decision(Breached(a))
        /\ r.replace = {s \in DOMAIN a.risk : Concentrated(a.risk, s)}
  BY <1>1 DEF NewRecord
<1>3. r.replace # {} <=> "concentration" \in Breached(a)
  BY <1>2 DEF Breached
<1>4. Decision(Breached(a)) = "REBALANCE_OR_RESEARCH_REPLACEMENT" <=> "concentration" \in Breached(a)
  BY DEF Decision
<1> QED BY <1>2, <1>3, <1>4 DEF LifecycleAssumption

\* The rows of a ledger have generations and portfolios.
LEMMA RowFields ==
    ASSUME LifecycleAssumption, LedgerInv, NEW i \in DOMAIN ledger
    PROVE  /\ ledger[i] \in LedgerRow /\ ledger[i].record \in Record
           /\ GenerationAt(i) \in Nat
           /\ i \in 1..Len(ledger) /\ Len(ledger) \in Nat
<1>1. ledger[i] \in LedgerRow /\ i \in 1..Len(ledger) /\ Len(ledger) \in Nat
  BY DEF LedgerInv
<1>2. ledger[i].record \in Record
  BY <1>1 DEF LedgerRow
<1> QED BY <1>1, <1>2, RecordFields DEF GenerationAt

\* Among the rows of a portfolio there is a first one in the order of latest.
LEMMA FirstRow ==
    ASSUME LifecycleAssumption, LedgerInv, NEW p, Rows(p) # {}
    PROVE  \E i \in Rows(p) : \A j \in Rows(p) : Before(i, j)
<1> DEFINE Upto(n) == {i \in Rows(p) : i <= n}
           Led(n) == \E i \in Upto(n) : \A j \in Upto(n) : Before(i, j)
           Bad == {n \in Nat : Upto(n) # {} /\ ~Led(n)}
<1> SUFFICES Bad = {}
  <2>1. Len(ledger) \in Nat /\ Rows(p) \subseteq 1..Len(ledger)
    BY DEF LedgerInv, Rows
  <2>2. Upto(Len(ledger)) = Rows(p)
    BY <2>1
  <2>3. Led(Len(ledger))
    BY <2>1, <2>2
  <2> QED BY <2>2, <2>3
<1> SUFFICES ASSUME Bad # {} PROVE FALSE
  OBVIOUS
<1>1. PICK n \in Bad : \A m \in Bad : n <= m
  <2>1. Bad \subseteq Nat
    OBVIOUS
  <2> QED BY <2>1, LeastNat
<1>2. n \in Nat /\ \A i \in Rows(p) : i \in Nat /\ i >= 1
  <2>1. \A i \in Rows(p) : i \in 1..Len(ledger)
    BY RowFields DEF Rows
  <2> QED BY <1>1, <2>1
<1>3. n # 0
  BY <1>1, <1>2
<1>4. n - 1 \in Nat /\ n - 1 \notin Bad
  BY <1>1, <1>2, <1>3
<1>5. Upto(n) \ {n} = Upto(n - 1)
  <2>1. \A i \in Rows(p) : (i <= n /\ i # n) <=> i <= n - 1
    BY <1>2
  <2> QED BY <2>1, Zenon
<1>6. \A i \in Rows(p) : GenerationAt(i) \in Nat
  BY RowFields DEF Rows
<1>7. n \in Upto(n)
  BY <1>1, <1>4, <1>5
<1>8. CASE Upto(n - 1) = {}
  <2>1. Upto(n) = {n}
    BY <1>5, <1>7, <1>8
  <2>2. Before(n, n)
    BY <1>2 DEF Before
  <2> QED BY <1>1, <2>1, <2>2
<1>9. CASE Upto(n - 1) # {}
  <2>1. PICK i \in Upto(n - 1) : \A j \in Upto(n - 1) : Before(i, j)
    BY <1>4, <1>9
  <2>2. i \in Rows(p) /\ n \in Rows(p) /\ i < n
    BY <1>2, <1>7, <2>1
  <2>3. CASE GenerationAt(n) >= GenerationAt(i)
    <3>1. \A j \in Upto(n - 1) : Before(n, j)
      BY <1>2, <1>6, <2>1, <2>2, <2>3 DEF Before, GenerationAt
    <3>2. Before(n, n)
      BY <1>2 DEF Before
    <3> QED BY <1>1, <1>5, <1>7, <3>1, <3>2
  <2>4. CASE ~(GenerationAt(n) >= GenerationAt(i))
    <3>1. Before(i, n)
      <4>1. GenerationAt(i) \in Nat /\ GenerationAt(n) \in Nat
        BY <1>6, <2>2
      <4>2. GenerationAt(i) > GenerationAt(n)
        BY <2>4, <4>1
      <4> QED BY <4>2 DEF Before, GenerationAt
    <3>2. i \in Upto(n)
      BY <1>5, <2>1
    <3> QED BY <1>1, <1>5, <2>1, <3>1, <3>2
  <2> QED BY <2>3, <2>4
<1> QED BY <1>8, <1>9

\* latest() answers a record of the ledger that no row of the portfolio passes.
LEMMA LatestIsNewest ==
    ASSUME LifecycleAssumption, LedgerInv, NEW p, Rows(p) # {}
    PROVE  /\ Latest(p) \in Record /\ Latest(p).portfolio = p
           /\ \A i \in Rows(p) : GenerationAt(i) <= Latest(p).generation
<1> DEFINE first == CHOOSE i \in Rows(p) : \A j \in Rows(p) : Before(i, j)
<1>1. first \in Rows(p) /\ \A j \in Rows(p) : Before(first, j)
  BY FirstRow
<1>2. Latest(p) = ledger[first].record
  BY DEF Latest
<1>3. ledger[first].record \in Record /\ ledger[first].record.portfolio = p
  BY <1>1, RowFields DEF Rows
<1>4. \A i \in Rows(p) : GenerationAt(i) \in Nat
  BY RowFields DEF Rows
<1>5. \A i \in Rows(p) : GenerationAt(i) <= GenerationAt(first)
  BY <1>1, <1>4 DEF Before, GenerationAt
<1> QED BY <1>2, <1>3, <1>5 DEF GenerationAt

(***************************************************************************)
(* The steps.  A step that leaves the ledger alone keeps every invariant   *)
(* of the others.                                                          *)
(***************************************************************************)
\* What a process has read stays true when a row is added.
LEMMA StillNewer ==
    ASSUME LedgerInv, NEW row \in LedgerRow, ledger' = Append(ledger, row)
    PROVE  /\ Len(ledger') = Len(ledger) + 1 /\ Len(ledger) \in Nat
           /\ DOMAIN ledger' = DOMAIN ledger \union {Len(ledger) + 1}
           /\ ledger'[Len(ledger) + 1] = row
           /\ \A i \in DOMAIN ledger : ledger'[i] = ledger[i] /\ i <= Len(ledger)
           /\ ledger' \in Seq(LedgerRow)
  BY DEF LedgerInv

LEMMA InitInv == LifecycleAssumption /\ Init => HistoryInv
<1> SUFFICES ASSUME Init PROVE HistoryInv
  OBVIOUS
<1>1. ledger = <<>> /\ ledger \in Seq(LedgerRow) /\ DOMAIN ledger = {}
  BY DEF Init
<1>2. \A p \in Process : task[p] = Idle
  BY DEF Init
<1>3. LedgerInv
  BY <1>1 DEF Init, LedgerInv, Idle
<1> QED BY <1>1, <1>2, <1>3 DEF HistoryInv, WriterInv, ReaderInv, Idle, DisorderOnlyByRace

LEMMA CompareInv ==
    ASSUME LifecycleAssumption, HistoryInv, NEW w \in Writer, Compare(w)
    PROVE  HistoryInv'
<1>1. PICK p \in DOMAIN Assessed, g \in Generation : \E a \in Assessed[p] :
         /\ Rows(p) # {} => Latest(p).generation < g
         /\ Set(w, [pc |-> "insert", length |-> 0,
                    row |-> [record |-> NewRecord(p, g, a), read |-> Len(ledger)]])
  BY DEF Compare
<1>2. PICK a \in Assessed[p] :
         /\ Rows(p) # {} => Latest(p).generation < g
         /\ Set(w, [pc |-> "insert", length |-> 0,
                    row |-> [record |-> NewRecord(p, g, a), read |-> Len(ledger)]])
  BY <1>1
<1> DEFINE row == [record |-> NewRecord(p, g, a), read |-> Len(ledger)]
<1>3. w \in Process /\ ledger' = ledger
        /\ task' = [task EXCEPT ![w] = [pc |-> "insert", row |-> row, length |-> 0]]
  BY <1>2 DEF Set, Process
<1>4. LedgerInv /\ WriterInv /\ ReaderInv /\ DisorderOnlyByRace /\ Len(ledger) \in Nat
  BY DEF HistoryInv, LedgerInv
<1>5. row \in LedgerRow
  <2>1. a \in AllAssessed
    BY DEF AllAssessed
  <2>2. NewRecord(p, g, a) \in Record
    BY <2>1 DEF Record
  <2> QED BY <1>4, <2>2 DEF LedgerRow
<1>6. row.record.portfolio = p /\ row.record.generation = g
  BY DEF NewRecord
<1>7. \A i \in Rows(p) : GenerationAt(i) < g
  <2>1. CASE Rows(p) = {}
    BY <2>1
  <2>2. CASE Rows(p) # {}
    <3>1. Latest(p) \in Record /\ \A i \in Rows(p) : GenerationAt(i) <= Latest(p).generation
      BY <1>4, <2>2, LatestIsNewest
    <3>2. Latest(p).generation < g
      BY <1>2, <2>2
    <3>3. Latest(p).generation \in Nat /\ g \in Nat
      BY <3>1, RecordFields DEF LifecycleAssumption
    <3>4. \A i \in Rows(p) : GenerationAt(i) \in Nat
      BY <1>4, RowFields DEF Rows
    <3> QED BY <3>1, <3>2, <3>3, <3>4
  <2> QED BY <2>1, <2>2
<1> HIDE DEF row
<1>8. LedgerInv'
  BY <1>3, <1>4, <1>5 DEF LedgerInv
<1>9. WriterInv'
  <2> SUFFICES ASSUME NEW q \in Process, (task[q].pc = "insert")'
               PROVE  /\ (task[q].row \in LedgerRow)'
                      /\ (task[q].row.read <= Len(ledger))'
                      /\ \A i \in DOMAIN ledger :
                            /\ i <= task'[q].row.read
                            /\ ledger[i].record.portfolio = task'[q].row.record.portfolio
                            => GenerationAt(i) < task'[q].row.record.generation
    BY <1>3 DEF WriterInv, GenerationAt
  <2>1. CASE q = w
    <3>1. task'[q].row = row
      BY <1>3, <1>4, <2>1 DEF LedgerInv
    <3>2. row.read = Len(ledger)
      BY DEF row
    <3> QED BY <1>3, <1>4, <1>5, <1>6, <1>7, <3>1, <3>2 DEF Rows
  <2>2. CASE q # w
    <3>1. task'[q] = task[q]
      BY <1>3, <1>4, <2>2 DEF LedgerInv
    <3> QED BY <1>3, <1>4, <3>1 DEF WriterInv
  <2> QED BY <2>1, <2>2
<1>10. ReaderInv'
  <2>1. \A q \in Process : task'[q] = task[q] \/ task'[q].pc = "insert"
    BY <1>3, <1>4 DEF LedgerInv
  <2> QED BY <1>3, <1>4, <2>1 DEF ReaderInv, GenerationAt
<1>11. DisorderOnlyByRace'
  BY <1>3, <1>4 DEF DisorderOnlyByRace
<1> QED BY <1>8, <1>9, <1>10, <1>11 DEF HistoryInv

LEMMA InsertInv ==
    ASSUME LifecycleAssumption, HistoryInv, NEW w \in Writer, Insert(w)
    PROVE  HistoryInv'
<1> DEFINE row == task[w].row
           n == Len(ledger) + 1
<1>1. w \in Process /\ task[w].pc = "insert" /\ ledger' = Append(ledger, row)
        /\ task' = [task EXCEPT ![w] = Idle]
  BY DEF Insert, Process
<1>2. LedgerInv /\ WriterInv /\ ReaderInv /\ DisorderOnlyByRace
  BY DEF HistoryInv
<1>3. /\ row \in LedgerRow /\ row.read <= Len(ledger)
      /\ \A i \in DOMAIN ledger :
            /\ i <= row.read
            /\ ledger[i].record.portfolio = row.record.portfolio
            => GenerationAt(i) < row.record.generation
  BY <1>1, <1>2 DEF WriterInv
<1> HIDE DEF row
<1>4. /\ Len(ledger') = n /\ Len(ledger) \in Nat
      /\ DOMAIN ledger' = DOMAIN ledger \union {n}
      /\ ledger'[n] = row
      /\ \A i \in DOMAIN ledger : ledger'[i] = ledger[i] /\ i <= Len(ledger)
      /\ ledger' \in Seq(LedgerRow)
  BY <1>1, <1>2, <1>3, StillNewer
<1>5. row.read \in Nat /\ row.record \in Record
  BY <1>3 DEF LedgerRow
<1>6. \A q \in Process : task'[q] = task[q] \/ task'[q] = Idle
  BY <1>1, <1>2 DEF LedgerInv
<1>7. \A i \in DOMAIN ledger : i \in Nat /\ i < n
  BY <1>2, <1>4, RowFields
<1>8. LedgerInv'
  <2>1. task' \in [Process -> [pc : {"idle", "insert", "show", "shown"},
                        row : {None} \union LedgerRow \union DOMAIN Assessed \union Record,
                        length : Nat]]
    BY <1>1, <1>2 DEF LedgerInv, Idle
  <2>2. \A i \in DOMAIN ledger' : ledger'[i].read < i
    <3>1. \A i \in DOMAIN ledger : ledger'[i].read < i
      BY <1>2, <1>4 DEF LedgerInv
    <3>2. ledger'[n].read < n
      BY <1>3, <1>4, <1>5
    <3> QED BY <1>4, <3>1, <3>2
  <2> QED BY <1>4, <2>1, <2>2 DEF LedgerInv
<1>9. WriterInv'
  <2> SUFFICES ASSUME NEW q \in Process, task'[q].pc = "insert"
               PROVE  /\ task'[q].row \in LedgerRow
                      /\ task'[q].row.read <= Len(ledger')
                      /\ \A i \in DOMAIN ledger' :
                            /\ i <= task'[q].row.read
                            /\ ledger'[i].record.portfolio = task'[q].row.record.portfolio
                            => ledger'[i].record.generation < task'[q].row.record.generation
    BY DEF WriterInv, GenerationAt
  <2>1. task'[q] = task[q]
    BY <1>6 DEF Idle
  <2>2. task[q].row \in LedgerRow /\ task[q].row.read <= Len(ledger) /\ task[q].row.read \in Nat
    BY <1>2, <2>1 DEF WriterInv, LedgerRow
  <2>3. \A i \in DOMAIN ledger' : i <= task[q].row.read => i \in DOMAIN ledger
    BY <1>4, <2>2
  <2> QED BY <1>2, <1>4, <2>1, <2>2, <2>3 DEF WriterInv, GenerationAt
<1>10. ReaderInv'
  <2> SUFFICES ASSUME NEW q \in Process, task'[q].pc \in {"show", "shown"}
               PROVE  /\ task'[q].length <= Len(ledger')
                      /\ task'[q].pc = "show" =>
                            \E i \in DOMAIN ledger' : ledger'[i].record.portfolio = task'[q].row
                      /\ task'[q].pc = "shown" =>
                            /\ task'[q].row \in Record
                            /\ \A i \in DOMAIN ledger' :
                                  /\ i <= task'[q].length
                                  /\ ledger'[i].record.portfolio = task'[q].row.portfolio
                                  => ledger'[i].record.generation <= task'[q].row.generation
    BY DEF ReaderInv, GenerationAt
  <2>1. task'[q] = task[q]
    BY <1>6 DEF Idle
  <2>2. task[q].length <= Len(ledger) /\ task[q].length \in Nat
    BY <1>2, <2>1 DEF ReaderInv, LedgerInv
  <2>3. \A i \in DOMAIN ledger' : i <= task[q].length => i \in DOMAIN ledger
    BY <1>4, <2>2
  <2>4. task'[q].length <= Len(ledger')
    BY <1>4, <2>1, <2>2
  <2>5. task'[q].pc = "show" =>
          \E i \in DOMAIN ledger' : ledger'[i].record.portfolio = task'[q].row
    BY <1>2, <1>4, <2>1 DEF ReaderInv
  <2> QED BY <1>2, <1>4, <2>1, <2>3, <2>4, <2>5 DEF ReaderInv, GenerationAt
<1>11. DisorderOnlyByRace'
  <2> SUFFICES ASSUME NEW i \in DOMAIN ledger', NEW j \in DOMAIN ledger', i < j,
                      ledger'[i].record.portfolio = ledger'[j].record.portfolio,
                      ledger'[j].record.generation <= ledger'[i].record.generation
               PROVE  ledger'[j].read < i
    BY DEF DisorderOnlyByRace
  <2>1. i \in DOMAIN ledger
    BY <1>4, <1>7
  <2>2. CASE j \in DOMAIN ledger
    BY <1>2, <1>4, <2>1, <2>2 DEF DisorderOnlyByRace
  <2>3. CASE j = n
    <3>1. row.record.generation \in Nat /\ GenerationAt(i) \in Nat
      BY <1>2, <1>5, <2>1, RecordFields, RowFields
    <3>2. row.record.generation <= GenerationAt(i)
            /\ ledger[i].record.portfolio = row.record.portfolio
      BY <1>4, <2>1, <2>3 DEF GenerationAt
    <3>3. ~(i <= row.read)
      BY <1>3, <2>1, <3>1, <3>2
    <3> QED BY <1>4, <1>5, <1>7, <2>1, <2>3, <3>3
  <2> QED BY <1>4, <2>2, <2>3
<1> QED BY <1>8, <1>9, <1>10, <1>11 DEF HistoryInv

LEMMA CrashInv ==
    ASSUME HistoryInv, NEW p \in Process, Crash(p)
    PROVE  HistoryInv'
<1>1. ledger' = ledger /\ task' = [task EXCEPT ![p] = Idle]
  BY DEF Crash, Set
<1>2. LedgerInv /\ WriterInv /\ ReaderInv /\ DisorderOnlyByRace
  BY DEF HistoryInv
<1>3. \A q \in Process : task'[q] = task[q] \/ task'[q].pc = "idle"
  BY <1>1, <1>2 DEF LedgerInv, Idle
<1>4. LedgerInv'
  BY <1>1, <1>2 DEF LedgerInv, Idle
<1>5. WriterInv'
  BY <1>1, <1>2, <1>3 DEF WriterInv, GenerationAt
<1>6. ReaderInv'
  BY <1>1, <1>2, <1>3 DEF ReaderInv, GenerationAt
<1>7. DisorderOnlyByRace'
  BY <1>1, <1>2 DEF DisorderOnlyByRace
<1> QED BY <1>4, <1>5, <1>6, <1>7 DEF HistoryInv

\* The SELECT of verify, which finds rows of the portfolio.
LEMMA VerifyInv ==
    ASSUME HistoryInv, NEW r \in Reader, Verify(r)
    PROVE  HistoryInv'
<1>1. PICK p \in DOMAIN Assessed :
         /\ Rows(p) # {}
         /\ Set(r, [pc |-> "show", row |-> p, length |-> Len(ledger)])
  BY DEF Verify
<1>2. r \in Process /\ ledger' = ledger
        /\ task' = [task EXCEPT ![r] = [pc |-> "show", row |-> p, length |-> Len(ledger)]]
  BY <1>1 DEF Set, Process
<1>3. LedgerInv /\ WriterInv /\ ReaderInv /\ DisorderOnlyByRace /\ Len(ledger) \in Nat
  BY DEF HistoryInv, LedgerInv
<1>4. \A q \in Process \ {r} : task'[q] = task[q]
  BY <1>2, <1>3 DEF LedgerInv
<1>5. task'[r] = [pc |-> "show", row |-> p, length |-> Len(ledger)]
  BY <1>2, <1>3 DEF LedgerInv
<1>6. LedgerInv'
  BY <1>2, <1>3 DEF LedgerInv
<1>7. WriterInv'
  BY <1>2, <1>3, <1>4, <1>5 DEF WriterInv, GenerationAt
<1>8. ReaderInv'
  <2>1. \E i \in DOMAIN ledger : ledger[i].record.portfolio = p
    BY <1>1 DEF Rows
  <2>2. \A q \in Process \ {r} :
           /\ task'[q].pc \in {"show", "shown"} => task'[q].length <= Len(ledger')
           /\ task'[q].pc = "show" =>
                 \E i \in DOMAIN ledger' : ledger'[i].record.portfolio = task'[q].row
           /\ task'[q].pc = "shown" =>
                 /\ task'[q].row \in Record
                 /\ \A i \in DOMAIN ledger' :
                       /\ i <= task'[q].length
                       /\ ledger'[i].record.portfolio = task'[q].row.portfolio
                       => ledger'[i].record.generation <= task'[q].row.generation
    BY <1>2, <1>3, <1>4 DEF ReaderInv, GenerationAt
  <2> QED BY <1>2, <1>3, <1>5, <2>1, <2>2 DEF ReaderInv, GenerationAt
<1>9. DisorderOnlyByRace'
  BY <1>2, <1>3 DEF DisorderOnlyByRace
<1> QED BY <1>6, <1>7, <1>8, <1>9 DEF HistoryInv

LEMMA ShowInv ==
    ASSUME LifecycleAssumption, HistoryInv, NEW r \in Reader, Show(r)
    PROVE  HistoryInv'
<1> DEFINE p == task[r].row
           shown == [pc |-> "shown", row |-> Latest(p), length |-> task[r].length]
<1>1. r \in Process /\ task[r].pc = "show" /\ ledger' = ledger
        /\ task' = [task EXCEPT ![r] = shown]
  BY DEF Show, Set, Process
<1>2. LedgerInv /\ WriterInv /\ ReaderInv /\ DisorderOnlyByRace
  BY DEF HistoryInv
<1>3. Rows(p) # {} /\ task[r].length \in Nat /\ task[r].length <= Len(ledger)
  BY <1>1, <1>2 DEF ReaderInv, Rows, LedgerInv
<1>4. Latest(p) \in Record /\ Latest(p).portfolio = p
        /\ \A i \in Rows(p) : GenerationAt(i) <= Latest(p).generation
  BY <1>2, <1>3, LatestIsNewest
<1>5. task'[r] = shown /\ \A q \in Process \ {r} : task'[q] = task[q]
  BY <1>1, <1>2 DEF LedgerInv
<1>6. LedgerInv'
  BY <1>1, <1>2, <1>3, <1>4 DEF LedgerInv
<1>7. WriterInv'
  BY <1>1, <1>2, <1>5 DEF WriterInv, GenerationAt
<1>8. ReaderInv'
  <2>1. /\ task'[r].pc = "shown" /\ task'[r].length <= Len(ledger')
        /\ task'[r].row \in Record
    BY <1>1, <1>3, <1>4, <1>5
  <2>2. \A i \in DOMAIN ledger' :
           ledger'[i].record.portfolio = task'[r].row.portfolio
           => ledger'[i].record.generation <= task'[r].row.generation
    BY <1>1, <1>4, <1>5 DEF Rows, GenerationAt
  <2>3. \A q \in Process \ {r} :
           /\ task'[q].pc \in {"show", "shown"} => task'[q].length <= Len(ledger')
           /\ task'[q].pc = "show" =>
                 \E i \in DOMAIN ledger' : ledger'[i].record.portfolio = task'[q].row
           /\ task'[q].pc = "shown" =>
                 /\ task'[q].row \in Record
                 /\ \A i \in DOMAIN ledger' :
                       /\ i <= task'[q].length
                       /\ ledger'[i].record.portfolio = task'[q].row.portfolio
                       => ledger'[i].record.generation <= task'[q].row.generation
    BY <1>1, <1>2, <1>5 DEF ReaderInv, GenerationAt
  <2> HIDE DEF shown
  <2> QED BY <2>1, <2>2, <2>3 DEF ReaderInv, GenerationAt
<1>9. DisorderOnlyByRace'
  BY <1>1, <1>2 DEF DisorderOnlyByRace
<1> QED BY <1>6, <1>7, <1>8, <1>9 DEF HistoryInv

LEMMA StepInv == LifecycleAssumption /\ HistoryInv /\ [Next]_vars => HistoryInv'
<1> SUFFICES ASSUME LifecycleAssumption, HistoryInv, [Next]_vars PROVE HistoryInv'
  OBVIOUS
<1>1. ASSUME NEW w \in Writer, Compare(w) PROVE HistoryInv'
  BY <1>1, CompareInv
<1>2. ASSUME NEW w \in Writer, Insert(w) PROVE HistoryInv'
  BY <1>2, InsertInv
<1>3. ASSUME NEW r \in Reader, Verify(r) PROVE HistoryInv'
  BY <1>3, VerifyInv
<1>4. ASSUME NEW r \in Reader, Show(r) PROVE HistoryInv'
  BY <1>4, ShowInv
<1>5. ASSUME NEW p \in Process, Crash(p) PROVE HistoryInv'
  BY <1>5, CrashInv
<1>6. CASE UNCHANGED vars
  BY <1>6 DEF vars, HistoryInv, LedgerInv, WriterInv, ReaderInv, DisorderOnlyByRace, GenerationAt
<1> QED BY <1>1, <1>2, <1>3, <1>4, <1>5, <1>6 DEF Next

LEMMA Histories == ASSUME LifecycleAssumption PROVE Spec => []HistoryInv
<1>1. Init => HistoryInv
  BY InitInv
<1>2. HistoryInv /\ [Next]_vars => HistoryInv'
  BY StepInv
<1> QED BY <1>1, <1>2, PTL DEF Spec

(***************************************************************************)
(* The theorems.                                                           *)
(***************************************************************************)
\* A row that repeats or falls behind a generation of its portfolio was
\* written by a writer that had read the ledger before the row it repeats was
\* inserted (persist_portfolio_health reads outside the transaction).
THEOREM OnlyRacesDisorder == ASSUME LifecycleAssumption PROVE Spec => []DisorderOnlyByRace
<1>1. HistoryInv => DisorderOnlyByRace
  BY DEF HistoryInv
<1> QED BY <1>1, Histories, PTL

\* The handler shows a decision no older than any the ledger it verified had,
\* and one that asks to rebalance exactly when it names strategies to replace.
THEOREM ReadersSeeNewest == ASSUME LifecycleAssumption PROVE Spec => []ShownIsNewest
<1>1. HistoryInv => ShownIsNewest
  <2> SUFFICES ASSUME HistoryInv, NEW r \in Reader, task[r].pc = "shown"
               PROVE  /\ \A i \in 1..task[r].length :
                            ledger[i].record.portfolio = task[r].row.portfolio
                            => ledger[i].record.generation <= task[r].row.generation
                      /\ (task[r].row.decision = "REBALANCE_OR_RESEARCH_REPLACEMENT")
                            <=> (task[r].row.replace # {})
    BY DEF ShownIsNewest
  <2>1. r \in Process /\ LedgerInv /\ ReaderInv
    BY DEF HistoryInv, Process
  <2>2. task[r].length \in Nat /\ task[r].length <= Len(ledger) /\ task[r].row \in Record
    BY <2>1 DEF ReaderInv, LedgerInv
  <2>3. \A i \in 1..task[r].length : i \in DOMAIN ledger /\ i <= task[r].length
    BY <2>1, <2>2 DEF LedgerInv
  <2> QED BY <2>1, <2>2, <2>3, RecordFields DEF ReaderInv, GenerationAt
<1> QED BY <1>1, Histories, PTL

\* Every row of the ledger has a generation and a portfolio that were given, and
\* was written after the rows its writer had read.
THEOREM LifecycleTypes == ASSUME LifecycleAssumption PROVE Spec => []TypeOK
<1>1. HistoryInv => TypeOK
  <2>. SUFFICES ASSUME HistoryInv
                PROVE  TypeOK
    OBVIOUS
  <2>1. LedgerInv
    BY DEF HistoryInv
  <2>2. \A r \in Record : r.generation \in Generation /\ r.portfolio \in DOMAIN Assessed
    BY DEF Record, NewRecord
  <2>3. ASSUME NEW i \in DOMAIN ledger
        PROVE  /\ ledger[i].read \in 0..i - 1
               /\ ledger[i].record.generation \in Generation
               /\ ledger[i].record.portfolio \in DOMAIN Assessed
    <3>1. ledger[i] \in LedgerRow /\ i \in Nat /\ ledger[i].read < i
      BY <2>1 DEF LedgerInv
    <3>2. ledger[i].read \in Nat /\ ledger[i].record \in Record
      BY <3>1 DEF LedgerRow
    <3>. QED
      BY <2>2, <3>1, <3>2
  <2>4. \A p \in Process : task[p].pc \in {"idle", "insert", "show", "shown"}
    BY <2>1 DEF LedgerInv
  <2>. QED
    BY <2>3, <2>4 DEF TypeOK
<1> QED BY <1>1, Histories, PTL
=============================================================================
