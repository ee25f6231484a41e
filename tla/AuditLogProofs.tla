--------------------------- MODULE AuditLogProofs ---------------------------
(***************************************************************************)
(* Proofs about the abstract storage: the log rebuilds the documents, and  *)
(* an insertion never overwrites.                                          *)
(***************************************************************************)
EXTENDS AuditLog, TLAPS, SequenceTheorems

\* Type correctness: documents and log stay within their types.
THEOREM AuditTypeCorrect == Spec => []TypeOK
<1>1. Init => TypeOK
  BY DEF Init, TypeOK
<1>2. TypeOK /\ [Next]_vars => TypeOK'
  <2> SUFFICES ASSUME TypeOK, [Next]_vars PROVE TypeOK'
    OBVIOUS
  <2>1. CASE UNCHANGED vars
    BY <2>1 DEF TypeOK, vars
  <2>2. ASSUME NEW k \in Keys, NEW v \in Values \cup {NoValue},
               NEW a \in {"insert", "update", "delete"}, Record(a, k, v)
        PROVE  TypeOK'
    <3>1. [action |-> a, id |-> k, data |-> v] \in Entry
      BY <2>2 DEF Entry
    <3>2. log' \in Seq(Entry)
      BY <2>2, <3>1, AppendProperties DEF TypeOK, Record
    <3>3. QED
      BY <2>2, <3>2 DEF TypeOK, Record
  <2>3. QED
    BY <2>1, <2>2 DEF Next, Insert, Update, Delete
<1>3. QED
  BY <1>1, <1>2, PTL DEF Spec

\* One recorded mutation keeps LogRebuildsDocs: the new record is the last one
\* about its document, and the records about the others are where they were.
LEMMA RecordRebuilds ==
    ASSUME TypeOK, LogRebuildsDocs, NEW a \in {"insert", "update", "delete"},
           NEW k \in Keys, NEW v \in Values \cup {NoValue}, Record(a, k, v)
    PROVE  LogRebuildsDocs'
<1> DEFINE e == [action |-> a, id |-> k, data |-> v]
<1>1. /\ e \in Entry
      /\ log' = Append(log, e)
      /\ log \in Seq(Entry)
  BY DEF Record, TypeOK, Entry
<1>2. /\ Len(log) \in Nat
      /\ Len(log') = Len(log) + 1
      /\ log'[Len(log) + 1] = e
      /\ \A i \in 1..Len(log) : log'[i] = log[i]
  BY <1>1, AppendProperties
<1> HIDE DEF e
<1>3. ASSUME NEW x \in Keys
      PROVE  \/ Mentions(x)' = {} /\ docs'[x] = NoValue
             \/ \E i \in Mentions(x)' :
                   /\ \A j \in Mentions(x)' : j <= i
                   /\ docs'[x] = log'[i].data
  <2>1. CASE x = k
    <3>1. Len(log) + 1 \in Mentions(x)'
      BY <1>2, <2>1 DEF Mentions, e
    <3>2. \A j \in Mentions(x)' : j <= Len(log) + 1
      BY <1>2 DEF Mentions
    <3>3. docs'[x] = log'[Len(log) + 1].data
      BY <1>2, <2>1 DEF Record, TypeOK, e
    <3>4. QED
      BY <3>1, <3>2, <3>3
  <2>2. CASE x # k
    <3>1. Mentions(x)' = Mentions(x)
      BY <1>2, <2>2 DEF Mentions, e
    <3>2. docs'[x] = docs[x]
      BY <2>2 DEF Record, TypeOK
    <3>3. \A i \in Mentions(x) : log'[i] = log[i]
      BY <1>2 DEF Mentions
    <3>4. QED
      BY <3>1, <3>2, <3>3 DEF LogRebuildsDocs
  <2>3. QED
    BY <2>1, <2>2
<1>4. QED
  BY <1>3 DEF LogRebuildsDocs

\* The documents are always what the audit log says (update, insert and delete
\* in storage.rs commit a document and its audit record together).
THEOREM AuditLogRebuildsDocs == Spec => []LogRebuildsDocs
<1>1. Init => LogRebuildsDocs
  BY DEF Init, LogRebuildsDocs, Mentions
<1>2. TypeOK /\ LogRebuildsDocs /\ [Next]_vars => LogRebuildsDocs'
  <2> SUFFICES ASSUME TypeOK, LogRebuildsDocs, [Next]_vars
               PROVE  LogRebuildsDocs'
    OBVIOUS
  <2>1. CASE UNCHANGED vars
    BY <2>1 DEF LogRebuildsDocs, Mentions, vars
  <2>2. CASE Next
    BY <2>2, RecordRebuilds DEF Next, Insert, Update, Delete
  <2>3. QED
    BY <2>1, <2>2
<1>3. QED
  BY <1>1, <1>2, AuditTypeCorrect, PTL DEF Spec

\* A key that was inserted and not deleted since exists: what an insertion
\* finds absent has been deleted after every earlier insertion.
DeletedIfAbsent ==
    \A i \in 1..Len(log) :
        (log[i].action = "insert" /\ docs[log[i].id] = NoValue)
        => \E m \in i..Len(log) : log[m].action = "delete" /\ log[m].id = log[i].id

\* One recorded mutation keeps DeletedIfAbsent.
LEMMA RecordDeleted ==
    ASSUME NoValue \notin Values, TypeOK, DeletedIfAbsent,
           NEW a \in {"insert", "update", "delete"},
           NEW k \in Keys, NEW v \in Values \cup {NoValue}, Record(a, k, v),
           a = "delete" \/ v \in Values
    PROVE  DeletedIfAbsent'
<1> DEFINE e == [action |-> a, id |-> k, data |-> v]
<1>1. /\ e \in Entry
      /\ log' = Append(log, e)
      /\ log \in Seq(Entry)
  BY DEF Record, TypeOK, Entry
<1>2. /\ Len(log) \in Nat
      /\ Len(log') = Len(log) + 1
      /\ log'[Len(log) + 1] = e
      /\ \A i \in 1..Len(log) : log'[i] = log[i] /\ log[i] \in Entry
  BY <1>1, AppendProperties, ElementOfSeq
<1> SUFFICES ASSUME NEW i \in 1..Len(log'),
                    log'[i].action = "insert", docs'[log'[i].id] = NoValue
             PROVE  \E m \in i..Len(log') : /\ log'[m].action = "delete"
                                            /\ log'[m].id = log'[i].id
  BY DEF DeletedIfAbsent
<1>3. CASE a = "delete" /\ log'[i].id = k
  BY <1>2, <1>3
<1>4. CASE ~(a = "delete") /\ log'[i].id = k
  <2>1. docs'[k] = v
    BY DEF Record, TypeOK
  <2>2. QED
    BY <1>4, <2>1
<1>5. CASE log'[i].id # k
  <2>1. i \in 1..Len(log)
    BY <1>2, <1>5
  <2>2. docs[log[i].id] = NoValue
    BY <1>2, <1>5, <2>1 DEF Record, TypeOK, Entry
  <2>3. PICK m \in i..Len(log) : log[m].action = "delete" /\ log[m].id = log[i].id
    BY <1>2, <2>1, <2>2 DEF DeletedIfAbsent
  <2>4. m \in 1..Len(log) /\ m \in i..Len(log')
    BY <1>2, <2>1, <2>3
  <2>5. QED
    BY <1>2, <2>1, <2>3, <2>4
<1>6. QED
  BY <1>3, <1>4, <1>5

\* One recorded mutation keeps InsertsOnlyFresh.
LEMMA RecordFresh ==
    ASSUME TypeOK, DeletedIfAbsent, InsertsOnlyFresh,
           NEW a \in {"insert", "update", "delete"},
           NEW k \in Keys, NEW v \in Values \cup {NoValue}, Record(a, k, v),
           a = "insert" => docs[k] = NoValue
    PROVE  InsertsOnlyFresh'
<1> DEFINE e == [action |-> a, id |-> k, data |-> v]
<1>1. /\ e \in Entry
      /\ log' = Append(log, e)
      /\ log \in Seq(Entry)
  BY DEF Record, TypeOK, Entry
<1>2. /\ Len(log) \in Nat
      /\ Len(log') = Len(log) + 1
      /\ log'[Len(log) + 1] = e
      /\ \A i \in 1..Len(log) : log'[i] = log[i]
  BY <1>1, AppendProperties
<1> SUFFICES ASSUME NEW i \in 1..Len(log'), NEW j \in 1..Len(log'), i < j,
                    log'[i].action = "insert", log'[j].action = "insert",
                    log'[i].id = log'[j].id
             PROVE  \E m \in i..j : log'[m].action = "delete" /\ log'[m].id = log'[i].id
  BY DEF InsertsOnlyFresh
<1>3. i \in 1..Len(log)
  BY <1>2
<1>4. CASE j = Len(log) + 1
  <2>1. a = "insert" /\ log[i].id = k /\ docs[k] = NoValue
    BY <1>2, <1>3, <1>4
  <2>2. PICK m \in i..Len(log) : log[m].action = "delete" /\ log[m].id = log[i].id
    BY <1>2, <1>3, <2>1 DEF DeletedIfAbsent
  <2>3. m \in 1..Len(log) /\ m \in i..j
    BY <1>2, <1>3, <1>4, <2>2
  <2>4. QED
    BY <1>2, <1>3, <2>2, <2>3
<1>5. CASE j \in 1..Len(log)
  <2>1. PICK m \in i..j : log[m].action = "delete" /\ log[m].id = log[i].id
    BY <1>2, <1>3, <1>5 DEF InsertsOnlyFresh
  <2>2. m \in 1..Len(log)
    BY <1>2, <1>3, <1>5, <2>1
  <2>3. QED
    BY <1>2, <1>3, <2>1, <2>2
<1>6. QED
  BY <1>2, <1>4, <1>5

\* An insertion never overwrites a document: between two insertions of a key
\* the key was deleted.
THEOREM AuditInsertsOnlyFresh ==
    ASSUME NoValue \notin Values
    PROVE  Spec => []InsertsOnlyFresh
<1> DEFINE I == DeletedIfAbsent /\ InsertsOnlyFresh
<1>1. Init => I
  BY DEF Init, DeletedIfAbsent, InsertsOnlyFresh
<1>2. TypeOK /\ I /\ [Next]_vars => I'
  <2> SUFFICES ASSUME TypeOK, I, [Next]_vars PROVE I'
    OBVIOUS
  <2>1. CASE UNCHANGED vars
    BY <2>1 DEF DeletedIfAbsent, InsertsOnlyFresh, vars
  <2>2. ASSUME NEW k \in Keys, NEW v \in Values, Insert(k, v) PROVE I'
    BY <2>2, RecordDeleted, RecordFresh DEF Insert
  <2>3. ASSUME NEW k \in Keys, NEW v \in Values, Update(k, v) PROVE I'
    BY <2>3, RecordDeleted, RecordFresh DEF Update
  <2>4. ASSUME NEW k \in Keys, Delete(k) PROVE I'
    BY <2>4, RecordDeleted, RecordFresh DEF Delete
  <2>5. QED
    BY <2>1, <2>2, <2>3, <2>4 DEF Next
<1>3. I => InsertsOnlyFresh
  OBVIOUS
<1>4. QED
  BY <1>1, <1>2, <1>3, AuditTypeCorrect, PTL DEF Spec
=============================================================================
