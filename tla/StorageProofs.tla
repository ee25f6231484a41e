---------------------------- MODULE StorageProofs ----------------------------
(***************************************************************************)
(* Proofs that the REST protocol of storage.rs implements the atomic,      *)
(* totally ordered log of mutations of module AuditLog, for any number of  *)
(* clients, documents and commits under way.                               *)
(***************************************************************************)
EXTENDS Storage, TLAPS, SequenceTheorems, FiniteSetTheorems

\* The inductive invariant: the audit records have no gap, no commit under way
\* is ahead of them, and what was acknowledged is recorded.
Inv ==
    /\ TypeOK
    /\ AuditContiguous
    /\ NoIndexAhead
    /\ AckedIsRecorded
    /\ OneWinnerPerIndex

LEMMA InitInv == Init => Inv
  BY StorageAssumption
     DEF Init, Inv, TypeOK, AuditContiguous, NoIndexAhead, AckedIsRecorded, OneWinnerPerIndex

\* A commit that passes its preconditions takes exactly the next audit index.
LEMMA CommitTakesNextIndex ==
    ASSUME Inv, NEW r \in inflight, Preconditions(r)
    PROVE  /\ r \in Request
           /\ r.index \in 0..MaxIndex
           /\ r.index = auditIndex + 1
  BY StorageAssumption DEF Inv, TypeOK, AuditContiguous, NoIndexAhead, Preconditions, Request

LEMMA StepInv == Inv /\ [Next]_vars => Inv'
<1> SUFFICES ASSUME Inv, [Next]_vars PROVE Inv'
  OBVIOUS
<1> USE StorageAssumption
<1>1. CASE UNCHANGED vars
  BY <1>1 DEF Inv, TypeOK, AuditContiguous, NoIndexAhead, AckedIsRecorded,
              OneWinnerPerIndex, vars
<1>2. ASSUME NEW c \in Clients, NEW a \in {"insert", "update", "delete"}, NEW k \in Keys,
             NEW v \in Values \cup {NoValue}, a = "delete" <=> v = NoValue, Send(c, a, k, v)
      PROVE  Inv'
  <2> DEFINE r == [client |-> c, action |-> a, id |-> k, data |-> v, index |-> NextAuditIndex]
  <2>1. r \in Request /\ r.index = auditIndex + 1
    BY <1>2 DEF Request, Send, NextAuditIndex, Inv, TypeOK
  <2>2. /\ inflight' = inflight \cup {r}
        /\ waiting' = [waiting EXCEPT ![c] = r]
        /\ UNCHANGED <<docs, audit, auditIndex, acked>>
    BY <1>2 DEF Send
  <2> HIDE DEF r
  <2>3. TypeOK'
    BY <2>1, <2>2 DEF Inv, TypeOK
  <2>4. NoIndexAhead'
    BY <2>1, <2>2 DEF Inv, NoIndexAhead, TypeOK
  <2>5. (AuditContiguous /\ AckedIsRecorded /\ OneWinnerPerIndex)'
    BY <2>2 DEF Inv, AuditContiguous, AckedIsRecorded, OneWinnerPerIndex
  <2>6. QED
    BY <2>3, <2>4, <2>5 DEF Inv
<1>3. ASSUME NEW r \in inflight, Commit(r) PROVE Inv'
  <2>1. /\ r \in Request
        /\ r.index \in 0..MaxIndex
        /\ r.index = auditIndex + 1
    BY <1>3, CommitTakesNextIndex DEF Commit
  <2>2. /\ docs' = [docs EXCEPT ![r.id] = r.data]
        /\ auditIndex' = r.index
        /\ inflight' = inflight \ {r}
    BY <1>3 DEF Commit, Apply
  <2> DEFINE e == [action |-> r.action, id |-> r.id, data |-> r.data]
  <2>3. /\ DOMAIN audit' = DOMAIN audit \cup {r.index}
        /\ audit' = [i \in DOMAIN audit' |-> IF i = r.index THEN e ELSE audit[i]]
    BY <1>3 DEF Commit, Apply
  <2>4. e \in Entry /\ r.client \in Clients /\ r.id \in Keys /\ r.data \in Values \cup {NoValue}
    BY <2>1 DEF Request, Entry
  <2>5. \/ UNCHANGED <<waiting, acked>>
        \/ /\ waiting' = [waiting EXCEPT ![r.client] = NoRequest]
           /\ acked' = acked \cup {r}
    BY <1>3 DEF Commit
  <2> HIDE DEF e
  <2>6. TypeOK'
    <3>1. docs' \in [Keys -> Values \cup {NoValue}]
      BY <2>2, <2>4 DEF Inv, TypeOK
    <3>2. auditIndex' \in -1..MaxIndex
      BY <2>1, <2>2 DEF Inv, TypeOK
    <3>3. audit' \in [DOMAIN audit' -> Entry]
      BY <2>3, <2>4 DEF Inv, TypeOK
    <3>4. DOMAIN audit' \subseteq 0..MaxIndex
      BY <2>1, <2>3 DEF Inv, TypeOK
    <3>5. inflight' \subseteq Request
      BY <2>2 DEF Inv, TypeOK
    <3>6. waiting' \in [Clients -> Request \cup {NoRequest}]
      BY <2>4, <2>5 DEF Inv, TypeOK
    <3>7. acked' \subseteq Request
      BY <2>1, <2>5 DEF Inv, TypeOK
    <3>8. QED
      BY <3>1, <3>2, <3>3, <3>4, <3>5, <3>6, <3>7 DEF TypeOK
  <2>7. AuditContiguous'
    BY <2>1, <2>2, <2>3 DEF Inv, AuditContiguous, TypeOK
  <2>8. NoIndexAhead'
    <3>1. \A q \in inflight : q.index \in Int
      BY DEF Inv, TypeOK, Request
    <3>2. QED
      BY <2>1, <2>2, <3>1 DEF Inv, NoIndexAhead, TypeOK
  <2>9. \A q \in acked : q.index \in DOMAIN audit /\ q.index # r.index
    BY <1>3 DEF Inv, AckedIsRecorded, Commit, Preconditions
  <2>10. AckedIsRecorded'
    <3>1. \A q \in acked : /\ q.index \in DOMAIN audit'
                           /\ audit'[q.index] = audit[q.index]
      BY <2>3, <2>9
    <3>2. r.index \in DOMAIN audit' /\ audit'[r.index] = e
      BY <2>3
    <3>3. acked' \subseteq acked \cup {r}
      BY <2>5
    <3>4. QED
      BY <3>1, <3>2, <3>3 DEF Inv, AckedIsRecorded, e
  <2>11. OneWinnerPerIndex'
    BY <2>5, <2>9 DEF Inv, OneWinnerPerIndex
  <2>12. QED
    BY <2>6, <2>7, <2>8, <2>10, <2>11 DEF Inv
<1>4. ASSUME NEW r \in inflight, Reject(r) PROVE Inv'
  BY <1>4 DEF Reject, Inv, TypeOK, AuditContiguous, NoIndexAhead, AckedIsRecorded,
              OneWinnerPerIndex
<1>5. ASSUME NEW r \in inflight, Lose(r) PROVE Inv'
  BY <1>5 DEF Lose, Inv, TypeOK, AuditContiguous, NoIndexAhead, AckedIsRecorded,
              OneWinnerPerIndex
<1>6. ASSUME NEW c \in Clients, GiveUp(c) PROVE Inv'
  BY <1>6 DEF GiveUp, Inv, TypeOK, AuditContiguous, NoIndexAhead, AckedIsRecorded,
              OneWinnerPerIndex
<1>7. QED
  BY <1>1, <1>2, <1>3, <1>4, <1>5, <1>6 DEF Next, Insert, Update, Delete

LEMMA Invariance == Spec => []Inv
  BY InitInv, StepInv, PTL DEF Spec

\* Type correctness of the storage protocol.
THEOREM StorageTypeCorrect == Spec => []TypeOK
<1>1. Inv => TypeOK
  BY DEF Inv
<1>2. QED
  BY <1>1, Invariance, PTL

\* Whatever clients give up on, whatever is delayed or lost, a mutation that was
\* acknowledged (status 200 to insert, update or delete) is in the audit log at
\* its own index.
THEOREM AcknowledgedIsRecorded == Spec => []AckedIsRecorded
<1>1. Inv => AckedIsRecorded
  BY DEF Inv
<1>2. QED
  BY <1>1, Invariance, PTL

\* Of the mutations that were sent with one audit index, at most one is acknowledged:
\* the others fail at the precondition on the audit record.
THEOREM AtMostOneWins == Spec => []OneWinnerPerIndex
<1>1. Inv => OneWinnerPerIndex
  BY DEF Inv
<1>2. QED
  BY <1>1, Invariance, PTL

-----------------------------------------------------------------------------
Refined == INSTANCE AuditLogProofs WITH log <- auditLog

LEMMA InitRefines == Init => Refined!Init
<1> SUFFICES ASSUME Init PROVE Refined!Init
  OBVIOUS
<1>1. auditLog = <<>>
  BY DEF Init, auditLog
<1>2. QED
  BY <1>1 DEF Init, Refined!Init

\* A commit appends one record to the audit log read as a sequence.
LEMMA CommitRefines ==
    ASSUME Inv, Inv', NEW r \in inflight, Commit(r)
    PROVE  Refined!Next
<1> USE StorageAssumption
<1> DEFINE e == [action |-> r.action, id |-> r.id, data |-> r.data]
<1>1. /\ r \in Request
      /\ r.index = auditIndex + 1
      /\ auditIndex \in Int /\ auditIndex + 1 \in Nat
  BY CommitTakesNextIndex DEF Commit, Inv, TypeOK
<1>2. /\ docs' = [docs EXCEPT ![r.id] = r.data]
      /\ auditIndex' = auditIndex + 1
      /\ DOMAIN audit' = DOMAIN audit \cup {r.index}
      /\ audit' = [i \in DOMAIN audit' |-> IF i = r.index THEN e ELSE audit[i]]
  BY <1>1 DEF Commit, Apply
<1>3. r.action = "insert" => docs[r.id] = NoValue
  BY DEF Commit, Preconditions
<1>4. DOMAIN audit = 0..auditIndex
  BY DEF Inv, AuditContiguous
<1>5. e \in Entry
  BY <1>1 DEF Request, Entry
<1>6. auditLog \in Seq(Entry) /\ Len(auditLog) = auditIndex + 1
  <2>1. \A i \in 1..(auditIndex + 1) : audit[i - 1] \in Entry
    BY <1>1, <1>4 DEF Inv, TypeOK
  <2>2. QED
    BY <1>1, <2>1 DEF auditLog
<1>7. auditLog' = Append(auditLog, e)
  <2> DEFINE t == Append(auditLog, e)
  <2> HIDE DEF e
  <2>1. auditLog' = [i \in 1..(auditIndex + 2) |-> audit'[i - 1]]
    BY <1>1, <1>2 DEF auditLog
  <2>2. \A i \in 1..(auditIndex + 1) : audit'[i - 1] = auditLog[i]
    BY <1>1, <1>2, <1>4 DEF auditLog
  <2>3. audit'[auditIndex + 1] = e
    BY <1>1, <1>2
  <2>4. /\ t \in Seq(Entry)
        /\ Len(t) = auditIndex + 2
        /\ \A i \in 1..(auditIndex + 1) : t[i] = auditLog[i]
        /\ t[auditIndex + 2] = e
    BY <1>1, <1>5, <1>6, AppendProperties
  <2>5. \A i \in 1..(auditIndex + 2) : audit'[i - 1] = t[i]
    BY <1>1, <2>2, <2>3, <2>4
  <2> HIDE DEF t
  <2>6. auditLog' \in Seq(Entry) /\ Len(auditLog') = auditIndex + 2
    <3>1. \A i \in 1..(auditIndex + 2) : t[i] \in Entry
      BY <1>1, <2>4
    <3>2. QED
      BY <1>1, <2>1, <2>5, <3>1
  <2>7. t = auditLog'
    BY <2>1, <2>4, <2>5, <2>6, SeqEqual
  <2>8. QED
    BY <2>7 DEF t
<1>8. Refined!Record(r.action, r.id, r.data)
  BY <1>2, <1>7 DEF Refined!Record
<1>9. CASE r.action = "delete"
  BY <1>1, <1>8, <1>9 DEF Refined!Next, Refined!Delete, Request
<1>10. CASE r.action = "insert"
  BY <1>1, <1>3, <1>8, <1>10 DEF Refined!Next, Refined!Insert, Request
<1>11. CASE r.action = "update"
  BY <1>1, <1>8, <1>11 DEF Refined!Next, Refined!Update, Request
<1>12. QED
  BY <1>1, <1>9, <1>10, <1>11 DEF Request

\* Every other step of the protocol leaves documents and audit records alone.
LEMMA StepRefines == Inv /\ Inv' /\ [Next]_vars => [Refined!Next]_(Refined!vars)
<1> SUFFICES ASSUME Inv, Inv', [Next]_vars
             PROVE  Refined!Next \/ UNCHANGED Refined!vars
  OBVIOUS
<1>1. ASSUME NEW r \in inflight, Commit(r) PROVE Refined!Next
  BY <1>1, CommitRefines
<1>2. ASSUME UNCHANGED <<docs, audit, auditIndex>> PROVE UNCHANGED Refined!vars
  BY <1>2 DEF Refined!vars, auditLog
<1>3. QED
  BY <1>1, <1>2 DEF Next, vars, Insert, Update, Delete, Send, Reject, Lose, GiveUp

\* The REST protocol implements the atomic log of mutations: a step of it is
\* one mutation, or nothing the documents and the audit log show.
THEOREM StorageImplementsAuditLog == Spec => ImplementsAuditLog
<1>1. Spec => Refined!Spec
  BY InitRefines, StepRefines, Invariance, PTL DEF Spec, Refined!Spec
<1>2. Refined!Init <=> Abstract!Init
  BY DEF Refined!Init, Abstract!Init
<1>3. [Refined!Next]_(Refined!vars) <=> [Abstract!Next]_(Abstract!vars)
  BY DEF Refined!Next, Abstract!Next, Refined!vars, Abstract!vars, Refined!Insert,
         Abstract!Insert, Refined!Update, Abstract!Update, Refined!Delete, Abstract!Delete,
         Refined!Record, Abstract!Record
<1>4. QED
  BY <1>1, <1>2, <1>3, PTL DEF ImplementsAuditLog, Refined!Spec, Abstract!Spec

\* The documents of the cloud storage can be rebuilt from its audit collection.
THEOREM StorageLogRebuildsDocs == Spec => []LogRebuildsDocs
<1>1. Refined!LogRebuildsDocs <=> LogRebuildsDocs
  BY DEF LogRebuildsDocs, Abstract!LogRebuildsDocs, Refined!LogRebuildsDocs,
         Abstract!Mentions, Refined!Mentions
<1>2. Spec => Refined!Spec
  BY InitRefines, StepRefines, Invariance, PTL DEF Spec, Refined!Spec
<1>3. Refined!Spec => []Refined!LogRebuildsDocs
  BY Refined!AuditLogRebuildsDocs
<1>4. QED
  BY <1>1, <1>2, <1>3, PTL

\* insert of storage.rs never overwrites a document that exists.
THEOREM StorageInsertsOnlyFresh == Spec => []InsertsOnlyFresh
<1>1. Refined!InsertsOnlyFresh <=> InsertsOnlyFresh
  BY DEF InsertsOnlyFresh, Abstract!InsertsOnlyFresh, Refined!InsertsOnlyFresh
<1>2. Spec => Refined!Spec
  BY InitRefines, StepRefines, Invariance, PTL DEF Spec, Refined!Spec
<1>3. Refined!Spec => []Refined!InsertsOnlyFresh
  BY Refined!AuditInsertsOnlyFresh, StorageAssumption
<1>4. QED
  BY <1>1, <1>2, <1>3, PTL
=============================================================================
