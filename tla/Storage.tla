------------------------------ MODULE Storage -------------------------------
(***************************************************************************)
(* The REST protocol of storage.rs.  A mutation is a GET of the            *)
(* audit-index document followed by one documents:commit POST with three   *)
(* writes: the key document, the audit record at the index just read plus  *)
(* one (precondition: it does not exist), and the audit-index document.    *)
(* Nothing orders two clients; a POST may be delayed past the moment its   *)
(* caller gave up, or never arrive, and its reply may be lost.             *)
(*                                                                         *)
(* The commit itself (all writes or none, preconditions evaluated with     *)
(* the writes) is Firestore's contract and is external.  Timestamps are    *)
(* left out.                                                               *)
(***************************************************************************)
EXTENDS Integers, Sequences, FiniteSets

CONSTANTS
    Keys, Values, NoValue,
    Clients,    \* concurrent queries of the executor, each with a StorageClient
    NoRequest,  \* the client waits for no reply
    MaxIndex,   \* bound of the model: no audit index above it is requested
    MaxInflight \* bound of the model: commits on their way at the same time

ASSUME StorageAssumption ==
    /\ NoValue \notin Values
    /\ MaxIndex \in Nat
    /\ MaxInflight \in Nat

VARIABLES
    docs,       \* collection index-storage, without the audit-index document
    audit,      \* collection index-audit: function from a set of indices to records
    auditIndex, \* the audit-index document, -1 when it does not exist
    inflight,   \* commits sent and neither applied, rejected nor lost
    waiting,    \* the commit each client waits for
    acked       \* history: the commits answered with status 200

vars == <<docs, audit, auditIndex, inflight, waiting, acked>>

\* A delete carries no data; the other mutations do.
Request ==
    {r \in [client : Clients, action : {"insert", "update", "delete"},
            id : Keys, data : Values \cup {NoValue}, index : 0..MaxIndex] :
        r.action = "delete" <=> r.data = NoValue}

Entry == [action : {"insert", "update", "delete"}, id : Keys, data : Values \cup {NoValue}]

TypeOK ==
    /\ docs \in [Keys -> Values \cup {NoValue}]
    /\ auditIndex \in -1..MaxIndex
    /\ audit \in [DOMAIN audit -> Entry]
    /\ DOMAIN audit \subseteq 0..MaxIndex
    /\ inflight \subseteq Request
    /\ waiting \in [Clients -> Request \cup {NoRequest}]
    /\ acked \subseteq Request

Init ==
    /\ docs = [k \in Keys |-> NoValue]
    /\ audit = [i \in {} |-> NoValue]
    /\ auditIndex = -1
    /\ inflight = {}
    /\ waiting = [c \in Clients |-> NoRequest]
    /\ acked = {}

-----------------------------------------------------------------------------
\* Slip: the stored value is used as it is.
NextAuditIndex_Stored == auditIndex

\* fetch_audit_index: 404 gives 0, otherwise the stored value plus one.
NextAuditIndex == auditIndex + 1

\* The two halves of insert, update and delete: fetch_audit_index, then the
\* POST leaves the client.
Send(c, action, k, v) ==
    LET r == [client |-> c, action |-> action, id |-> k, data |-> v, index |-> NextAuditIndex]
    IN  /\ waiting[c] = NoRequest
        /\ NextAuditIndex <= MaxIndex
        /\ Cardinality(inflight) < MaxInflight
        /\ inflight' = inflight \cup {r}
        /\ waiting' = [waiting EXCEPT ![c] = r]
        /\ UNCHANGED <<docs, audit, auditIndex, acked>>

Insert(c, k, v) == Send(c, "insert", k, v)
Update(c, k, v) == Send(c, "update", k, v)
Delete(c, k)    == Send(c, "delete", k, NoValue)

\* Slip: an audit record may be overwritten.
Preconditions_NoAuditCheck(r) == r.action = "insert" => docs[r.id] = NoValue

\* Slip: insert creates or overwrites.
Preconditions_NoExists(r) == r.index \notin DOMAIN audit

\* The "currentDocument" preconditions of the writes: the audit record must not
\* exist, and neither must the document an insert creates.  update and delete
\* put no precondition on the key document.
Preconditions(r) ==
    /\ r.index \notin DOMAIN audit
    /\ r.action = "insert" => docs[r.id] = NoValue

\* The three writes of one commit.
Apply(r) ==
    /\ docs' = [docs EXCEPT ![r.id] = r.data]
    /\ audit' = [i \in DOMAIN audit \cup {r.index} |->
                    IF i = r.index
                    THEN [action |-> r.action, id |-> r.id, data |-> r.data]
                    ELSE audit[i]]
    /\ auditIndex' = r.index

\* The service applies a commit; the client still waiting learns it (status
\* 200) unless the reply is lost.
Commit(r) ==
    /\ r \in inflight
    /\ Preconditions(r)
    /\ Apply(r)
    /\ inflight' = inflight \ {r}
    /\ \/ /\ waiting[r.client] = r
          /\ waiting' = [waiting EXCEPT ![r.client] = NoRequest]
          /\ acked' = acked \cup {r}
       \/ UNCHANGED <<waiting, acked>>

\* A precondition fails: no write is applied and the client gets
\* "CallServiceFailed".
Reject(r) ==
    /\ r \in inflight
    /\ ~Preconditions(r)
    /\ inflight' = inflight \ {r}
    /\ waiting' = [waiting EXCEPT ![r.client] = IF @ = r THEN NoRequest ELSE @]
    /\ UNCHANGED <<docs, audit, auditIndex, acked>>

\* The POST never reaches the service.
Lose(r) ==
    /\ r \in inflight
    /\ inflight' = inflight \ {r}
    /\ UNCHANGED <<docs, audit, auditIndex, waiting, acked>>

\* http_req! fails or the query is cut off: the client stops waiting, whatever
\* becomes of its POST.
GiveUp(c) ==
    /\ waiting[c] # NoRequest
    /\ waiting' = [waiting EXCEPT ![c] = NoRequest]
    /\ UNCHANGED <<docs, audit, auditIndex, inflight, acked>>

Next ==
    \/ \E c \in Clients, k \in Keys :
          \/ \E v \in Values : Insert(c, k, v) \/ Update(c, k, v)
          \/ Delete(c, k)
    \/ \E r \in inflight : Commit(r) \/ Reject(r) \/ Lose(r)
    \/ \E c \in Clients : GiveUp(c)

Spec == Init /\ [][Next]_vars

-----------------------------------------------------------------------------
\* The audit records have the indices 0 .. auditIndex without a gap, so the
\* index a client reads is the only one at which a new record can go.
AuditContiguous == DOMAIN audit = 0..auditIndex

\* A commit never holds an index beyond the next one, so one that was overtaken
\* finds its index taken: it cannot land after a mutation it has not seen.
NoIndexAhead == \A r \in inflight : r.index <= auditIndex + 1

\* A commit acknowledged to its client is in the audit log at its own index and
\* stays there.
AckedIsRecorded ==
    \A r \in acked :
        /\ r.index \in DOMAIN audit
        /\ audit[r.index] = [action |-> r.action, id |-> r.id, data |-> r.data]

\* Of the clients that have read the same audit index, at most one is told it has succeeded.
OneWinnerPerIndex == \A r1, r2 \in acked : r1.index = r2.index => r1 = r2

\* The audit collection read as a sequence.
auditLog == [i \in 1..(auditIndex + 1) |-> audit[i - 1]]

Abstract == INSTANCE AuditLog WITH log <- auditLog

\* The REST protocol implements the atomic, totally ordered log of mutations.
ImplementsAuditLog == Abstract!Spec

\* The documents can be rebuilt from the audit collection.
LogRebuildsDocs == Abstract!LogRebuildsDocs

\* insert never overwrites a document that exists.
InsertsOnlyFresh == Abstract!InsertsOnlyFresh
=============================================================================
