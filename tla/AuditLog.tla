------------------------------ MODULE AuditLog ------------------------------
(***************************************************************************)
(* What the cloud storage promises to the executor: a map of documents     *)
(* whose every mutation is atomic and is appended to a totally ordered     *)
(* audit log.  The REST protocol that delivers it is in module Storage.    *)
(***************************************************************************)
EXTENDS Naturals, Sequences, FiniteSets

CONSTANTS
    Keys,      \* document names: task ids, worker accounts, solution ids
    Values,    \* document contents
    NoValue    \* the document does not exist; not one of Values

VARIABLES
    docs,      \* the documents of collection index-storage
    log        \* the documents of collection index-audit, in order

vars == <<docs, log>>

Entry == [action : {"insert", "update", "delete"}, id : Keys, data : Values \cup {NoValue}]

TypeOK ==
    /\ docs \in [Keys -> Values \cup {NoValue}]
    /\ log \in Seq(Entry)

Init ==
    /\ docs = [k \in Keys |-> NoValue]
    /\ log = <<>>

\* One atomic mutation: the document and its audit record together.
Record(action, k, v) ==
    /\ docs' = [docs EXCEPT ![k] = v]
    /\ log' = Append(log, [action |-> action, id |-> k, data |-> v])

Insert(k, v) == docs[k] = NoValue /\ Record("insert", k, v)
Update(k, v) == Record("update", k, v)
Delete(k)    == Record("delete", k, NoValue)

Next ==
    \E k \in Keys :
        \/ \E v \in Values : Insert(k, v) \/ Update(k, v)
        \/ Delete(k)

Spec == Init /\ [][Next]_vars

-----------------------------------------------------------------------------
\* The positions of the log that speak of document k.
Mentions(k) == {i \in 1..Len(log) : log[i].id = k}

\* The content of a document is what the last record about it says: the
\* storage can be rebuilt from the audit log, and nothing changed a document
\* without leaving a record.
LogRebuildsDocs ==
    \A k \in Keys :
        \/ Mentions(k) = {} /\ docs[k] = NoValue
        \/ \E i \in Mentions(k) :
              /\ \A j \in Mentions(k) : j <= i
              /\ docs[k] = log[i].data

\* Between two insertions of one key there is a deletion of it: "insert" never
\* overwrites a document somebody else has created.
InsertsOnlyFresh ==
    \A i, j \in 1..Len(log) :
        (/\ i < j
         /\ log[i].action = "insert" /\ log[j].action = "insert"
         /\ log[i].id = log[j].id)
        => \E m \in i..j : log[m].action = "delete" /\ log[m].id = log[i].id
=============================================================================
