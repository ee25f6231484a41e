------------------------------- MODULE Intake -------------------------------
(***************************************************************************)
(* How a deposit becomes a task: upload_solution and run(Fetch) of lib.rs, *)
(* the readers of task_fetcher.rs, the conversion of a solution in         *)
(* task_deposit.rs and step.rs, up to the documents Task::init inserts.    *)
(* One worker, whose deposits wait in the handlers of several chains.      *)
(*                                                                         *)
(* A query is a session that may be cut off between its steps, which are   *)
(* the reads and writes of chain and storage.  What becomes of a stored    *)
(* task is module TaskEngine; only its two effects on the intake are       *)
(* here, ClaimTask and ReleaseWorker.  Left out: the amounts (but see      *)
(* Huge) and parties of a deposit, and the configuration, keys and         *)
(* registry of the contract.                                               *)
(***************************************************************************)
EXTENDS Naturals, Sequences

CONSTANTS
    Chains,     \* the chains of the registry
    Evm,        \* those with a Solidity handler; the others have pallet-index
    Tasks,      \* deposits the users may make
    Home,       \* Home[t]: the chain of the deposit
    Huge,       \* deposits of more than u128::MAX, which a Solidity handler takes
    Names,      \* what steps give as the name of a chain
    Solutions,  \* what users give as a solution: lists of steps ...
    Garbage,    \* ... or bytes that are not a list of steps
    Sessions,   \* queries that may run at the same time
    NoTask,     \* the worker has no task
    NoDoc       \* the document does not exist

Step == [src : Names, dst : Names, address : {"valid", "odd", "empty"}]

ASSUME IntakeAssumption ==
    /\ Solutions \subseteq Seq(Seq(Step))
    /\ \A t \in Tasks : Home[t] \in Chains
    /\ Huge \subseteq {t \in Tasks : Home[t] \in Evm}
    /\ Garbage \notin Solutions
    /\ NoDoc \notin Solutions \cup {Garbage}
    /\ NoTask \notin Tasks

VARIABLES
    paused,     \* is_paused of the contract
    handler,    \* what the handler of its chain knows of a deposit
    deposits,   \* the number of deposits made
    at,         \* the position of a deposit among them, 0 before it
    drops,      \* worker_drop_task transactions on their way
    solution,   \* the solution document of a task, or the one in its deposit record
    taskDoc,    \* the task documents: status and steps of a task
    workerDoc,  \* the document of the worker: the task it executes
    pc, job, rec    \* of a session: where it is, its task, what it has read

chainVars == <<handler, deposits, at, drops>>
storageVars == <<solution, taskDoc, workerDoc>>
sessionVars == <<pc, job, rec>>
vars == <<paused, chainVars, storageVars, sessionVars>>

-----------------------------------------------------------------------------
(***************************************************************************)
(* Solutions.  An element of a solution is one step or a batch of them; a  *)
(* step names two chains and addresses, of which only matters whether they *)
(* can be decoded.                                                         *)
(***************************************************************************)

\* Slip: the destination is the first step's.
AsSingleStep_First(steps) == [src |-> steps[1].src, dst |-> steps[1].dst]

\* as_single_step: a batch counts as a step from its first to its last chain.
AsSingleStep(steps) == [src |-> steps[1].src, dst |-> steps[Len(steps)].dst]

\* Slip: any document is taken for a solution.
Parses_Exists(sol) == sol # NoDoc

\* Step::try_from decodes three addresses.  decode_address fails on most bad ones and
\* panics on the others; either ends the query.
Decodable(step) == step.address = "valid"

\* MultiStep::try_from converts a single step or every step of a batch.
Convertible(steps) == \A j \in DOMAIN steps : Decodable(steps[j])

\* to_task: the document is there and is a solution, it has steps, and all convert.
Parses(sol) ==
    /\ sol \in Solutions
    /\ sol # <<>>
    /\ \A i \in DOMAIN sol : Convertible(sol[i])

\* What apply_nonce gets nonces for: as_single_step panics on an empty batch,
\* get_nonce fails on a chain the registry does not have.
Schedulable(sol) ==
    \A i \in DOMAIN sol : sol[i] # <<>> /\ sol[i][1].src \in Chains

Fetchable(sol) == Parses(sol) /\ Schedulable(sol)

RouteOf(sol) == [i \in DOMAIN sol |-> AsSingleStep(sol[i])]

Routes == {RouteOf(sol) : sol \in {q \in Solutions : Schedulable(q)}}

-----------------------------------------------------------------------------
TypeOK ==
    /\ paused \in BOOLEAN
    /\ handler \in [Tasks -> {"none", "active", "claimed", "dropped"}]
    /\ deposits \in Nat
    /\ at \in [Tasks -> 0..deposits]
    /\ drops \subseteq Tasks
    /\ solution \in [Tasks -> Solutions \cup {Garbage, NoDoc}]
    /\ taskDoc \in [Tasks -> {NoDoc} \cup
                       [status : {"Initialized", "Completed"}, route : Routes]]
    /\ workerDoc \in Tasks \cup {NoTask}
    /\ pc \in [Sessions -> {"idle", "insertSolution", "readSolution", "init",
                            "insertTask", "insertWorker"}]
    /\ job \in [Sessions -> Tasks \cup {NoTask}]
    /\ rec = [s \in Sessions |-> rec[s]]
    /\ \A s \in Sessions :
          /\ pc[s] # "idle" => job[s] \in Tasks
          /\ pc[s] = "insertSolution" => rec[s] \in Solutions \cup {Garbage}
          /\ pc[s] = "init" => rec[s] \in Solutions
          /\ pc[s] = "insertTask" => rec[s] \in Routes

Init ==
    /\ paused = TRUE
    /\ handler = [t \in Tasks |-> "none"]
    /\ deposits = 0
    /\ at = [t \in Tasks |-> 0]
    /\ drops = {}
    /\ solution = [t \in Tasks |-> NoDoc]
    /\ taskDoc = [t \in Tasks |-> NoDoc]
    /\ workerDoc = NoTask
    /\ pc = [s \in Sessions |-> "idle"]
    /\ job = [s \in Sessions |-> NoTask]
    /\ rec = [s \in Sessions |-> NoDoc]

\* A session starts on task t, ...
Start(s, t, p, r) ==
    /\ pc[s] = "idle"
    /\ ~paused
    /\ pc' = [pc EXCEPT ![s] = p]
    /\ job' = [job EXCEPT ![s] = t]
    /\ rec' = [rec EXCEPT ![s] = r]
    /\ UNCHANGED <<paused, chainVars, storageVars>>

\* ... goes on, ...
Goto(s, p, r) ==
    /\ pc' = [pc EXCEPT ![s] = p]
    /\ rec' = [rec EXCEPT ![s] = r]
    /\ UNCHANGED <<paused, chainVars, job>>

\* ... or returns, with or without an error.
Return(s) ==
    /\ pc' = [pc EXCEPT ![s] = "idle"]
    /\ job' = [job EXCEPT ![s] = NoTask]
    /\ rec' = [rec EXCEPT ![s] = NoDoc]
    /\ UNCHANGED <<paused, chainVars>>

-----------------------------------------------------------------------------
(***************************************************************************)
(* upload_solution, which anybody may call at any time for a deposit on an *)
(* EVM chain.                                                              *)
(***************************************************************************)

\* The read that finds no document; any other outcome is an error.
UploadSolution(s, t, sol) ==
    /\ Home[t] \in Evm
    /\ solution[t] = NoDoc
    /\ Start(s, t, "insertSolution", sol)

\* Slip: the document is written whether it exists or not.
InsertSolution_Upsert(s) ==
    /\ pc[s] = "insertSolution"
    /\ solution' = [solution EXCEPT ![job[s]] = rec[s]]
    /\ Return(s)
    /\ UNCHANGED <<taskDoc, workerDoc>>

\* client.insert, which fails when the document exists by now.
InsertSolution(s) ==
    /\ pc[s] = "insertSolution"
    /\ solution' = IF solution[job[s]] = NoDoc
                   THEN [solution EXCEPT ![job[s]] = rec[s]]
                   ELSE solution
    /\ Return(s)
    /\ UNCHANGED <<taskDoc, workerDoc>>

-----------------------------------------------------------------------------
(***************************************************************************)
(* run(Fetch)                                                              *)
(***************************************************************************)

\* The active deposits on the chain of t.
ActivedTasks(t) == {u \in Tasks : handler[u] = "active" /\ Home[u] = Home[t]}

\* Slip: the newest deposit is taken.
NextActived_Newest(t) ==
    handler[t] = "active" /\ \A u \in ActivedTasks(t) : at[u] <= at[t]

\* The deposit a handler hands out.  query_sub_actived_task takes the oldest
\* (actived_tasks[0]); getNextActivedTask is assumed to return the oldest too.
NextActived(t) ==
    handler[t] = "active" /\ \A u \in ActivedTasks(t) : at[t] <= at[u]

FetchTask(s, t) ==
    /\ NextActived(t)
    /\ Start(s, t, "readSolution", NoDoc)

\* The conversion of a deposit panics when its amount is no u128.
AmountFits(t) == t \notin Huge

\* The read of the solution document or of the deposit record, and to_task.
ReadSolution(s) ==
    /\ pc[s] = "readSolution"
    /\ \/ /\ AmountFits(job[s]) /\ Parses(solution[job[s]])
          /\ Goto(s, "init", solution[job[s]])
       \/ ~(AmountFits(job[s]) /\ Parses(solution[job[s]])) /\ Return(s)
    /\ UNCHANGED storageVars


\* Task::init reads the task document and applies nonces to a new task.
InitTask(s) ==
    LET known == taskDoc[job[s]]
    IN  /\ pc[s] = "init"
        /\ \/ known = NoDoc /\ Schedulable(rec[s]) /\ Goto(s, "insertTask", RouteOf(rec[s]))
           \/ known = NoDoc /\ ~Schedulable(rec[s]) /\ Return(s)
           \/ known # NoDoc /\ known.status = "Initialized" /\ Goto(s, "insertWorker", NoDoc)
           \/ known # NoDoc /\ known.status # "Initialized" /\ Return(s)
        /\ UNCHANGED storageVars

InsertTask(s) ==
    /\ pc[s] = "insertTask"
    /\ \/ /\ taskDoc[job[s]] = NoDoc
          /\ taskDoc' = [taskDoc EXCEPT ![job[s]] = [status |-> "Initialized", route |-> rec[s]]]
          /\ Goto(s, "insertWorker", NoDoc)
       \/ /\ taskDoc[job[s]] # NoDoc
          /\ UNCHANGED taskDoc
          /\ Return(s)
    /\ UNCHANGED <<solution, workerDoc>>

InsertWorker(s) ==
    /\ pc[s] = "insertWorker"
    /\ workerDoc' = IF workerDoc = NoTask THEN job[s] ELSE workerDoc
    /\ Return(s)
    /\ UNCHANGED <<solution, taskDoc>>

\* A query is cut off, or a chain or the storage does not answer it.
Abort(s) ==
    /\ pc[s] # "idle"
    /\ Return(s)
    /\ UNCHANGED storageVars

-----------------------------------------------------------------------------
(***************************************************************************)
(* The owner                                                               *)
(***************************************************************************)
PauseExecutor ==
    /\ ~paused
    /\ paused' = TRUE
    /\ UNCHANGED <<chainVars, storageVars, sessionVars>>

ResumeExecutor ==
    /\ paused
    /\ paused' = FALSE
    /\ UNCHANGED <<chainVars, storageVars, sessionVars>>

\* worker_drop_task sends its transaction and returns.
WorkerDropTask(t) ==
    /\ paused
    /\ Home[t] \in Evm
    /\ handler[t] = "active"
    /\ drops' = drops \cup {t}
    /\ UNCHANGED <<paused, handler, deposits, at, storageVars, sessionVars>>

-----------------------------------------------------------------------------
(***************************************************************************)
(* Outside the intake: users, chains, and the execution of stored tasks.   *)
(***************************************************************************)

\* A user deposits; on a Substrate chain the solution is part of the deposit.
Deposit(t, sol) ==
    /\ handler[t] = "none"
    /\ handler' = [handler EXCEPT ![t] = "active"]
    /\ deposits' = deposits + 1
    /\ at' = [at EXCEPT ![t] = deposits + 1]
    /\ solution' = IF Home[t] \in Evm THEN solution ELSE [solution EXCEPT ![t] = sol]
    /\ UNCHANGED <<paused, drops, taskDoc, workerDoc, sessionVars>>

\* The transaction of worker_drop_task is included: it reverts for a claimed task.
IncludeDrop(t) ==
    /\ t \in drops
    /\ drops' = drops \ {t}
    /\ handler' = [handler EXCEPT ![t] = IF @ = "active" THEN "dropped" ELSE @]
    /\ UNCHANGED <<paused, deposits, at, storageVars, sessionVars>>

\* Task::claim: the worker may claim the task it executes.  Whether it ever does is not
\* said here: claim fails while the fee reaches the amount, an asset has no price, the
\* simulation fails or an earlier claim failed.
ClaimTask(t) ==
    /\ workerDoc = t
    /\ handler[t] = "active"
    /\ handler' = [handler EXCEPT ![t] = "claimed"]
    /\ UNCHANGED <<paused, deposits, at, drops, storageVars, sessionVars>>

\* Task::destroy and the last update of the task document, if the task ever completes.
ReleaseWorker(t) ==
    /\ workerDoc = t
    /\ taskDoc[t] # NoDoc
    /\ handler[t] = "claimed"
    /\ workerDoc' = NoTask
    /\ taskDoc' = [taskDoc EXCEPT ![t].status = "Completed"]
    /\ UNCHANGED <<paused, chainVars, solution, sessionVars>>

SessionStep(s) ==
    \/ InsertSolution(s) \/ ReadSolution(s) \/ InitTask(s)
    \/ InsertTask(s) \/ InsertWorker(s)

Next ==
    \/ \E s \in Sessions :
          \/ \E t \in Tasks, sol \in Solutions \cup {Garbage} : UploadSolution(s, t, sol)
          \/ \E t \in Tasks : FetchTask(s, t)
          \/ SessionStep(s)
          \/ Abort(s)
    \/ PauseExecutor \/ ResumeExecutor
    \/ \E t \in Tasks :
          \/ WorkerDropTask(t) \/ IncludeDrop(t)
          \/ \E sol \in Solutions \cup {Garbage} : Deposit(t, sol)
          \/ ClaimTask(t) \/ ReleaseWorker(t)

Spec == Init /\ [][Next]_vars

-----------------------------------------------------------------------------
\* upload_solution (lib.rs:297-313): once a task has a solution it keeps it, although
\* anybody may upload and the test for an existing one is a query before the insertion.
SolutionKept ==
    [][\A t \in Tasks : solution[t] # NoDoc => solution'[t] = solution[t]]_vars

\* fetch_task (lib.rs:488): what is executed of a task is the solution it has,
\* although uploads and fetches of several queries overlap: every chain it passes
\* is one the solution names.
RouteIsSolution ==
    \A t \in Tasks :
        taskDoc[t] # NoDoc =>
            /\ Fetchable(solution[t])
            /\ Len(taskDoc[t].route) = Len(solution[t])
            /\ \A i \in DOMAIN solution[t] :
                  /\ taskDoc[t].route[i].src = solution[t][i][1].src
                  /\ taskDoc[t].route[i].dst = solution[t][i][Len(solution[t][i])].dst

\* task_fetcher.rs:128: a deposit is stored for execution only when every earlier one
\* on its chain has been claimed or dropped, however late a query goes on with what it
\* has read.
NoOvertaking ==
    \A t, u \in Tasks :
        (taskDoc[t] # NoDoc /\ Home[u] = Home[t] /\ 0 < at[u] /\ at[u] < at[t])
        => handler[u] # "active"

-----------------------------------------------------------------------------
(***************************************************************************)
(* Why they hold.                                                          *)
(***************************************************************************)

\* A solution is only uploaded where none comes with the deposit.
UploadsForEvm ==
    /\ \A s \in Sessions : pc[s] = "insertSolution" => Home[job[s]] \in Evm
    /\ \A t \in Tasks : handler[t] = "none" /\ Home[t] \notin Evm => solution[t] = NoDoc

\* What a session has read is still the solution, and so is what it stores.
CopiesAreSolutions ==
    /\ \A s \in Sessions :
          /\ pc[s] = "init" => rec[s] = solution[job[s]] /\ Parses(rec[s])
          /\ pc[s] = "insertTask" =>
                Fetchable(solution[job[s]]) /\ rec[s] = RouteOf(solution[job[s]])
    /\ \A t \in Tasks : taskDoc[t] # NoDoc =>
          Fetchable(solution[t]) /\ taskDoc[t].route = RouteOf(solution[t])

\* t is deposited, and nothing that was deposited before it waits.
AtFront(t) ==
    /\ handler[t] # "none"
    /\ \A u \in Tasks : Home[u] = Home[t] /\ 0 < at[u] /\ at[u] < at[t] => handler[u] # "active"

FetchedAtFront ==
    /\ \A s \in Sessions : pc[s] \in {"readSolution", "init", "insertTask"} => AtFront(job[s])
    /\ \A t \in Tasks : taskDoc[t] # NoDoc => AtFront(t)

-----------------------------------------------------------------------------
(***************************************************************************)
(* Liveness.  Users upload a solution; the scheduler fetches again and     *)
(* again, and a query is not cut off at the same place for ever; the owner *)
(* drops a deposit that cannot be fetched, and then resumes.  Nothing is   *)
(* assumed of the engine: a stored task may never be claimed (see          *)
(* ClaimTask), and a claimed one never completed, when a step cannot be    *)
(* simulated or its funds are never seen to arrive.                        *)
(***************************************************************************)

\* Fetching t fails each time; the handler hands it out none the less.
Unfetchable(t) == AmountFits(t) => solution[t] # NoDoc /\ ~Fetchable(solution[t])
Blocked(t) == NextActived(t) /\ Unfetchable(t)

Fairness ==
    /\ \A t \in Tasks :
          /\ SF_vars(\E s \in Sessions, sol \in Solutions : UploadSolution(s, t, sol))
          /\ SF_vars(\E s \in Sessions : FetchTask(s, t))
          /\ SF_vars(Blocked(t) /\ WorkerDropTask(t))
          /\ WF_vars(IncludeDrop(t))
    /\ \A s \in Sessions :
          /\ SF_vars(InsertSolution(s)) /\ SF_vars(ReadSolution(s)) /\ SF_vars(InitTask(s))
          /\ SF_vars(InsertTask(s)) /\ SF_vars(InsertWorker(s))
    /\ WF_vars((\E t \in Tasks : Blocked(t) /\ Home[t] \in Evm) /\ PauseExecutor)
    /\ WF_vars(ResumeExecutor)

FairSpec == Spec /\ Fairness

\* The owner only drops what cannot be fetched.
CarefulDrops ==
    \A t \in Tasks :
        handler[t] = "dropped" => Unfetchable(t)

\* The worker has stored task u and not completed it.
BusyWith(u) ==
    workerDoc = u /\ taskDoc[u] # NoDoc /\ taskDoc[u].status = "Initialized"

=============================================================================
