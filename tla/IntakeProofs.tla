---------------------------- MODULE IntakeProofs ----------------------------
(***************************************************************************)
(* Proofs about module Intake.                                             *)
(***************************************************************************)
EXTENDS Intake, TLAPS

\* Starting, continuing and ending a session.
USE DEF chainVars, storageVars, sessionVars

\* The steps of the sessions and the owner keep the state well-formed.
THEOREM IntakeTypeCorrect == Spec => []TypeOK
<1>1. Init => TypeOK
  BY DEF Init, TypeOK
<1>2. TypeOK /\ [Next]_vars => TypeOK'
  <2> SUFFICES ASSUME TypeOK, [Next]_vars
               PROVE  TypeOK'
    OBVIOUS
  <2> USE DEF TypeOK
  <2>1. ASSUME NEW s \in Sessions, NEW t \in Tasks, NEW sol \in Solutions \cup {Garbage},
               UploadSolution(s, t, sol)
        PROVE  TypeOK'
    BY <2>1 DEF UploadSolution, Start
  <2>2. ASSUME NEW s \in Sessions, NEW t \in Tasks, FetchTask(s, t)
        PROVE  TypeOK'
    BY <2>2 DEF FetchTask, Start
  <2>3. ASSUME NEW s \in Sessions, InsertSolution(s)
        PROVE  TypeOK'
    BY <2>3 DEF InsertSolution, Return
  <2>4. ASSUME NEW s \in Sessions, ReadSolution(s)
        PROVE  TypeOK'
    BY <2>4 DEF ReadSolution, Goto, Return, Parses
  <2>5. ASSUME NEW s \in Sessions, InitTask(s)
        PROVE  TypeOK'
    <3>1. Schedulable(rec[s]) /\ pc[s] = "init" => RouteOf(rec[s]) \in Routes
      BY DEF Routes
    <3> QED
      BY <2>5, <3>1 DEF InitTask, Goto, Return
  <2>6. ASSUME NEW s \in Sessions, InsertTask(s)
        PROVE  TypeOK'
    BY <2>6 DEF InsertTask, Goto, Return
  <2>7. ASSUME NEW s \in Sessions, InsertWorker(s)
        PROVE  TypeOK'
    BY <2>7 DEF InsertWorker, Return
  <2>8. ASSUME NEW s \in Sessions, Abort(s)
        PROVE  TypeOK'
    BY <2>8 DEF Abort, Return
  <2>9. ASSUME PauseExecutor \/ ResumeExecutor \/ UNCHANGED vars
        PROVE  TypeOK'
    BY <2>9 DEF PauseExecutor, ResumeExecutor, vars
  <2>10. ASSUME NEW t \in Tasks, WorkerDropTask(t) \/ IncludeDrop(t) \/ ClaimTask(t)
         PROVE  TypeOK'
    BY <2>10 DEF WorkerDropTask, IncludeDrop, ClaimTask
  <2>11. ASSUME NEW t \in Tasks, NEW sol \in Solutions \cup {Garbage}, Deposit(t, sol)
         PROVE  TypeOK'
    BY <2>11 DEF Deposit
  <2>12. ASSUME NEW t \in Tasks, ReleaseWorker(t)
         PROVE  TypeOK'
    <3>1. taskDoc[t] \in [status : {"Initialized", "Completed"}, route : Routes]
      BY <2>12 DEF ReleaseWorker
    <3>2. [taskDoc[t] EXCEPT !.status = "Completed"]
             \in [status : {"Initialized", "Completed"}, route : Routes]
      BY <3>1
    <3>3. taskDoc' = [taskDoc EXCEPT ![t] = [taskDoc[t] EXCEPT !.status = "Completed"]]
      BY <2>12 DEF ReleaseWorker
    <3> QED
      BY <2>12, <3>2, <3>3 DEF ReleaseWorker
  <2> QED
    BY <2>1, <2>2, <2>3, <2>4, <2>5, <2>6, <2>7, <2>8, <2>9, <2>10, <2>11, <2>12
    DEF Next, SessionStep
<1> QED
  BY <1>1, <1>2, PTL DEF Spec

-----------------------------------------------------------------------------
\* Only the insertion of a solution and a deposit write a solution, and they write it
\* where there is none.
LEMMA SolutionWrites ==
    ASSUME TypeOK, UploadsForEvm, [Next]_vars, NEW t \in Tasks, solution[t] # NoDoc
    PROVE  solution'[t] = solution[t]
<1>1. ASSUME NEW s \in Sessions, InsertSolution(s)
      PROVE  solution'[t] = solution[t]
  BY <1>1 DEF InsertSolution, TypeOK
<1>2. ASSUME NEW u \in Tasks, NEW sol \in Solutions \cup {Garbage}, Deposit(u, sol)
      PROVE  solution'[t] = solution[t]
  BY <1>2 DEF Deposit, TypeOK, UploadsForEvm
<1>3. CASE UNCHANGED vars
  BY <1>3 DEF vars
<1> QED
  BY <1>1, <1>2, <1>3
  DEF Next, SessionStep, UploadSolution, FetchTask, ReadSolution, InitTask, InsertTask,
      InsertWorker, Abort, PauseExecutor, ResumeExecutor, WorkerDropTask, IncludeDrop,
      ClaimTask, ReleaseWorker, Start, Goto

\* Uploads keep to chains whose deposits bring no solution.
LEMMA UploadsInvariant == Spec => []UploadsForEvm
<1>1. Init => UploadsForEvm
  BY DEF Init, UploadsForEvm
<1>2. TypeOK /\ UploadsForEvm /\ [Next]_vars => UploadsForEvm'
  <2> SUFFICES ASSUME TypeOK, UploadsForEvm, [Next]_vars
               PROVE  UploadsForEvm'
    OBVIOUS
  <2> USE DEF TypeOK, UploadsForEvm
  <2>1. ASSUME NEW s \in Sessions, NEW t \in Tasks, NEW sol \in Solutions \cup {Garbage},
               UploadSolution(s, t, sol)
        PROVE  UploadsForEvm'
    BY <2>1 DEF UploadSolution, Start
  <2>2. ASSUME NEW s \in Sessions, NEW t \in Tasks, FetchTask(s, t)
        PROVE  UploadsForEvm'
    BY <2>2 DEF FetchTask, Start
  <2>3. ASSUME NEW s \in Sessions, InsertSolution(s)
        PROVE  UploadsForEvm'
    BY <2>3 DEF InsertSolution, Return
  <2>4. ASSUME NEW s \in Sessions, ReadSolution(s) \/ InitTask(s) \/ InsertTask(s)
        PROVE  UploadsForEvm'
    BY <2>4 DEF ReadSolution, InitTask, InsertTask, Goto, Return
  <2>5. ASSUME NEW s \in Sessions, InsertWorker(s) \/ Abort(s)
        PROVE  UploadsForEvm'
    BY <2>5 DEF InsertWorker, Abort, Return
  <2>6. ASSUME NEW t \in Tasks, IncludeDrop(t) \/ ClaimTask(t)
        PROVE  UploadsForEvm'
    BY <2>6 DEF IncludeDrop, ClaimTask
  <2>7. ASSUME NEW t \in Tasks, NEW sol \in Solutions \cup {Garbage}, Deposit(t, sol)
        PROVE  UploadsForEvm'
    BY <2>7 DEF Deposit
  <2>8. CASE UNCHANGED vars
    BY <2>8 DEF vars
  <2> QED
    BY <2>1, <2>2, <2>3, <2>4, <2>5, <2>6, <2>7, <2>8
    DEF Next, SessionStep, PauseExecutor, ResumeExecutor, WorkerDropTask, ReleaseWorker
<1> QED
  BY <1>1, <1>2, IntakeTypeCorrect, PTL DEF Spec

\* A task that has a solution keeps it, although upload_solution tests for one and
\* inserts one in two requests and anybody may call it.
THEOREM SolutionsAreKept == Spec => SolutionKept
<1>1. TypeOK /\ UploadsForEvm /\ [Next]_vars
      => [\A t \in Tasks : solution[t] # NoDoc => solution'[t] = solution[t]]_vars
  BY SolutionWrites
<1> QED
  BY <1>1, IntakeTypeCorrect, UploadsInvariant, PTL DEF Spec, SolutionKept

-----------------------------------------------------------------------------
\* Copies of a solution and routes made from it stay what they are made from: the
\* solution they come from exists, so it is kept.
LEMMA CopiesInvariant == Spec => []CopiesAreSolutions
<1>1. Init => CopiesAreSolutions
  BY DEF Init, CopiesAreSolutions
<1>2. TypeOK /\ UploadsForEvm /\ CopiesAreSolutions /\ [Next]_vars => CopiesAreSolutions'
  <2> SUFFICES ASSUME TypeOK, UploadsForEvm, CopiesAreSolutions, [Next]_vars
               PROVE  CopiesAreSolutions'
    OBVIOUS
  <2>a. \A t \in Tasks : solution[t] # NoDoc => solution'[t] = solution[t]
    BY SolutionWrites
  <2>b. \A sol : Parses(sol) => sol # NoDoc
    BY IntakeAssumption DEF Parses
  <2>c. \A t \in Tasks : Parses(solution[t]) => solution'[t] = solution[t]
    BY <2>a, <2>b
  <2> USE DEF TypeOK, CopiesAreSolutions, Fetchable
  <2>1. ASSUME NEW s \in Sessions, NEW t \in Tasks, NEW sol \in Solutions \cup {Garbage},
               UploadSolution(s, t, sol)
        PROVE  CopiesAreSolutions'
    BY <2>1 DEF UploadSolution, Start
  <2>2. ASSUME NEW s \in Sessions, NEW t \in Tasks, FetchTask(s, t)
        PROVE  CopiesAreSolutions'
    BY <2>2 DEF FetchTask, Start
  <2>3. ASSUME NEW s \in Sessions, InsertSolution(s)
        PROVE  CopiesAreSolutions'
    BY <2>3, <2>c DEF InsertSolution, Return
  <2>4. ASSUME NEW s \in Sessions, ReadSolution(s)
        PROVE  CopiesAreSolutions'
    BY <2>4 DEF ReadSolution, Goto, Return
  <2>5. ASSUME NEW s \in Sessions, InitTask(s)
        PROVE  CopiesAreSolutions'
    BY <2>5 DEF InitTask, Goto, Return
  <2>6. ASSUME NEW s \in Sessions, InsertTask(s)
        PROVE  CopiesAreSolutions'
    BY <2>6 DEF InsertTask, Goto, Return
  <2>7. ASSUME NEW s \in Sessions, InsertWorker(s) \/ Abort(s)
        PROVE  CopiesAreSolutions'
    BY <2>7 DEF InsertWorker, Abort, Return
  <2>8. ASSUME NEW t \in Tasks, NEW sol \in Solutions \cup {Garbage}, Deposit(t, sol)
        PROVE  CopiesAreSolutions'
    BY <2>8, <2>c DEF Deposit
  <2>9. ASSUME NEW t \in Tasks, ReleaseWorker(t)
        PROVE  CopiesAreSolutions'
    <3>1. taskDoc[t] \in [status : {"Initialized", "Completed"}, route : Routes]
      BY <2>9 DEF ReleaseWorker
    <3>2. [taskDoc[t] EXCEPT !.status = "Completed"].route = taskDoc[t].route
      BY <3>1
    <3>3. taskDoc' = [taskDoc EXCEPT ![t] = [taskDoc[t] EXCEPT !.status = "Completed"]]
      BY <2>9 DEF ReleaseWorker
    <3>4. \A u \in Tasks : taskDoc'[u] # NoDoc =>
             taskDoc[u] # NoDoc /\ taskDoc'[u].route = taskDoc[u].route
      BY <2>9, <3>2, <3>3 DEF ReleaseWorker
    <3> QED
      BY <2>9, <3>4 DEF ReleaseWorker
  <2>10. CASE UNCHANGED vars
    BY <2>10 DEF vars
  <2> QED
    BY <2>1, <2>2, <2>3, <2>4, <2>5, <2>6, <2>7, <2>8, <2>9, <2>10
    DEF Next, SessionStep, PauseExecutor, ResumeExecutor, WorkerDropTask, IncludeDrop, ClaimTask
<1> QED
  BY <1>1, <1>2, IntakeTypeCorrect, UploadsInvariant, PTL DEF Spec

\* The route of a solution has a hop for each of its elements.
LEMMA RouteHops ==
    ASSUME NEW sol \in Solutions
    PROVE  /\ Len(RouteOf(sol)) = Len(sol)
           /\ \A i \in DOMAIN sol :
                 /\ RouteOf(sol)[i].src = sol[i][1].src
                 /\ RouteOf(sol)[i].dst = sol[i][Len(sol[i])].dst
<1>1. sol \in Seq(Seq(Step))
  BY IntakeAssumption
<1>2. DOMAIN sol = 1..Len(sol) /\ Len(sol) \in Nat
  BY <1>1
<1>3. RouteOf(sol) = [i \in 1..Len(sol) |-> AsSingleStep(sol[i])]
  BY <1>2 DEF RouteOf
<1>4. Len(RouteOf(sol)) = Len(sol)
  BY <1>2, <1>3
<1> QED
  BY <1>2, <1>3, <1>4 DEF AsSingleStep

\* What is stored for execution is the task's one solution.
THEOREM StoredRouteIsSolution == Spec => []RouteIsSolution
<1>1. CopiesAreSolutions => RouteIsSolution
  <2> SUFFICES ASSUME CopiesAreSolutions, NEW t \in Tasks, taskDoc[t] # NoDoc
               PROVE  /\ Fetchable(solution[t])
                      /\ Len(taskDoc[t].route) = Len(solution[t])
                      /\ \A i \in DOMAIN solution[t] :
                            /\ taskDoc[t].route[i].src = solution[t][i][1].src
                            /\ taskDoc[t].route[i].dst
                                  = solution[t][i][Len(solution[t][i])].dst
    BY DEF RouteIsSolution
  <2>1. Fetchable(solution[t]) /\ taskDoc[t].route = RouteOf(solution[t])
    BY DEF CopiesAreSolutions
  <2>2. solution[t] \in Solutions
    BY <2>1 DEF Fetchable, Parses
  <2> QED
    BY <2>1, <2>2, RouteHops
<1> QED
  BY <1>1, CopiesInvariant, PTL

-----------------------------------------------------------------------------
\* What is at the front of its queue stays there.
LEMMA FrontStays ==
    ASSUME TypeOK, [Next]_vars, NEW t \in Tasks, AtFront(t)
    PROVE  AtFront(t)'
<1>1. ASSUME NEW u \in Tasks, NEW sol \in Solutions \cup {Garbage}, Deposit(u, sol)
      PROVE  AtFront(t)'
  BY <1>1 DEF Deposit, TypeOK, AtFront
<1>2. ASSUME NEW u \in Tasks, IncludeDrop(u) \/ ClaimTask(u)
      PROVE  AtFront(t)'
  BY <1>2 DEF IncludeDrop, ClaimTask, TypeOK, AtFront
<1>3. CASE UNCHANGED <<handler, at>>
  BY <1>3 DEF AtFront
<1> QED
  BY <1>1, <1>2, <1>3
  DEF Next, SessionStep, UploadSolution, FetchTask, InsertSolution, ReadSolution, InitTask,
      InsertTask, InsertWorker, Abort, PauseExecutor, ResumeExecutor, WorkerDropTask,
      ReleaseWorker, Start, Goto, Return, vars

\* No deposit is overtaken by a later one on its chain.
THEOREM NoneOvertaken == Spec => []NoOvertaking
<1>1. Init => FetchedAtFront
  BY DEF Init, FetchedAtFront
<1>2. TypeOK /\ FetchedAtFront /\ [Next]_vars => FetchedAtFront'
  <2> SUFFICES ASSUME TypeOK, FetchedAtFront, [Next]_vars
               PROVE  FetchedAtFront'
    OBVIOUS
  <2>a. \A t \in Tasks : AtFront(t) => AtFront(t)'
    BY FrontStays
  <2> USE DEF TypeOK, FetchedAtFront
  <2>1. ASSUME NEW s \in Sessions, NEW t \in Tasks, NEW sol \in Solutions \cup {Garbage},
               UploadSolution(s, t, sol)
        PROVE  FetchedAtFront'
    BY <2>1, <2>a DEF UploadSolution, Start
  <2>2. ASSUME NEW s \in Sessions, NEW t \in Tasks, FetchTask(s, t)
        PROVE  FetchedAtFront'
    <3>1. AtFront(t)
      BY <2>2 DEF FetchTask, NextActived, ActivedTasks, AtFront
    <3> QED
      BY <2>2, <2>a, <3>1 DEF FetchTask, Start
  <2>3. ASSUME NEW s \in Sessions, InsertSolution(s)
        PROVE  FetchedAtFront'
    BY <2>3, <2>a DEF InsertSolution, Return
  <2>4. ASSUME NEW s \in Sessions, ReadSolution(s) \/ InitTask(s)
        PROVE  FetchedAtFront'
    BY <2>4, <2>a DEF ReadSolution, InitTask, Goto, Return
  <2>5. ASSUME NEW s \in Sessions, InsertTask(s)
        PROVE  FetchedAtFront'
    BY <2>5, <2>a DEF InsertTask, Goto, Return
  <2>6. ASSUME NEW s \in Sessions, InsertWorker(s) \/ Abort(s)
        PROVE  FetchedAtFront'
    BY <2>6, <2>a DEF InsertWorker, Abort, Return
  <2>7. ASSUME NEW t \in Tasks, ReleaseWorker(t)
        PROVE  FetchedAtFront'
    BY <2>7, <2>a DEF ReleaseWorker
  <2>8. CASE UNCHANGED <<taskDoc, sessionVars>>
    BY <2>8, <2>a
  <2> QED
    BY <2>1, <2>2, <2>3, <2>4, <2>5, <2>6, <2>7, <2>8
    DEF Next, SessionStep, PauseExecutor, ResumeExecutor, WorkerDropTask, IncludeDrop,
        ClaimTask, Deposit, vars
<1>3. FetchedAtFront => NoOvertaking
  BY DEF FetchedAtFront, AtFront, NoOvertaking
<1> QED
  BY <1>1, <1>2, <1>3, IntakeTypeCorrect, PTL DEF Spec
=============================================================================
