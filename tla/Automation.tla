----------------------------- MODULE Automation -----------------------------
(***************************************************************************)
(* internal/domain/automation: jobs and their results in the database, the *)
(* runs that are under way, and the console calls on them.  A run is a     *)
(* goroutine that feeds rows to workers over an unbuffered channel; a call *)
(* is a goroutine of the console server.  Each is split where it touches   *)
(* the database or the map of runs.  An id belongs to the project it is    *)
(* made in, which Home says once and for all.                              *)
(***************************************************************************)
EXTENDS Integers, FiniteSets

CONSTANTS
    Projects,
    Jobs,        \* job ids; ids.New never repeats one
    Home,        \* the project each id is made in
    Templates,   \* what a job sends, apart from the rows
    N,           \* rows of every job
    Workers,     \* workers of every run
    Every,       \* progress is stored every so many results, 20 in the code
    Runs,        \* run objects; one that is over serves again
    Callers,     \* console requests that may be in flight together
    DiskFaults,  \* TRUE: a write may fail
    None,        \* no project, run or template
    Unborn,      \* no job has that id yet
    Gone         \* the job of that id was removed

\* Outcomes of a run, and what is stored of a job.
Final == {"done", "stopped", "error"}

Records == [template : Templates, status : Final \cup {"draft", "running"},
            completed : Nat]

ASSUME SizesAssumption ==
    /\ Home \in [Jobs -> Projects]
    /\ N \in Nat /\ Every \in Nat \ {0}
    /\ DiskFaults \in BOOLEAN

ASSUME NoneAssumption ==
    None \notin Projects \cup Jobs \cup Templates \cup Runs \cup Final

ASSUME AbsentAssumption ==
    Unborn \notin Records /\ Gone \notin Records \cup {Unborn}

VARIABLES
    active,      \* the open project
    deleted,     \* projects that were deleted
    jobs,        \* bucket "jobs"
    results,     \* bucket "results": the template each row was sent with
    running,     \* Service.running
    runs,        \* run, and the locals of Service.run
    workers,     \* its workers
    call,        \* where each console call stands
    torn,        \* history: removed under a run nobody had waited for
    adrift       \* history: a crash, or a failed write, ended its run

vars == <<active, deleted, jobs, results, running, runs, workers, call, torn,
          adrift>>
history == <<torn, adrift>>

Rows == 1 .. N

Stored(j) == jobs[j] \notin {Unborn, Gone}

Draft(t) == [template |-> t, status |-> "draft", completed |-> 0]

NoResults == [i \in Rows |-> None]

Has(j) == {i \in Rows : results[j][i] # None}

-----------------------------------------------------------------------------
(* A run, from its registration on.  A run object that has ended, with done*)
(* closed, stands for a new one as soon as no call has it in hand.         *)

Live == {"starting", "feeding", "draining", "persisting", "leaving"}

\* The fields status and held are the outcome of the run and the template of
\* the record it is writing that to.
RunRecords ==
    [at : Live \cup {"deregistered", "ended"}, job : Jobs \cup {None},
     template : Templates \cup {None}, next : 1 .. N + 1, cancelled : BOOLEAN,
     stopped : BOOLEAN, failed : BOOLEAN, completed : Nat,
     status : Final \cup {None}, held : Templates \cup {None}]

Ended == [at |-> "ended", job |-> None, template |-> None, next |-> 1,
          cancelled |-> FALSE, stopped |-> FALSE, failed |-> FALSE,
          completed |-> 0, status |-> None, held |-> None]

Starting(j, t) ==
    [Ended EXCEPT !.at = "starting", !.job = j, !.template = t]

WorkerRecords ==
    [at : {"idle", "took", "sending", "stored", "reading", "writing"},
     row : 0 .. N, count : Nat, matched : BOOLEAN,
     held : Templates \cup {None}]

Resting == [at |-> "idle", row |-> 0, count |-> 0, matched |-> FALSE,
            held |-> None]

AllRest == [w \in Workers |-> Resting]

\* Where a console call stands.  For a removal, todo are the jobs still to be
\* stopped and waited the runs seen to end; removes is what it is for, and all
\* says whether that is a Clear.
Calls ==
    [at : {"idle", "check", "drop", "put", "register", "clean", "launch",
           "stopping", "waiting"},
     job : Jobs \cup {None}, template : Templates \cup {None},
     run : Runs \cup {None}, todo : SUBSET Jobs, waited : SUBSET Runs,
     removes : SUBSET Jobs, all : BOOLEAN]

Idle == [at |-> "idle", job |-> None, template |-> None, run |-> None,
         todo |-> {}, waited |-> {}, removes |-> {}, all |-> FALSE]

Begin(c, at, j, t) ==
    /\ call[c].at = "idle"
    /\ call' = [call EXCEPT ![c] =
                   [Idle EXCEPT !.at = at, !.job = j, !.template = t]]

Goto(c, at) == call' = [call EXCEPT ![c].at = at]

Return(c) == call' = [call EXCEPT ![c] = Idle]

Spare(r) ==
    runs[r] = Ended /\ \A c \in Callers : r \notin call[c].waited \cup {call[c].run}

Init ==
    /\ active = None
    /\ deleted = {}
    /\ jobs = [j \in Jobs |-> Unborn]
    /\ results = [j \in Jobs |-> NoResults]
    /\ running = [j \in Jobs |-> None]
    /\ runs = [r \in Runs |-> Ended]
    /\ workers = [r \in Runs |-> AllRest]
    /\ call = [c \in Callers |-> Idle]
    /\ torn = {}
    /\ adrift = {}

-----------------------------------------------------------------------------
(* The project under it: opened, closed, and deleted when not open.  These *)
(* are console calls too, and so is Stop.                                  *)

SomebodyFree == \E c \in Callers : call[c].at = "idle"

Open(p) ==
    /\ SomebodyFree
    /\ p \in (Projects \ deleted) \cup {None}
    /\ p # active
    /\ active' = p
    /\ UNCHANGED <<deleted, jobs, results, running, runs, workers, call, history>>

\* The jobs of set js are removed with their results.
Lose(js) ==
    /\ jobs' = [j \in Jobs |-> IF j \in js /\ Stored(j) THEN Gone ELSE jobs[j]]
    /\ results' = [j \in Jobs |-> IF j \in js THEN NoResults ELSE results[j]]

DeleteProject(p) ==
    LET js == {j \in Jobs : Home[j] = p} IN
    /\ SomebodyFree
    /\ p \notin deleted \cup {active}
    /\ deleted' = deleted \cup {p}
    /\ Lose(js)
    /\ torn' = torn \cup {j \in js : running[j] # None}
    /\ UNCHANGED <<active, running, runs, workers, call, adrift>>

-----------------------------------------------------------------------------
(* Save: a new job, or a rewrite that reads the job, looks whether it      *)
(* runs, drops its results and writes a draft.  CloneFromLog is the former *)
(* with a template of its own.                                             *)

SaveNew(c, j, t) ==
    /\ Home[j] = active
    /\ jobs[j] = Unborn
    /\ \A d \in Callers : call[d].job # j
    /\ Begin(c, "put", j, t)
    /\ UNCHANGED <<active, deleted, jobs, results, running, runs, workers, history>>

SaveRead(c, j, t) ==
    /\ Home[j] = active
    /\ Stored(j)
    /\ Begin(c, "check", j, t)
    /\ UNCHANGED <<active, deleted, jobs, results, running, runs, workers, history>>

SaveCheck(c) ==
    /\ call[c].at = "check"
    /\ IF running[call[c].job] = None THEN Goto(c, "drop") ELSE Return(c)
    /\ UNCHANGED <<active, deleted, jobs, results, running, runs, workers, history>>

\* Broken: the results of the old template stay.
SaveKeepsResults(c) ==
    /\ call[c].at = "drop"
    /\ Goto(c, "put")
    /\ UNCHANGED <<active, deleted, jobs, results, running, runs, workers, history>>

SaveDrop(c) ==
    /\ call[c].at = "drop"
    /\ results' = [results EXCEPT ![call[c].job] = NoResults]
    /\ Goto(c, "put")
    /\ UNCHANGED <<active, deleted, jobs, running, runs, workers, history>>

SavePut(c) ==
    /\ call[c].at = "put"
    /\ jobs' = [jobs EXCEPT ![call[c].job] = Draft(call[c].template)]
    /\ adrift' = adrift \ {call[c].job}
    /\ Return(c)
    /\ UNCHANGED <<active, deleted, results, running, runs, workers, torn>>

SaveFails(c) ==
    /\ DiskFaults
    /\ call[c].at \in {"drop", "put"}
    /\ Return(c)
    /\ UNCHANGED <<active, deleted, jobs, results, running, runs, workers, history>>

-----------------------------------------------------------------------------
(* Start: read the job, register a run under the lock, drop the results,   *)
(* write the job as running and let the run go.                            *)

StartRead(c, j) ==
    /\ Home[j] = active
    /\ Stored(j)
    /\ Begin(c, "register", j, jobs[j].template)
    /\ UNCHANGED <<active, deleted, jobs, results, running, runs, workers, history>>

\* Broken: a job that runs is registered again.
RegisterBlindly(c, r) ==
    /\ call[c].at = "register"
    /\ Spare(r)
    /\ running' = [running EXCEPT ![call[c].job] = r]
    /\ runs' = [runs EXCEPT ![r] = Starting(call[c].job, call[c].template)]
    /\ call' = [call EXCEPT ![c].at = "clean", ![c].run = r]
    /\ UNCHANGED <<active, deleted, jobs, results, workers, history>>

Register(c, r) ==
    /\ call[c].at = "register"
    /\ running[call[c].job] = None
    /\ Spare(r)
    /\ running' = [running EXCEPT ![call[c].job] = r]
    /\ runs' = [runs EXCEPT ![r] = Starting(call[c].job, call[c].template)]
    /\ call' = [call EXCEPT ![c].at = "clean", ![c].run = r]
    /\ UNCHANGED <<active, deleted, jobs, results, workers, history>>

\* The job runs already; or it cannot be run as it is (no placeholder, rows
\* that do not expand), which Start finds before it registers.
StartRefused(c) ==
    /\ call[c].at = "register"
    /\ Return(c)
    /\ UNCHANGED <<active, deleted, jobs, results, running, runs, workers, history>>

StartClean(c) ==
    /\ call[c].at = "clean"
    /\ results' = [results EXCEPT ![call[c].job] = NoResults]
    /\ Goto(c, "launch")
    /\ UNCHANGED <<active, deleted, jobs, running, runs, workers, history>>

Launch(c) ==
    /\ call[c].at = "launch"
    /\ jobs' = [jobs EXCEPT ![call[c].job] =
                   [Draft(call[c].template) EXCEPT !.status = "running"]]
    /\ runs' = [runs EXCEPT ![call[c].run].at = "feeding"]
    /\ adrift' = adrift \ {call[c].job}
    /\ Return(c)
    /\ UNCHANGED <<active, deleted, results, running, workers, torn>>

Abort(c) ==
    /\ DiskFaults
    /\ call[c].at \in {"clean", "launch"}
    /\ running' = [running EXCEPT ![call[c].job] = None]
    /\ runs' = [runs EXCEPT ![call[c].run] = Ended]
    /\ Return(c)
    /\ UNCHANGED <<active, deleted, jobs, results, workers, history>>

-----------------------------------------------------------------------------
(* Stop cancels.  Delete and Clear cancel and wait, one run after the      *)
(* other, and then remove; the wait also ends with the caller's context.   *)

Stop(j) ==
    /\ SomebodyFree
    /\ running[j] # None
    /\ Home[j] = active
    /\ ~ runs[running[j]].cancelled
    /\ runs' = [runs EXCEPT ![running[j]].cancelled = TRUE]
    /\ UNCHANGED <<active, deleted, jobs, results, running, workers, call, history>>

BeginRemoval(c, todo, removes, all) ==
    /\ call[c].at = "idle"
    /\ call' = [call EXCEPT ![c] =
           [Idle EXCEPT !.at = "stopping", !.todo = todo,
                        !.removes = removes, !.all = all]]
    /\ UNCHANGED <<active, deleted, jobs, results, running, runs, workers, history>>

Delete(c, j) ==
    /\ Home[j] = active
    /\ jobs[j] # Unborn
    /\ BeginRemoval(c, {j}, {j}, FALSE)

Clear(c) ==
    /\ active # None
    /\ LET js == {j \in Jobs : Home[j] = active}
       IN BeginRemoval(c, {j \in js : running[j] # None}, js, TRUE)

NotRunning(c, j) ==
    /\ call[c].at = "stopping"
    /\ j \in call[c].todo
    /\ running[j] = None
    /\ call' = [call EXCEPT ![c].todo = @ \ {j}]
    /\ UNCHANGED <<active, deleted, jobs, results, running, runs, workers, history>>

CancelAndWait(c, j) ==
    /\ call[c].at = "stopping"
    /\ j \in call[c].todo
    /\ running[j] # None
    /\ runs' = [runs EXCEPT ![running[j]].cancelled = TRUE]
    /\ call' = [call EXCEPT ![c].at = "waiting", ![c].run = running[j],
                            ![c].todo = @ \ {j}]
    /\ UNCHANGED <<active, deleted, jobs, results, running, workers, history>>

\* Broken: a cancelled run is taken for one that has ended.
WaitedForCancel(c) ==
    /\ call[c].at = "waiting"
    /\ call' = [call EXCEPT ![c].at = "stopping", ![c].run = None,
                            ![c].waited = @ \cup {call[c].run}]
    /\ UNCHANGED <<active, deleted, jobs, results, running, runs, workers, history>>

Waited(c) ==
    /\ call[c].at = "waiting"
    /\ runs[call[c].run].at = "ended"
    /\ call' = [call EXCEPT ![c].at = "stopping", ![c].run = None,
                            ![c].waited = @ \cup {call[c].run}]
    /\ UNCHANGED <<active, deleted, jobs, results, running, runs, workers, history>>

GiveUp(c) ==
    /\ call[c].at = "waiting"
    /\ call' = [call EXCEPT ![c].at = "stopping", ![c].run = None]
    /\ UNCHANGED <<active, deleted, jobs, results, running, runs, workers, history>>

Unwaited(c, j) == running[j] \notin call[c].waited \cup {None}

\* DeleteJob finds the job or leaves its results alone; Clear drops the
\* buckets, with the results that are left without a job.
Remove(c) ==
    /\ call[c].at = "stopping"
    /\ call[c].todo = {}
    /\ Lose({j \in call[c].removes : ~ call[c].all => Stored(j)})
    /\ torn' = torn \cup {j \in call[c].removes : Unwaited(c, j)}
    /\ Return(c)
    /\ UNCHANGED <<active, deleted, running, runs, workers, adrift>>

-----------------------------------------------------------------------------
(* The run: rows go to idle workers until they are out or the run is       *)
(* cancelled; when the workers are back the outcome is written, the run    *)
(* leaves the map and only then lets its waiters go.                       *)

Work(r, w, rec) == workers' = [workers EXCEPT ![r][w] = rec]

Feed(r, w) ==
    /\ runs[r].at = "feeding"
    /\ runs[r].next \in Rows
    /\ workers[r][w] = Resting
    /\ runs' = [runs EXCEPT ![r].next = @ + 1]
    /\ Work(r, w, [Resting EXCEPT !.at = "took", !.row = runs[r].next])
    /\ UNCHANGED <<active, deleted, jobs, results, running, call, history>>

FeederStops(r) ==
    /\ runs[r].at = "feeding"
    /\ runs[r].next \in Rows
    /\ runs[r].cancelled
    /\ runs' = [runs EXCEPT ![r].at = "draining", ![r].stopped = TRUE]
    /\ UNCHANGED <<active, deleted, jobs, results, running, workers, call, history>>

FeederDone(r) ==
    /\ runs[r].at = "feeding"
    /\ runs[r].next = N + 1
    /\ runs' = [runs EXCEPT ![r].at = "draining"]
    /\ UNCHANGED <<active, deleted, jobs, results, running, workers, call, history>>

Outcome(r) ==
    IF runs[r].failed THEN "error"
    ELSE IF runs[r].stopped \/ runs[r].cancelled THEN "stopped"
    ELSE "done"

\* persist has read the job: a run whose job is gone has nothing to write.
HasRead(r, status) ==
    LET j == runs[r].job IN
    IF Stored(j)
    THEN [runs[r] EXCEPT !.at = "persisting", !.status = status,
                         !.held = jobs[j].template]
    ELSE [runs[r] EXCEPT !.at = "leaving"]

\* Broken: the outcome is written while the last workers are still busy.
FinishEarly(r) ==
    /\ runs[r].at = "draining"
    /\ runs' = [runs EXCEPT ![r] = HasRead(r, Outcome(r))]
    /\ UNCHANGED <<active, deleted, jobs, results, running, workers, call, history>>

Finish(r) ==
    /\ runs[r].at = "draining"
    /\ workers[r] = AllRest
    /\ runs' = [runs EXCEPT ![r] = HasRead(r, Outcome(r))]
    /\ UNCHANGED <<active, deleted, jobs, results, running, workers, call, history>>

FinalWrite(r) ==
    LET j == runs[r].job IN
    /\ runs[r].at = "persisting"
    /\ jobs' = [jobs EXCEPT ![j] =
                   [template |-> runs[r].held, status |-> runs[r].status,
                    completed |-> runs[r].completed]]
    /\ runs' = [runs EXCEPT ![r].at = "leaving"]
    /\ adrift' = adrift \ {j}
    /\ UNCHANGED <<active, deleted, results, running, workers, call, torn>>

FinalLost(r) ==
    /\ DiskFaults
    /\ runs[r].at = "persisting"
    /\ runs' = [runs EXCEPT ![r].at = "leaving"]
    /\ adrift' = adrift \cup {runs[r].job}
    /\ UNCHANGED <<active, deleted, jobs, results, running, workers, call, torn>>

Deregister(r) ==
    /\ runs[r].at = "leaving"
    /\ running' = [running EXCEPT ![runs[r].job] = None]
    /\ runs' = [runs EXCEPT ![r].at = "deregistered"]
    /\ UNCHANGED <<active, deleted, jobs, results, workers, call, history>>

\* Broken: done is closed only by a run that was not told to stop.
CloseDoneUnlessStopped(r) ==
    /\ runs[r].at = "deregistered"
    /\ ~ runs[r].cancelled
    /\ runs' = [runs EXCEPT ![r] = Ended]
    /\ UNCHANGED <<active, deleted, jobs, results, running, workers, call, history>>

CloseDone(r) ==
    /\ runs[r].at = "deregistered"
    /\ runs' = [runs EXCEPT ![r] = Ended]
    /\ UNCHANGED <<active, deleted, jobs, results, running, workers, call, history>>

-----------------------------------------------------------------------------
(* A worker: it drops a row when the run was cancelled before the request  *)
(* or during it, stores a result otherwise, and every so many results      *)
(* writes the progress: GetJob, then PutJob.                               *)

\* Broken: a worker that finds the run cancelled tries its row again.
SkipRetries(r, w) ==
    /\ workers[r][w].at = "took"
    /\ runs[r].cancelled
    /\ UNCHANGED vars

Skip(r, w) ==
    /\ workers[r][w].at = "took"
    /\ runs[r].cancelled
    /\ Work(r, w, Resting)
    /\ UNCHANGED <<active, deleted, jobs, results, running, runs, call, history>>

Send(r, w) ==
    /\ workers[r][w].at = "took"
    /\ ~ runs[r].cancelled
    /\ Work(r, w, [workers[r][w] EXCEPT !.at = "sending"])
    /\ UNCHANGED <<active, deleted, jobs, results, running, runs, call, history>>

Dropped(r, w) ==
    /\ workers[r][w].at = "sending"
    /\ runs[r].cancelled
    /\ Work(r, w, Resting)
    /\ UNCHANGED <<active, deleted, jobs, results, running, runs, call, history>>

\* The answer, or the error of a request that was not cancelled.
StoreResult(r, w, matched) ==
    LET n == runs[r].completed + 1 IN
    /\ workers[r][w].at = "sending"
    /\ results' = [results EXCEPT ![runs[r].job][workers[r][w].row] =
                                      runs[r].template]
    /\ runs' = [runs EXCEPT ![r].completed = n]
    /\ Work(r, w, [Resting EXCEPT !.at = "stored", !.count = n,
                                  !.matched = matched])
    /\ UNCHANGED <<active, deleted, jobs, running, call, history>>

StoreFails(r, w) ==
    /\ DiskFaults
    /\ workers[r][w].at = "sending"
    /\ runs' = [runs EXCEPT ![r].failed = TRUE]
    /\ Work(r, w, Resting)
    /\ UNCHANGED <<active, deleted, jobs, results, running, call, history>>

Announced(r, w) ==
    LET n == workers[r][w].count IN
    /\ workers[r][w].at = "stored"
    /\ runs' = [runs EXCEPT ![r].cancelled = @ \/ workers[r][w].matched]
    /\ Work(r, w, IF n % Every = 0
                  THEN [Resting EXCEPT !.at = "reading", !.count = n]
                  ELSE Resting)
    /\ UNCHANGED <<active, deleted, jobs, results, running, call, history>>

ProgressRead(r, w) ==
    LET j == runs[r].job IN
    /\ workers[r][w].at = "reading"
    /\ Work(r, w, IF Stored(j)
                  THEN [workers[r][w] EXCEPT !.at = "writing",
                                             !.held = jobs[j].template]
                  ELSE Resting)
    /\ UNCHANGED <<active, deleted, jobs, results, running, runs, call, history>>

ProgressWrite(r, w) ==
    /\ workers[r][w].at = "writing"
    /\ jobs' = [jobs EXCEPT ![runs[r].job] =
                   [template |-> workers[r][w].held, status |-> "running",
                    completed |-> workers[r][w].count]]
    /\ Work(r, w, Resting)
    /\ UNCHANGED <<active, deleted, results, running, runs, call, history>>

ProgressLost(r, w) ==
    /\ DiskFaults
    /\ workers[r][w].at = "writing"
    /\ Work(r, w, Resting)
    /\ UNCHANGED <<active, deleted, jobs, results, running, runs, call, history>>

-----------------------------------------------------------------------------
(* The process ends; the next one finds the database and no runs.          *)

Crash ==
    /\ \/ \E c \in Callers : call[c] # Idle
       \/ \E r \in Runs : runs[r] # Ended
    /\ adrift' = adrift \cup {j \in Jobs : running[j] # None}
    /\ running' = [j \in Jobs |-> None]
    /\ runs' = [r \in Runs |-> Ended]
    /\ workers' = [r \in Runs |-> AllRest]
    /\ call' = [c \in Callers |-> Idle]
    /\ UNCHANGED <<active, deleted, jobs, results, torn>>

-----------------------------------------------------------------------------

Begins(c) ==
    \/ \E j \in Jobs, t \in Templates : SaveNew(c, j, t) \/ SaveRead(c, j, t)
    \/ \E j \in Jobs : StartRead(c, j) \/ Delete(c, j)
    \/ Clear(c)

CallStep(c) ==
    \/ SaveCheck(c) \/ SaveDrop(c) \/ SavePut(c) \/ SaveFails(c)
    \/ \E r \in Runs : Register(c, r)
    \/ StartRefused(c) \/ StartClean(c) \/ Launch(c) \/ Abort(c)
    \/ \E j \in Jobs : NotRunning(c, j) \/ CancelAndWait(c, j)
    \/ Waited(c) \/ Remove(c)

RunStep(r) ==
    \/ \E w \in Workers : Feed(r, w)
    \/ FeederStops(r) \/ FeederDone(r) \/ Finish(r)
    \/ FinalWrite(r) \/ FinalLost(r) \/ Deregister(r) \/ CloseDone(r)

WorkerStep(r, w) ==
    \/ Skip(r, w) \/ Send(r, w) \/ Dropped(r, w)
    \/ \E matched \in BOOLEAN : StoreResult(r, w, matched)
    \/ StoreFails(r, w) \/ Announced(r, w)
    \/ ProgressRead(r, w) \/ ProgressWrite(r, w) \/ ProgressLost(r, w)

Next ==
    \/ \E p \in Projects \cup {None} : Open(p)
    \/ \E p \in Projects : DeleteProject(p)
    \/ \E c \in Callers : Begins(c) \/ CallStep(c) \/ GiveUp(c)
    \/ \E j \in Jobs : Stop(j)
    \/ \E r \in Runs : RunStep(r)
    \/ \E r \in Runs, w \in Workers : WorkerStep(r, w)
    \/ Crash

Spec == Init /\ [][Next]_vars

\* Goroutines that can go on do, and a request ends: it has a timeout.
\* Nobody is made to call, to stop a run or to give up waiting.
Fairness ==
    /\ \A c \in Callers : WF_vars(CallStep(c))
    /\ \A r \in Runs : WF_vars(RunStep(r))
    /\ \A r \in Runs, w \in Workers : WF_vars(WorkerStep(r, w))

FairSpec == Spec /\ Fairness

-----------------------------------------------------------------------------

TypeOK ==
    /\ active \in (Projects \ deleted) \cup {None}
    /\ deleted \subseteq Projects
    /\ jobs \in [Jobs -> Records \cup {Unborn, Gone}]
    /\ results \in [Jobs -> [Rows -> Templates \cup {None}]]
    /\ running \in [Jobs -> Runs \cup {None}]
    /\ runs \in [Runs -> RunRecords]
    /\ workers \in [Runs -> [Workers -> WorkerRecords]]
    /\ call \in [Callers -> Calls]
    /\ torn \subseteq Jobs
    /\ adrift \subseteq Jobs

\* A job has one run at a time: while a run is under way it is the registered
\* one, and its workers are back before it writes its outcome.  Register
\* looks under the lock, run deregisters last.
OneRunPerJob ==
    \A r \in Runs :
        /\ runs[r].at \in Live => running[runs[r].job] = r
        /\ runs[r].at \notin {"feeding", "draining"} => workers[r] = AllRest

\* A job that says it is running is, unless a crash or a failed write has
\* cut its run off from it: no worker's progress is written over the outcome.
RunningMeansRun ==
    \A j \in Jobs :
        Stored(j) /\ jobs[j].status = "running"
            => running[j] # None \/ j \in adrift

\* Results without a job are left only where the job was removed under a run
\* that nobody had waited for: Delete and Clear wait on done "so no result
\* lands after the job is gone" (service.go:56), except a run registered
\* after they looked, a caller who gives up and the deletion of the project.
ResultsHaveJobs ==
    \A j \in Jobs : Has(j) # {} => Stored(j) \/ j \in torn

\* A job, its runs and its results belong together, whatever the callers do
\* beside each other (service.go: Start, run, Stop, Delete, Clear).
RunsAreOrderly == OneRunPerJob /\ RunningMeansRun /\ ResultsHaveJobs

\* The results of a job answer the template it has: Save drops them with the
\* old template and Start before a new run.  Holds for one caller at a time.
ResultsMatchTemplate ==
    \A j \in Jobs : Stored(j) =>
        \A i \in Has(j) : results[j][i] = jobs[j].template

\* A run that has ended counted every result it stored; a Save or a Start
\* that is cut short leaves none of them rather than some.  Holds for one
\* caller at a time, and unless the job was removed under its run.
ResultsAreCounted ==
    \A j \in Jobs \ torn :
        Stored(j) /\ jobs[j].status \in Final
            => Cardinality(Has(j)) \in {0, jobs[j].completed}

\* A result is of its run and fits its template, and a run that is done has
\* counted its results (runner.go, service.go record and finish).
ResultsAreSound == ResultsMatchTemplate /\ ResultsAreCounted

\* A job that was removed stays removed, also by the progress of a run, which
\* reads the job and writes it in two transactions.  Holds for one caller at
\* a time, and unless the job was removed under its run.
GoneStaysGone ==
    [][\A j \in Jobs \ torn' : jobs[j] = Gone => jobs'[j] = Gone]_vars

\* Every call returns, also one that waits for a run to end, and every run ends,
\* whoever stops it and whatever its workers are doing.
CallsAndRunsEnd ==
    /\ \A c \in Callers : call[c].at # "idle" ~> call[c].at = "idle"
    /\ \A r \in Runs : runs[r].at # "ended" ~> runs[r].at = "ended"
=============================================================================
