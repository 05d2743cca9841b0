-------------------------- MODULE AutomationProofs --------------------------
(***************************************************************************)
(* What Automation guarantees for any number of jobs, rows, workers, runs  *)
(* and callers.                                                            *)
(***************************************************************************)
EXTENDS Automation, FiniteSetTheorems, TLAPS

USE SizesAssumption, NoneAssumption, AbsentAssumption

\* A run object that ended is blank.  Any other has a job and a template; while
\* the run is under way it is the registered one, and while it has a feeder its
\* job is there or was removed under it.  Before the run is launched, and when
\* it has written its outcome, its job does not say it is running, unless a
\* run before was cut off from it.
RunOK(r) ==
    /\ runs[r].at = "ended" => runs[r] = Ended
    /\ runs[r].at # "ended" => runs[r].job \in Jobs /\ runs[r].template \in Templates
    /\ runs[r].at = "persisting" =>
           runs[r].status \in Final /\ runs[r].held \in Templates
    /\ runs[r].at \notin {"feeding", "draining"} => workers[r] = AllRest
    /\ \A w \in Workers :
           workers[r][w].at = "writing" => workers[r][w].held \in Templates
    /\ runs[r].at \in Live => running[runs[r].job] = r
    /\ runs[r].at \in {"feeding", "draining"} =>
           Stored(runs[r].job) \/ runs[r].job \in torn
    /\ runs[r].at \in {"starting", "leaving"} /\ Stored(runs[r].job) =>
           jobs[runs[r].job].status # "running" \/ runs[r].job \in adrift

\* A registered run is under way, and RunningMeansRun and ResultsHaveJobs.
JobOK(j) ==
    /\ running[j] # None =>
           runs[running[j]].at \in Live /\ runs[running[j]].job = j
    /\ Stored(j) /\ jobs[j].status = "running" =>
           running[j] # None \/ j \in adrift
    /\ Has(j) # {} => Stored(j) \/ j \in torn

Launching == {"clean", "launch"}

\* A Start has a run of its own until it lets it go, and what a removal has
\* seen end is over.
CallOK(c) ==
    /\ call[c].at \notin {"idle", "stopping", "waiting"} =>
           call[c].job \in Jobs /\ call[c].template \in Templates
    /\ call[c].at \in Launching \cup {"waiting"} => call[c].run \in Runs
    /\ call[c].at \in Launching => /\ runs[call[c].run].at = "starting"
                                   /\ runs[call[c].run].job = call[c].job
    /\ \A d \in Callers :
           call[c].at \in Launching /\ call[d].at \in Launching
               /\ call[c].run = call[d].run => c = d
    /\ \A r \in call[c].waited : runs[r] = Ended

Orderly ==
    /\ \A r \in Runs : RunOK(r)
    /\ \A j \in Jobs : JobOK(j)
    /\ \A c \in Callers : CallOK(c)

\* A call that goes on is a call.
LEMMA GotoTyped ==
    ASSUME NEW k \in Calls
    PROVE  \A at \in {"drop", "put", "launch", "stopping"} :
               [k EXCEPT !.at = at] \in Calls
<1> QED
  BY DEF Calls

\* So is one whose run is registered, or that stops and waits for others.
LEMMA CallTyped ==
    ASSUME NEW k \in Calls
    PROVE  /\ \A r \in Runs : [k EXCEPT !.at = "clean", !.run = r] \in Calls
           /\ \A j : [k EXCEPT !.todo = k.todo \ {j}] \in Calls
           /\ \A j, r : r \in Runs =>
                  [k EXCEPT !.at = "waiting", !.run = r, !.todo = k.todo \ {j}]
                      \in Calls
           /\ \A r \in Runs :
                  [k EXCEPT !.at = "stopping", !.run = None,
                            !.waited = k.waited \cup {r}] \in Calls
           /\ [k EXCEPT !.at = "stopping", !.run = None] \in Calls
<1>1. \A r \in Runs : [k EXCEPT !.at = "clean", !.run = r] \in Calls
  BY DEF Calls
<1>2. \A j : k.todo \ {j} \in SUBSET Jobs
  BY DEF Calls
<1>3. \A j : [k EXCEPT !.todo = k.todo \ {j}] \in Calls
  BY <1>2 DEF Calls
<1>4. \A j, r : r \in Runs =>
          [k EXCEPT !.at = "waiting", !.run = r, !.todo = k.todo \ {j}] \in Calls
  BY <1>2 DEF Calls
<1>5. \A r \in Runs : k.waited \cup {r} \in SUBSET Runs
  BY DEF Calls
<1>6. \A r \in Runs :
          [k EXCEPT !.at = "stopping", !.run = None,
                    !.waited = k.waited \cup {r}] \in Calls
  BY <1>5 DEF Calls
<1>7. [k EXCEPT !.at = "stopping", !.run = None] \in Calls
  BY DEF Calls
<1> QED
  BY <1>1, <1>3, <1>4, <1>6, <1>7

\* So is one that has returned.
LEMMA IdleTyped == Idle \in Calls
<1> QED
  BY DEF Idle, Calls

\* A run keeps its shape under what its goroutine and its callers write to it.
LEMMA RunTyped ==
    ASSUME NEW k \in RunRecords
    PROVE  /\ \A at \in Live \cup {"deregistered"} : [k EXCEPT !.at = at] \in RunRecords
           /\ [k EXCEPT !.at = "draining", !.stopped = TRUE] \in RunRecords
           /\ [k EXCEPT !.failed = TRUE] \in RunRecords
           /\ [k EXCEPT !.cancelled = TRUE] \in RunRecords
           /\ [k EXCEPT !.completed = k.completed + 1] \in RunRecords
           /\ \A b \in BOOLEAN : [k EXCEPT !.cancelled = k.cancelled \/ b] \in RunRecords
           /\ k.next \in Rows => [k EXCEPT !.next = k.next + 1] \in RunRecords
           /\ \A status \in Final, held \in Templates :
                  [k EXCEPT !.at = "persisting", !.status = status, !.held = held]
                      \in RunRecords
<1>1. \A at \in Live \cup {"deregistered"} : [k EXCEPT !.at = at] \in RunRecords
  BY DEF RunRecords
<1>2. [k EXCEPT !.at = "draining", !.stopped = TRUE] \in RunRecords
  BY DEF RunRecords, Live
<1>3. /\ [k EXCEPT !.failed = TRUE] \in RunRecords
      /\ [k EXCEPT !.cancelled = TRUE] \in RunRecords
  BY DEF RunRecords
<1>4. [k EXCEPT !.completed = k.completed + 1] \in RunRecords
  BY DEF RunRecords
<1>5. \A b \in BOOLEAN : [k EXCEPT !.cancelled = k.cancelled \/ b] \in RunRecords
  <2> SUFFICES ASSUME NEW b \in BOOLEAN
               PROVE  [k EXCEPT !.cancelled = k.cancelled \/ b] \in RunRecords
    OBVIOUS
  <2>1. (k.cancelled \/ b) \in BOOLEAN
    OBVIOUS
  <2> QED
    BY <2>1 DEF RunRecords
<1>6. k.next \in Rows => [k EXCEPT !.next = k.next + 1] \in RunRecords
  BY DEF RunRecords, Rows
<1>7. \A status \in Final, held \in Templates :
          [k EXCEPT !.at = "persisting", !.status = status, !.held = held]
              \in RunRecords
  BY DEF RunRecords, Live
<1> QED
  BY <1>1, <1>2, <1>3, <1>4, <1>5, <1>6, <1>7

\* A new run, and one that is over.
LEMMA StartTyped ==
    /\ Ended \in RunRecords
    /\ \A j \in Jobs, t \in Templates : Starting(j, t) \in RunRecords
<1>1. 1 \in 1 .. N + 1
  OBVIOUS
<1>2. Ended \in RunRecords
  BY <1>1 DEF Ended, RunRecords
<1>3. \A j \in Jobs, t \in Templates : Starting(j, t) \in RunRecords
  BY <1>1 DEF Ended, Starting, RunRecords, Live
<1> QED
  BY <1>2, <1>3

\* What a worker may be left as is a worker.
LEMMA WorkTyped ==
    /\ Resting \in WorkerRecords
    /\ \A i \in Rows : [Resting EXCEPT !.at = "took", !.row = i] \in WorkerRecords
    /\ \A n \in Nat, matched \in BOOLEAN :
           [Resting EXCEPT !.at = "stored", !.count = n, !.matched = matched]
               \in WorkerRecords
    /\ \A n \in Nat : [Resting EXCEPT !.at = "reading", !.count = n] \in WorkerRecords
    /\ \A k \in WorkerRecords : [k EXCEPT !.at = "sending"] \in WorkerRecords
    /\ \A k \in WorkerRecords, t \in Templates :
           [k EXCEPT !.at = "writing", !.held = t] \in WorkerRecords
<1>1. 0 \in 0 .. N /\ 0 \in Nat
  OBVIOUS
<1>2. Resting \in WorkerRecords
  BY <1>1 DEF Resting, WorkerRecords
<1>3. \A i \in Rows : [Resting EXCEPT !.at = "took", !.row = i] \in WorkerRecords
  <2> SUFFICES ASSUME NEW i \in Rows
               PROVE  [Resting EXCEPT !.at = "took", !.row = i] \in WorkerRecords
    OBVIOUS
  <2>1. i \in 0 .. N
    BY DEF Rows
  <2> QED
    BY <1>1, <2>1 DEF Resting, WorkerRecords
<1>4. \A n \in Nat, matched \in BOOLEAN :
          [Resting EXCEPT !.at = "stored", !.count = n, !.matched = matched]
              \in WorkerRecords
  BY <1>1 DEF Resting, WorkerRecords
<1>5. \A n \in Nat : [Resting EXCEPT !.at = "reading", !.count = n] \in WorkerRecords
  BY <1>1 DEF Resting, WorkerRecords
<1>6. \A k \in WorkerRecords : [k EXCEPT !.at = "sending"] \in WorkerRecords
  BY DEF WorkerRecords
<1>7. \A k \in WorkerRecords, t \in Templates :
          [k EXCEPT !.at = "writing", !.held = t] \in WorkerRecords
  BY DEF WorkerRecords
<1> QED
  BY <1>2, <1>3, <1>4, <1>5, <1>6, <1>7

\* A step keeps the types, given that runs, jobs and calls agree.
LEMMA TypeStep ==
    ASSUME TypeOK, Orderly, [Next]_vars PROVE TypeOK'
<1> USE DEF TypeOK, history
<1>1. ASSUME NEW p \in Projects \cup {None}, Open(p) PROVE TypeOK'
  BY <1>1 DEF Open
<1>2. ASSUME NEW p \in Projects, DeleteProject(p) PROVE TypeOK'
  BY <1>2 DEF DeleteProject, Lose, NoResults
<1>3. ASSUME NEW c \in Callers, NEW j \in Jobs, NEW t \in Templates, SaveNew(c, j, t)
      PROVE  TypeOK'
  BY <1>3 DEF SaveNew, Begin, Calls, Idle
<1>4. ASSUME NEW c \in Callers, NEW j \in Jobs, NEW t \in Templates, SaveRead(c, j, t)
      PROVE  TypeOK'
  BY <1>4 DEF SaveRead, Begin, Calls, Idle
<1>5. ASSUME NEW c \in Callers, NEW j \in Jobs, StartRead(c, j) PROVE TypeOK'
  BY <1>5 DEF StartRead, Begin, Stored, Records, Calls, Idle
<1>6. ASSUME NEW c \in Callers, NEW j \in Jobs, Delete(c, j) PROVE TypeOK'
  <2> DEFINE begun == [Idle EXCEPT !.at = "stopping", !.todo = {j},
                                   !.removes = {j}, !.all = FALSE]
  <2>1. begun \in Calls
    BY DEF Calls, Idle
  <2>2. call' = [call EXCEPT ![c] = begun]
    BY <1>6 DEF Delete, BeginRemoval
  <2> HIDE DEF begun
  <2>3. call' \in [Callers -> Calls]
    BY <2>1, <2>2
  <2> QED
    BY <1>6, <2>3 DEF Delete, BeginRemoval
<1>7. ASSUME NEW c \in Callers, Clear(c) PROVE TypeOK'
  <2> DEFINE js == {j \in Jobs : Home[j] = active}
             begun == [Idle EXCEPT !.at = "stopping", !.todo = {j \in js : running[j] # None},
                                   !.removes = js, !.all = TRUE]
  <2>1. begun \in Calls
    BY DEF Calls, Idle
  <2>2. call' = [call EXCEPT ![c] = begun]
    BY <1>7 DEF Clear, BeginRemoval
  <2> HIDE DEF begun
  <2>3. call' \in [Callers -> Calls]
    BY <2>1, <2>2
  <2> QED
    BY <1>7, <2>3 DEF Clear, BeginRemoval
<1>8. ASSUME NEW c \in Callers, SaveCheck(c) PROVE TypeOK'
  <2>1. CASE Goto(c, "drop")
    BY <1>8, <2>1, GotoTyped DEF SaveCheck, Goto
  <2>2. CASE Return(c)
    BY <1>8, <2>2, IdleTyped DEF SaveCheck, Return
  <2> QED
    BY <1>8, <2>1, <2>2 DEF SaveCheck
<1>9. ASSUME NEW c \in Callers, SaveDrop(c) PROVE TypeOK'
  BY <1>9, GotoTyped DEF SaveDrop, Goto, NoResults
<1>10. ASSUME NEW c \in Callers, SavePut(c) PROVE TypeOK'
  BY <1>10, IdleTyped DEF SavePut, Return, Draft, Records, Orderly, RunOK, CallOK, Launching
<1>11. ASSUME NEW c \in Callers, SaveFails(c) PROVE TypeOK'
  BY <1>11, IdleTyped DEF SaveFails, Return
<1>12. ASSUME NEW c \in Callers, NEW r \in Runs, Register(c, r) PROVE TypeOK'
  <2>1. call[c].job \in Jobs /\ call[c].template \in Templates
    BY <1>12 DEF Register, Orderly, RunOK, CallOK, Launching
  <2>2. call' \in [Callers -> Calls]
    BY <1>12, CallTyped DEF Register
  <2> QED
    BY <1>12, <2>1, <2>2, StartTyped DEF Register
<1>13. ASSUME NEW c \in Callers, StartRefused(c) PROVE TypeOK'
  BY <1>13, IdleTyped DEF StartRefused, Return
<1>14. ASSUME NEW c \in Callers, StartClean(c) PROVE TypeOK'
  BY <1>14, GotoTyped DEF StartClean, Goto, NoResults
<1>15. ASSUME NEW c \in Callers, Launch(c) PROVE TypeOK'
  <2>1. call[c].job \in Jobs /\ call[c].template \in Templates /\ call[c].run \in Runs
    BY <1>15 DEF Launch, Orderly, RunOK, CallOK, Launching
  <2>2. [Draft(call[c].template) EXCEPT !.status = "running"] \in Records
    BY <2>1 DEF Draft, Records
  <2> QED
    BY <1>15, <2>1, <2>2, IdleTyped, RunTyped DEF Launch, Return, Live
<1>16. ASSUME NEW c \in Callers, Abort(c) PROVE TypeOK'
  BY <1>16, IdleTyped, StartTyped DEF Abort, Return
<1>17. ASSUME NEW c \in Callers, NEW j \in Jobs, NotRunning(c, j) PROVE TypeOK'
  BY <1>17, CallTyped DEF NotRunning
<1>18. ASSUME NEW c \in Callers, NEW j \in Jobs, CancelAndWait(c, j)
      PROVE  TypeOK'
  BY <1>18, RunTyped, CallTyped DEF CancelAndWait
<1>19. ASSUME NEW c \in Callers, Waited(c) PROVE TypeOK'
  BY <1>19, CallTyped DEF Waited, Orderly, RunOK, CallOK, Launching
<1>20. ASSUME NEW c \in Callers, GiveUp(c) PROVE TypeOK'
  BY <1>20, CallTyped DEF GiveUp
<1>21. ASSUME NEW c \in Callers, Remove(c) PROVE TypeOK'
  BY <1>21, IdleTyped DEF Remove, Return, Lose, NoResults, Calls
<1>22. ASSUME NEW j \in Jobs, Stop(j) PROVE TypeOK'
  BY <1>22, RunTyped DEF Stop
<1>23. ASSUME NEW r \in Runs, NEW w \in Workers, Feed(r, w) PROVE TypeOK'
  BY <1>23, RunTyped, WorkTyped DEF Feed, Work
<1>24. ASSUME NEW r \in Runs, FeederStops(r) PROVE TypeOK'
  BY <1>24, RunTyped DEF FeederStops
<1>25. ASSUME NEW r \in Runs, FeederDone(r) PROVE TypeOK'
  BY <1>25, RunTyped DEF FeederDone, Live
<1>26. ASSUME NEW r \in Runs, Finish(r) PROVE TypeOK'
  <2>1. Outcome(r) \in Final
    BY DEF Outcome, Final
  <2>2. Stored(runs[r].job) => jobs[runs[r].job].template \in Templates
    BY <1>26 DEF Finish, Orderly, RunOK, CallOK, Launching, Stored, Records
  <2>3. HasRead(r, Outcome(r)) \in RunRecords
    BY <1>26, <2>1, <2>2, RunTyped DEF HasRead, Live
  <2> QED
    BY <1>26, <2>3 DEF Finish
<1>27. ASSUME NEW r \in Runs, FinalWrite(r) PROVE TypeOK'
  <2>1. [template |-> runs[r].held, status |-> runs[r].status,
         completed |-> runs[r].completed] \in Records
    BY <1>27 DEF FinalWrite, Orderly, RunOK, CallOK, Launching, Records, RunRecords
  <2> QED
    BY <1>27, <2>1, RunTyped DEF FinalWrite, Live
<1>28. ASSUME NEW r \in Runs, FinalLost(r) PROVE TypeOK'
  <2>1. runs[r].job \in Jobs
    BY <1>28 DEF FinalLost, Orderly, RunOK, CallOK, Launching, RunRecords, Live
  <2>2. runs' \in [Runs -> RunRecords]
    BY <1>28, RunTyped DEF FinalLost, Live
  <2> QED
    BY <1>28, <2>1, <2>2 DEF FinalLost
<1>29. ASSUME NEW r \in Runs, Deregister(r) PROVE TypeOK'
  BY <1>29, RunTyped DEF Deregister
<1>30. ASSUME NEW r \in Runs, CloseDone(r) PROVE TypeOK'
  BY <1>30, StartTyped DEF CloseDone
<1>31. ASSUME NEW r \in Runs, NEW w \in Workers, Skip(r, w) PROVE TypeOK'
  BY <1>31, WorkTyped DEF Skip, Work
<1>32. ASSUME NEW r \in Runs, NEW w \in Workers, Send(r, w) PROVE TypeOK'
  BY <1>32, WorkTyped DEF Send, Work
<1>33. ASSUME NEW r \in Runs, NEW w \in Workers, Dropped(r, w) PROVE TypeOK'
  BY <1>33, WorkTyped DEF Dropped, Work
<1>34. ASSUME NEW r \in Runs, NEW w \in Workers, NEW matched \in BOOLEAN, StoreResult(r, w, matched)
      PROVE  TypeOK'
  <2>1. runs[r].completed \in Nat
    BY DEF RunRecords
  <2>2. workers' \in [Runs -> [Workers -> WorkerRecords]]
    <3>1. [Resting EXCEPT !.at = "stored", !.count = runs[r].completed + 1,
                          !.matched = matched] \in WorkerRecords
      <4>1. PICK n \in Nat : n = runs[r].completed + 1
        BY <2>1
      <4>2. [Resting EXCEPT !.at = "stored", !.count = n, !.matched = matched]
                \in WorkerRecords
        BY WorkTyped
      <4> QED
        BY <4>1, <4>2
    <3> QED
      BY <1>34, <3>1 DEF StoreResult, Work
  <2>3. runs[r].template \in Templates \cup {None}
    BY DEF RunRecords
  <2>4. runs' \in [Runs -> RunRecords]
    BY <1>34, RunTyped DEF StoreResult
  <2> QED
    BY <1>34, <2>2, <2>3, <2>4 DEF StoreResult
<1>35. ASSUME NEW r \in Runs, NEW w \in Workers, StoreFails(r, w) PROVE TypeOK'
  BY <1>35, WorkTyped, RunTyped DEF StoreFails, Work
<1>36. ASSUME NEW r \in Runs, NEW w \in Workers, Announced(r, w) PROVE TypeOK'
  <2>1. workers[r][w].matched \in BOOLEAN /\ workers[r][w].count \in Nat
    BY DEF WorkerRecords
  <2>2. runs' \in [Runs -> RunRecords]
    BY <1>36, <2>1, RunTyped DEF Announced
  <2>3. workers' \in [Runs -> [Workers -> WorkerRecords]]
    BY <1>36, <2>1, WorkTyped DEF Announced, Work
  <2> QED
    BY <1>36, <2>2, <2>3 DEF Announced
<1>37. ASSUME NEW r \in Runs, NEW w \in Workers, ProgressRead(r, w)
      PROVE  TypeOK'
  <2>1. Stored(runs[r].job) => jobs[runs[r].job].template \in Templates
    BY <1>37 DEF ProgressRead, Orderly, RunOK, CallOK, Launching, Stored, Records, AllRest, Resting
  <2>2. PICK k \in WorkerRecords : Work(r, w, k)
    <3>1. workers[r][w] \in WorkerRecords
      OBVIOUS
    <3>2. CASE Stored(runs[r].job)
      <4> DEFINE t == jobs[runs[r].job].template
      <4>1. Work(r, w, [workers[r][w] EXCEPT !.at = "writing", !.held = t])
        BY <1>37, <3>2 DEF ProgressRead
      <4>2. \A k \in WorkerRecords, u \in Templates :
               [k EXCEPT !.at = "writing", !.held = u] \in WorkerRecords
        BY WorkTyped, Zenon
      <4>3. t \in Templates
        BY <2>1, <3>2
      <4>4. [workers[r][w] EXCEPT !.at = "writing", !.held = t] \in WorkerRecords
        BY <3>1, <4>2, <4>3, Zenon
      <4> QED
        BY <4>1, <4>4, Zenon
    <3>3. CASE ~Stored(runs[r].job)
      <4>1. Work(r, w, Resting)
        BY <1>37, <3>3 DEF ProgressRead
      <4>2. Resting \in WorkerRecords
        BY WorkTyped, Zenon
      <4> QED
        BY <4>1, <4>2, Zenon
    <3> QED
      BY <3>2, <3>3
  <2>3. workers' \in [Runs -> [Workers -> WorkerRecords]]
    BY <2>2 DEF Work
  <2> QED
    BY <1>37, <2>3 DEF ProgressRead
<1>38. ASSUME NEW r \in Runs, NEW w \in Workers, ProgressWrite(r, w)
      PROVE  TypeOK'
  <2>1. [template |-> workers[r][w].held, status |-> "running",
         completed |-> workers[r][w].count] \in Records
    BY <1>38 DEF ProgressWrite, Orderly, RunOK, CallOK, Launching, Records, WorkerRecords
  <2>2. Resting \in WorkerRecords
    BY WorkTyped, Zenon
  <2>3. workers' \in [Runs -> [Workers -> WorkerRecords]]
    BY <1>38, <2>2 DEF ProgressWrite, Work
  <2> QED
    BY <1>38, <2>1, <2>3 DEF ProgressWrite
<1>39. ASSUME NEW r \in Runs, NEW w \in Workers, ProgressLost(r, w)
      PROVE  TypeOK'
  BY <1>39, WorkTyped DEF ProgressLost, Work
<1>40. CASE Crash
  BY <1>40, IdleTyped, StartTyped, WorkTyped DEF Crash, AllRest
<1>41. CASE UNCHANGED vars
  BY <1>41 DEF vars
<1> QED
  BY <1>1, <1>2, <1>3, <1>4, <1>5, <1>6, <1>7, <1>8, <1>9, <1>10, <1>11,
     <1>12, <1>13, <1>14, <1>15, <1>16, <1>17, <1>18, <1>19, <1>20, <1>21, <1>22,
     <1>23, <1>24, <1>25, <1>26, <1>27, <1>28, <1>29, <1>30, <1>31, <1>32, <1>33,
     <1>34, <1>35, <1>36, <1>37, <1>38, <1>39, <1>40, <1>41
     DEF Next, Begins, CallStep, RunStep, WorkerStep

\* What a step does not touch stays orderly.  For a run: its record but for
\* the fields nobody relies on, its workers, and its job.
LEMMA SameRun ==
    ASSUME NEW s \in Runs, RunOK(s),
           \/ runs'[s] = runs[s]
           \/ /\ runs[s].at # "ended"
              /\ \A field \in {"at", "job", "template", "status", "held"} :
                     runs'[s][field] = runs[s][field],
           workers'[s] = workers[s],
           runs[s].at \in Live => running'[runs[s].job] = running[runs[s].job],
           runs[s].at \in Live => jobs'[runs[s].job] = jobs[runs[s].job],
           torn \subseteq torn',
           runs[s].at \in Live => (runs[s].job \in adrift => runs[s].job \in adrift')
    PROVE  RunOK(s)'
<1>1. /\ runs'[s].at = runs[s].at /\ runs'[s].job = runs[s].job
      /\ runs'[s].template = runs[s].template
      /\ runs'[s].status = runs[s].status /\ runs'[s].held = runs[s].held
      /\ runs[s].at = "ended" => runs'[s] = runs[s]
  OBVIOUS
<1> QED
  BY <1>1 DEF RunOK, Stored, Live

\* For a job: its record, its results and its run.
LEMMA SameJob ==
    ASSUME NEW j \in Jobs, JobOK(j),
           running'[j] = running[j], jobs'[j] = jobs[j], results'[j] = results[j],
           torn \subseteq torn', j \in adrift => j \in adrift',
           running[j] # None => /\ runs'[running[j]].at \in Live
                                /\ runs'[running[j]].job = runs[running[j]].job
    PROVE  JobOK(j)'
<1> QED
  BY DEF JobOK, Stored, Has

\* For the calls: that runs that start or are over remain so.
LEMMA SameCalls ==
    ASSUME \A c \in Callers : CallOK(c), UNCHANGED call, call \in [Callers -> Calls],
           \A s \in Runs : /\ runs[s].at = "starting" =>
                                   /\ runs'[s].at = "starting"
                                   /\ runs'[s].job = runs[s].job
                           /\ runs[s] = Ended => runs'[s] = Ended
    PROVE  \A c \in Callers : CallOK(c)'
<1> SUFFICES ASSUME NEW c \in Callers PROVE CallOK(c)'
  OBVIOUS
<1>1. call[c].waited \subseteq Runs
  BY DEF Calls
<1> QED
  BY <1>1 DEF CallOK, Launching

\* A step that leaves everything but the open project and the calls alone.
LEMMA SameBelow ==
    ASSUME Orderly, UNCHANGED <<jobs, results, running, runs, workers, torn, adrift>>
    PROVE  (\A r \in Runs : RunOK(r)') /\ (\A j \in Jobs : JobOK(j)')
<1>1. ASSUME NEW r \in Runs PROVE RunOK(r)'
  BY SameRun DEF Orderly
<1>2. ASSUME NEW j \in Jobs PROVE JobOK(j)'
  BY SameJob DEF Orderly, JobOK
<1> QED
  BY <1>1, <1>2

\* One call takes a step: the others stay as they are.
LEMMA OneCall ==
    ASSUME TypeOK, \A c \in Callers : CallOK(c), NEW c \in Callers, NEW k,
           call' = [call EXCEPT ![c] = k],
           \A s \in Runs : /\ runs[s].at = "starting" /\ call[c].run # s =>
                                   /\ runs'[s].at = "starting"
                                   /\ runs'[s].job = runs[s].job
                           /\ runs[s] = Ended =>
                                  \/ runs'[s] = Ended
                                  \/ \A d \in Callers : s \notin call[d].waited,
           k.at \in Launching =>
               \A d \in Callers \ {c} :
                   call[d].at \in Launching => call[d].run # k.run,
           call[c].run # None =>
               \/ call[c].at \in Launching
               \/ \A s \in Runs : runs[s].at = "starting" =>
                      runs'[s].at = "starting" /\ runs'[s].job = runs[s].job,
           /\ k.at \notin {"idle", "stopping", "waiting"} =>
                  k.job \in Jobs /\ k.template \in Templates
           /\ k.at \in Launching \cup {"waiting"} => k.run \in Runs
           /\ k.at \in Launching => /\ runs'[k.run].at = "starting"
                                    /\ runs'[k.run].job = k.job
           /\ \A r \in k.waited : runs'[r] = Ended
    PROVE  \A d \in Callers : CallOK(d)'
<1>1. /\ call'[c] = k
      /\ \A d \in Callers \ {c} : call'[d] = call[d]
  BY DEF TypeOK
<1>2. CallOK(c)'
  BY <1>1 DEF CallOK
<1>3. ASSUME NEW d \in Callers \ {c} PROVE CallOK(d)'
  <2>1. \A r \in call[d].waited : runs'[r] = Ended
    <3>1. call[d].waited \subseteq Runs
      BY DEF TypeOK, Calls
    <3> QED
      BY <3>1 DEF CallOK
  <2>2. call[d].at \in Launching => /\ runs'[call[d].run].at = "starting"
                                    /\ runs'[call[d].run].job = call[d].job
    <3>1. SUFFICES ASSUME call[d].at \in Launching
          PROVE /\ runs'[call[d].run].at = "starting"
                /\ runs'[call[d].run].job = call[d].job
      OBVIOUS
    <3>2. /\ call[d].run \in Runs /\ runs[call[d].run].at = "starting"
          /\ runs[call[d].run].job = call[d].job
      BY <3>1 DEF CallOK
    <3>3. CASE call[c].run # call[d].run
      BY <3>2, <3>3
    <3>4. CASE call[c].run = call[d].run
      BY <3>1, <3>2, <3>4 DEF CallOK
    <3> QED
      BY <3>3, <3>4
  <2> QED
    BY <1>1, <2>1, <2>2 DEF CallOK
<1> QED
  BY <1>2, <1>3

\* A step of a call that only moves it, not into or out of a launch of its own.
LEMMA CallMoves ==
    ASSUME TypeOK, Orderly, NEW c \in Callers, NEW k,
           call' = [call EXCEPT ![c] = k],
           UNCHANGED <<jobs, results, running, runs, workers, torn, adrift>>,
           k.at \notin Launching \cup {"waiting"},
           k.at \notin {"idle", "stopping"} =>
               k.job \in Jobs /\ k.template \in Templates,
           \A r \in k.waited : runs[r] = Ended
    PROVE  Orderly'
<1>1. \A d \in Callers : CallOK(d)
  BY DEF Orderly
<1>2. \A d \in Callers : CallOK(d)'
  BY <1>1, OneCall
<1> QED
  BY <1>2, SameBelow DEF Orderly

\* The results of one job are dropped.
LEMMA Blank ==
    ASSUME TypeOK, Orderly, NEW i, NEW j \in Jobs,
           results' = [results EXCEPT ![i] = NoResults],
           UNCHANGED <<jobs, running, runs, torn, adrift>>
    PROVE  JobOK(j)'
<1>1. CASE j = i
  <2>1. Has(j)' = {}
    BY <1>1 DEF Has, NoResults, TypeOK
  <2> QED
    BY <2>1 DEF Orderly, JobOK, Stored
<1>2. CASE j # i
  <2>1. results'[j] = results[j]
    BY <1>2 DEF TypeOK
  <2> QED
    BY <2>1, SameJob DEF Orderly, JobOK
<1> QED
  BY <1>1, <1>2

\* What a call has in hand when it begins, and when it has returned.
LEMMA IdleFields ==
    /\ Idle.at = "idle" /\ Idle.waited = {} /\ Idle.run = None
    /\ \A at, j, t : LET k == [Idle EXCEPT !.at = at, !.job = j, !.template = t]
                     IN k.at = at /\ k.job = j /\ k.template = t /\ k.waited = {}
    /\ \A todo, removes, all :
           LET k == [Idle EXCEPT !.at = "stopping", !.todo = todo,
                                 !.removes = removes, !.all = all]
           IN k.at = "stopping" /\ k.waited = {}
<1> QED
  BY DEF Idle

\* A call that returns has nothing in hand.
LEMMA CallReturns ==
    ASSUME TypeOK, Orderly, NEW c \in Callers, Return(c),
           UNCHANGED <<jobs, results, running, runs, workers, torn, adrift>>
    PROVE  Orderly'
<1>1. PICK k : call' = [call EXCEPT ![c] = k] /\ k.at = "idle" /\ k.waited = {}
  BY IdleFields DEF Return
<1> QED
  BY <1>1, CallMoves DEF Launching

\* A call that begins has a job and a template in hand.
LEMMA CallBegins ==
    ASSUME TypeOK, Orderly, NEW c \in Callers, NEW j \in Jobs, NEW t \in Templates,
           NEW at \in {"check", "put", "register"}, Begin(c, at, j, t),
           UNCHANGED <<jobs, results, running, runs, workers, torn, adrift>>
    PROVE  Orderly'
<1> DEFINE k == [Idle EXCEPT !.at = at, !.job = j, !.template = t]
<1>1. call' = [call EXCEPT ![c] = k]
  BY DEF Begin
<1>2. k.at = at /\ k.job = j /\ k.template = t /\ k.waited = {}
  BY IdleFields
<1> HIDE DEF k
<1> QED
  BY <1>1, <1>2, CallMoves DEF Launching

\* A removal that begins has seen no run end.
LEMMA RemovalBegins ==
    ASSUME TypeOK, Orderly, NEW c \in Callers, NEW todo, NEW removes, NEW all,
           BeginRemoval(c, todo, removes, all)
    PROVE  Orderly'
<1> DEFINE k == [Idle EXCEPT !.at = "stopping", !.todo = todo,
                             !.removes = removes, !.all = all]
<1>1. call' = [call EXCEPT ![c] = k]
  BY DEF BeginRemoval
<1>2. k.at = "stopping" /\ k.waited = {}
  BY IdleFields
<1> HIDE DEF k
<1> QED
  BY <1>1, <1>2, CallMoves DEF BeginRemoval, Launching, history

\* The calls that begin.
LEMMA BeginOrderly ==
    ASSUME TypeOK, Orderly, NEW c \in Callers, Begins(c) PROVE Orderly'
<1> USE DEF history
<1>1. ASSUME NEW j \in Jobs, NEW t \in Templates, SaveNew(c, j, t) PROVE Orderly'
  BY <1>1, CallBegins DEF SaveNew
<1>2. ASSUME NEW j \in Jobs, NEW t \in Templates, SaveRead(c, j, t) PROVE Orderly'
  BY <1>2, CallBegins DEF SaveRead
<1>3. ASSUME NEW j \in Jobs, StartRead(c, j) PROVE Orderly'
  <2>1. jobs[j].template \in Templates
    BY <1>3 DEF StartRead, Stored, TypeOK, Records
  <2> QED
    BY <1>3, <2>1, CallBegins DEF StartRead
<1>4. ASSUME NEW j \in Jobs, Delete(c, j) PROVE Orderly'
  BY <1>4, RemovalBegins DEF Delete
<1>5. ASSUME Clear(c) PROVE Orderly'
  BY <1>5, RemovalBegins DEF Clear
<1> QED
  BY <1>1, <1>2, <1>3, <1>4, <1>5 DEF Begins

\* The steps of a Save.
LEMMA SaveOrderly ==
    ASSUME TypeOK, Orderly, NEW c \in Callers,
           SaveCheck(c) \/ SaveDrop(c) \/ SavePut(c) \/ SaveFails(c)
    PROVE  Orderly'
<1> USE DEF history
<1>0. \A d \in Callers : CallOK(d)
  BY DEF Orderly
<1>1. CASE SaveCheck(c)
  <2>1. CASE Goto(c, "drop")
    <3> DEFINE k == [call[c] EXCEPT !.at = "drop"]
    <3>1. k.at = "drop" /\ k.job = call[c].job /\ k.template = call[c].template
          /\ k.waited = call[c].waited
      BY DEF TypeOK, Calls
    <3>2. call' = [call EXCEPT ![c] = k]
      BY <2>1 DEF Goto, TypeOK
    <3>3. k.job \in Jobs /\ k.template \in Templates
      BY <1>0, <1>1, <3>1 DEF SaveCheck, CallOK
    <3>4. \A r \in k.waited : runs[r] = Ended
      BY <1>0, <3>1 DEF CallOK
    <3> HIDE DEF k
    <3> QED
      BY <1>1, <3>1, <3>2, <3>3, <3>4, CallMoves DEF SaveCheck, Launching
  <2>2. CASE Return(c)
    BY <1>1, <2>2, CallReturns DEF SaveCheck
  <2> QED
    BY <1>1, <2>1, <2>2 DEF SaveCheck
<1>2. CASE SaveDrop(c)
  <2> DEFINE k == [call[c] EXCEPT !.at = "put"]
  <2>1. k.at = "put" /\ k.job = call[c].job /\ k.template = call[c].template
        /\ k.waited = call[c].waited
    BY DEF TypeOK, Calls
  <2>2. call' = [call EXCEPT ![c] = k]
    BY <1>2 DEF SaveDrop, Goto, TypeOK
  <2>3. k.job \in Jobs /\ k.template \in Templates
    BY <1>0, <1>2, <2>1 DEF SaveDrop, CallOK
  <2>4. \A r \in k.waited : runs[r] = Ended
    BY <1>0, <2>1 DEF CallOK
  <2> HIDE DEF k
  <2>5. \A d \in Callers : CallOK(d)'
    BY <1>0, <1>2, <2>1, <2>2, <2>3, <2>4, OneCall DEF SaveDrop, Launching
  <2>6. ASSUME NEW r \in Runs PROVE RunOK(r)'
    BY <1>2, SameRun DEF SaveDrop, Orderly
  <2>7. ASSUME NEW j \in Jobs PROVE JobOK(j)'
    BY <1>2, Blank DEF SaveDrop, Orderly
  <2> QED
    BY <2>5, <2>6, <2>7 DEF Orderly
<1>3. CASE SavePut(c)
  <2>1. PICK i \in Jobs, d \in Records :
            /\ jobs' = [jobs EXCEPT ![i] = d] /\ d.status = "draft"
            /\ adrift' = adrift \ {i}
    <3>1. call[c].job \in Jobs /\ call[c].template \in Templates
      BY <1>0, <1>3 DEF SavePut, CallOK
    <3>2. Draft(call[c].template) \in Records /\ Draft(call[c].template).status = "draft"
      BY <3>1 DEF Draft, Records
    <3> QED
      BY <1>3, <3>1, <3>2 DEF SavePut
  <2>2. /\ jobs'[i] = d /\ jobs'[i] \notin {Unborn, Gone}
        /\ \A j \in Jobs \ {i} : jobs'[j] = jobs[j] /\ (j \in adrift => j \in adrift')
    BY <2>1 DEF TypeOK
  <2>3. PICK k : call' = [call EXCEPT ![c] = k] /\ k.at = "idle" /\ k.waited = {}
    BY <1>3, IdleFields DEF SavePut, Return
  <2>4. \A e \in Callers : CallOK(e)'
    BY <1>0, <1>3, <2>3, OneCall DEF SavePut, Launching
  <2>5. ASSUME NEW r \in Runs PROVE RunOK(r)'
    <3>1. RunOK(r)
      BY DEF Orderly
    <3>2. CASE runs[r].job = i
      BY <1>3, <2>1, <2>2, <3>1, <3>2 DEF SavePut, RunOK, Stored
    <3>3. CASE runs[r].job # i
      BY <1>3, <2>2, <3>1, <3>3, SameRun DEF SavePut, RunOK, Live
    <3> QED
      BY <3>2, <3>3
  <2>6. ASSUME NEW j \in Jobs PROVE JobOK(j)'
    <3>1. JobOK(j)
      BY DEF Orderly
    <3>2. CASE j = i
      BY <1>3, <2>1, <2>2, <3>1, <3>2 DEF SavePut, JobOK, Stored, Has
    <3>3. CASE j # i
      BY <1>3, <2>2, <3>1, <3>3, SameJob DEF SavePut, JobOK
    <3> QED
      BY <3>2, <3>3
  <2> QED
    BY <2>4, <2>5, <2>6 DEF Orderly
<1>4. CASE SaveFails(c)
  BY <1>4, CallReturns DEF SaveFails
<1> QED
  BY <1>1, <1>2, <1>3, <1>4

\* Register: the run taken is nobody's, and the job has none.
LEMMA RegisterOrderly ==
    ASSUME TypeOK, Orderly, NEW c \in Callers, NEW r \in Runs, Register(c, r)
    PROVE  Orderly'
<1> DEFINE k == [call[c] EXCEPT !.at = "clean", !.run = r]
<1>1. PICK i \in Jobs, t \in Templates : call[c].job = i /\ call[c].template = t
  BY DEF Register, Orderly, CallOK
<1>2. /\ k.at = "clean" /\ k.run = r /\ k.job = i /\ k.template = t
      /\ k.waited = call[c].waited
  BY <1>1 DEF TypeOK, Calls
<1>0. call' = [call EXCEPT ![c] = k]
  <2>1. call' = [call EXCEPT ![c] = [@ EXCEPT !.at = "clean", !.run = r]]
    BY DEF Register, TypeOK, Calls
  <2> QED
    BY <2>1 DEF TypeOK
<1> HIDE DEF k
<1>3. /\ runs[r] = Ended /\ runs[r].at = "ended"
      /\ runs'[r].at = "starting" /\ runs'[r].job = i /\ runs'[r].template = t
      /\ \A s \in Runs \ {r} : runs'[s] = runs[s]
  BY <1>1 DEF Register, Spare, Starting, Ended, TypeOK
<1>4. /\ running[i] = None /\ running'[i] = r
      /\ \A j \in Jobs \ {i} : running'[j] = running[j]
      /\ UNCHANGED <<jobs, results, workers, torn, adrift>>
  BY <1>1 DEF Register, TypeOK, history
<1>5. \A d \in Callers : r \notin call[d].waited /\ r # call[d].run
  BY DEF Register, Spare
<1>6. \A d \in Callers : CallOK(d)
  BY DEF Orderly
<1>7. \A s \in k.waited : runs'[s] = Ended
  <2>1. call[c].waited \subseteq Runs
    BY DEF TypeOK, Calls
  <2> QED
    BY <1>2, <1>3, <1>5, <1>6, <2>1 DEF CallOK
<1>8. \A d \in Callers : CallOK(d)'
  <2>1. \A s \in Runs :
            /\ runs[s].at = "starting" =>
                   runs'[s].at = "starting" /\ runs'[s].job = runs[s].job
            /\ runs[s] = Ended => \/ runs'[s] = Ended
                                 \/ \A d \in Callers : s \notin call[d].waited
    BY <1>3, <1>5
  <2>2. /\ k.at \in Launching =>
               \A d \in Callers \ {c} :
                   call[d].at \in Launching => call[d].run # k.run
        /\ k.at \notin {"idle", "stopping", "waiting"} =>
               k.job \in Jobs /\ k.template \in Templates
        /\ k.at \in Launching \cup {"waiting"} => k.run \in Runs
        /\ k.at \in Launching => /\ runs'[k.run].at = "starting"
                                 /\ runs'[k.run].job = k.job
    BY <1>2, <1>3, <1>5
  <2> QED
    BY <1>0, <1>6, <1>7, <2>1, <2>2, OneCall
<1>9. ASSUME NEW s \in Runs PROVE RunOK(s)'
  <2>1. RunOK(s)
    BY DEF Orderly
  <2>2. CASE s = r
    <3>1. workers'[r] = AllRest
      BY <1>3, <1>4, <2>1, <2>2 DEF RunOK
    <3>2. JobOK(i)
      BY DEF Orderly
    <3> QED
      BY <1>3, <1>4, <2>2, <3>1, <3>2 DEF RunOK, JobOK, Stored, AllRest, Resting
  <2>3. CASE s # r
    <3>1. runs[s].at \in Live => runs[s].job \in Jobs \ {i}
      BY <1>4, <2>1 DEF RunOK, Live
    <3> QED
      BY <1>3, <1>4, <2>1, <2>3, <3>1, SameRun
  <2> QED
    BY <2>2, <2>3
<1>10. ASSUME NEW j \in Jobs PROVE JobOK(j)'
  <2>1. JobOK(j)
    BY DEF Orderly
  <2>2. CASE j = i
    BY <1>3, <1>4, <2>1, <2>2 DEF JobOK, Stored, Has, Live
  <2>3. CASE j # i
    <3>1. running[j] # None => running[j] \in Runs \ {r}
      BY <1>3, <2>1 DEF JobOK, Live, TypeOK
    <3> QED
      BY <1>3, <1>4, <2>1, <2>3, <3>1, SameJob DEF JobOK
  <2> QED
    BY <2>2, <2>3
<1> QED
  BY <1>8, <1>9, <1>10 DEF Orderly

\* Start drops the results of its job.
LEMMA StartCleanOrderly ==
    ASSUME TypeOK, Orderly, NEW c \in Callers, StartClean(c) PROVE Orderly'
<1> DEFINE k == [call[c] EXCEPT !.at = "launch"]
<1>1. /\ k.at = "launch" /\ k.job = call[c].job /\ k.template = call[c].template
      /\ k.run = call[c].run /\ k.waited = call[c].waited
  BY DEF TypeOK, Calls
<1>2. call' = [call EXCEPT ![c] = k]
  BY DEF StartClean, Goto, TypeOK
<1> HIDE DEF k
<1>3. UNCHANGED <<jobs, running, runs, workers, torn, adrift>>
  BY DEF StartClean, history
<1>4. \A d \in Callers : CallOK(d)
  BY DEF Orderly
<1>5. /\ call[c].at = "clean" /\ call[c].job \in Jobs
      /\ call[c].template \in Templates /\ call[c].run \in Runs
      /\ runs[call[c].run].at = "starting" /\ runs[call[c].run].job = call[c].job
      /\ \A s \in call[c].waited : runs[s] = Ended
      /\ \A d \in Callers \ {c} :
             call[d].at \in Launching => call[d].run # call[c].run
  BY <1>4 DEF StartClean, CallOK, Launching
<1>6. \A d \in Callers : CallOK(d)'
  <2>1. \A s \in Runs :
            /\ runs[s].at = "starting" =>
                   runs'[s].at = "starting" /\ runs'[s].job = runs[s].job
            /\ runs[s] = Ended => runs'[s] = Ended
    BY <1>3
  <2>2. /\ k.at \in Launching =>
               \A d \in Callers \ {c} :
                   call[d].at \in Launching => call[d].run # k.run
        /\ k.at \notin {"idle", "stopping", "waiting"} =>
               k.job \in Jobs /\ k.template \in Templates
        /\ k.at \in Launching \cup {"waiting"} => k.run \in Runs
        /\ k.at \in Launching => /\ runs'[k.run].at = "starting"
                                 /\ runs'[k.run].job = k.job
        /\ \A s \in k.waited : runs'[s] = Ended
    BY <1>1, <1>3, <1>5
  <2> QED
    BY <1>2, <1>4, <2>1, <2>2, OneCall
<1>7. ASSUME NEW s \in Runs PROVE RunOK(s)'
  BY <1>3, SameRun DEF Orderly
<1>8. ASSUME NEW j \in Jobs PROVE JobOK(j)'
  BY <1>3, Blank DEF StartClean, Orderly
<1> QED
  BY <1>6, <1>7, <1>8 DEF Orderly

\* What a Start that has registered knows: its run is the registered one of
\* its job, and no other is under way on it.
LEMMA Launches ==
    ASSUME TypeOK, Orderly, NEW c \in Callers, call[c].at \in Launching
    PROVE  \E i \in Jobs, r \in Runs, t \in Templates :
               /\ call[c].job = i /\ call[c].run = r /\ call[c].template = t
               /\ runs[r].at = "starting" /\ runs[r].job = i /\ running[i] = r
               /\ \A s \in Runs \ {r} : runs[s].at \in Live => runs[s].job \in Jobs \ {i}
               /\ \A j \in Jobs \ {i} : running[j] # None => running[j] \in Runs \ {r}
<1>1. CallOK(c)
  BY DEF Orderly
<1>2. PICK i \in Jobs, r \in Runs, t \in Templates :
          /\ call[c].job = i /\ call[c].run = r /\ call[c].template = t
          /\ runs[r].at = "starting" /\ runs[r].job = i
  BY <1>1 DEF CallOK, Launching
<1>3. running[i] = r
  BY <1>2 DEF Orderly, RunOK, Live
<1>4. \A s \in Runs \ {r} : runs[s].at \in Live => runs[s].job \in Jobs \ {i}
  BY <1>3 DEF Orderly, RunOK, Live
<1>5. \A j \in Jobs \ {i} : running[j] # None => running[j] \in Runs \ {r}
  BY <1>2 DEF Orderly, JobOK, TypeOK
<1> QED
  BY <1>2, <1>3, <1>4, <1>5

\* Start writes the job as running and lets its run go.
LEMMA LaunchOrderly ==
    ASSUME TypeOK, Orderly, NEW c \in Callers, Launch(c) PROVE Orderly'
<1>1. PICK i \in Jobs, r \in Runs, t \in Templates :
          /\ call[c].job = i /\ call[c].run = r /\ call[c].template = t
          /\ runs[r].at = "starting" /\ runs[r].job = i /\ running[i] = r
          /\ \A s \in Runs \ {r} : runs[s].at \in Live => runs[s].job \in Jobs \ {i}
          /\ \A j \in Jobs \ {i} : running[j] # None => running[j] \in Runs \ {r}
  BY Launches DEF Launch, Launching
<1>2. PICK d \in Records : jobs' = [jobs EXCEPT ![i] = d]
  <2>1. [Draft(t) EXCEPT !.status = "running"] \in Records
    BY DEF Draft, Records
  <2> QED
    BY <1>1, <2>1 DEF Launch
<1>3. /\ jobs'[i] \notin {Unborn, Gone}
      /\ \A j \in Jobs \ {i} : jobs'[j] = jobs[j] /\ (j \in adrift => j \in adrift')
  <2>1. jobs'[i] = d /\ \A j \in Jobs \ {i} : jobs'[j] = jobs[j]
    BY <1>2 DEF TypeOK
  <2>2. adrift' = adrift \ {i}
    BY <1>1 DEF Launch
  <2> QED
    BY <2>1, <2>2
<1>4. /\ runs'[r].at = "feeding" /\ runs'[r].job = i
      /\ runs'[r].template = runs[r].template
      /\ \A s \in Runs \ {r} : runs'[s] = runs[s]
      /\ UNCHANGED <<results, running, workers, torn>>
  BY <1>1 DEF Launch, TypeOK, RunRecords
<1>5. PICK k : call' = [call EXCEPT ![c] = k] /\ k.at = "idle" /\ k.waited = {}
  BY IdleFields DEF Launch, Return
<1>6. /\ \A e \in Callers : CallOK(e)
      /\ call[c].at \in Launching
      /\ \A s \in Runs : runs[s] = Ended => s # r
  BY <1>1 DEF Orderly, Launch, Launching, Ended
<1>7. \A e \in Callers : CallOK(e)'
  BY <1>1, <1>4, <1>5, <1>6, OneCall DEF Launching
<1>8. ASSUME NEW s \in Runs PROVE RunOK(s)'
  <2>1. RunOK(s)
    BY DEF Orderly
  <2>2. CASE s = r
    BY <1>1, <1>3, <1>4, <2>1, <2>2 DEF RunOK, Stored
  <2>3. CASE s # r
    BY <1>1, <1>3, <1>4, <2>1, <2>3, SameRun
  <2> QED
    BY <2>2, <2>3
<1>9. ASSUME NEW j \in Jobs PROVE JobOK(j)'
  <2>1. JobOK(j)
    BY DEF Orderly
  <2>2. CASE j = i
    BY <1>1, <1>3, <1>4, <2>1, <2>2 DEF JobOK, Stored, Has, Live
  <2>3. CASE j # i
    BY <1>1, <1>3, <1>4, <2>1, <2>3, SameJob DEF JobOK
  <2> QED
    BY <2>2, <2>3
<1> QED
  BY <1>7, <1>8, <1>9 DEF Orderly

\* Start fails after it has registered, and takes its run back.
LEMMA AbortOrderly ==
    ASSUME TypeOK, Orderly, NEW c \in Callers, Abort(c) PROVE Orderly'
<1>1. PICK i \in Jobs, r \in Runs, t \in Templates :
          /\ call[c].job = i /\ call[c].run = r /\ call[c].template = t
          /\ runs[r].at = "starting" /\ runs[r].job = i /\ running[i] = r
          /\ \A s \in Runs \ {r} : runs[s].at \in Live => runs[s].job \in Jobs \ {i}
          /\ \A j \in Jobs \ {i} : running[j] # None => running[j] \in Runs \ {r}
  BY Launches DEF Abort, Launching
<1>2. /\ running'[i] = None
      /\ \A j \in Jobs \ {i} : running'[j] = running[j]
      /\ UNCHANGED <<jobs, results, workers, torn, adrift>>
  BY <1>1 DEF Abort, TypeOK, history
<1>3. /\ runs'[r] = Ended /\ runs'[r].at = "ended"
      /\ \A s \in Runs \ {r} : runs'[s] = runs[s]
  BY <1>1 DEF Abort, TypeOK, Ended
<1>4. PICK k : call' = [call EXCEPT ![c] = k] /\ k.at = "idle" /\ k.waited = {}
  BY IdleFields DEF Abort, Return
<1>5. /\ \A d \in Callers : CallOK(d)
      /\ call[c].at \in Launching
  BY DEF Orderly, Abort, Launching
<1>6. \A e \in Callers : CallOK(e)'
  BY <1>1, <1>3, <1>4, <1>5, OneCall DEF Launching
<1>7. RunOK(r)
  BY DEF Orderly
<1>8. ASSUME NEW s \in Runs PROVE RunOK(s)'
  <2>1. RunOK(s)
    BY DEF Orderly
  <2>2. CASE s = r
    <3>1. workers'[r] = AllRest
      BY <1>1, <1>2, <1>7 DEF RunOK
    <3> QED
      BY <1>3, <2>2, <3>1 DEF RunOK, Live, AllRest, Resting
  <2>3. CASE s # r
    BY <1>1, <1>2, <1>3, <2>1, <2>3, SameRun
  <2> QED
    BY <2>2, <2>3
<1>9. ASSUME NEW j \in Jobs PROVE JobOK(j)'
  <2>1. JobOK(j)
    BY DEF Orderly
  <2>2. CASE j = i
    BY <1>1, <1>2, <1>7, <2>1, <2>2 DEF JobOK, RunOK, Stored, Has
  <2>3. CASE j # i
    BY <1>1, <1>2, <1>3, <2>1, <2>3, SameJob DEF JobOK
  <2> QED
    BY <2>2, <2>3
<1> QED
  BY <1>6, <1>8, <1>9 DEF Orderly

\* A run that is under way, or one of its workers, acts on nothing but itself
\* and its job, and then all the others stay as they are.
LEMMA RunActs ==
    ASSUME TypeOK, Orderly, NEW r \in Runs, runs[r].at \in Live,
           NEW i \in Jobs, runs[r].job = i,
           \A s \in Runs \ {r} : runs'[s] = runs[s] /\ workers'[s] = workers[s],
           \A j \in Jobs \ {i} : /\ jobs'[j] = jobs[j] /\ results'[j] = results[j]
                                 /\ running'[j] = running[j]
                                 /\ j \in adrift => j \in adrift',
           torn \subseteq torn', RunOK(r)', JobOK(i)'
    PROVE  (\A s \in Runs : RunOK(s)') /\ (\A j \in Jobs : JobOK(j)')
<1>1. running[i] = r
  BY DEF Orderly, RunOK
<1>2. ASSUME NEW s \in Runs \ {r} PROVE RunOK(s)'
  <2>1. RunOK(s)
    BY DEF Orderly
  <2>2. runs[s].at \in Live => runs[s].job \in Jobs \ {i}
    BY <1>1, <2>1 DEF RunOK, Live
  <2> QED
    BY <2>1, <2>2, SameRun
<1>3. ASSUME NEW j \in Jobs \ {i} PROVE JobOK(j)'
  <2>1. JobOK(j)
    BY DEF Orderly
  <2>2. running[j] # None => running[j] \in Runs \ {r}
    BY <2>1 DEF JobOK, TypeOK
  <2> QED
    BY <2>1, <2>2, SameJob DEF JobOK
<1> QED
  BY <1>2, <1>3

\* The same with no call taking part.
LEMMA RunActsAlone ==
    ASSUME TypeOK, Orderly, NEW r \in Runs, runs[r].at \in Live,
           NEW i \in Jobs, runs[r].job = i,
           \A s \in Runs \ {r} : runs'[s] = runs[s] /\ workers'[s] = workers[s],
           \A j \in Jobs \ {i} : /\ jobs'[j] = jobs[j] /\ results'[j] = results[j]
                                 /\ running'[j] = running[j]
                                 /\ j \in adrift => j \in adrift',
           torn \subseteq torn', RunOK(r)', JobOK(i)', UNCHANGED call,
           runs[r].at = "starting" =>
               runs'[r].at = "starting" /\ runs'[r].job = runs[r].job
    PROVE  Orderly'
<1>1. \A s \in Runs : RunOK(s)'
  BY RunActs
<1>2. \A j \in Jobs : JobOK(j)'
  BY RunActs
<1>3. \A s \in Runs : /\ runs[s].at = "starting" =>
                              runs'[s].at = "starting" /\ runs'[s].job = runs[s].job
                      /\ runs[s] = Ended => runs'[s] = Ended
  BY DEF Ended, Live
<1>4. (\A c \in Callers : CallOK(c)) /\ call \in [Callers -> Calls]
  BY DEF Orderly, TypeOK
<1>5. \A c \in Callers : CallOK(c)'
  BY <1>3, <1>4, SameCalls
<1> QED
  BY <1>1, <1>2, <1>5 DEF Orderly

\* A registered run is told to stop.
LEMMA Cancelled ==
    ASSUME TypeOK, Orderly, NEW i \in Jobs, running[i] # None,
           runs' = [runs EXCEPT ![running[i]].cancelled = TRUE],
           UNCHANGED <<jobs, results, running, workers, torn, adrift>>
    PROVE  /\ \A s \in Runs : RunOK(s)'
           /\ \A j \in Jobs : JobOK(j)'
           /\ \A s \in Runs : /\ runs'[s].at = runs[s].at /\ runs'[s].job = runs[s].job
                              /\ runs[s] = Ended => runs'[s] = Ended
<1>1. PICK r \in Runs : running[i] = r /\ runs[r].at \in Live /\ runs[r].job = i
  BY DEF TypeOK, Orderly, JobOK
<1>2. /\ \A s \in Runs \ {r} : runs'[s] = runs[s]
      /\ \A field \in {"at", "job", "template", "status", "held"} :
             runs'[r][field] = runs[r][field]
  BY <1>1 DEF TypeOK, RunRecords
<1>3. runs'[r].at = runs[r].at /\ runs'[r].job = runs[r].job
  BY <1>2
<1>4. runs[r].at # "ended"
  BY <1>1 DEF Live
<1>5. RunOK(r) /\ JobOK(i)
  BY DEF Orderly
<1>6. RunOK(r)'
  BY <1>2, <1>4, <1>5, SameRun
<1>7. JobOK(i)'
  BY <1>1, <1>3, <1>5, SameJob
<1>8. (\A s \in Runs : RunOK(s)') /\ (\A j \in Jobs : JobOK(j)')
  BY <1>1, <1>2, <1>6, <1>7, RunActs
<1> QED
  BY <1>2, <1>3, <1>4, <1>8 DEF Ended

\* Jobs are removed.  Any of them that has a run with a feeder is torn.
LEMMA Losing ==
    ASSUME TypeOK, Orderly, NEW js \in SUBSET Jobs, Lose(js),
           UNCHANGED <<running, runs, workers, adrift>>, torn \subseteq torn',
           \A s \in Runs : runs[s].at \in {"feeding", "draining"}
               /\ runs[s].job \in js => runs[s].job \in torn'
    PROVE  (\A s \in Runs : RunOK(s)') /\ (\A j \in Jobs : JobOK(j)')
<1>1. /\ \A j \in Jobs \ js : jobs'[j] = jobs[j] /\ results'[j] = results[j]
      /\ \A j \in js : jobs'[j] \in {Unborn, Gone} /\ Has(j)' = {}
  BY DEF Lose, TypeOK, Stored, Has, NoResults
<1>2. ASSUME NEW s \in Runs PROVE RunOK(s)'
  <2>1. RunOK(s)
    BY DEF Orderly
  <2>2. CASE runs[s].job \in Jobs \ js
    BY <1>1, <2>1, <2>2, SameRun
  <2>3. CASE runs[s].job \in js
    BY <1>1, <2>1, <2>3 DEF RunOK, Stored
  <2>4. CASE runs[s].job \notin Jobs
    BY <2>1, <2>4 DEF RunOK, Live
  <2> QED
    BY <2>2, <2>3, <2>4
<1>3. ASSUME NEW j \in Jobs PROVE JobOK(j)'
  <2>1. JobOK(j)
    BY DEF Orderly
  <2>2. CASE j \in js
    BY <1>1, <2>1, <2>2 DEF JobOK, Stored
  <2>3. CASE j \notin js
    BY <1>1, <2>1, <2>3, SameJob DEF JobOK
  <2> QED
    BY <2>2, <2>3
<1> QED
  BY <1>2, <1>3

\* The steps of a removal.
LEMMA RemovalOrderly ==
    ASSUME TypeOK, Orderly, NEW c \in Callers,
           \/ \E j \in Jobs : NotRunning(c, j) \/ CancelAndWait(c, j)
           \/ Waited(c) \/ GiveUp(c) \/ Remove(c)
    PROVE  Orderly'
<1> USE DEF history
<1>0. /\ CallOK(c) /\ \A d \in Callers : CallOK(d)
      /\ call[c] \in Calls
  BY DEF Orderly, TypeOK
<1>1. ASSUME NEW j \in Jobs, NotRunning(c, j) PROVE Orderly'
  <2> DEFINE k == [call[c] EXCEPT !.todo = call[c].todo \ {j}]
  <2>1. k.at = "stopping" /\ k.waited = call[c].waited
    BY <1>0, <1>1 DEF Calls, NotRunning
  <2>2. call' = [call EXCEPT ![c] = k]
    BY <1>1 DEF NotRunning, TypeOK
  <2>3. \A r \in k.waited : runs[r] = Ended
    BY <1>0, <2>1 DEF CallOK
  <2> HIDE DEF k
  <2> QED
    BY <1>1, <2>1, <2>2, <2>3, CallMoves DEF NotRunning, Launching
<1>2. ASSUME NEW j \in Jobs, CancelAndWait(c, j) PROVE Orderly'
  <2> DEFINE k == [call[c] EXCEPT !.at = "waiting", !.run = running[j],
                                  !.todo = call[c].todo \ {j}]
  <2>1. /\ k.at = "waiting" /\ k.waited = call[c].waited /\ k.run = running[j]
    BY <1>0 DEF Calls
  <2>2. call' = [call EXCEPT ![c] = k]
    <3>1. call' = [call EXCEPT ![c] = [@ EXCEPT !.at = "waiting", !.run = running[j],
                                                !.todo = call[c].todo \ {j}]]
      BY <1>2 DEF CancelAndWait, TypeOK, Calls
    <3> QED
      BY <3>1 DEF TypeOK
  <2>3. running[j] \in Runs
    BY <1>2 DEF CancelAndWait, TypeOK
  <2> HIDE DEF k
  <2>4. /\ \A s \in Runs : RunOK(s)'
        /\ \A i \in Jobs : JobOK(i)'
        /\ \A s \in Runs : /\ runs'[s].at = runs[s].at /\ runs'[s].job = runs[s].job
                           /\ runs[s] = Ended => runs'[s] = Ended
    BY <1>2, Cancelled DEF CancelAndWait
  <2>5. \A r \in k.waited : runs'[r] = Ended
    BY <1>0, <2>1, <2>4 DEF CallOK, Calls
  <2>6. \A d \in Callers : CallOK(d)'
    BY <1>0, <2>1, <2>2, <2>3, <2>4, <2>5, OneCall DEF Launching
  <2> QED
    BY <2>4, <2>6 DEF Orderly
<1>3. CASE Waited(c)
  <2> DEFINE k == [call[c] EXCEPT !.at = "stopping", !.run = None,
                                  !.waited = call[c].waited \cup {call[c].run}]
  <2>1. k.at = "stopping" /\ k.waited = call[c].waited \cup {call[c].run}
    BY <1>0 DEF Calls
  <2>2. call' = [call EXCEPT ![c] = k]
    <3>1. call' = [call EXCEPT ![c] = [@ EXCEPT !.at = "stopping", !.run = None,
                                                !.waited = call[c].waited \cup {call[c].run}]]
      BY <1>3 DEF Waited, TypeOK, Calls
    <3> QED
      BY <3>1 DEF TypeOK
  <2>3. call[c].run \in Runs /\ runs[call[c].run] = Ended
    BY <1>0, <1>3 DEF Waited, CallOK, Orderly, RunOK
  <2>4. \A r \in k.waited : runs[r] = Ended
    BY <1>0, <2>1, <2>3 DEF CallOK
  <2> HIDE DEF k
  <2> QED
    BY <1>3, <2>1, <2>2, <2>4, CallMoves DEF Waited, Launching
<1>4. CASE GiveUp(c)
  <2> DEFINE k == [call[c] EXCEPT !.at = "stopping", !.run = None]
  <2>1. k.at = "stopping" /\ k.waited = call[c].waited
    BY <1>0 DEF Calls
  <2>2. call' = [call EXCEPT ![c] = k]
    <3>1. call' = [call EXCEPT ![c] = [@ EXCEPT !.at = "stopping", !.run = None]]
      BY <1>4 DEF GiveUp, TypeOK, Calls
    <3> QED
      BY <3>1 DEF TypeOK
  <2>3. \A r \in k.waited : runs[r] = Ended
    BY <1>0, <2>1 DEF CallOK
  <2> HIDE DEF k
  <2> QED
    BY <1>4, <2>1, <2>2, <2>3, CallMoves DEF GiveUp, Launching
<1>5. CASE Remove(c)
  <2> DEFINE js == {j \in call[c].removes : ~ call[c].all => Stored(j)}
  <2>1. js \in SUBSET Jobs /\ call[c].removes \subseteq Jobs
    BY <1>0 DEF Calls
  <2>2. \A s \in Runs : runs[s].at \in {"feeding", "draining"}
            /\ runs[s].job \in js => runs[s].job \in torn'
    <3> SUFFICES ASSUME NEW s \in Runs, runs[s].at \in {"feeding", "draining"},
                        runs[s].job \in js
                 PROVE  runs[s].job \in torn'
      OBVIOUS
    <3>1. running[runs[s].job] = s
      BY DEF Orderly, RunOK, Live
    <3>2. s \notin call[c].waited
      BY <1>0 DEF CallOK, Ended
    <3> QED
      BY <1>5, <3>1, <3>2 DEF Remove, Unwaited
  <2>3. Lose(js) /\ torn \subseteq torn' /\ UNCHANGED <<running, runs, workers, adrift>>
    BY <1>5 DEF Remove
  <2> HIDE DEF js
  <2>4. (\A s \in Runs : RunOK(s)') /\ (\A j \in Jobs : JobOK(j)')
    BY <2>1, <2>2, <2>3, Losing
  <2>5. PICK k : call' = [call EXCEPT ![c] = k] /\ k.at = "idle" /\ k.waited = {}
    BY <1>5, IdleFields DEF Remove, Return
  <2>6. \A d \in Callers : CallOK(d)'
    BY <1>0, <2>3, <2>5, OneCall DEF Launching
  <2> QED
    BY <2>4, <2>6 DEF Orderly
<1> QED
  BY <1>1, <1>2, <1>3, <1>4, <1>5

\* What is known of a run that has a feeder: its job is the one it is
\* registered for.
LEMMA Working ==
    ASSUME TypeOK, Orderly, NEW r \in Runs, runs[r].at \in Live
    PROVE  \E i \in Jobs :
               /\ runs[r].job = i /\ running[i] = r /\ runs[r].template \in Templates
               /\ RunOK(r) /\ JobOK(i)
<1> QED
  BY DEF Orderly, RunOK, Live

\* A worker, or the feeder handing it a row, acts: the run goes on, and its
\* job is still there.
LEMMA WorkerActs ==
    ASSUME TypeOK, Orderly, NEW r \in Runs, NEW w \in Workers,
           runs[r].at \in {"feeding", "draining"}, NEW i \in Jobs, runs[r].job = i,
           NEW k, workers' = [workers EXCEPT ![r][w] = k],
           k.at = "writing" => k.held \in Templates,
           NEW l, runs' = [runs EXCEPT ![r] = l],
           l.at = runs[r].at, l.job = i, l.template = runs[r].template,
           \A j \in Jobs \ {i} : jobs'[j] = jobs[j] /\ results'[j] = results[j],
           Stored(i) => Stored(i)', JobOK(i)',
           UNCHANGED <<running, torn, adrift, call>>
    PROVE  Orderly'
<1>1. runs'[r] = l /\ runs[r].at \in Live
  BY DEF TypeOK, Live
<1>2. \A s \in Runs \ {r} : runs'[s] = runs[s] /\ workers'[s] = workers[s]
  BY DEF TypeOK
<1>3. \A v \in Workers : workers'[r][v] = IF v = w THEN k ELSE workers[r][v]
  BY DEF TypeOK
<1>4. RunOK(r)
  BY DEF Orderly
<1>5. \A v \in Workers :
          workers'[r][v].at = "writing" => workers'[r][v].held \in Templates
  BY <1>3, <1>4 DEF RunOK
<1>6. RunOK(r)'
  BY <1>1, <1>4, <1>5 DEF RunOK
<1> QED
  BY <1>1, <1>2, <1>6, RunActsAlone

\* The same when it writes nothing.
LEMMA WorkerMoves ==
    ASSUME TypeOK, Orderly, NEW r \in Runs, NEW w \in Workers,
           runs[r].at \in {"feeding", "draining"},
           NEW k, workers' = [workers EXCEPT ![r][w] = k],
           k.at = "writing" => k.held \in Templates,
           NEW l, runs' = [runs EXCEPT ![r] = l],
           l.at = runs[r].at, l.job = runs[r].job, l.template = runs[r].template,
           UNCHANGED <<jobs, results, running, torn, adrift, call>>
    PROVE  Orderly'
<1>1. PICK i \in Jobs : runs[r].job = i /\ running[i] = r /\ JobOK(i)
  BY Working DEF Live
<1>2. runs'[r] = l
  BY DEF TypeOK
<1>3. JobOK(i)'
  BY <1>1, <1>2, SameJob DEF Live
<1>4. Stored(i) => Stored(i)'
  BY DEF Stored
<1> QED
  BY <1>1, <1>3, <1>4, WorkerActs

\* A worker with a row in hand belongs to a run with a feeder.
LEMMA Busy ==
    ASSUME Orderly, NEW r \in Runs, NEW w \in Workers, workers[r][w].at # "idle"
    PROVE  runs[r].at \in {"feeding", "draining"}
<1> QED
  BY DEF Orderly, RunOK, AllRest, Resting

\* What a worker is left with.
LEMMA WorkFields ==
    /\ Resting.at = "idle"
    /\ \A i : [Resting EXCEPT !.at = "took", !.row = i].at = "took"
    /\ \A n : [Resting EXCEPT !.at = "reading", !.count = n].at = "reading"
    /\ \A n, b : [Resting EXCEPT !.at = "stored", !.count = n, !.matched = b].at
                     = "stored"
<1> QED
  BY DEF Resting

\* The steps of the workers, and of the feeder that hands them rows.
LEMMA WorkerOrderly ==
    ASSUME TypeOK, Orderly, NEW r \in Runs, NEW w \in Workers,
           WorkerStep(r, w) \/ Feed(r, w)
    PROVE  Orderly'
<1> USE DEF history
<1>0. /\ runs[r] \in RunRecords /\ workers[r][w] \in WorkerRecords
      /\ (workers[r][w].at # "idle" \/ Feed(r, w)) =>
             runs[r].at \in {"feeding", "draining"}
      /\ UNCHANGED runs => runs' = [runs EXCEPT ![r] = runs[r]]
  BY Busy DEF TypeOK, Feed
<1>1. CASE Feed(r, w)
  <2> DEFINE k == [Resting EXCEPT !.at = "took", !.row = runs[r].next]
             l == [runs[r] EXCEPT !.next = runs[r].next + 1]
  <2>1. k.at = "took"
    BY WorkFields
  <2>2. l.at = runs[r].at /\ l.job = runs[r].job /\ l.template = runs[r].template
    BY <1>0 DEF RunRecords
  <2>3. workers' = [workers EXCEPT ![r][w] = k] /\ runs' = [runs EXCEPT ![r] = l]
    BY <1>1 DEF Feed, Work
  <2>4. UNCHANGED <<jobs, results, running, torn, adrift, call>>
    BY <1>1 DEF Feed
  <2> HIDE DEF k, l
  <2> QED
    BY <1>0, <1>1, <2>1, <2>2, <2>3, <2>4, WorkerMoves
<1>2. CASE Skip(r, w) \/ Dropped(r, w) \/ ProgressLost(r, w)
  <2>1. /\ workers[r][w].at # "idle" /\ workers' = [workers EXCEPT ![r][w] = Resting]
        /\ UNCHANGED <<jobs, results, running, runs, torn, adrift, call>>
    BY <1>2 DEF Skip, Dropped, ProgressLost, Work
  <2>2. PICK k : workers' = [workers EXCEPT ![r][w] = k] /\ k.at = "idle"
    BY <2>1, WorkFields
  <2>3. PICK l : l = runs[r] /\ runs' = [runs EXCEPT ![r] = l]
    BY <1>0, <2>1
  <2>4. /\ runs[r].at \in {"feeding", "draining"}
        /\ l.at = runs[r].at /\ l.job = runs[r].job /\ l.template = runs[r].template
        /\ UNCHANGED <<jobs, results, running, torn, adrift, call>>
        /\ k.at = "writing" => k.held \in Templates
    BY <1>0, <2>1, <2>2, <2>3
  <2> QED
    BY <2>2, <2>3, <2>4, WorkerMoves
<1>3. CASE Send(r, w)
  <2> DEFINE k == [workers[r][w] EXCEPT !.at = "sending"]
  <2>1. k.at = "sending"
    BY <1>0 DEF WorkerRecords
  <2>2. /\ workers[r][w].at # "idle" /\ workers' = [workers EXCEPT ![r][w] = k]
        /\ UNCHANGED <<jobs, results, running, runs, torn, adrift, call>>
    BY <1>3 DEF Send, Work
  <2> HIDE DEF k
  <2> QED
    BY <1>0, <2>1, <2>2, WorkerMoves
<1>4. ASSUME NEW b \in BOOLEAN, StoreResult(r, w, b) PROVE Orderly'
  <2> DEFINE n == runs[r].completed + 1
             k == [Resting EXCEPT !.at = "stored", !.count = n, !.matched = b]
             l == [runs[r] EXCEPT !.completed = n]
  <2>1. k.at = "stored"
    BY WorkFields
  <2>2. l.at = runs[r].at /\ l.job = runs[r].job /\ l.template = runs[r].template
    BY <1>0 DEF RunRecords
  <2>3. /\ workers' = [workers EXCEPT ![r][w] = k] /\ runs' = [runs EXCEPT ![r] = l]
        /\ UNCHANGED <<jobs, running, torn, adrift, call>>
    BY <1>4 DEF StoreResult, Work
  <2> HIDE DEF k, l
  <2>4. runs[r].at \in {"feeding", "draining"}
    BY <1>0, <1>4 DEF StoreResult
  <2>5. PICK i \in Jobs : /\ runs[r].job = i /\ running[i] = r
                          /\ RunOK(r) /\ JobOK(i)
    BY <2>4, Working DEF Live
  <2>6. \A j \in Jobs \ {i} : jobs'[j] = jobs[j] /\ results'[j] = results[j]
    BY <1>4, <2>3, <2>5 DEF StoreResult, TypeOK
  <2>7. Stored(i) \/ i \in torn
    BY <2>4, <2>5 DEF RunOK
  <2>8. JobOK(i)'
    <3>1. runs'[r] = l
      BY <2>3 DEF TypeOK
    <3> QED
      BY <2>2, <2>3, <2>4, <2>5, <2>7, <3>1 DEF JobOK, Stored, Live
  <2>9. Stored(i) => Stored(i)'
    BY <2>3 DEF Stored
  <2> QED
    BY <2>1, <2>2, <2>3, <2>4, <2>5, <2>6, <2>8, <2>9, WorkerActs
<1>5. CASE StoreFails(r, w)
  <2> DEFINE l == [runs[r] EXCEPT !.failed = TRUE]
  <2>1. l.at = runs[r].at /\ l.job = runs[r].job /\ l.template = runs[r].template
    BY <1>0 DEF RunRecords
  <2>2. /\ workers[r][w].at # "idle" /\ workers' = [workers EXCEPT ![r][w] = Resting]
        /\ runs' = [runs EXCEPT ![r] = l]
        /\ UNCHANGED <<jobs, results, running, torn, adrift, call>>
    BY <1>5 DEF StoreFails, Work
  <2> HIDE DEF l
  <2> QED
    BY <1>0, <2>1, <2>2, WorkFields, WorkerMoves
<1>6. CASE Announced(r, w)
  <2> DEFINE n == workers[r][w].count
             k == IF n % Every = 0
                  THEN [Resting EXCEPT !.at = "reading", !.count = n] ELSE Resting
             l == [runs[r] EXCEPT !.cancelled = runs[r].cancelled \/ workers[r][w].matched]
  <2>1. k.at # "writing"
    BY WorkFields
  <2>2. l.at = runs[r].at /\ l.job = runs[r].job /\ l.template = runs[r].template
    BY <1>0 DEF RunRecords
  <2>3. /\ workers[r][w].at # "idle" /\ workers' = [workers EXCEPT ![r][w] = k]
        /\ UNCHANGED <<jobs, results, running, torn, adrift, call>>
    BY <1>6 DEF Announced, Work
  <2>4. runs' = [runs EXCEPT ![r] = l]
    BY <1>6 DEF Announced
  <2> HIDE DEF k, l
  <2> QED
    BY <1>0, <2>1, <2>2, <2>3, <2>4, WorkerMoves
<1>7. CASE ProgressRead(r, w)
  <2>1. /\ workers[r][w].at # "idle"
        /\ UNCHANGED <<jobs, results, running, runs, torn, adrift, call>>
    BY <1>7 DEF ProgressRead
  <2>2. CASE ~ Stored(runs[r].job)
    <3>1. workers' = [workers EXCEPT ![r][w] = Resting]
      BY <1>7, <2>2 DEF ProgressRead, Work
    <3>2. PICK k : workers' = [workers EXCEPT ![r][w] = k] /\ k.at = "idle"
      BY <3>1, WorkFields
    <3>3. PICK l : l = runs[r] /\ runs' = [runs EXCEPT ![r] = l]
      BY <1>0, <2>1
    <3> QED
      BY <1>0, <2>1, <3>2, <3>3, WorkerMoves
  <2>3. CASE Stored(runs[r].job)
    <3> DEFINE k == [workers[r][w] EXCEPT !.at = "writing",
                                          !.held = jobs[runs[r].job].template]
    <3>1. runs[r].job \in Jobs
      BY <1>0, <2>1 DEF Orderly, RunOK
    <3>2. k.held \in Templates
      BY <1>0, <2>3, <3>1 DEF Stored, TypeOK, Records, WorkerRecords
    <3>3. workers' = [workers EXCEPT ![r][w] = k]
      BY <1>7, <2>3 DEF ProgressRead, Work
    <3> HIDE DEF k
    <3> QED
      BY <1>0, <2>1, <3>2, <3>3, WorkerMoves
  <2> QED
    BY <2>2, <2>3
<1>8. CASE ProgressWrite(r, w)
  <2>1. /\ workers[r][w].at = "writing"
        /\ workers' = [workers EXCEPT ![r][w] = Resting]
        /\ UNCHANGED <<results, running, runs, torn, adrift, call>>
    BY <1>8 DEF ProgressWrite, Work
  <2>2. PICK i \in Jobs : /\ runs[r].job = i /\ running[i] = r
                          /\ RunOK(r) /\ JobOK(i)
    BY <1>0, <2>1, Working DEF Live
  <2>3. PICK d \in Records : jobs' = [jobs EXCEPT ![i] = d]
    <3>1. [template |-> workers[r][w].held, status |-> "running",
           completed |-> workers[r][w].count] \in Records
      BY <1>0, <2>1, <2>2 DEF RunOK, Records, WorkerRecords
    <3> QED
      BY <1>8, <2>2, <3>1 DEF ProgressWrite
  <2>4. /\ jobs'[i] \notin {Unborn, Gone}
        /\ \A j \in Jobs \ {i} : jobs'[j] = jobs[j]
    BY <2>3 DEF TypeOK
  <2>5. JobOK(i)'
    BY <2>1, <2>2, <2>4 DEF JobOK, Stored, Has
  <2>6. Stored(i)'
    BY <2>4 DEF Stored
  <2>7. PICK k : workers' = [workers EXCEPT ![r][w] = k] /\ k.at = "idle"
    BY <2>1, WorkFields
  <2>8. PICK l : l = runs[r] /\ runs' = [runs EXCEPT ![r] = l]
    BY <1>0, <2>1
  <2>9. /\ runs[r].at \in {"feeding", "draining"}
        /\ l.at = runs[r].at /\ l.job = i /\ l.template = runs[r].template
        /\ UNCHANGED <<running, torn, adrift, call>>
        /\ k.at = "writing" => k.held \in Templates
        /\ \A j \in Jobs \ {i} : jobs'[j] = jobs[j] /\ results'[j] = results[j]
    BY <1>0, <2>1, <2>2, <2>4, <2>7, <2>8
  <2> QED
    BY <2>2, <2>5, <2>6, <2>7, <2>8, <2>9, WorkerActs
<1> QED
  BY <1>1, <1>2, <1>3, <1>4, <1>5, <1>6, <1>7, <1>8 DEF WorkerStep

\* The steps of a run after its feeder, and its end.
LEMMA RunOrderly ==
    ASSUME TypeOK, Orderly, NEW r \in Runs,
           \/ FeederStops(r) \/ FeederDone(r) \/ Finish(r)
           \/ FinalWrite(r) \/ FinalLost(r) \/ Deregister(r)
    PROVE  Orderly'
<1> USE DEF history
<1>0. /\ runs[r] \in RunRecords /\ runs[r].at \in Live /\ runs[r].at # "starting"
      /\ UNCHANGED <<results, workers, call, torn>>
      /\ \A s \in Runs \ {r} : runs'[s] = runs[s]
  BY DEF TypeOK, FeederStops, FeederDone, Finish, FinalWrite, FinalLost,
         Deregister, Live
<1>1. PICK i \in Jobs : /\ runs[r].job = i /\ running[i] = r
                        /\ runs[r].template \in Templates
                        /\ RunOK(r) /\ JobOK(i)
  BY <1>0, Working
<1>2. CASE FeederStops(r) \/ FeederDone(r)
  <2>1. /\ runs[r].at = "feeding" /\ runs'[r].at = "draining" /\ runs'[r].job = i
        /\ runs'[r].template = runs[r].template
        /\ UNCHANGED <<jobs, running, adrift>>
    BY <1>0, <1>1, <1>2 DEF FeederStops, FeederDone, TypeOK, RunRecords
  <2>2. RunOK(r)'
    BY <1>0, <1>1, <2>1 DEF RunOK, Stored
  <2>3. JobOK(i)'
    BY <1>0, <1>1, <2>1, SameJob DEF Live
  <2> QED
    BY <1>0, <1>1, <2>1, <2>2, <2>3, RunActsAlone
<1>3. CASE Finish(r)
  <2>1. /\ workers[r] = AllRest /\ runs'[r] = HasRead(r, Outcome(r))
        /\ UNCHANGED <<jobs, running, adrift>>
    BY <1>3 DEF Finish, TypeOK
  <2>2. Outcome(r) \in Final
    BY DEF Outcome, Final
  <2>3. /\ runs'[r].at \in {"persisting", "leaving"} /\ runs'[r].job = i
        /\ runs'[r].template = runs[r].template
        /\ runs'[r].at = "leaving" => ~ Stored(i)
        /\ runs'[r].at = "persisting" =>
               runs'[r].status \in Final /\ runs'[r].held \in Templates
    <3>1. CASE Stored(i)
      <4>1. jobs[i].template \in Templates
        BY <3>1 DEF Stored, TypeOK, Records
      <4>2. runs'[r] = [runs[r] EXCEPT !.at = "persisting", !.status = Outcome(r),
                                       !.held = jobs[i].template]
        BY <1>1, <2>1, <3>1 DEF HasRead
      <4> QED
        BY <1>0, <1>1, <2>2, <4>1, <4>2 DEF RunRecords
    <3>2. CASE ~ Stored(i)
      <4>1. runs'[r] = [runs[r] EXCEPT !.at = "leaving"]
        BY <1>1, <2>1, <3>2 DEF HasRead
      <4> QED
        BY <1>0, <1>1, <3>2, <4>1 DEF RunRecords
    <3> QED
      BY <3>1, <3>2
  <2>4. RunOK(r)'
    BY <1>0, <1>1, <2>1, <2>3 DEF RunOK, Stored, AllRest, Resting
  <2>5. JobOK(i)'
    BY <1>0, <1>1, <2>1, <2>3, SameJob DEF Live
  <2> QED
    BY <1>0, <1>1, <2>1, <2>4, <2>5, RunActsAlone
<1>4. CASE FinalWrite(r)
  <2>1. /\ runs[r].at = "persisting" /\ runs'[r].at = "leaving" /\ runs'[r].job = i
        /\ runs'[r].template = runs[r].template /\ UNCHANGED running
        /\ adrift' = adrift \ {i}
    BY <1>0, <1>1, <1>4 DEF FinalWrite, TypeOK, RunRecords
  <2>2. workers[r] = AllRest
    BY <1>1, <2>1 DEF RunOK
  <2>3. PICK d \in Records : jobs' = [jobs EXCEPT ![i] = d] /\ d.status # "running"
    <3> DEFINE d == [template |-> runs[r].held, status |-> runs[r].status,
                     completed |-> runs[r].completed]
    <3>1. runs[r].held \in Templates /\ runs[r].status \in Final
          /\ runs[r].completed \in Nat
      BY <1>0, <1>1, <2>1 DEF RunOK, RunRecords
    <3>2. d \in Records /\ d.status # "running"
      BY <3>1 DEF Records, Final
    <3>3. jobs' = [jobs EXCEPT ![i] = d]
      BY <1>1, <1>4 DEF FinalWrite
    <3> HIDE DEF d
    <3> QED
      BY <3>2, <3>3
  <2>4. /\ jobs'[i] = d /\ jobs'[i] \notin {Unborn, Gone}
        /\ \A j \in Jobs \ {i} : jobs'[j] = jobs[j] /\ (j \in adrift => j \in adrift')
    BY <2>1, <2>3 DEF TypeOK
  <2>5. RunOK(r)'
    BY <1>0, <1>1, <2>1, <2>2, <2>3, <2>4 DEF RunOK, Stored, AllRest, Resting
  <2>6. JobOK(i)'
    BY <1>0, <1>1, <2>1, <2>4 DEF JobOK, Stored, Has, Live
  <2> QED
    BY <1>0, <1>1, <2>1, <2>4, <2>5, <2>6, RunActsAlone
<1>5. CASE FinalLost(r)
  <2>1. /\ runs[r].at = "persisting" /\ runs'[r].at = "leaving" /\ runs'[r].job = i
        /\ runs'[r].template = runs[r].template /\ UNCHANGED <<jobs, running>>
        /\ adrift' = adrift \cup {i}
    BY <1>0, <1>1, <1>5 DEF FinalLost, TypeOK, RunRecords
  <2>2. workers[r] = AllRest
    BY <1>1, <2>1 DEF RunOK
  <2>3. RunOK(r)'
    BY <1>0, <1>1, <2>1, <2>2 DEF RunOK, Stored, AllRest, Resting
  <2>4. JobOK(i)'
    BY <1>0, <1>1, <2>1, SameJob DEF Live
  <2> QED
    BY <1>0, <1>1, <2>1, <2>3, <2>4, RunActsAlone
<1>6. CASE Deregister(r)
  <2>1. /\ runs[r].at = "leaving" /\ runs'[r].at = "deregistered" /\ runs'[r].job = i
        /\ runs'[r].template = runs[r].template /\ UNCHANGED <<jobs, adrift>>
        /\ running'[i] = None /\ \A j \in Jobs \ {i} : running'[j] = running[j]
    BY <1>0, <1>1, <1>6 DEF Deregister, TypeOK, RunRecords
  <2>2. workers[r] = AllRest
    BY <1>1, <2>1 DEF RunOK
  <2>3. RunOK(r)'
    BY <1>0, <1>1, <2>1, <2>2 DEF RunOK, Live, AllRest, Resting
  <2>4. JobOK(i)'
    BY <1>0, <1>1, <2>1 DEF JobOK, RunOK, Stored, Has
  <2> QED
    BY <1>0, <1>1, <2>1, <2>3, <2>4, RunActsAlone
<1> QED
  BY <1>2, <1>3, <1>4, <1>5, <1>6

\* A run closes done: nobody is registered for it any more.
LEMMA CloseOrderly ==
    ASSUME TypeOK, Orderly, NEW r \in Runs, CloseDone(r) PROVE Orderly'
<1>1. /\ runs[r].at = "deregistered" /\ runs'[r] = Ended
      /\ \A s \in Runs \ {r} : runs'[s] = runs[s]
      /\ UNCHANGED <<jobs, results, running, workers, torn, adrift, call>>
  BY DEF CloseDone, TypeOK, history
<1>2. ASSUME NEW s \in Runs PROVE RunOK(s)'
  <2>1. RunOK(s)
    BY DEF Orderly
  <2>2. CASE s = r
    BY <1>1, <2>1, <2>2 DEF RunOK, Ended, Live, AllRest, Resting
  <2>3. CASE s # r
    BY <1>1, <2>1, <2>3, SameRun
  <2> QED
    BY <2>2, <2>3
<1>3. ASSUME NEW j \in Jobs PROVE JobOK(j)'
  <2>1. JobOK(j)
    BY DEF Orderly
  <2>2. running[j] # None => running[j] \in Runs \ {r}
    BY <1>1, <2>1 DEF JobOK, Live, TypeOK
  <2> QED
    BY <1>1, <2>1, <2>2, SameJob DEF JobOK
<1>4. \A c \in Callers : CallOK(c)'
  <2>1. \A s \in Runs : /\ runs[s].at = "starting" =>
                                runs'[s].at = "starting" /\ runs'[s].job = runs[s].job
                        /\ runs[s] = Ended => runs'[s] = Ended
    BY <1>1 DEF Ended
  <2> QED
    BY <1>1, <2>1, SameCalls DEF Orderly, TypeOK
<1> QED
  BY <1>2, <1>3, <1>4 DEF Orderly

\* After a crash nothing is under way.
LEMMA CrashOrderly ==
    ASSUME TypeOK, Orderly, Crash PROVE Orderly'
<1>1. /\ \A r \in Runs : runs'[r] = Ended /\ runs'[r].at = "ended"
                         /\ workers'[r] = AllRest
      /\ \A j \in Jobs : running'[j] = None
      /\ \A c \in Callers : call'[c] = Idle /\ call'[c].at = "idle"
                            /\ call'[c].waited = {}
      /\ UNCHANGED <<jobs, results, torn>>
      /\ adrift' = adrift \cup {j \in Jobs : running[j] # None}
  BY IdleFields DEF Crash, Ended
<1>2. ASSUME NEW r \in Runs PROVE RunOK(r)'
  <2>1. \A w \in Workers : workers'[r][w].at = "idle"
    BY <1>1 DEF AllRest, Resting
  <2> QED
    BY <1>1, <2>1 DEF RunOK, Live
<1>3. \A j \in Jobs : JobOK(j)'
  BY <1>1 DEF Orderly, JobOK, Stored, Has
<1>4. \A c \in Callers : CallOK(c)'
  BY <1>1 DEF CallOK, Launching
<1> QED
  BY <1>2, <1>3, <1>4 DEF Orderly

\* A project is deleted, with the jobs made in it.
LEMMA DeleteProjectOrderly ==
    ASSUME TypeOK, Orderly, NEW p \in Projects, DeleteProject(p) PROVE Orderly'
<1> DEFINE js == {j \in Jobs : Home[j] = p}
<1>1. /\ Lose(js) /\ torn' = torn \cup {j \in js : running[j] # None}
      /\ UNCHANGED <<running, runs, workers, call, adrift>>
  BY DEF DeleteProject
<1>2. \A s \in Runs : runs[s].at \in {"feeding", "draining"}
          /\ runs[s].job \in js => runs[s].job \in torn'
  BY <1>1 DEF Orderly, RunOK, Live
<1>3. js \in SUBSET Jobs /\ torn \subseteq torn'
  BY <1>1
<1> HIDE DEF js
<1>4. (\A s \in Runs : RunOK(s)') /\ (\A j \in Jobs : JobOK(j)')
  BY <1>1, <1>2, <1>3, Losing
<1>5. \A c \in Callers : CallOK(c)'
  BY <1>1, SameCalls DEF Orderly, TypeOK
<1> QED
  BY <1>4, <1>5 DEF Orderly

\* Stop, and opening or closing a project.
LEMMA OtherCallsOrderly ==
    ASSUME TypeOK, Orderly,
           \/ \E j \in Jobs : Stop(j)
           \/ \E p \in Projects \cup {None} : Open(p)
           \/ UNCHANGED vars
    PROVE  Orderly'
<1> USE DEF history
<1>1. ASSUME NEW j \in Jobs, Stop(j) PROVE Orderly'
  <2>1. /\ \A s \in Runs : RunOK(s)'
        /\ \A i \in Jobs : JobOK(i)'
        /\ \A s \in Runs : /\ runs'[s].at = runs[s].at /\ runs'[s].job = runs[s].job
                           /\ runs[s] = Ended => runs'[s] = Ended
    BY <1>1, Cancelled DEF Stop
  <2>2. \A c \in Callers : CallOK(c)'
    BY <1>1, <2>1, SameCalls DEF Stop, Orderly, TypeOK
  <2> QED
    BY <2>1, <2>2 DEF Orderly
<1>2. CASE UNCHANGED <<jobs, results, running, runs, workers, torn, adrift, call>>
  <2>1. (\A s \in Runs : RunOK(s)') /\ (\A j \in Jobs : JobOK(j)')
    BY <1>2, SameBelow
  <2>2. \A c \in Callers : CallOK(c)'
    BY <1>2, SameCalls DEF Orderly, TypeOK
  <2> QED
    BY <2>1, <2>2 DEF Orderly
<1> QED
  BY <1>1, <1>2 DEF Open, vars

\* Every step leaves runs, jobs and calls in agreement.
LEMMA OrderlyStep ==
    ASSUME TypeOK, Orderly, [Next]_vars PROVE Orderly'
<1>1. ASSUME NEW c \in Callers, Begins(c) \/ CallStep(c) \/ GiveUp(c)
      PROVE  Orderly'
  <2>1. CASE StartRefused(c)
    BY <2>1, CallReturns DEF StartRefused, history
  <2> QED
    BY <1>1, <2>1, BeginOrderly, SaveOrderly, RegisterOrderly, StartCleanOrderly,
       LaunchOrderly, AbortOrderly, RemovalOrderly DEF CallStep
<1>2. ASSUME NEW r \in Runs, RunStep(r) PROVE Orderly'
  BY <1>2, WorkerOrderly, RunOrderly, CloseOrderly DEF RunStep
<1>3. ASSUME NEW r \in Runs, NEW w \in Workers, WorkerStep(r, w) PROVE Orderly'
  BY <1>3, WorkerOrderly
<1>4. ASSUME NEW p \in Projects, DeleteProject(p) PROVE Orderly'
  BY <1>4, DeleteProjectOrderly
<1>5. CASE Crash
  BY <1>5, CrashOrderly
<1> QED
  BY <1>1, <1>2, <1>3, <1>4, <1>5, OtherCallsOrderly DEF Next

\* At the start nothing is under way and no job is there.
LEMMA Initially == Init => TypeOK /\ Orderly
<1> SUFFICES ASSUME Init PROVE TypeOK /\ Orderly
  OBVIOUS
<1>1. TypeOK
  <2>1. NoResults \in [Rows -> Templates \cup {None}]
    BY DEF NoResults
  <2>2. AllRest \in [Workers -> WorkerRecords]
    BY WorkTyped DEF AllRest
  <2> QED
    BY <2>1, <2>2, IdleTyped, StartTyped DEF Init, TypeOK
<1>2. \A r \in Runs : RunOK(r)
  BY DEF Init, RunOK, Ended, Live, AllRest, Resting
<1>3. \A j \in Jobs : JobOK(j)
  BY DEF Init, JobOK, Stored, Has, NoResults
<1>4. \A c \in Callers : CallOK(c)
  BY IdleFields DEF Init, CallOK, Launching
<1> QED
  BY <1>1, <1>2, <1>3, <1>4 DEF Orderly

\* Types and the agreement of runs, jobs and calls hold together, always.
LEMMA AlwaysOrderly == Spec => [](TypeOK /\ Orderly)
<1>1. TypeOK /\ Orderly /\ [Next]_vars => (TypeOK /\ Orderly)'
  BY TypeStep, OrderlyStep
<1> QED
  BY <1>1, Initially, PTL DEF Spec

\* The database, the map of runs, the runs and the calls hold what they are
\* declared to hold.
THEOREM TypeCorrect == Spec => []TypeOK
BY AlwaysOrderly, PTL

\* A job has one run at a time, and its workers are back before it ends: the
\* lock of Register and the order of run's last steps suffice, whatever the
\* other calls do.  A job that says it is running is, but for crashes and failed
\* writes, and no result is without its job, unless that was removed under a run
\* that nobody had waited for.
THEOREM RunsStayOrderly == Spec => []RunsAreOrderly
<1>1. Orderly => OneRunPerJob
  BY DEF Orderly, RunOK, OneRunPerJob
<1>2. Orderly => RunningMeansRun
  BY DEF Orderly, JobOK, RunningMeansRun
<1>3. Orderly => ResultsHaveJobs
  BY DEF Orderly, JobOK, ResultsHaveJobs
<1>4. Orderly => RunsAreOrderly
  BY <1>1, <1>2, <1>3 DEF RunsAreOrderly
<1> QED
  BY <1>4, AlwaysOrderly, PTL

-----------------------------------------------------------------------------
(* One caller.  With two, a Save that looked before a Start registered     *)
(* replaces the template under the run, and the results of the one are     *)
(* stored beside those of the other.                                       *)

OneCaller == \A c, d \in Callers : c = d

InHand == {"took", "sending"}

\* A run answers the template of its job, and so do the results that are there.
\* Unless the job was removed under it, it is stored as running and has as many
\* results as the run has counted.  The rows in hand are handed out, each
\* to one worker, and have no result yet.
RunSound(r) ==
    LET j == runs[r].job IN
    /\ runs[r].at \in Live =>
           /\ Stored(j) => jobs[j].template = runs[r].template
           /\ \A i \in Has(j) : results[j][i] = runs[r].template
    /\ runs[r].at = "starting" => runs[r].next = 1 /\ runs[r].completed = 0
    /\ runs[r].at = "persisting" => runs[r].held = runs[r].template
    /\ runs[r].at \in {"feeding", "draining", "persisting"} /\ j \notin torn =>
           /\ Stored(j) /\ jobs[j].status = "running"
           /\ Cardinality(Has(j)) = runs[r].completed
    /\ runs[r].at \in {"feeding", "draining"} =>
           /\ \A i \in Has(j) : i < runs[r].next
           /\ \A w \in Workers :
                  /\ workers[r][w].at = "writing" =>
                         workers[r][w].held = runs[r].template
                  /\ workers[r][w].at \in InHand =>
                         /\ workers[r][w].row \in Rows \ Has(j)
                         /\ workers[r][w].row < runs[r].next
                         /\ \A v \in Workers :
                                workers[r][v].at \in InHand
                                    /\ workers[r][v].row = workers[r][w].row => v = w

\* ResultsAreSound, and an id that no job has yet has no results and no run.
JobSound(j) ==
    /\ Stored(j) => \A i \in Has(j) : results[j][i] = jobs[j].template
    /\ jobs[j] = Unborn => Has(j) = {} /\ running[j] = None
    /\ j \notin torn /\ Stored(j) /\ jobs[j].status \in Final =>
           Cardinality(Has(j)) \in {0, jobs[j].completed}

\* A Save has its job to itself once it has looked, and a Start the template it
\* has read: what call record k says of the job it is about.
Knows(k) ==
    /\ k.at \in {"check", "drop", "put"} => jobs[k.job] # Gone
    /\ k.at \in {"drop", "put"} => running[k.job] = None
    /\ k.at \in {"register", "clean", "launch"} =>
           Stored(k.job) /\ jobs[k.job].template = k.template
    /\ k.at \in Launching => runs[k.run].template = k.template
    /\ k.at \in {"put", "launch"} => Has(k.job) = {}

Sound ==
    /\ \A r \in Runs : RunSound(r)
    /\ \A j \in Jobs : JobSound(j)
    /\ \A c \in Callers : Knows(call[c])


\* What a step does not touch stays sound.  For a run: what it has in hand, its
\* workers, and its job while it is under way.
LEMMA KeptRun ==
    ASSUME NEW s \in Runs, RunSound(s),
           \/ runs'[s] = runs[s]
           \/ \A field \in {"at", "job", "template", "next", "completed", "held"} :
                  runs'[s][field] = runs[s][field],
           workers'[s] = workers[s], torn \subseteq torn',
           runs[s].at \in Live => /\ jobs'[runs[s].job] = jobs[runs[s].job]
                                  /\ results'[runs[s].job] = results[runs[s].job]
    PROVE  RunSound(s)'
<1>1. /\ runs'[s].at = runs[s].at /\ runs'[s].job = runs[s].job
      /\ runs'[s].template = runs[s].template /\ runs'[s].next = runs[s].next
      /\ runs'[s].completed = runs[s].completed /\ runs'[s].held = runs[s].held
  OBVIOUS
<1>2. CASE runs[s].at \in Live
  <2>1. PICK i : runs[s].job = i /\ jobs'[i] = jobs[i] /\ results'[i] = results[i]
    BY <1>2
  <2>2. Has(i)' = Has(i) /\ (Stored(i)' <=> Stored(i))
    BY <2>1 DEF Has, Stored
  <2> QED
    BY <1>1, <1>2, <2>1, <2>2 DEF RunSound
<1>3. CASE runs[s].at \notin Live
  BY <1>1, <1>3 DEF RunSound, Live
<1> QED
  BY <1>2, <1>3

\* For a job: its record and its results; its run may leave.
LEMMA KeptJob ==
    ASSUME NEW j \in Jobs, JobSound(j), jobs'[j] = jobs[j], results'[j] = results[j],
           running'[j] \in {running[j], None}, torn \subseteq torn'
    PROVE  JobSound(j)'
<1>1. Has(j)' = Has(j) /\ (Stored(j)' <=> Stored(j))
  BY DEF Has, Stored
<1> QED
  BY <1>1 DEF JobSound

\* A step of a call that touches nothing but what runs do not rely on.
LEMMA CallOnly ==
    ASSUME TypeOK, Sound, OneCaller, NEW c \in Callers, NEW k, Knows(k),
           call' = [call EXCEPT ![c] = k], k.at \notin Launching,
           UNCHANGED <<jobs, results, running, workers, torn>>,
           \A s \in Runs :
               \/ runs'[s] = runs[s]
               \/ \A field \in {"at", "job", "template", "next", "completed", "held"} :
                      runs'[s][field] = runs[s][field]
    PROVE  Sound'
<1>1. \A s \in Runs : RunSound(s)'
  BY KeptRun DEF Sound
<1>2. \A j \in Jobs : JobSound(j)'
  BY KeptJob DEF Sound
<1>3. \A d \in Callers : call'[d] = k
  BY DEF TypeOK, OneCaller
<1>4. \A i : Has(i)' = Has(i) /\ (Stored(i)' <=> Stored(i))
  BY DEF Has, Stored
<1>5. \A d \in Callers : Knows(call[d])'
  BY <1>3, <1>4 DEF Knows
<1> QED
  BY <1>1, <1>2, <1>5 DEF Sound

\* The calls that begin.
LEMMA BeginSound ==
    ASSUME TypeOK, Orderly, Sound, OneCaller, NEW c \in Callers, Begins(c)
    PROVE  Sound'
<1> USE DEF history
<1>1. ASSUME NEW j \in Jobs, NEW t \in Templates, SaveNew(c, j, t) PROVE Sound'
  <2> DEFINE k == [Idle EXCEPT !.at = "put", !.job = j, !.template = t]
  <2>1. k.at = "put" /\ k.job = j /\ k.template = t
    BY IdleFields
  <2>2. call' = [call EXCEPT ![c] = k]
    BY <1>1 DEF SaveNew, Begin
  <2> HIDE DEF k
  <2>3. jobs[j] = Unborn /\ Has(j) = {} /\ running[j] = None
    BY <1>1 DEF SaveNew, Sound, JobSound
  <2>4. Knows(k)
    BY <2>1, <2>3 DEF Knows, Launching
  <2> QED
    BY <1>1, <2>1, <2>2, <2>4, CallOnly DEF SaveNew, Launching
<1>2. ASSUME NEW j \in Jobs, NEW t \in Templates, SaveRead(c, j, t) PROVE Sound'
  <2> DEFINE k == [Idle EXCEPT !.at = "check", !.job = j, !.template = t]
  <2>1. k.at = "check" /\ k.job = j
    BY IdleFields
  <2>2. call' = [call EXCEPT ![c] = k]
    BY <1>2 DEF SaveRead, Begin
  <2> HIDE DEF k
  <2>3. Knows(k)
    BY <1>2, <2>1 DEF SaveRead, Knows, Stored, Launching
  <2> QED
    BY <1>2, <2>1, <2>2, <2>3, CallOnly DEF SaveRead, Launching
<1>3. ASSUME NEW j \in Jobs, StartRead(c, j) PROVE Sound'
  <2> DEFINE k == [Idle EXCEPT !.at = "register", !.job = j,
                               !.template = jobs[j].template]
  <2>1. k.at = "register" /\ k.job = j /\ k.template = jobs[j].template
    BY IdleFields
  <2>2. call' = [call EXCEPT ![c] = k]
    BY <1>3 DEF StartRead, Begin
  <2> HIDE DEF k
  <2>3. Knows(k)
    BY <1>3, <2>1 DEF StartRead, Knows, Launching
  <2> QED
    BY <1>3, <2>1, <2>2, <2>3, CallOnly DEF StartRead, Launching
<1>4. ASSUME NEW todo, NEW removes, NEW all, BeginRemoval(c, todo, removes, all)
      PROVE  Sound'
  <2> DEFINE k == [Idle EXCEPT !.at = "stopping", !.todo = todo,
                               !.removes = removes, !.all = all]
  <2>1. k.at = "stopping"
    BY IdleFields
  <2>2. call' = [call EXCEPT ![c] = k]
    BY <1>4 DEF BeginRemoval
  <2> HIDE DEF k
  <2>3. Knows(k)
    BY <2>1 DEF Knows, Launching
  <2> QED
    BY <1>4, <2>1, <2>2, <2>3, CallOnly DEF BeginRemoval, Launching
<1> QED
  BY <1>1, <1>2, <1>3, <1>4 DEF Begins, Delete, Clear

\* A call that returns.
LEMMA ReturnSound ==
    ASSUME TypeOK, Sound, OneCaller, NEW c \in Callers, Return(c),
           UNCHANGED <<jobs, results, running, runs, workers, torn>>
    PROVE  Sound'
<1>1. PICK k : call' = [call EXCEPT ![c] = k] /\ k.at = "idle"
  BY IdleFields DEF Return
<1>2. Knows(k)
  BY <1>1 DEF Knows, Launching
<1> QED
  BY <1>1, <1>2, CallOnly DEF Launching

\* The results of a job without a feeder are dropped.
LEMMA BlankSound ==
    ASSUME TypeOK, Orderly, Sound, NEW i \in Jobs,
           running[i] # None => runs[running[i]].at = "starting",
           results' = [results EXCEPT ![i] = NoResults],
           UNCHANGED <<jobs, running, runs, workers, torn>>
    PROVE  /\ \A s \in Runs : RunSound(s)'
           /\ \A j \in Jobs : JobSound(j)'
           /\ Has(i)' = {}
<1>1. /\ Has(i)' = {} /\ Cardinality(Has(i)') = 0
      /\ \A j \in Jobs \ {i} : results'[j] = results[j]
      /\ \A j : Stored(j)' <=> Stored(j)
  <2>1. Has(i)' = {}
    BY DEF Has, NoResults, TypeOK
  <2> QED
    BY <2>1, FS_EmptySet DEF TypeOK, Stored
<1>2. ASSUME NEW s \in Runs PROVE RunSound(s)'
  <2>1. RunSound(s) /\ RunOK(s)
    BY DEF Sound, Orderly
  <2>2. CASE runs[s].at \in Live /\ runs[s].job = i
    <3>1. runs[s].at = "starting"
      BY <2>1, <2>2 DEF RunOK
    <3> QED
      BY <1>1, <2>1, <2>2, <3>1 DEF RunSound
  <2>3. CASE ~ (runs[s].at \in Live /\ runs[s].job = i)
    <3>1. runs[s].at \in Live => runs[s].job \in Jobs \ {i}
      BY <2>1, <2>3 DEF RunOK, Live
    <3> QED
      BY <1>1, <2>1, <3>1, KeptRun
  <2> QED
    BY <2>2, <2>3
<1>3. ASSUME NEW j \in Jobs PROVE JobSound(j)'
  <2>1. JobSound(j)
    BY DEF Sound
  <2>2. CASE j = i
    BY <1>1, <2>1, <2>2 DEF JobSound
  <2>3. CASE j # i
    BY <1>1, <2>1, <2>3, KeptJob
  <2> QED
    BY <2>2, <2>3
<1> QED
  BY <1>1, <1>2, <1>3

\* The steps of a Save.
LEMMA SaveSound ==
    ASSUME TypeOK, Orderly, Sound, OneCaller, NEW c \in Callers,
           SaveCheck(c) \/ SaveDrop(c) \/ SavePut(c) \/ SaveFails(c)
    PROVE  Sound'
<1> USE DEF history
<1>0. /\ Knows(call[c]) /\ CallOK(c) /\ call[c] \in Calls
      /\ \A d \in Callers : d = c
  BY DEF Sound, Orderly, TypeOK, OneCaller
<1>1. CASE SaveCheck(c)
  <2>1. CASE running[call[c].job] = None
    <3> DEFINE k == [call[c] EXCEPT !.at = "drop"]
    <3>1. k.at = "drop" /\ k.job = call[c].job
      BY <1>0 DEF Calls
    <3>2. call' = [call EXCEPT ![c] = k]
      BY <1>1, <2>1 DEF SaveCheck, Goto, TypeOK
    <3> HIDE DEF k
    <3>3. Knows(k)
      BY <1>0, <1>1, <2>1, <3>1 DEF SaveCheck, Knows, Launching
    <3> QED
      BY <1>1, <3>1, <3>2, <3>3, CallOnly DEF SaveCheck, Launching
  <2>2. CASE running[call[c].job] # None
    BY <1>1, <2>2, ReturnSound DEF SaveCheck
  <2> QED
    BY <2>1, <2>2
<1>2. CASE SaveDrop(c)
  <2>1. PICK i \in Jobs : call[c].job = i
    BY <1>0, <1>2 DEF SaveDrop, CallOK
  <2>2. running[i] = None /\ jobs[i] # Gone
    BY <1>0, <1>2, <2>1 DEF SaveDrop, Knows
  <2>3. /\ \A s \in Runs : RunSound(s)'
        /\ \A j \in Jobs : JobSound(j)'
        /\ Has(i)' = {}
    BY <1>2, <2>1, <2>2, BlankSound DEF SaveDrop
  <2>4. call'[c].at = "put" /\ call'[c].job = i
    BY <1>0, <1>2, <2>1 DEF SaveDrop, Goto, TypeOK, Calls
  <2>5. Knows(call[c])'
    BY <1>2, <2>2, <2>3, <2>4 DEF SaveDrop, Knows, Launching
  <2> QED
    BY <1>0, <2>3, <2>5 DEF Sound
<1>3. CASE SavePut(c)
  <2>1. PICK i \in Jobs, t \in Templates : call[c].job = i /\ call[c].template = t
    BY <1>0, <1>3 DEF SavePut, CallOK
  <2>2. running[i] = None /\ Has(i) = {}
    BY <1>0, <1>3, <2>1 DEF SavePut, Knows
  <2>3. /\ jobs'[i] = Draft(t) /\ jobs'[i] \in Records /\ jobs'[i].status = "draft"
        /\ \A j \in Jobs \ {i} : jobs'[j] = jobs[j]
        /\ UNCHANGED <<results, running, runs, workers, torn>>
    <3>1. Draft(t) \in Records /\ Draft(t).status = "draft"
      BY DEF Draft, Records
    <3> QED
      BY <1>3, <2>1, <3>1 DEF SavePut, TypeOK
  <2>4. Has(i)' = {} /\ jobs'[i] # Unborn /\ jobs'[i].status \notin Final
    BY <2>2, <2>3 DEF Has, Final
  <2>5. ASSUME NEW s \in Runs PROVE RunSound(s)'
    <3>1. runs[s].at \in Live => runs[s].job \in Jobs \ {i}
      BY <2>2 DEF Orderly, RunOK, Live
    <3> QED
      BY <2>3, <3>1, KeptRun DEF Sound
  <2>6. ASSUME NEW j \in Jobs PROVE JobSound(j)'
    <3>1. CASE j = i
      BY <2>4, <3>1 DEF JobSound
    <3>2. CASE j # i
      BY <2>3, <3>2, KeptJob DEF Sound
    <3> QED
      BY <3>1, <3>2
  <2>7. call'[c].at = "idle"
    BY <1>3, IdleFields DEF SavePut, Return, TypeOK
  <2>8. Knows(call[c])'
    BY <2>7 DEF Knows, Launching
  <2> QED
    BY <1>0, <2>5, <2>6, <2>8 DEF Sound
<1>4. CASE SaveFails(c)
  BY <1>4, ReturnSound DEF SaveFails
<1> QED
  BY <1>1, <1>2, <1>3, <1>4

\* Register: the new run has the template that Start has read.
LEMMA RegisterSound ==
    ASSUME TypeOK, Orderly, Sound, OneCaller, NEW c \in Callers, NEW r \in Runs,
           Register(c, r)
    PROVE  Sound'
<1> USE DEF history
<1>0. /\ Knows(call[c]) /\ CallOK(c) /\ call[c] \in Calls
      /\ \A d \in Callers : d = c
  BY DEF Sound, Orderly, TypeOK, OneCaller
<1>1. PICK i \in Jobs, t \in Templates : call[c].job = i /\ call[c].template = t
  BY <1>0 DEF Register, CallOK
<1>2. /\ Stored(i) /\ jobs[i].template = t /\ running[i] = None
      /\ \A h \in Has(i) : results[i][h] = t
  BY <1>0, <1>1 DEF Register, Knows, Sound, JobSound
<1>3. /\ runs'[r].at = "starting" /\ runs'[r].job = i /\ runs'[r].template = t
      /\ runs'[r].next = 1 /\ runs'[r].completed = 0
      /\ \A s \in Runs \ {r} : runs'[s] = runs[s]
      /\ UNCHANGED <<jobs, results, workers, torn>>
  BY <1>1 DEF Register, Starting, Ended, TypeOK
<1>4. /\ call'[c].at = "clean" /\ call'[c].job = i /\ call'[c].template = t
      /\ call'[c].run = r
  BY <1>0, <1>1 DEF Register, TypeOK, Calls
<1>5. /\ \A j : Stored(j)' <=> Stored(j)
      /\ \A j : Has(j)' = Has(j)
  BY <1>3 DEF Stored, Has
<1>6. ASSUME NEW s \in Runs PROVE RunSound(s)'
  <2>1. CASE s = r
    BY <1>2, <1>3, <1>5, <2>1 DEF RunSound
  <2>2. CASE s # r
    BY <1>3, <2>2, KeptRun DEF Sound
  <2> QED
    BY <2>1, <2>2
<1>7. ASSUME NEW j \in Jobs PROVE JobSound(j)'
  <2>1. CASE j = i
    <3>1. JobSound(i)
      BY DEF Sound
    <3> QED
      BY <1>2, <1>3, <1>5, <2>1, <3>1 DEF JobSound, Stored
  <2>2. CASE j # i
    <3>1. running'[j] = running[j]
      BY <1>1, <2>2 DEF Register, TypeOK
    <3> QED
      BY <1>3, <3>1, KeptJob DEF Sound
  <2> QED
    BY <2>1, <2>2
<1>8. Knows(call[c])'
  BY <1>2, <1>3, <1>4, <1>5 DEF Knows
<1> QED
  BY <1>0, <1>6, <1>7, <1>8 DEF Sound

\* Start drops the results, writes the job as running and lets its run go, or
\* fails in between.
LEMMA StartSound ==
    ASSUME TypeOK, Orderly, Sound, OneCaller, NEW c \in Callers,
           StartClean(c) \/ Launch(c) \/ Abort(c)
    PROVE  Sound'
<1> USE DEF history
<1>0. /\ Knows(call[c]) /\ call[c] \in Calls /\ call[c].at \in Launching
      /\ \A d \in Callers : d = c
  BY DEF Sound, TypeOK, OneCaller, StartClean, Launch, Abort, Launching
<1>1. PICK i \in Jobs, r \in Runs, t \in Templates :
          /\ call[c].job = i /\ call[c].run = r /\ call[c].template = t
          /\ runs[r].at = "starting" /\ runs[r].job = i /\ running[i] = r
          /\ \A s \in Runs \ {r} : runs[s].at \in Live => runs[s].job \in Jobs \ {i}
          /\ \A j \in Jobs \ {i} : running[j] # None => running[j] \in Runs \ {r}
  BY <1>0, Launches
<1>2. Stored(i) /\ jobs[i].template = t /\ runs[r].template = t
  BY <1>0, <1>1 DEF Knows, Launching
<1>3. /\ RunSound(r) /\ JobSound(i) /\ runs[r] \in RunRecords
      /\ workers[r] = AllRest
  BY <1>1 DEF Sound, TypeOK, Orderly, RunOK
<1>4. CASE StartClean(c)
  <2>1. /\ \A s \in Runs : RunSound(s)'
        /\ \A j \in Jobs : JobSound(j)'
        /\ Has(i)' = {}
    BY <1>1, <1>4, BlankSound DEF StartClean
  <2>2. /\ call'[c].at = "launch" /\ call'[c].job = i /\ call'[c].template = t
        /\ call'[c].run = r
    BY <1>0, <1>1, <1>4 DEF StartClean, Goto, TypeOK, Calls
  <2>3. Stored(i)' /\ jobs'[i].template = t /\ runs'[r].template = t
    BY <1>2, <1>4 DEF StartClean, Stored
  <2>4. Knows(call[c])'
    BY <2>1, <2>2, <2>3 DEF Knows
  <2> QED
    BY <1>0, <2>1, <2>4 DEF Sound
<1>5. CASE Launch(c)
  <2>1. Has(i) = {}
    BY <1>0, <1>1, <1>5 DEF Knows, Launch
  <2>2. /\ jobs'[i] \in Records /\ jobs'[i].template = t /\ jobs'[i].status = "running"
        /\ \A j \in Jobs \ {i} : jobs'[j] = jobs[j]
    <3> DEFINE d == [Draft(t) EXCEPT !.status = "running"]
    <3>1. d \in Records /\ d.template = t /\ d.status = "running"
      BY DEF Draft, Records
    <3>2. jobs' = [jobs EXCEPT ![i] = d]
      BY <1>1, <1>5 DEF Launch
    <3> HIDE DEF d
    <3> QED
      BY <3>1, <3>2 DEF TypeOK
  <2>3. /\ runs'[r].at = "feeding" /\ runs'[r].job = i /\ runs'[r].template = t
        /\ runs'[r].completed = runs[r].completed
        /\ \A s \in Runs \ {r} : runs'[s] = runs[s]
        /\ UNCHANGED <<results, running, workers, torn>>
    BY <1>1, <1>2, <1>3, <1>5 DEF Launch, TypeOK, RunRecords
  <2>4. Has(i)' = {} /\ Stored(i)' /\ Cardinality(Has(i)') = 0
    BY <2>1, <2>2, <2>3, FS_EmptySet DEF Has, Stored
  <2>5. ASSUME NEW s \in Runs PROVE RunSound(s)'
    <3>1. CASE s = r
      <4>1. \A w \in Workers : workers'[r][w].at = "idle"
        BY <1>3, <2>3 DEF AllRest, Resting
      <4>2. runs'[r].completed = 0
        BY <1>1, <1>3, <2>3 DEF RunSound
      <4> QED
        BY <2>2, <2>3, <2>4, <3>1, <4>1, <4>2 DEF RunSound, InHand
    <3>2. CASE s # r
      BY <1>1, <2>2, <2>3, <3>2, KeptRun DEF Sound
    <3> QED
      BY <3>1, <3>2
  <2>6. ASSUME NEW j \in Jobs PROVE JobSound(j)'
    <3>1. CASE j = i
      BY <2>2, <2>4, <3>1 DEF JobSound, Final
    <3>2. CASE j # i
      BY <2>2, <2>3, <3>2, KeptJob DEF Sound
    <3> QED
      BY <3>1, <3>2
  <2>7. call'[c].at = "idle"
    BY <1>5, IdleFields DEF Launch, Return, TypeOK
  <2>8. Knows(call[c])'
    BY <2>7 DEF Knows, Launching
  <2> QED
    BY <1>0, <2>5, <2>6, <2>8 DEF Sound
<1>6. CASE Abort(c)
  <2>1. /\ runs'[r] = Ended /\ runs'[r].at = "ended"
        /\ \A s \in Runs \ {r} : runs'[s] = runs[s]
        /\ running'[i] = None
        /\ \A j \in Jobs \ {i} : running'[j] = running[j]
        /\ UNCHANGED <<jobs, results, workers, torn>>
    BY <1>1, <1>6 DEF Abort, TypeOK, Ended
  <2>2. ASSUME NEW s \in Runs PROVE RunSound(s)'
    <3>1. CASE s = r
      BY <2>1, <3>1 DEF RunSound, Live
    <3>2. CASE s # r
      BY <2>1, <3>2, KeptRun DEF Sound
    <3> QED
      BY <3>1, <3>2
  <2>3. ASSUME NEW j \in Jobs PROVE JobSound(j)'
    BY <2>1, KeptJob DEF Sound
  <2>4. call'[c].at = "idle"
    BY <1>6, IdleFields DEF Abort, Return, TypeOK
  <2>5. Knows(call[c])'
    BY <2>4 DEF Knows, Launching
  <2> QED
    BY <1>0, <2>2, <2>3, <2>5 DEF Sound
<1> QED
  BY <1>4, <1>5, <1>6

\* Jobs are removed.  Any of them that has a run is torn.
LEMMA LosingSound ==
    ASSUME TypeOK, Orderly, Sound, NEW js \in SUBSET Jobs, Lose(js),
           UNCHANGED <<running, runs, workers>>,
           torn \subseteq torn', \A j \in js : running[j] # None => j \in torn'
    PROVE  (\A s \in Runs : RunSound(s)') /\ (\A j \in Jobs : JobSound(j)')
<1>1. /\ \A j \in Jobs \ js : jobs'[j] = jobs[j] /\ results'[j] = results[j]
      /\ \A j \in js : /\ jobs'[j] \in {Unborn, Gone} /\ Has(j)' = {}
                       /\ jobs'[j] = Unborn => jobs[j] = Unborn
  BY DEF Lose, TypeOK, Stored, Has, NoResults
<1>2. ASSUME NEW s \in Runs PROVE RunSound(s)'
  <2>1. RunSound(s) /\ RunOK(s) /\ runs'[s] = runs[s] /\ workers'[s] = workers[s]
    BY DEF Sound, Orderly
  <2>2. CASE runs[s].at \in Live /\ runs[s].job \in js
    <3>1. PICK i \in js : runs[s].job = i
      BY <2>2
    <3>2. running[i] = s
      BY <2>1, <2>2, <3>1 DEF RunOK
    <3>3. i \in torn'
      BY <3>2
    <3>4. Has(i)' = {} /\ ~ Stored(i)'
      BY <1>1, <3>1 DEF Stored
    <3>5. \A w \in Workers : workers[s][w].at \in InHand =>
              workers[s][w].row \in Rows
      BY <2>1 DEF RunSound, RunOK, AllRest, Resting, InHand
    <3> QED
      BY <2>1, <3>1, <3>3, <3>4, <3>5 DEF RunSound
  <2>3. CASE ~ (runs[s].at \in Live /\ runs[s].job \in js)
    <3>1. runs[s].at \in Live => runs[s].job \in Jobs \ js
      BY <2>1, <2>3 DEF RunOK, Live
    <3> QED
      BY <1>1, <2>1, <3>1, KeptRun
  <2> QED
    BY <2>2, <2>3
<1>3. ASSUME NEW j \in Jobs PROVE JobSound(j)'
  <2>1. CASE j \in js
    BY <1>1, <2>1 DEF Sound, JobSound, Stored
  <2>2. CASE j \notin js
    BY <1>1, <2>2, KeptJob DEF Sound
  <2> QED
    BY <2>1, <2>2
<1> QED
  BY <1>2, <1>3

\* A run that is told to stop keeps what it has in hand.
LEMMA CancelKeeps ==
    ASSUME TypeOK, NEW r \in Runs, runs' = [runs EXCEPT ![r].cancelled = TRUE]
    PROVE  \A s \in Runs :
               \A field \in {"at", "job", "template", "next", "completed", "held"} :
                   runs'[s][field] = runs[s][field]
<1>1. \A s \in Runs \ {r} : runs'[s] = runs[s]
  OBVIOUS
<1>2. \A field \in {"at", "job", "template", "next", "completed", "held"} :
          runs'[r][field] = runs[r][field]
  BY DEF TypeOK, RunRecords
<1> QED
  BY <1>1, <1>2

\* A removal: it cancels, waits and removes.
LEMMA RemovalSound ==
    ASSUME TypeOK, Orderly, Sound, OneCaller, NEW c \in Callers,
           \/ \E j \in Jobs : NotRunning(c, j) \/ CancelAndWait(c, j)
           \/ Waited(c) \/ GiveUp(c) \/ Remove(c)
    PROVE  Sound'
<1> USE DEF history
<1>0. call[c] \in Calls /\ \A d \in Callers : d = c
  BY DEF TypeOK, OneCaller
<1>1. ASSUME NEW j \in Jobs, NotRunning(c, j) PROVE Sound'
  <2> DEFINE k == [call[c] EXCEPT !.todo = call[c].todo \ {j}]
  <2>1. call' = [call EXCEPT ![c] = k] /\ k.at = "stopping"
    BY <1>0, <1>1 DEF NotRunning, TypeOK, Calls
  <2> HIDE DEF k
  <2>2. Knows(k)
    BY <2>1 DEF Knows, Launching
  <2> QED
    BY <1>1, <2>1, <2>2, CallOnly DEF NotRunning, Launching
<1>2. ASSUME NEW j \in Jobs, CancelAndWait(c, j) PROVE Sound'
  <2>1. PICK k : call' = [call EXCEPT ![c] = k] /\ k.at = "waiting"
    <3>1. [call[c] EXCEPT !.at = "waiting", !.run = running[j],
                          !.todo = call[c].todo \ {j}].at = "waiting"
      BY <1>0 DEF Calls
    <3>2. call' = [call EXCEPT ![c] =
                      [call[c] EXCEPT !.at = "waiting", !.run = running[j],
                                      !.todo = call[c].todo \ {j}]]
      BY <1>0, <1>2 DEF CancelAndWait, TypeOK, Calls
    <3> QED
      BY <3>1, <3>2
  <2>2. Knows(k)
    BY <2>1 DEF Knows, Launching
  <2>3. running[j] \in Runs /\ runs' = [runs EXCEPT ![running[j]].cancelled = TRUE]
    BY <1>2 DEF CancelAndWait, TypeOK
  <2>4. \A s \in Runs :
            \A field \in {"at", "job", "template", "next", "completed", "held"} :
                runs'[s][field] = runs[s][field]
    BY <2>3, CancelKeeps
  <2> QED
    BY <1>2, <2>1, <2>2, <2>4, CallOnly DEF CancelAndWait, Launching
<1>3. CASE Waited(c) \/ GiveUp(c)
  <2>1. PICK k : call' = [call EXCEPT ![c] = k] /\ k.at = "stopping"
    <3>1. CASE Waited(c)
      <4>1. [call[c] EXCEPT !.at = "stopping", !.run = None,
                            !.waited = call[c].waited \cup {call[c].run}].at = "stopping"
        BY <1>0 DEF Calls
      <4>2. call' = [call EXCEPT ![c] =
                [call[c] EXCEPT !.at = "stopping", !.run = None,
                                !.waited = call[c].waited \cup {call[c].run}]]
        BY <1>0, <3>1 DEF Waited, TypeOK, Calls
      <4> QED
        BY <4>1, <4>2
    <3>2. CASE GiveUp(c)
      <4>1. [call[c] EXCEPT !.at = "stopping", !.run = None].at = "stopping"
        BY <1>0 DEF Calls
      <4>2. call' = [call EXCEPT ![c] =
                        [call[c] EXCEPT !.at = "stopping", !.run = None]]
        BY <1>0, <3>2 DEF GiveUp, TypeOK, Calls
      <4> QED
        BY <4>1, <4>2
    <3> QED
      BY <1>3, <3>1, <3>2
  <2>2. Knows(k)
    BY <2>1 DEF Knows, Launching
  <2> QED
    BY <1>3, <2>1, <2>2, CallOnly DEF Waited, GiveUp, Launching
<1>4. CASE Remove(c)
  <2> DEFINE js == {j \in call[c].removes : ~ call[c].all => Stored(j)}
  <2>1. /\ Lose(js) /\ UNCHANGED <<running, runs, workers>>
        /\ torn' = torn \cup {j \in call[c].removes : Unwaited(c, j)}
    BY <1>4 DEF Remove
  <2>2. js \subseteq call[c].removes /\ call[c].removes \subseteq Jobs
    BY <1>0 DEF Calls
  <2>3. \A j \in js : running[j] # None => j \in torn'
    <3> SUFFICES ASSUME NEW j \in js, running[j] # None PROVE j \in torn'
      OBVIOUS
    <3>1. runs[running[j]].at \in Live
      BY <2>2 DEF Orderly, JobOK
    <3>2. running[j] \notin call[c].waited
      BY <3>1 DEF Orderly, CallOK, Ended, Live
    <3> QED
      BY <2>1, <2>2, <3>2 DEF Unwaited
  <2> HIDE DEF js
  <2>4. js \in SUBSET Jobs /\ torn \subseteq torn'
    BY <2>1, <2>2
  <2>5. (\A s \in Runs : RunSound(s)') /\ (\A j \in Jobs : JobSound(j)')
    BY <2>1, <2>3, <2>4, LosingSound
  <2>6. call'[c].at = "idle"
    BY <1>4, IdleFields DEF Remove, Return, TypeOK
  <2>7. Knows(call[c])'
    BY <2>6 DEF Knows, Launching
  <2> QED
    BY <1>0, <2>5, <2>7 DEF Sound
<1> QED
  BY <1>1, <1>2, <1>3, <1>4

\* A run that is under way, or one of its workers, acts on nothing but itself
\* and its job.  If it writes the job, that keeps its template.
LEMMA RunActsSoundly ==
    ASSUME TypeOK, Orderly, Sound, NEW r \in Runs, runs[r].at \in Live,
           NEW i \in Jobs, runs[r].job = i,
           \A s \in Runs \ {r} : runs'[s] = runs[s] /\ workers'[s] = workers[s],
           runs'[r].template = runs[r].template,
           \A j \in Jobs \ {i} : /\ jobs'[j] = jobs[j] /\ results'[j] = results[j]
                                 /\ running'[j] = running[j],
           running'[i] \in {running[i], None}, UNCHANGED <<torn, call>>,
           \/ jobs'[i] = jobs[i]
           \/ jobs'[i] \notin {Unborn, Gone} /\ jobs'[i].template = runs[r].template,
           results'[i] = results[i] \/ runs[r].at # "starting",
           RunSound(r)', JobSound(i)'
    PROVE  Sound'
<1>1. running[i] = r /\ RunSound(r)
  BY DEF Orderly, RunOK, Sound
<1>2. ASSUME NEW s \in Runs PROVE RunSound(s)'
  <2>1. CASE s = r
    BY <2>1
  <2>2. CASE s # r
    <3>1. runs[s].at \in Live => runs[s].job \in Jobs \ {i}
      BY <1>1, <2>2 DEF Orderly, RunOK, Live
    <3> QED
      BY <2>2, <3>1, KeptRun DEF Sound
  <2> QED
    BY <2>1, <2>2
<1>3. ASSUME NEW j \in Jobs PROVE JobSound(j)'
  <2>1. CASE j = i
    BY <2>1
  <2>2. CASE j # i
    BY <2>2, KeptJob DEF Sound
  <2> QED
    BY <2>1, <2>2
<1>4. ASSUME NEW c \in Callers PROVE Knows(call[c])'
  <2>1. Knows(call[c]) /\ CallOK(c) /\ call'[c] = call[c]
    BY DEF Sound, Orderly
  <2>2. CASE call[c].at \in {"idle", "stopping", "waiting"}
    BY <2>1, <2>2 DEF Knows, Launching
  <2>3. CASE call[c].at \notin {"idle", "stopping", "waiting"}
    <3>1. PICK j \in Jobs : call[c].job = j
      BY <2>1, <2>3 DEF CallOK
    <3>2. call[c].at \in Launching =>
              /\ call[c].run \in Runs /\ runs[call[c].run].at = "starting"
              /\ runs[call[c].run].job = j
              /\ runs'[call[c].run].template = runs[call[c].run].template
      BY <2>1, <3>1 DEF CallOK
    <3>3. CASE j = i
      <4>1. call[c].at \notin {"drop", "put"}
        BY <1>1, <2>1, <3>1, <3>3 DEF Knows
      <4>2. call[c].at \in {"register", "clean", "launch"} =>
                Stored(i)' /\ jobs'[i].template = call[c].template
        BY <1>1, <2>1, <3>1, <3>3 DEF Knows, RunSound, Stored
      <4>3. call[c].at = "launch" => results'[i] = results[i]
        <5>1. call[c].at = "launch" => running[j] = call[c].run
          BY <3>2 DEF Orderly, RunOK, Live, Launching
        <5> QED
          BY <1>1, <3>2, <3>3, <5>1 DEF Launching
      <4>4. call[c].at = "launch" => Has(i)' = {}
        BY <2>1, <3>1, <3>3, <4>3 DEF Knows, Has
      <4>5. call[c].at = "check" => jobs'[i] # Gone
        BY <2>1, <3>1, <3>3 DEF Knows
      <4> QED
        BY <2>1, <3>1, <3>2, <3>3, <4>1, <4>2, <4>4, <4>5 DEF Knows
    <3>4. CASE j # i
      <4>1. /\ jobs'[j] = jobs[j] /\ running'[j] = running[j]
            /\ Has(j)' = Has(j) /\ (Stored(j)' <=> Stored(j))
        BY <3>4 DEF Has, Stored
      <4> QED
        BY <2>1, <3>1, <3>2, <4>1 DEF Knows
    <3> QED
      BY <3>3, <3>4
  <2> QED
    BY <2>2, <2>3
<1> QED
  BY <1>2, <1>3, <1>4 DEF Sound

\* A worker that neither takes a row nor writes anything: its run answers the
\* same template and has the same rows in hand or fewer.
LEMMA WorkerActsSoundly ==
    ASSUME TypeOK, Orderly, Sound, NEW r \in Runs, NEW w \in Workers,
           runs[r].at \in {"feeding", "draining"},
           NEW k, workers' = [workers EXCEPT ![r][w] = k],
           k.at \in InHand =>
               workers[r][w].at \in InHand /\ k.row = workers[r][w].row,
           k.at = "writing" => k.held = runs[r].template,
           \A s \in Runs \ {r} : runs'[s] = runs[s],
           \A field \in {"at", "job", "template", "next", "completed", "held"} :
               runs'[r][field] = runs[r][field],
           UNCHANGED <<jobs, results, running, torn, call>>
    PROVE  Sound'
<1>1. PICK i \in Jobs : runs[r].job = i
  BY Working DEF Live
<1>2. /\ \A s \in Runs \ {r} : workers'[s] = workers[s]
      /\ workers'[r][w] = k
      /\ \A v \in Workers \ {w} : workers'[r][v] = workers[r][v]
  BY DEF TypeOK
<1>3. /\ runs'[r].at = runs[r].at /\ runs'[r].job = i
      /\ runs'[r].template = runs[r].template /\ runs'[r].next = runs[r].next
      /\ runs'[r].completed = runs[r].completed
  BY <1>1
<1>4. Has(i)' = Has(i) /\ (Stored(i)' <=> Stored(i))
  BY DEF Has, Stored
<1>5. RunSound(r) /\ JobSound(i)
  BY DEF Sound
<1>6. \A v \in Workers :
          /\ workers'[r][v].at = "writing" => workers'[r][v].held = runs[r].template
          /\ workers'[r][v].at \in InHand =>
                 /\ workers[r][v].at \in InHand
                 /\ workers'[r][v].row = workers[r][v].row
  BY <1>2, <1>5 DEF RunSound
<1>7. RunSound(r)'
  BY <1>1, <1>3, <1>4, <1>5, <1>6 DEF RunSound
<1>8. JobSound(i)'
  BY <1>5, KeptJob
<1> QED
  BY <1>1, <1>2, <1>3, <1>7, <1>8, RunActsSoundly DEF Live

\* The feeder hands out the next row, which no worker has had.
LEMMA FeedSound ==
    ASSUME TypeOK, Orderly, Sound, NEW r \in Runs, NEW w \in Workers, Feed(r, w)
    PROVE  Sound'
<1> DEFINE n == runs[r].next
           k == [Resting EXCEPT !.at = "took", !.row = n]
<1>1. /\ runs[r].at = "feeding" /\ n \in Rows /\ n \in Int
      /\ UNCHANGED <<jobs, results, running, torn, call>>
  BY DEF Feed, Rows, history
<1>2. PICK i \in Jobs : runs[r].job = i
  BY <1>1, Working DEF Live
<1>3. k.at = "took" /\ k.row = n
  BY DEF Resting
<1>4. workers' = [workers EXCEPT ![r][w] = k]
  BY DEF Feed, Work
<1> HIDE DEF k
<1>5. /\ \A s \in Runs \ {r} : runs'[s] = runs[s] /\ workers'[s] = workers[s]
      /\ workers'[r][w] = k
      /\ \A v \in Workers \ {w} : workers'[r][v] = workers[r][v]
  BY <1>4 DEF Feed, TypeOK
<1>6. /\ runs'[r].at = "feeding" /\ runs'[r].job = i
      /\ runs'[r].template = runs[r].template /\ runs'[r].next = n + 1
      /\ runs'[r].completed = runs[r].completed
  BY <1>1, <1>2 DEF Feed, TypeOK, RunRecords
<1> HIDE DEF n
<1>7. Has(i)' = Has(i) /\ (Stored(i)' <=> Stored(i)) /\ Has(i) \subseteq Int
  BY <1>1 DEF Has, Stored, Rows
<1>8. RunSound(r) /\ JobSound(i)
  BY DEF Sound
<1>9. /\ \A h \in Has(i) : h < n
      /\ n \in Rows \ Has(i)
      /\ \A v \in Workers \ {w} : workers[r][v].at \in InHand =>
             workers[r][v].row < n /\ workers[r][v].row \in Rows \ Has(i)
  BY <1>1, <1>2, <1>7, <1>8 DEF RunSound, n
<1>10. \A v \in Workers : workers'[r][v].at \in InHand =>
           /\ workers'[r][v].row \in Rows \ Has(i)
           /\ workers'[r][v].row < n + 1
           /\ v = w <=> workers'[r][v].row = n
           /\ v # w => workers'[r][v] = workers[r][v]
  BY <1>1, <1>3, <1>5, <1>9 DEF Rows
<1>11. \A v \in Workers : workers'[r][v].at = "writing" =>
           workers'[r][v].held = runs[r].template
  BY <1>1, <1>3, <1>5, <1>8 DEF RunSound
<1>12. \A u, v \in Workers :
           workers'[r][u].at \in InHand /\ workers'[r][v].at \in InHand
               /\ workers'[r][v].row = workers'[r][u].row => v = u
  BY <1>1, <1>8, <1>10 DEF RunSound
<1>13. RunSound(r)'
  <2>1. \A h \in Has(i) : h < n + 1
    BY <1>1, <1>7, <1>9
  <2> QED
    BY <1>1, <1>2, <1>6, <1>7, <1>8, <1>10, <1>11, <1>12, <2>1 DEF RunSound
<1>14. JobSound(i)'
  BY <1>1, <1>8, KeptJob
<1> QED
  BY <1>1, <1>2, <1>5, <1>6, <1>13, <1>14, RunActsSoundly DEF Live

\* A result is stored: the row had none.
LEMMA StoreSound ==
    ASSUME TypeOK, Orderly, Sound, NEW r \in Runs, NEW w \in Workers,
           NEW matched \in BOOLEAN, StoreResult(r, w, matched)
    PROVE  Sound'
<1> DEFINE n == runs[r].completed + 1
           row == workers[r][w].row
           t == runs[r].template
           k == [Resting EXCEPT !.at = "stored", !.count = n, !.matched = matched]
<1>1. /\ workers[r][w].at = "sending"
      /\ runs[r].at \in {"feeding", "draining"} /\ runs[r].completed \in Nat
      /\ UNCHANGED <<jobs, running, torn, call>>
  BY Busy DEF StoreResult, TypeOK, RunRecords, history
<1>2. PICK i \in Jobs : runs[r].job = i /\ running[i] = r /\ t \in Templates
  BY <1>1, Working DEF Live
<1>3. RunSound(r) /\ JobSound(i)
  BY DEF Sound
<1>4. row \in Rows \ Has(i) /\ row < runs[r].next
  BY <1>1, <1>2, <1>3 DEF RunSound, InHand
<1>5. k.at = "stored"
  BY WorkFields
<1>6. workers' = [workers EXCEPT ![r][w] = k]
  BY DEF StoreResult, Work
<1> HIDE DEF k
<1>7. /\ \A s \in Runs \ {r} : runs'[s] = runs[s] /\ workers'[s] = workers[s]
      /\ workers'[r][w] = k
      /\ \A v \in Workers \ {w} : workers'[r][v] = workers[r][v]
  BY <1>6 DEF StoreResult, TypeOK
<1>8. /\ runs'[r].at = runs[r].at /\ runs'[r].job = i /\ runs'[r].template = t
      /\ runs'[r].next = runs[r].next /\ runs'[r].completed = n
  BY <1>1, <1>2 DEF StoreResult, TypeOK, RunRecords
<1>9. /\ \A j \in Jobs \ {i} : results'[j] = results[j]
      /\ results'[i][row] = t
      /\ \A h \in Rows \ {row} : results'[i][h] = results[i][h]
  BY <1>2, <1>4 DEF StoreResult, TypeOK
<1> HIDE DEF n, t, row
<1>10. Has(i)' = Has(i) \cup {row} /\ (Stored(i)' <=> Stored(i))
  <2>1. t # None
    BY <1>2
  <2> QED
    BY <1>1, <1>4, <1>9, <2>1 DEF Has, Stored
<1>11. \A h \in Has(i)' : results'[i][h] = t
  <2>1. \A h \in Has(i) : h \in Rows \ {row} /\ results[i][h] = t
    BY <1>1, <1>2, <1>3, <1>4 DEF RunSound, Has, t, Live
  <2> QED
    BY <1>9, <1>10, <2>1
<1>12. /\ IsFiniteSet(Has(i))
       /\ Cardinality(Has(i)) = runs[r].completed => Cardinality(Has(i)') = n
  <2>1. IsFiniteSet(1 .. N)
    BY FS_Interval
  <2>2. IsFiniteSet(Has(i))
    BY <2>1, FS_Subset DEF Has, Rows
  <2>3. Cardinality(Has(i) \cup {row}) = Cardinality(Has(i)) + 1
    BY <1>4, <2>2, FS_AddElement
  <2> QED
    BY <1>10, <2>2, <2>3 DEF n
<1>13. \A v \in Workers :
           /\ workers'[r][v].at = "writing" => workers'[r][v].held = t
           /\ workers'[r][v].at \in InHand =>
                  /\ v # w /\ workers'[r][v] = workers[r][v]
                  /\ workers[r][v].row # row
  <2>1. \A v \in Workers : workers[r][v].at = "writing" => workers[r][v].held = t
    BY <1>1, <1>3 DEF RunSound, t
  <2>2. \A v \in Workers : workers[r][v].at \in InHand /\ v # w =>
            workers[r][v].row # row
    BY <1>1, <1>3 DEF RunSound, InHand, row
  <2> QED
    BY <1>5, <1>7, <2>1, <2>2 DEF InHand
<1>14. RunSound(r)'
  <2>1. \A h \in Has(i)' : h < runs[r].next
    BY <1>1, <1>2, <1>3, <1>4, <1>10 DEF RunSound
  <2>2. i \notin torn => /\ Stored(i)' /\ jobs'[i].status = "running"
                         /\ Cardinality(Has(i)') = n
    BY <1>1, <1>2, <1>3, <1>10, <1>12 DEF RunSound
  <2>3. Stored(i)' => jobs'[i].template = t
    BY <1>1, <1>2, <1>3, <1>10 DEF RunSound, Live, t
  <2>4. \A v \in Workers :
            workers'[r][v].at \in InHand =>
                /\ workers'[r][v].row \in Rows \ Has(i)'
                /\ workers'[r][v].row < runs[r].next
                /\ \A u \in Workers :
                       workers'[r][u].at \in InHand
                           /\ workers'[r][u].row = workers'[r][v].row => u = v
    BY <1>1, <1>2, <1>3, <1>10, <1>13 DEF RunSound
  <2> QED
    BY <1>1, <1>8, <1>11, <1>13, <2>1, <2>2, <2>3, <2>4 DEF RunSound
<1>15. JobSound(i)'
  <2>1. Stored(i)' => jobs'[i].template = t
    BY <1>1, <1>2, <1>3, <1>10 DEF RunSound, Live, t
  <2>2. jobs[i] # Unborn
    BY <1>2, <1>3 DEF JobSound
  <2>3. i \notin torn => jobs'[i].status \notin Final
    BY <1>1, <1>2, <1>3 DEF RunSound, Final
  <2> QED
    BY <1>1, <1>11, <2>1, <2>2, <2>3 DEF JobSound
<1> QED
  BY <1>1, <1>2, <1>7, <1>8, <1>9, <1>14, <1>15, RunActsSoundly DEF Live, t

\* The progress is written over the record it was read from: that has the
\* template of the run.
LEMMA ProgressSound ==
    ASSUME TypeOK, Orderly, Sound, NEW r \in Runs, NEW w \in Workers,
           ProgressRead(r, w) \/ ProgressWrite(r, w)
    PROVE  Sound'
<1>0. /\ runs[r].at \in {"feeding", "draining"}
      /\ workers[r][w] \in WorkerRecords
      /\ \A field \in {"at", "job", "template", "next", "completed", "held"} :
             runs'[r][field] = runs[r][field]
      /\ UNCHANGED <<results, running, runs, torn, call>>
  BY Busy DEF ProgressRead, ProgressWrite, TypeOK, history
<1>1. PICK i \in Jobs : runs[r].job = i /\ running[i] = r
  BY <1>0, Working DEF Live
<1>2. RunSound(r) /\ JobSound(i) /\ RunOK(r)
  BY DEF Sound, Orderly
<1>3. CASE ProgressRead(r, w)
  <2>1. PICK k : /\ workers' = [workers EXCEPT ![r][w] = k]
                 /\ k.at \notin InHand
                 /\ k.at = "writing" => k.held = runs[r].template
    <3>1. CASE Stored(i)
      <4> DEFINE k == [workers[r][w] EXCEPT !.at = "writing",
                                            !.held = jobs[i].template]
      <4>1. k.at = "writing" /\ k.held = jobs[i].template
        BY <1>0 DEF WorkerRecords
      <4>2. workers' = [workers EXCEPT ![r][w] = k]
        BY <1>1, <1>3, <3>1 DEF ProgressRead, Work
      <4>3. jobs[i].template = runs[r].template
        BY <1>0, <1>1, <1>2, <3>1 DEF RunSound, Live
      <4> HIDE DEF k
      <4> QED
        BY <4>1, <4>2, <4>3 DEF InHand
    <3>2. CASE ~ Stored(i)
      <4>1. workers' = [workers EXCEPT ![r][w] = Resting]
        BY <1>1, <1>3, <3>2 DEF ProgressRead, Work
      <4> QED
        BY <4>1, WorkFields DEF InHand
    <3> QED
      BY <3>1, <3>2
  <2> QED
    BY <1>0, <1>3, <2>1, WorkerActsSoundly DEF ProgressRead
<1>4. CASE ProgressWrite(r, w)
  <2>1. /\ workers[r][w].at = "writing"
        /\ workers[r][w].held = runs[r].template
        /\ workers[r][w].held \in Templates
    BY <1>0, <1>2, <1>4 DEF ProgressWrite, RunSound, RunOK
  <2>2. /\ jobs'[i] \notin {Unborn, Gone} /\ jobs'[i].template = runs[r].template
        /\ jobs'[i].status = "running"
        /\ \A j \in Jobs \ {i} : jobs'[j] = jobs[j]
    <3> DEFINE d == [template |-> workers[r][w].held, status |-> "running",
                     completed |-> workers[r][w].count]
    <3>1. /\ d.template = runs[r].template /\ d.status = "running"
          /\ d \in Records
      BY <1>0, <2>1 DEF Records, WorkerRecords
    <3>2. jobs' = [jobs EXCEPT ![i] = d]
      BY <1>1, <1>4 DEF ProgressWrite
    <3> HIDE DEF d
    <3> QED
      BY <3>1, <3>2 DEF TypeOK
  <2>3. /\ \A s \in Runs \ {r} : workers'[s] = workers[s]
        /\ \A v \in Workers \ {w} : workers'[r][v] = workers[r][v]
        /\ workers'[r][w].at = "idle"
    BY <1>4, WorkFields DEF ProgressWrite, Work, TypeOK
  <2>4. Has(i)' = Has(i) /\ Stored(i)'
    BY <1>0, <2>2 DEF Has, Stored
  <2>5. \A v \in Workers :
            workers'[r][v].at \in InHand \cup {"writing"} =>
                workers'[r][v] = workers[r][v]
    BY <2>3 DEF InHand
  <2>6. RunSound(r)'
    BY <1>0, <1>1, <1>2, <2>2, <2>4, <2>5 DEF RunSound
  <2>7. JobSound(i)'
    <3>1. \A h \in Has(i) : results[i][h] = runs[r].template
      BY <1>0, <1>1, <1>2 DEF RunSound, Live
    <3> QED
      BY <1>0, <2>2, <2>4, <3>1 DEF JobSound, Final
  <2> QED
    BY <1>0, <1>1, <2>2, <2>3, <2>6, <2>7, RunActsSoundly DEF Live
<1> QED
  BY <1>3, <1>4

\* The other steps of a worker.
LEMMA WorkerSound ==
    ASSUME TypeOK, Orderly, Sound, NEW r \in Runs, NEW w \in Workers,
           WorkerStep(r, w)
    PROVE  Sound'
<1> USE DEF history
<1>0. /\ runs[r] \in RunRecords /\ workers[r][w] \in WorkerRecords
      /\ workers[r][w].at # "idle" => runs[r].at \in {"feeding", "draining"}
      /\ UNCHANGED runs =>
             \A field \in {"at", "job", "template", "next", "completed", "held"} :
                 runs'[r][field] = runs[r][field]
  BY Busy DEF TypeOK
<1>1. CASE Skip(r, w) \/ Dropped(r, w) \/ ProgressLost(r, w)
  <2>1. workers' = [workers EXCEPT ![r][w] = Resting]
    BY <1>1 DEF Skip, Dropped, ProgressLost, Work
  <2>2. Resting.at \notin InHand \cup {"writing"}
    BY WorkFields DEF InHand
  <2> QED
    BY <1>0, <1>1, <2>1, <2>2, WorkerActsSoundly DEF Skip, Dropped, ProgressLost
<1>2. CASE Send(r, w)
  <2> DEFINE k == [workers[r][w] EXCEPT !.at = "sending"]
  <2>1. k.at = "sending" /\ k.row = workers[r][w].row
    BY <1>0 DEF WorkerRecords
  <2>2. workers' = [workers EXCEPT ![r][w] = k]
    BY <1>2 DEF Send, Work
  <2> HIDE DEF k
  <2> QED
    BY <1>0, <1>2, <2>1, <2>2, WorkerActsSoundly DEF Send, InHand
<1>3. CASE StoreFails(r, w)
  <2>1. workers' = [workers EXCEPT ![r][w] = Resting]
    BY <1>3 DEF StoreFails, Work
  <2>2. Resting.at \notin InHand \cup {"writing"}
    BY WorkFields DEF InHand
  <2>3. /\ \A s \in Runs \ {r} : runs'[s] = runs[s]
        /\ \A field \in {"at", "job", "template", "next", "completed", "held"} :
               runs'[r][field] = runs[r][field]
    BY <1>0, <1>3 DEF StoreFails, TypeOK, RunRecords
  <2> QED
    BY <1>0, <1>3, <2>1, <2>2, <2>3, WorkerActsSoundly DEF StoreFails
<1>4. CASE Announced(r, w)
  <2>1. PICK k : workers' = [workers EXCEPT ![r][w] = k]
                 /\ k.at \notin InHand \cup {"writing"}
    <3>1. CASE workers[r][w].count % Every = 0
      BY <1>4, <3>1, WorkFields DEF Announced, Work, InHand
    <3>2. CASE workers[r][w].count % Every # 0
      BY <1>4, <3>2, WorkFields DEF Announced, Work, InHand
    <3> QED
      BY <3>1, <3>2
  <2>2. /\ \A s \in Runs \ {r} : runs'[s] = runs[s]
        /\ \A field \in {"at", "job", "template", "next", "completed", "held"} :
               runs'[r][field] = runs[r][field]
    BY <1>0, <1>4 DEF Announced, TypeOK, RunRecords
  <2> QED
    BY <1>0, <1>4, <2>1, <2>2, WorkerActsSoundly DEF Announced
<1> QED
  BY <1>1, <1>2, <1>3, <1>4, StoreSound, ProgressSound DEF WorkerStep

\* The end of a run, from the feeder's to the outcome.
LEMMA RunEndsSoundly ==
    ASSUME TypeOK, Orderly, Sound, NEW r \in Runs,
           \/ FeederStops(r) \/ FeederDone(r) \/ Finish(r)
           \/ FinalWrite(r) \/ FinalLost(r) \/ Deregister(r)
    PROVE  Sound'
<1> USE DEF history
<1>0. /\ runs[r] \in RunRecords /\ runs[r].at \in Live \ {"starting"}
      /\ UNCHANGED <<results, workers, call, torn>>
      /\ \A s \in Runs \ {r} : runs'[s] = runs[s]
  BY DEF FeederStops, FeederDone, Finish, FinalWrite, FinalLost, Deregister, Live, TypeOK
<1>1. PICK i \in Jobs : runs[r].job = i /\ running[i] = r
  BY <1>0, Working
<1>2. RunSound(r) /\ JobSound(i) /\ RunOK(r)
  BY DEF Sound, Orderly
<1>3. Has(i)' = Has(i)
  BY <1>0 DEF Has
<1>4. CASE FeederStops(r) \/ FeederDone(r)
  <2>1. /\ runs'[r].at = "draining" /\ runs[r].at = "feeding" /\ runs'[r].job = i
        /\ runs'[r].template = runs[r].template /\ runs'[r].next = runs[r].next
        /\ runs'[r].completed = runs[r].completed
        /\ UNCHANGED <<jobs, running>>
    BY <1>0, <1>1, <1>4 DEF FeederStops, FeederDone, TypeOK, RunRecords
  <2>2. Stored(i)' <=> Stored(i)
    BY <2>1 DEF Stored
  <2>3. RunSound(r)'
    BY <1>0, <1>1, <1>2, <1>3, <2>1, <2>2 DEF RunSound, Live
  <2>4. JobSound(i)'
    BY <1>0, <1>2, <2>1, KeptJob
  <2> QED
    BY <1>0, <1>1, <2>1, <2>3, <2>4, RunActsSoundly DEF Live
<1>5. CASE Finish(r)
  <2>1. runs[r].at = "draining" /\ runs'[r] = HasRead(r, Outcome(r))
        /\ UNCHANGED <<jobs, running>>
    BY <1>5 DEF Finish, TypeOK
  <2>2. Stored(i)' <=> Stored(i)
    BY <2>1 DEF Stored
  <2>3. /\ runs'[r].job = i /\ runs'[r].template = runs[r].template
        /\ runs'[r].completed = runs[r].completed
        /\ \/ /\ Stored(i) /\ runs'[r].at = "persisting"
              /\ runs'[r].held = jobs[i].template
           \/ ~ Stored(i) /\ runs'[r].at = "leaving"
    <3>1. CASE Stored(i)
      <4>1. runs'[r] = [runs[r] EXCEPT !.at = "persisting", !.status = Outcome(r),
                                       !.held = jobs[i].template]
        BY <1>1, <2>1, <3>1 DEF HasRead
      <4> QED
        BY <1>0, <1>1, <3>1, <4>1 DEF RunRecords
    <3>2. CASE ~ Stored(i)
      <4>1. runs'[r] = [runs[r] EXCEPT !.at = "leaving"]
        BY <1>1, <2>1, <3>2 DEF HasRead
      <4> QED
        BY <1>0, <1>1, <3>2, <4>1 DEF RunRecords
    <3> QED
      BY <3>1, <3>2
  <2>4. RunSound(r)'
    BY <1>0, <1>1, <1>2, <1>3, <2>1, <2>2, <2>3 DEF RunSound, Live
  <2>5. JobSound(i)'
    BY <1>0, <1>2, <2>1, KeptJob
  <2> QED
    BY <1>0, <1>1, <2>1, <2>3, <2>4, <2>5, RunActsSoundly
<1>6. CASE FinalWrite(r)
  <2>1. /\ runs[r].at = "persisting" /\ runs'[r].at = "leaving" /\ runs'[r].job = i
        /\ runs'[r].template = runs[r].template /\ UNCHANGED running
    BY <1>0, <1>1, <1>6 DEF FinalWrite, TypeOK, RunRecords
  <2>2. /\ jobs'[i] \notin {Unborn, Gone} /\ jobs'[i].template = runs[r].template
        /\ jobs'[i].completed = runs[r].completed
        /\ \A j \in Jobs \ {i} : jobs'[j] = jobs[j]
    <3> DEFINE d == [template |-> runs[r].held, status |-> runs[r].status,
                     completed |-> runs[r].completed]
    <3>1. /\ d.template = runs[r].template /\ d.completed = runs[r].completed
          /\ d \in Records
      BY <1>0, <1>2, <2>1 DEF RunOK, RunSound, Records, RunRecords
    <3>2. jobs' = [jobs EXCEPT ![i] = d]
      BY <1>1, <1>6 DEF FinalWrite
    <3> HIDE DEF d
    <3> QED
      BY <3>1, <3>2 DEF TypeOK
  <2>3. \A h \in Has(i) : results[i][h] = runs[r].template
    BY <1>0, <1>1, <1>2 DEF RunSound
  <2>4. RunSound(r)'
    BY <1>0, <1>3, <2>1, <2>2, <2>3 DEF RunSound, Live
  <2>5. JobSound(i)'
    <3>1. i \notin torn => Cardinality(Has(i)) = runs[r].completed
      BY <1>1, <1>2, <2>1 DEF RunSound
    <3> QED
      BY <1>0, <1>3, <2>2, <2>3, <3>1 DEF JobSound
  <2> QED
    BY <1>0, <1>1, <2>1, <2>2, <2>4, <2>5, RunActsSoundly
<1>7. CASE FinalLost(r) \/ Deregister(r)
  <2>1. /\ runs'[r].at \in {"leaving", "deregistered"} /\ runs'[r].job = i
        /\ runs'[r].template = runs[r].template
        /\ running'[i] \in {running[i], None}
        /\ \A j \in Jobs \ {i} : running'[j] = running[j]
        /\ UNCHANGED jobs
    BY <1>0, <1>1, <1>7 DEF FinalLost, Deregister, TypeOK, RunRecords
  <2>2. Stored(i)' <=> Stored(i)
    BY <2>1 DEF Stored
  <2>3. RunSound(r)'
    BY <1>0, <1>1, <1>2, <1>3, <2>1, <2>2 DEF RunSound, Live
  <2>4. JobSound(i)'
    BY <1>0, <1>2, <2>1, KeptJob
  <2> QED
    BY <1>0, <1>1, <2>1, <2>3, <2>4, RunActsSoundly
<1> QED
  BY <1>4, <1>5, <1>6, <1>7

\* A run that has left the map lets its waiters go.
LEMMA CloseSound ==
    ASSUME TypeOK, Orderly, Sound, NEW r \in Runs, CloseDone(r) PROVE Sound'
<1>1. /\ runs[r].at = "deregistered" /\ runs'[r].at = "ended"
      /\ \A s \in Runs \ {r} : runs'[s] = runs[s]
      /\ UNCHANGED <<jobs, results, running, workers, torn, call>>
  BY DEF CloseDone, TypeOK, history, Ended
<1>2. \A s \in Runs : RunSound(s)'
  <2>1. RunSound(r)'
    BY <1>1 DEF RunSound, Live
  <2> QED
    BY <1>1, <2>1, KeptRun DEF Sound
<1>3. \A j \in Jobs : JobSound(j)'
  BY <1>1, KeptJob DEF Sound
<1>4. ASSUME NEW c \in Callers PROVE Knows(call[c])'
  <2>1. Knows(call[c]) /\ CallOK(c)
    BY DEF Sound, Orderly
  <2>2. call[c].at \in Launching => runs'[call[c].run] = runs[call[c].run]
    BY <1>1, <2>1 DEF CallOK
  <2>3. \A i : Has(i)' = Has(i) /\ (Stored(i)' <=> Stored(i))
    BY <1>1 DEF Has, Stored
  <2> QED
    BY <1>1, <2>1, <2>2, <2>3 DEF Knows
<1> QED
  BY <1>2, <1>3, <1>4 DEF Sound

\* The database is all that a crash leaves.
LEMMA CrashSound ==
    ASSUME TypeOK, Sound, Crash PROVE Sound'
<1>1. /\ \A r \in Runs : runs'[r].at = "ended"
      /\ \A j \in Jobs : running'[j] = None
      /\ \A c \in Callers : call'[c].at = "idle"
      /\ UNCHANGED <<jobs, results, torn>>
  BY IdleFields DEF Crash, Ended
<1>2. \A r \in Runs : RunSound(r)'
  BY <1>1 DEF RunSound, Live
<1>3. \A j \in Jobs : JobSound(j)'
  BY <1>1, KeptJob DEF Sound
<1>4. \A c \in Callers : Knows(call[c])'
  BY <1>1 DEF Knows, Launching
<1> QED
  BY <1>2, <1>3, <1>4 DEF Sound

\* The calls that are one step: another project is opened, one is deleted, a
\* run is stopped.  The caller has no other call under way.
LEMMA OtherCallsSound ==
    ASSUME TypeOK, Orderly, Sound, OneCaller,
           \/ \E p \in Projects \cup {None} : Open(p)
           \/ \E p \in Projects : DeleteProject(p)
           \/ \E j \in Jobs : Stop(j)
    PROVE  Sound'
<1> USE DEF history
<1>1. \A d \in Callers : call'[d].at = "idle"
  BY DEF Open, DeleteProject, Stop, SomebodyFree, OneCaller
<1>2. \A d \in Callers : Knows(call[d])'
  BY <1>1 DEF Knows, Launching
<1>3. ASSUME NEW p \in Projects \cup {None}, Open(p) PROVE Sound'
  <2>1. UNCHANGED <<jobs, results, running, runs, workers, torn>>
    BY <1>3 DEF Open
  <2>2. \A s \in Runs : RunSound(s)'
    BY <2>1, KeptRun DEF Sound
  <2>3. \A j \in Jobs : JobSound(j)'
    BY <2>1, KeptJob DEF Sound
  <2> QED
    BY <1>2, <2>2, <2>3 DEF Sound
<1>4. ASSUME NEW p \in Projects, DeleteProject(p) PROVE Sound'
  <2> DEFINE js == {j \in Jobs : Home[j] = p}
  <2>1. /\ Lose(js) /\ torn' = torn \cup {j \in js : running[j] # None}
        /\ UNCHANGED <<running, runs, workers>>
    BY <1>4 DEF DeleteProject
  <2>2. js \in SUBSET Jobs
    OBVIOUS
  <2> HIDE DEF js
  <2>3. (\A s \in Runs : RunSound(s)') /\ (\A j \in Jobs : JobSound(j)')
    BY <2>1, <2>2, LosingSound
  <2> QED
    BY <1>2, <2>3 DEF Sound
<1>5. ASSUME NEW i \in Jobs, Stop(i) PROVE Sound'
  <2>1. /\ running[i] \in Runs /\ runs' = [runs EXCEPT ![running[i]].cancelled = TRUE]
        /\ UNCHANGED <<jobs, results, running, workers, torn>>
    BY <1>5 DEF Stop, TypeOK
  <2>2. \A s \in Runs :
            \A field \in {"at", "job", "template", "next", "completed", "held"} :
                runs'[s][field] = runs[s][field]
    BY <2>1, CancelKeeps
  <2>3. \A s \in Runs : RunSound(s)'
    BY <2>1, <2>2, KeptRun DEF Sound
  <2>4. \A j \in Jobs : JobSound(j)'
    BY <2>1, KeptJob DEF Sound
  <2> QED
    BY <1>2, <2>3, <2>4 DEF Sound
<1> QED
  BY <1>3, <1>4, <1>5

\* A step of the system with one caller leaves it sound.
LEMMA SoundStep ==
    ASSUME TypeOK, Orderly, Sound, OneCaller, [Next]_vars PROVE Sound'
<1>1. ASSUME NEW c \in Callers, Begins(c) \/ CallStep(c) \/ GiveUp(c)
      PROVE  Sound'
  <2>1. CASE StartRefused(c)
    BY <2>1, ReturnSound DEF StartRefused, history
  <2> QED
    BY <1>1, <2>1, BeginSound, SaveSound, RegisterSound, StartSound, RemovalSound
       DEF CallStep
<1>2. ASSUME NEW r \in Runs, RunStep(r) PROVE Sound'
  BY <1>2, FeedSound, RunEndsSoundly, CloseSound DEF RunStep
<1>3. ASSUME NEW r \in Runs, NEW w \in Workers, WorkerStep(r, w) PROVE Sound'
  BY <1>3, WorkerSound
<1>4. CASE Crash
  BY <1>4, CrashSound
<1>5. CASE UNCHANGED vars
  <2>1. \A s \in Runs : RunSound(s)'
    BY <1>5, KeptRun DEF Sound, vars
  <2>2. \A j \in Jobs : JobSound(j)'
    BY <1>5, KeptJob DEF Sound, vars
  <2>3. \A c \in Callers : Knows(call[c])'
    BY <1>5 DEF Sound, Knows, Has, Stored, vars
  <2> QED
    BY <2>1, <2>2, <2>3 DEF Sound
<1> QED
  BY <1>1, <1>2, <1>3, <1>4, <1>5, OtherCallsSound DEF Next

\* With one caller the system is sound, always.
LEMMA AlwaysSound ==
    ASSUME OneCaller PROVE Spec => [](TypeOK /\ Orderly /\ Sound)
<1>1. Init => Sound
  <2> SUFFICES ASSUME Init PROVE Sound
    OBVIOUS
  <2>1. \A r \in Runs : RunSound(r)
    BY DEF Init, RunSound, Ended, Live
  <2>2. \A j \in Jobs : JobSound(j)
    BY DEF Init, JobSound, Stored, Has, NoResults
  <2>3. \A c \in Callers : Knows(call[c])
    BY IdleFields DEF Init, Knows, Launching
  <2> QED
    BY <2>1, <2>2, <2>3 DEF Sound
<1>2. TypeOK /\ Orderly /\ Sound /\ [Next]_vars => (TypeOK /\ Orderly /\ Sound)'
  BY TypeStep, OrderlyStep, SoundStep
<1> QED
  BY <1>1, <1>2, Initially, PTL DEF Spec

\* With one caller the results of a job answer its template, and a run that has
\* ended has counted those it stored.
THEOREM ResultsStaySound ==
    ASSUME OneCaller PROVE Spec => []ResultsAreSound
<1>1. Sound => ResultsAreSound
  BY DEF Sound, JobSound, ResultsAreSound, ResultsMatchTemplate, ResultsAreCounted
<1> QED
  BY <1>1, AlwaysSound, PTL

\* With one caller no step brings back a job that was removed, but for the run
\* it was removed under.
THEOREM RemovedStaysRemoved ==
    ASSUME OneCaller PROVE Spec => GoneStaysGone
<1>1. TypeOK /\ Orderly /\ Sound /\ [Next]_vars
          => \A j \in Jobs \ torn' : jobs[j] = Gone => jobs'[j] = Gone
  <2> SUFFICES ASSUME TypeOK, Orderly, Sound, [Next]_vars,
                      NEW j \in Jobs, j \notin torn', jobs[j] = Gone
               PROVE  jobs'[j] = Gone
    OBVIOUS
  <2> USE DEF history
  <2>1. CASE UNCHANGED jobs
    BY <2>1
  <2>2. ASSUME NEW js, Lose(js) PROVE jobs'[j] = Gone
    BY <2>2 DEF Lose, Stored
  <2>3. ASSUME NEW c \in Callers, SavePut(c) \/ Launch(c) PROVE jobs'[j] = Gone
    <3>1. call[c].job # j
      BY <2>3 DEF SavePut, Launch, Sound, Knows, Stored
    <3> QED
      BY <2>3, <3>1 DEF SavePut, Launch, TypeOK
  <2>4. ASSUME NEW r \in Runs, FinalWrite(r) PROVE jobs'[j] = Gone
    <3>1. runs[r].job # j
      BY <2>4 DEF FinalWrite, Sound, RunSound, Stored
    <3> QED
      BY <2>4, <3>1 DEF FinalWrite, TypeOK
  <2>5. ASSUME NEW r \in Runs, NEW w \in Workers, ProgressWrite(r, w)
        PROVE  jobs'[j] = Gone
    <3>1. runs[r].at \in {"feeding", "draining"} /\ torn' = torn
      BY <2>5, Busy DEF ProgressWrite
    <3>2. runs[r].job # j
      BY <3>1 DEF Sound, RunSound, Stored
    <3> QED
      BY <2>5, <3>2 DEF ProgressWrite, TypeOK
  <2>6. ASSUME NEW c \in Callers, Begins(c) \/ CallStep(c) \/ GiveUp(c)
        PROVE  jobs'[j] = Gone
    BY <2>1, <2>2, <2>3, <2>6
       DEF Begins, CallStep, GiveUp, SaveNew, SaveRead, StartRead, Delete, Clear,
           BeginRemoval, SaveCheck, SaveDrop, SaveFails, Register, StartRefused,
           StartClean, Abort, NotRunning, CancelAndWait, Waited, Remove
  <2>7. ASSUME NEW r \in Runs, RunStep(r) PROVE jobs'[j] = Gone
    BY <2>1, <2>4, <2>7
       DEF RunStep, Feed, FeederStops, FeederDone, Finish, FinalLost, Deregister,
           CloseDone
  <2>8. ASSUME NEW r \in Runs, NEW w \in Workers, WorkerStep(r, w)
        PROVE  jobs'[j] = Gone
    BY <2>1, <2>5, <2>8
       DEF WorkerStep, Skip, Send, Dropped, StoreResult, StoreFails, Announced,
           ProgressRead, ProgressLost
  <2>9. ASSUME NEW p \in Projects, DeleteProject(p) PROVE jobs'[j] = Gone
    BY <2>2, <2>9 DEF DeleteProject
  <2> QED
    BY <2>1, <2>6, <2>7, <2>8, <2>9 DEF Next, Open, Stop, Crash, vars
<1> QED
  BY <1>1, AlwaysSound, PTL DEF Spec, GoneStaysGone

=============================================================================
