--------------------------- MODULE RunLifeProofs ---------------------------
(***************************************************************************)
(* Proofs about RunLife, for any runs, workers, jobs and faults.           *)
(***************************************************************************)
EXTENDS RunLife, FiniteSetTheorems, SequenceTheorems, TLAPS

-----------------------------------------------------------------------------
(* Types.                                                                  *)

\* What the processes and the pass hold of the rows.
Working == {"loaded", "running", "bought", "listed", "collecting"}

Held ==
    /\ \A p \in Procs : work[p].at # "idle" => work[p].run \in Runs
    /\ \A p \in Procs : work[p].at \in Working => run[work[p].run].status # "none"
    /\ DOMAIN pass \subseteq Runs /\ pass \in [DOMAIN pass -> Seen]
    /\ \A r \in DOMAIN pass : /\ run[r].status # "none"
                              /\ pass[r].row.job = run[r].job
                              /\ pass[r].todo = "resume" => pass[r].row.resumes < MAX_RESUMES
    /\ \A r \in Runs : pressed[r] # 0 =>
         /\ run[r].status = "none"
         /\ pressed[r] \in DOMAIN jobs /\ jobs[pressed[r]].run = r

Rows == TypeOK /\ Held

LEMMA NullRows == NoRow \in Row /\ Idle \in Work
<1>1. NoRow \in Row
  BY FaultAssumption DEF NoRow, Row, RunStatus, ACTIVE, MAX_RESUMES
<1>2. Idle \in Work
  BY <1>1, FaultAssumption DEF Idle, Work
<1> QED
  BY <1>1, <1>2

LEMMA EmptyPass == NoPass \in [{} -> Seen] /\ DOMAIN NoPass = {}
BY DEF NoPass

LEMMA InitRows == Init => Rows
<1> SUFFICES ASSUME Init PROVE Rows
  OBVIOUS
<1> USE DEF Init
<1>1. run \in [Runs -> Row] /\ silent \in [Runs -> Silence] /\ pressed \in [Runs -> 0..MaxJobs]
  BY NullRows, FaultAssumption DEF Silence
<1>2. jobs \in Seq(Job) /\ Len(jobs) <= MaxJobs
  BY FaultAssumption
<1>3. work \in [Procs -> Work] /\ \A p \in Procs : work[p].at = "idle"
  BY NullRows DEF Idle
<1>4. pass \in [{} -> Seen] /\ DOMAIN pass = {}
  BY EmptyPass
<1>5. \E S \in SUBSET Runs : pass \in [S -> Seen]
  BY <1>4
<1>6. TypeOK
  BY <1>1, <1>2, <1>3, <1>5 DEF TypeOK
<1>7. Held
  BY <1>3, <1>4 DEF Held, Working
<1> QED
  BY <1>6, <1>7 DEF Rows

\* The jobs of the queue: only their states change, and a dead one stays dead.
Kept(js) ==
    /\ js \in Seq(Job) /\ Len(js) = Len(jobs)
    /\ \A j \in DOMAIN jobs : /\ js[j].run = jobs[j].run
                              /\ js[j].state # "over" => jobs[j].state # "over"

\* A step that binds no job to a run.
Calm ==
    /\ Kept(jobs')
    /\ \A r \in Runs : /\ run'[r].job = run[r].job
                       /\ run'[r].status = "none" <=> run[r].status = "none"
    /\ UNCHANGED <<pressed, pass, interrupts>>

LEMMA EndedJobs ==
    ASSUME jobs \in Seq(Job), NEW i
    PROVE  Kept(Ended(jobs, i))
<1> DEFINE js == Ended(jobs, i)
<1>1. Len(jobs) \in Nat /\ DOMAIN jobs = 1..Len(jobs)
  OBVIOUS
<1>2. js \in [1..Len(jobs) -> Job]
  <2>1. \A j \in 1..Len(jobs) : jobs[j] \in Job /\ [jobs[j] EXCEPT !.state = "over"] \in Job
    <3>1. jobs \in [1..Len(jobs) -> Job]
      BY LenProperties
    <3> QED
      BY <3>1 DEF Job
  <2> QED
    BY <1>1, <2>1 DEF Ended
<1>3. js \in Seq(Job) /\ Len(js) = Len(jobs)
  BY <1>1, <1>2, IsASeq, SeqDef, LenProperties
<1>4. \A j \in DOMAIN jobs : /\ js[j].run = jobs[j].run
                             /\ js[j].state # "over" => jobs[j].state # "over"
  <2>1. \A j \in DOMAIN jobs : jobs[j] \in Job
    BY <1>1, ElementOfSeq
  <2> QED
    BY <2>1 DEF Ended, Job
<1> QED
  BY <1>3, <1>4 DEF Kept

\* A step of a process: it changes its own state, the status of its run (never
\* from nothing, and never to nothing), and its job.
LEMMA ProcStep ==
    ASSUME Rows, NEW p \in Procs, NEW w \in Work, work' = [work EXCEPT ![p] = w],
           w.at # "idle" => w.run \in Runs,
           w.at \in Working => run'[w.run].status # "none",
           run' \in [Runs -> Row], silent' \in [Runs -> Silence],
           \A r \in Runs : /\ run'[r].job = run[r].job
                           /\ run'[r].status = "none" <=> run[r].status = "none",
           Kept(jobs'), deaths' \in Nat, bought' \in [Runs -> Nat], lost' \in [Runs -> Nat],
           UNCHANGED <<pressed, pass, blackouts, interrupts>>
    PROVE  Rows' /\ Calm
<1>1. work' \in [Procs -> Work] /\ \A q \in Procs : work'[q] = IF q = p THEN w ELSE work[q]
  BY DEF Rows, TypeOK
<1>2. TypeOK'
  BY <1>1 DEF Rows, TypeOK, Kept
<1>3. /\ \A q \in Procs : work'[q].at # "idle" => work'[q].run \in Runs
      /\ \A q \in Procs : work'[q].at \in Working => run'[work'[q].run].status # "none"
  <2>1. \A q \in Procs : work[q].at \in Working => work[q].run \in Runs
    BY DEF Rows, Held, Working
  <2> QED
    BY <1>1, <2>1 DEF Rows, Held
<1>4. DOMAIN jobs' = DOMAIN jobs /\ \A j \in DOMAIN jobs : jobs'[j].run = jobs[j].run
  <2>1. jobs \in Seq(Job) /\ jobs' \in Seq(Job) /\ Len(jobs') = Len(jobs)
    BY DEF Kept, Rows, TypeOK
  <2>2. DOMAIN jobs' = DOMAIN jobs
    BY <2>1, LenProperties
  <2> QED
    BY <2>2 DEF Kept
<1>5. \A r \in Runs : pressed'[r] # 0 =>
        /\ run'[r].status = "none"
        /\ pressed'[r] \in DOMAIN jobs' /\ jobs'[pressed'[r]].run = r
  BY <1>4 DEF Rows, Held
<1>6. /\ DOMAIN pass' \subseteq Runs /\ pass' \in [DOMAIN pass' -> Seen]
      /\ \A r \in DOMAIN pass' : /\ run'[r].status # "none"
                                 /\ pass'[r].row.job = run'[r].job
                                 /\ pass'[r].todo = "resume" => pass'[r].row.resumes < MAX_RESUMES
  BY DEF Rows, Held
<1>7. Held'
  BY <1>3, <1>5, <1>6 DEF Held
<1> QED
  BY <1>2, <1>7 DEF Rows, Calm

LEMMA KeptItself == jobs \in Seq(Job) => Kept(jobs)
BY DEF Kept

\* Rows a process writes.
LEMMA WrittenRows ==
    ASSUME Rows, NEW r \in Runs, NEW row \in Row,
           row.job = run[r].job, row.status = "none" <=> run[r].status = "none",
           run' = [run EXCEPT ![r] = row]
    PROVE  /\ run' \in [Runs -> Row]
           /\ \A q \in Runs : /\ run'[q].job = run[q].job
                              /\ run'[q].status = "none" <=> run[q].status = "none"
BY DEF Rows, TypeOK

LEMMA SilentRows ==
    ASSUME Rows
    PROVE  /\ \A r, s \in Runs, n \in Silence : [silent EXCEPT ![r] = n] \in [Runs -> Silence]
           /\ \A r \in Runs : run[r] \in Row /\ 0 \in Silence
BY DEF Rows, TypeOK, Silence

LEMMA WorkStates ==
    ASSUME Rows, NEW p \in Procs
    PROVE  /\ work[p] \in Work /\ work[p].sees \in Row
           /\ work[p].at # "idle" => work[p].run \in Runs
           /\ work[p].at \in Working => run[work[p].run].status # "none"
           /\ \A at \in {"taken", "loaded", "running", "bought", "listed", "collecting", "failing"} :
                [work[p] EXCEPT !.at = at] \in Work
<1>1. work[p] \in Work
  BY DEF Rows, TypeOK
<1>2. work[p].sees \in Row
  BY <1>1 DEF Work
<1>3. /\ work[p].at # "idle" => work[p].run \in Runs
      /\ work[p].at \in Working => run[work[p].run].status # "none"
  BY DEF Rows, Held
<1>4. \A at \in {"taken", "loaded", "running", "bought", "listed", "collecting", "failing"} :
        [work[p] EXCEPT !.at = at] \in Work
  BY <1>1 DEF Work
<1> QED
  BY <1>1, <1>2, <1>3, <1>4

LEMMA Counters ==
    ASSUME NEW f \in [Runs -> Nat], NEW r \in Runs
    PROVE  /\ [f EXCEPT ![r] = @ + 1] \in [Runs -> Nat]
           /\ [f EXCEPT ![r] = @] \in [Runs -> Nat]
<1>1. f[r] + 1 \in Nat /\ f[r] \in Nat
  OBVIOUS
<1> QED
  BY <1>1

LEMMA StepRows ==
    ASSUME Rows, NEW p \in Procs, Step(p) \/ touch(p) \/ Die(p)
    PROVE  Rows' /\ Calm
<1> DEFINE r == work[p].run
           w == work[p]
<1>0. /\ run \in [Runs -> Row] /\ silent \in [Runs -> Silence] /\ jobs \in Seq(Job)
      /\ deaths \in Nat /\ bought \in [Runs -> Nat] /\ lost \in [Runs -> Nat]
      /\ work \in [Procs -> Work]
  BY DEF Rows, TypeOK
<1>1. Kept(jobs) /\ \A i : Kept(Ended(jobs, i))
  BY <1>0, KeptItself, EndedJobs
<1>2. w \in Work /\ w.sees \in Row /\ Idle \in Work /\ Idle.at = "idle"
  BY WorkStates, NullRows DEF Idle
<1>a. ASSUME NEW at \in {"taken", "loaded", "running", "bought", "listed", "collecting", "failing"},
             At(p, at)
      PROVE  \E v \in Work : work' = [work EXCEPT ![p] = v] /\ v.run = r /\ v.at = at
  <2>1. [w EXCEPT !.at = at] \in Work
    BY WorkStates
  <2> QED
    BY <1>2, <1>a, <2>1 DEF At, Set, Work
<1>b. ASSUME r \in Runs, NEW row \in Row, Write(r, row), row.job = run[r].job,
             row.status = "none" <=> run[r].status = "none"
      PROVE  /\ run' \in [Runs -> Row] /\ silent' \in [Runs -> Silence]
             /\ \A q \in Runs : /\ run'[q].job = run[q].job
                                /\ run'[q].status = "none" <=> run[q].status = "none"
  <2>1. silent' \in [Runs -> Silence]
    BY <1>0, <1>b, SilentRows DEF Write
  <2> QED
    BY <1>b, <2>1, WrittenRows DEF Write
<1>3. CASE Load(p)
  <2>1. PICK v \in Work : /\ work' = [work EXCEPT ![p] = v] /\ v.run = r
                          /\ \/ v.at = "failing"
                             \/ v.at = "loaded" /\ run[r].status # "none"
    <3>1. r \in Runs /\ run[r] \in Row
      BY <1>0, <1>3, WorkStates DEF Load
    <3>2. /\ [w EXCEPT !.at = "loaded", !.sees = run[r]] \in Work
          /\ [w EXCEPT !.at = "failing"] \in Work
      BY <1>2, <3>1 DEF Work
    <3> QED
      BY <1>2, <1>3, <3>2 DEF Load, Set, At, Work
  <2> QED
    BY <1>0, <1>1, <1>3, <2>1, ProcStep, WorkStates DEF Load, rowvars, faults, history, Working
<1>4. CASE mark_running(p)
  <2>1. r \in Runs /\ run[r] \in Row /\ run[r].status # "none"
    BY <1>0, <1>4, WorkStates DEF mark_running, Working
  <2>2. PICK v \in Work : work' = [work EXCEPT ![p] = v] /\ v.run = r /\ v.at = "running"
    <3>1. [w EXCEPT !.at = "running", !.sees.status = "running"] \in Work
      BY <1>2 DEF Work, Row, RunStatus, ACTIVE
    <3> QED
      BY <1>2, <1>4, <3>1 DEF mark_running, Set, Work
  <2>3. PICK row \in Row : Write(r, row) /\ row.job = run[r].job /\ row.status # "none"
    <3>1. [run[r] EXCEPT !.status = "running"] \in Row
      BY <2>1 DEF Row, RunStatus, ACTIVE
    <3> QED
      BY <1>4, <2>1, <3>1 DEF mark_running, Row
  <2> QED
    BY <1>0, <1>1, <1>b, <1>4, <2>1, <2>2, <2>3, ProcStep
    DEF mark_running, faults, history, Working
<1>5. CASE Restored(p) \/ Buy(p)
  <2>1. w.at = "running" /\ r \in Runs /\ run[r].status # "none"
    BY <1>5, WorkStates DEF Restored, Buy, Working
  <2>2. PICK v \in Work : work' = [work EXCEPT ![p] = v] /\ v.run = r /\ v.at \in {"listed", "bought"}
    BY <1>a, <1>5 DEF Restored, Buy
  <2>3. bought' \in [Runs -> Nat] /\ lost' = lost
    <3>1. CASE Restored(p)
      BY <1>0, <3>1 DEF Restored, history
    <3>2. CASE Buy(p)
      BY <1>0, <2>1, <3>2, Counters DEF Buy
    <3> QED
      BY <1>5, <3>1, <3>2
  <2> QED
    BY <1>0, <1>1, <1>5, <2>1, <2>2, <2>3, ProcStep
    DEF Restored, Buy, rowvars, faults, Working
<1>6. CASE save_candidates(p) \/ Plan(p)
  <2>1. w.at \in {"bought", "listed"} /\ r \in Runs /\ run[r] \in Row /\ run[r].status # "none"
    BY <1>0, <1>6, WorkStates DEF save_candidates, Plan, Working
  <2>2. PICK v \in Work : work' = [work EXCEPT ![p] = v] /\ v.run = r /\ v.at \in {"listed", "collecting"}
    BY <1>a, <1>6 DEF save_candidates, Plan
  <2>3. PICK row \in Row : Write(r, row) /\ row.job = run[r].job /\ row.status = run[r].status
    <3>1. /\ [run[r] EXCEPT !.found = TRUE] \in Row
          /\ [run[r] EXCEPT !.priced = TRUE] \in Row
      BY <2>1 DEF Row
    <3> QED
      BY <1>6, <2>1, <3>1 DEF save_candidates, Plan, Row
  <2> QED
    BY <1>0, <1>1, <1>b, <1>6, <2>1, <2>2, <2>3, ProcStep
    DEF save_candidates, Plan, faults, history, Working
<1>7. ASSUME NEW row \in Row PROVE Reported(p, row) \in Row /\ Reported(p, row).job = row.job
                                   /\ Reported(p, row).status = row.status
  BY <1>2, <1>7 DEF Reported, Row
<1>8. CASE FinishDone(p)
  <2>1. r \in Runs /\ run[r] \in Row /\ run[r].status # "none"
    BY <1>0, <1>8, WorkStates DEF FinishDone, Working
  <2>2. PICK row \in Row : row.job = run[r].job /\ row.status # "none" /\ run' = [run EXCEPT ![r] = row]
    <3>1. [Reported(p, run[r]) EXCEPT !.status = "done"] \in Row
      BY <1>7, <2>1 DEF Row, RunStatus
    <3> QED
      BY <1>7, <1>8, <2>1, <3>1 DEF FinishDone, Row
  <2> QED
    BY <1>0, <1>1, <1>2, <1>8, <2>1, <2>2, ProcStep, WrittenRows, SilentRows
    DEF FinishDone, Release, Set, faults, history, Working
<1>9. ASSUME NEW fatal \in BOOLEAN, Fail(p, fatal), w.at # "idle"
      PROVE  \E v \in Work : work' = [work EXCEPT ![p] = v]
                             /\ (v.at # "idle" => v.at = "failing" /\ v.run = r)
  <2>1. [w EXCEPT !.at = "failing", !.fatal = fatal] \in Work
    BY <1>2 DEF Work
  <2> QED
    BY <1>2, <1>9, <2>1 DEF Fail, Set, Work
<1>10. CASE FailEarly(p)
  <2>1. PICK v \in Work : work' = [work EXCEPT ![p] = v]
                          /\ (v.at # "idle" => v.at = "failing" /\ v.run = r)
    BY <1>9, <1>10 DEF FailEarly
  <2>2. r \in Runs /\ lost' \in [Runs -> Nat]
    <3>1. r \in Runs
      BY <1>10, WorkStates DEF FailEarly
    <3>2. lost' = [lost EXCEPT ![r] = @ + 1] \/ lost' = [lost EXCEPT ![r] = @]
      BY <1>10 DEF FailEarly
    <3> QED
      BY <1>0, <3>1, <3>2, Counters
  <2> QED
    BY <1>0, <1>1, <1>10, <2>1, <2>2, ProcStep DEF FailEarly, rowvars, faults, Working
<1>11. ASSUME NEW fatal \in BOOLEAN, CloseFailed(p, fatal) PROVE Rows' /\ Calm
  <2>1. r \in Runs /\ run[r] \in Row /\ run[r].status # "none"
    BY <1>0, <1>11, WorkStates DEF CloseFailed, Working
  <2>2. PICK v \in Work : work' = [work EXCEPT ![p] = v]
                          /\ (v.at # "idle" => v.at = "failing" /\ v.run = r)
    BY <1>9, <1>11 DEF CloseFailed
  <2>3. PICK row \in Row : row.job = run[r].job /\ row.status # "none" /\ run' = [run EXCEPT ![r] = row]
    <3>1. [Reported(p, run[r]) EXCEPT !.status = "stopped"] \in Row
      BY <1>7, <2>1 DEF Row, RunStatus
    <3>2. run' = [run EXCEPT ![r] = IF fatal THEN [Reported(p, run[r]) EXCEPT !.status = "stopped"]
                                    ELSE Reported(p, run[r])]
      BY <1>0, <1>11, <2>1 DEF CloseFailed
    <3> QED
      BY <1>7, <2>1, <3>1, <3>2 DEF Row
  <2> QED
    BY <1>0, <1>1, <1>11, <2>1, <2>2, <2>3, ProcStep, WrittenRows, SilentRows
    DEF CloseFailed, faults, history, Working
<1>12. CASE _mark(p)
  <2>1. r \in Runs /\ run[r] \in Row
    BY <1>0, <1>12, WorkStates DEF _mark
  <2>2. PICK row \in Row : /\ row.job = run[r].job /\ run' = [run EXCEPT ![r] = row]
                           /\ row.status = "none" <=> run[r].status = "none"
    <3>1. [run[r] EXCEPT !.status = "stopped"] \in Row
      BY <2>1 DEF Row, RunStatus
    <3>2. \/ run' = [run EXCEPT ![r] = run[r]]
          \/ run[r].status # "none" /\ run' = [run EXCEPT ![r] = [run[r] EXCEPT !.status = "stopped"]]
      BY <1>0, <1>12, <2>1 DEF _mark, Row
    <3> QED
      BY <2>1, <3>1, <3>2 DEF Row
  <2> QED
    BY <1>0, <1>1, <1>2, <1>12, <2>1, <2>2, ProcStep, WrittenRows, SilentRows
    DEF _mark, Release, Set, faults, history, Working
<1>13. CASE touch(p)
  <2>1. silent' \in [Runs -> Silence]
    BY <1>0, <1>13, SilentRows DEF touch, Silence
  <2>2. work' = [work EXCEPT ![p] = w]
    BY <1>0, <1>13 DEF touch
  <2>3. /\ w.at # "idle" => r \in Runs
        /\ w.at \in Working => run[r].status # "none"
    BY WorkStates
  <2> QED
    BY <1>0, <1>1, <1>2, <1>13, <2>1, <2>2, <2>3, ProcStep DEF touch, faults, history
<1>14. CASE Die(p)
  <2>1. r \in Runs /\ lost' \in [Runs -> Nat]
    <3>1. r \in Runs
      BY <1>14, WorkStates DEF Die
    <3>2. lost' = [lost EXCEPT ![r] = @ + 1] \/ lost' = [lost EXCEPT ![r] = @]
      BY <1>14 DEF Die
    <3> QED
      BY <1>0, <3>1, <3>2, Counters
  <2>2. work' = [work EXCEPT ![p] = Idle] /\ Kept(jobs') /\ deaths' \in Nat
    BY <1>0, <1>1, <1>14 DEF Die, Release, Set
  <2>3. UNCHANGED <<run, silent, pressed, pass, blackouts, interrupts, bought>>
    BY <1>14 DEF Die, rowvars
  <2> QED
    BY <1>0, <1>2, <2>1, <2>2, <2>3, ProcStep DEF Working
<1> QED
  BY <1>3, <1>4, <1>5, <1>6, <1>8, <1>10, <1>11, <1>12, <1>13, <1>14 DEF Step

\* A job is added at the end of the queue.
LEMMA NewJob ==
    ASSUME Rows, Len(jobs) < MaxJobs, NEW r \in Runs, NEW who \in {"person", "reaper"},
           jobs' = Enqueued(r, who)
    PROVE  /\ jobs' \in Seq(Job) /\ Len(jobs') <= MaxJobs
           /\ DOMAIN jobs' = DOMAIN jobs \cup {Len(jobs) + 1} /\ Len(jobs) + 1 \in 1..MaxJobs
           /\ Len(jobs) + 1 \notin DOMAIN jobs
           /\ \A j \in DOMAIN jobs : jobs'[j] = jobs[j]
           /\ jobs'[Len(jobs) + 1] = [run |-> r, state |-> "queued", by |-> who]
<1> DEFINE new == [run |-> r, state |-> "queued", by |-> who]
<1>1. jobs \in Seq(Job) /\ new \in Job
  BY DEF Rows, TypeOK, Job
<1>2. Len(jobs) \in Nat /\ DOMAIN jobs = 1..Len(jobs)
  BY <1>1, LenProperties
<1>3. jobs' = Append(jobs, new)
  BY DEF Enqueued
<1> HIDE DEF new
<1>4. jobs' \in Seq(Job) /\ Len(jobs') = Len(jobs) + 1
  BY <1>1, <1>3, AppendProperties
<1>5. \A j \in 1..Len(jobs) : jobs'[j] = jobs[j]
  BY <1>1, <1>3, AppendProperties
<1>6. jobs'[Len(jobs) + 1] = new
  BY <1>1, <1>3, AppendProperties
<1>7. DOMAIN jobs' = 1..(Len(jobs) + 1)
  BY <1>4, LenProperties
<1> QED
  BY <1>2, <1>4, <1>5, <1>6, <1>7, FaultAssumption DEF new

LEMMA StartRows ==
    ASSUME Rows, NEW r \in Runs,
           Press(r) \/ CommitStart(r) \/ RollBackStart(r) \/ ConsoleStart(r)
    PROVE  Rows'
<1>0. /\ run \in [Runs -> Row] /\ silent \in [Runs -> Silence] /\ pressed \in [Runs -> 0..MaxJobs]
      /\ work \in [Procs -> Work] /\ bought \in [Runs -> Nat] /\ NoRow \in Row
  BY NullRows DEF Rows, TypeOK
<1>1. CASE Press(r)
  <2>1. run[r].status = "none" /\ pressed' = [pressed EXCEPT ![r] = Len(jobs) + 1]
        /\ UNCHANGED <<run, silent, work, pass, faults, history>>
    BY <1>1 DEF Press, Unused
  <2>2. /\ jobs' \in Seq(Job) /\ Len(jobs') <= MaxJobs
        /\ DOMAIN jobs' = DOMAIN jobs \cup {Len(jobs) + 1} /\ Len(jobs) + 1 \in 1..MaxJobs
        /\ \A j \in DOMAIN jobs : jobs'[j] = jobs[j]
        /\ jobs'[Len(jobs) + 1].run = r
    <3>1. Len(jobs) < MaxJobs /\ jobs' = Enqueued(r, "person")
      BY <1>1 DEF Press
    <3>2. jobs'[Len(jobs) + 1] = [run |-> r, state |-> "queued", by |-> "person"]
      BY <3>1, NewJob
    <3>3. /\ jobs' \in Seq(Job) /\ Len(jobs') <= MaxJobs
          /\ DOMAIN jobs' = DOMAIN jobs \cup {Len(jobs) + 1} /\ Len(jobs) + 1 \in 1..MaxJobs
          /\ \A j \in DOMAIN jobs : jobs'[j] = jobs[j]
      BY <3>1, NewJob
    <3> QED
      BY <3>2, <3>3
  <2>3. TypeOK'
    BY <1>0, <2>1, <2>2 DEF Rows, TypeOK, faults, history
  <2>4. \A q \in Runs : pressed'[q] # 0 =>
          /\ run'[q].status = "none"
          /\ pressed'[q] \in DOMAIN jobs' /\ jobs'[pressed'[q]].run = q
    BY <1>0, <2>1, <2>2 DEF Rows, Held
  <2> QED
    BY <2>1, <2>3, <2>4 DEF Rows, Held
<1>2. CASE CommitStart(r)
  <2>1. /\ pressed[r] # 0 /\ pressed' = [pressed EXCEPT ![r] = 0] /\ silent' = [silent EXCEPT ![r] = 0]
        /\ run' = [run EXCEPT ![r] = [NoRow EXCEPT !.status = "queued", !.job = pressed[r]]]
        /\ UNCHANGED <<jobs, work, pass, faults, history>>
    BY <1>2 DEF CommitStart
  <2>2. [NoRow EXCEPT !.status = "queued", !.job = pressed[r]] \in Row
    BY <1>0 DEF Row, RunStatus, ACTIVE
  <2>3. run' \in [Runs -> Row] /\ silent' \in [Runs -> Silence] /\ pressed' \in [Runs -> 0..MaxJobs]
    BY <1>0, <2>1, <2>2, FaultAssumption DEF Silence
  <2>4. \A q \in Runs : q # r => run'[q] = run[q]
    BY <1>0, <2>1
  <2>5. run'[r].status # "none" /\ r \notin DOMAIN pass
    BY <1>0, <2>1 DEF Rows, Held, NoRow
  <2>6. TypeOK'
    BY <2>1, <2>3 DEF Rows, TypeOK, faults, history
  <2>7. Held'
    <3>1. \A p \in Procs : work[p].at \in Working => work[p].run \in Runs
      BY DEF Rows, Held, Working
    <3>2. \A p \in Procs : work[p].at \in Working => run'[work[p].run].status # "none"
      BY <2>4, <2>5, <3>1 DEF Rows, Held
    <3>3. \A q \in Runs : pressed'[q] # 0 => q # r /\ pressed'[q] = pressed[q]
      BY <1>0, <2>1
    <3> QED
      BY <2>1, <2>4, <2>5, <3>2, <3>3 DEF Rows, Held
  <2> QED
    BY <2>6, <2>7 DEF Rows
<1>3. CASE RollBackStart(r)
  <2>1. pressed' = [pressed EXCEPT ![r] = 0] /\ UNCHANGED <<run, silent, jobs, work, pass, faults, history>>
    BY <1>3 DEF RollBackStart
  <2>2. pressed' \in [Runs -> 0..MaxJobs] /\ \A q \in Runs : pressed'[q] # 0 => pressed'[q] = pressed[q]
    BY <1>0, <2>1, FaultAssumption
  <2> QED
    BY <2>1, <2>2 DEF Rows, TypeOK, Held, faults, history
<1>4. CASE ConsoleStart(r)
  <2> DEFINE row == [NoRow EXCEPT !.status = "running", !.found = TRUE]
             w == [Idle EXCEPT !.at = "listed", !.run = r, !.sees = row]
  <2>1. /\ run' = [run EXCEPT ![r] = row] /\ work' = [work EXCEPT ![r] = w]
        /\ bought' = [bought EXCEPT ![r] = @ + 1]
        /\ UNCHANGED <<silent, pressed, jobs, pass, faults, lost>>
    BY <1>4 DEF ConsoleStart, Set
  <2>2. row \in Row /\ row.status # "none"
    BY <1>0 DEF Row, RunStatus, ACTIVE, NoRow
  <2>3. w \in Work /\ w.run = r
    BY <2>2, NullRows DEF Work, Idle
  <2>4. run[r].status = "none" /\ pressed[r] = 0
    BY <1>4 DEF ConsoleStart, Unused, Rows, Held
  <2> HIDE DEF row, w
  <2>5. run' \in [Runs -> Row] /\ work' \in [Procs -> Work] /\ bought' \in [Runs -> Nat]
    BY <1>0, <2>1, <2>2, <2>3, Counters
  <2>6. \A q \in Runs : q # r => run'[q] = run[q]
    BY <1>0, <2>1
  <2>7. run'[r].status # "none" /\ r \notin DOMAIN pass
    BY <1>0, <2>1, <2>2, <2>4 DEF Rows, Held
  <2>8. TypeOK'
    BY <2>1, <2>5 DEF Rows, TypeOK, faults
  <2>9. \A p \in Procs : work'[p] = work[p] \/ work'[p].run = r
    BY <1>0, <2>1, <2>3 DEF Procs
  <2>10. Held'
    <3>1. \A p \in Procs : work'[p].at # "idle" => work'[p].run \in Runs
      BY <2>9 DEF Rows, Held
    <3>2. \A p \in Procs : work'[p].at \in Working => run'[work'[p].run].status # "none"
      <4>1. \A p \in Procs : work'[p].at \in Working => work'[p].at # "idle"
        BY DEF Working
      <4> QED
        BY <2>6, <2>7, <2>9, <3>1, <4>1 DEF Rows, Held
    <3> QED
      BY <2>1, <2>4, <2>6, <2>7, <3>1, <3>2 DEF Rows, Held
  <2> QED
    BY <2>8, <2>10 DEF Rows
<1> QED
  BY <1>1, <1>2, <1>3, <1>4

LEMMA QueueRows ==
    ASSUME Rows, Blackout \/ (\E r \in Runs : Tick(r)) \/ (\E p \in Workers : Take(p))
    PROVE  Rows' /\ Calm
<1>0. /\ jobs \in Seq(Job) /\ silent \in [Runs -> Silence] /\ work \in [Procs -> Work]
      /\ run \in [Runs -> Row] /\ deaths \in Nat /\ bought \in [Runs -> Nat] /\ lost \in [Runs -> Nat]
  BY DEF Rows, TypeOK
<1>1. DOMAIN jobs = 1..Len(jobs) /\ Len(jobs) \in Nat /\ \A j \in DOMAIN jobs : jobs[j] \in Job
  BY <1>0, LenProperties
<1>2. CASE Blackout
  <2>1. jobs' = [j \in 1..Len(jobs) |-> [jobs[j] EXCEPT !.state = "over"]]
        /\ UNCHANGED <<rowvars, work, pass, deaths, interrupts, history>>
        /\ blackouts' = blackouts + 1
    BY <1>1, <1>2 DEF Blackout
  <2>2. \A j \in DOMAIN jobs : /\ [jobs[j] EXCEPT !.state = "over"] \in Job
                               /\ [jobs[j] EXCEPT !.state = "over"].run = jobs[j].run
    BY <1>1 DEF Job
  <2>3. jobs' \in [1..Len(jobs) -> Job]
    BY <1>1, <2>1, <2>2
  <2>4. jobs' \in Seq(Job) /\ Len(jobs') = Len(jobs) /\ DOMAIN jobs' = DOMAIN jobs
    BY <1>1, <2>3, SeqDef, LenProperties
  <2>5. \A j \in DOMAIN jobs : jobs'[j].run = jobs[j].run /\ jobs'[j].state = "over"
    BY <1>1, <2>1, <2>2 DEF Job
  <2>6. TypeOK'
    BY <2>1, <2>4 DEF Rows, TypeOK, rowvars, history
  <2>7. Held'
    BY <2>1, <2>4, <2>5 DEF Rows, Held, rowvars
  <2> QED
    BY <2>1, <2>4, <2>5, <2>6, <2>7 DEF Rows, Calm, Kept, rowvars
<1>3. ASSUME NEW r \in Runs, Tick(r) PROVE Rows' /\ Calm
  <2>1. silent' \in [Runs -> Silence] /\ UNCHANGED <<run, pressed, jobs, work, pass, faults, history>>
    <3>1. silent[r] + 1 \in Silence /\ silent' = [silent EXCEPT ![r] = silent[r] + 1]
      <4>1. silent[r] \in 0..2 /\ silent[r] < 2
        BY <1>0, <1>3 DEF Tick, Silence, STALE
      <4>2. silent' = [silent EXCEPT ![r] = @ + 1]
        BY <1>3 DEF Tick
      <4> QED
        BY <4>1, <4>2 DEF Silence
    <3> QED
      BY <1>0, <1>3, <3>1 DEF Tick
  <2>2. Calm
    BY <1>0, <2>1, KeptItself DEF Calm, faults
  <2> QED
    BY <2>1, <2>2 DEF Rows, TypeOK, Held, faults, history
<1>4. ASSUME NEW p \in Workers, Take(p) PROVE Rows' /\ Calm
  <2>1. PICK j \in DOMAIN jobs :
          /\ jobs[j].state = "queued"
          /\ jobs' = [jobs EXCEPT ![j].state = "started"]
          /\ work' = [work EXCEPT ![p] = [Idle EXCEPT !.at = "taken", !.job = j, !.run = jobs[j].run]]
    BY <1>4 DEF Take, Set
  <2>2. Kept(jobs')
    <3>1. [jobs[j] EXCEPT !.state = "started"] \in Job
      BY <1>1 DEF Job
    <3>2. jobs' = [jobs EXCEPT ![j] = [jobs[j] EXCEPT !.state = "started"]]
      BY <1>0, <1>1, <2>1
    <3>3. jobs' \in Seq(Job) /\ Len(jobs') = Len(jobs)
      BY <1>0, <1>1, <3>1, <3>2, ExceptSeq
    <3>4. \A i \in DOMAIN jobs : /\ jobs'[i].run = jobs[i].run
                                 /\ jobs'[i].state # "over" => jobs[i].state # "over"
      <4>1. jobs[j].state = "queued"
        BY <2>1
      <4> QED
        BY <1>1, <3>2, <4>1 DEF Job
    <3> QED
      BY <3>3, <3>4 DEF Kept
  <2>3. PICK v \in Work : work' = [work EXCEPT ![p] = v] /\ v.at = "taken" /\ v.run \in Runs
    <3>1. jobs[j].run \in Runs /\ j \in 0..MaxJobs
      <4>1. Len(jobs) <= MaxJobs
        BY DEF Rows, TypeOK
      <4> QED
        BY <1>1, <4>1, FaultAssumption DEF Job
    <3>2. [Idle EXCEPT !.at = "taken", !.job = j, !.run = jobs[j].run] \in Work
      BY <3>1, NullRows DEF Work
    <3> QED
      BY <2>1, <3>1, <3>2, NullRows DEF Work
  <2>4. p \in Procs /\ UNCHANGED <<rowvars, pass, faults, history>>
    BY <1>4 DEF Take, Procs
  <2> QED
    BY <1>0, <2>2, <2>3, <2>4, ProcStep DEF Working, rowvars, faults, history
<1> QED
  BY <1>2, <1>3, <1>4

\* A judgement of the reaper: it decides on one run, and may queue a job.
LEMMA PassStep ==
    ASSUME Rows, NEW r \in DOMAIN pass, NEW s \in Seen, pass' = [pass EXCEPT ![r] = s],
           s.row = pass[r].row, s.todo = "resume" => s.row.resumes < MAX_RESUMES,
           jobs' \in Seq(Job), Len(jobs') <= MaxJobs, DOMAIN jobs \subseteq DOMAIN jobs',
           \A j \in DOMAIN jobs : jobs'[j] = jobs[j],
           UNCHANGED <<rowvars, work, faults, history>>
    PROVE  Rows'
<1>1. /\ DOMAIN pass' = DOMAIN pass /\ pass' \in [DOMAIN pass -> Seen]
      /\ \A q \in DOMAIN pass : pass'[q] = IF q = r THEN s ELSE pass[q]
  BY DEF Rows, Held
<1>2. \E S \in SUBSET Runs : pass' \in [S -> Seen]
  BY <1>1 DEF Rows, Held
<1>3. TypeOK'
  BY <1>2 DEF Rows, TypeOK, rowvars, faults, history
<1>4. Held'
  BY <1>1 DEF Rows, Held, rowvars
<1> QED
  BY <1>3, <1>4 DEF Rows

LEMMA SeenRows ==
    ASSUME Rows, NEW r \in DOMAIN pass
    PROVE  /\ r \in Runs /\ pass[r] \in Seen /\ pass[r].row \in Row /\ pass[r].job \in 0..MaxJobs
           /\ \A todo \in {"leave", "resume", "stop"} : [pass[r] EXCEPT !.todo = todo] \in Seen
<1>1. r \in Runs /\ pass[r] \in Seen
  BY DEF Rows, Held
<1> QED
  BY <1>1 DEF Seen, Verdict

LEMMA JudgeRows ==
    ASSUME Rows, NEW r \in Runs, Unknown(r) \/ Judge(r)
    PROVE  Rows'
<1>0. r \in DOMAIN pass /\ pass[r].todo = "judge" /\ pass \in [DOMAIN pass -> Seen]
  BY DEF Unknown, Judge, Alive, Resume, Wait, Bury, Dead, Judging, Rows, Held
<1>1. ASSUME NEW todo \in {"leave", "stop"}, Decide(r, todo),
             UNCHANGED <<rowvars, jobs, work, faults, history>>
      PROVE  Rows'
  <2>1. PICK s \in Seen : pass' = [pass EXCEPT ![r] = s] /\ s.row = pass[r].row /\ s.todo # "resume"
    <3>1. [pass[r] EXCEPT !.todo = todo] \in Seen
      BY <1>0, SeenRows
    <3>2. pass' = [pass EXCEPT ![r] = [pass[r] EXCEPT !.todo = todo]]
      BY <1>0, <1>1 DEF Decide
    <3>3. /\ [pass[r] EXCEPT !.todo = todo].row = pass[r].row
          /\ [pass[r] EXCEPT !.todo = todo].todo # "resume"
      BY <1>0, <1>1, SeenRows DEF Seen
    <3> QED
      BY <3>1, <3>2, <3>3
  <2> QED
    BY <1>0, <1>1, <2>1, PassStep DEF Rows, TypeOK
<1>2. CASE Resume(r)
  <2>1. /\ jobs' = Enqueued(r, "reaper") /\ Len(jobs) < MaxJobs
        /\ pass[r].row.resumes < MAX_RESUMES
        /\ pass' = [pass EXCEPT ![r].todo = "resume", ![r].job = Len(jobs) + 1]
        /\ UNCHANGED <<rowvars, work, faults, history>>
    BY <1>2 DEF Resume
  <2>2. /\ jobs' \in Seq(Job) /\ Len(jobs') <= MaxJobs
        /\ DOMAIN jobs \subseteq DOMAIN jobs' /\ Len(jobs) + 1 \in 1..MaxJobs
        /\ \A j \in DOMAIN jobs : jobs'[j] = jobs[j]
    BY <2>1, NewJob
  <2>3. PICK s \in Seen : /\ pass' = [pass EXCEPT ![r] = s] /\ s.row = pass[r].row
    <3>1. [pass[r] EXCEPT !.todo = "resume", !.job = Len(jobs) + 1] \in Seen
      <4>1. pass[r] \in Seen /\ Len(jobs) + 1 \in 0..MaxJobs
        BY <1>0, <2>2, SeenRows
      <4> QED
        BY <4>1 DEF Seen, Verdict
    <3>2. pass' = [pass EXCEPT ![r] = [pass[r] EXCEPT !.todo = "resume", !.job = Len(jobs) + 1]]
      BY <1>0, <2>1 DEF Seen
    <3>3. [pass[r] EXCEPT !.todo = "resume", !.job = Len(jobs) + 1].row = pass[r].row
      BY <1>0, SeenRows DEF Seen
    <3> QED
      BY <3>1, <3>2, <3>3
  <2> QED
    BY <1>0, <2>1, <2>2, <2>3, PassStep
<1> QED
  BY <1>1, <1>2 DEF Unknown, Judge, Alive, Wait, Bury

LEMMA PassRows ==
    ASSUME Rows, Scan \/ CommitPass \/ Interrupt
    PROVE  Rows'
<1>0. /\ run \in [Runs -> Row] /\ silent \in [Runs -> Silence] /\ interrupts \in Nat
      /\ DOMAIN pass \subseteq Runs
  BY DEF Rows, TypeOK, Held
<1>1. CASE Scan
  <2> DEFINE stale == {s \in Runs : Open(s) /\ silent[s] > 0}
             read == [r \in stale |->
                        [row |-> run[r], silent |-> silent[r], todo |-> "judge", job |-> 0]]
  <2>1. pass' = read /\ UNCHANGED <<rowvars, jobs, work, faults, history>>
    BY <1>1 DEF Scan
  <2>2. \A r \in stale : /\ [row |-> run[r], silent |-> silent[r], todo |-> "judge", job |-> 0] \in Seen
                         /\ run[r].status # "none"
    BY <1>0, FaultAssumption DEF Seen, Verdict, Open, ACTIVE
  <2>3. read \in [stale -> Seen] /\ stale \subseteq Runs
    BY <2>2
  <2>4. /\ DOMAIN pass' \subseteq Runs /\ pass' \in [DOMAIN pass' -> Seen]
        /\ \A r \in DOMAIN pass' : run[r].status # "none" /\ pass'[r].row = run[r]
                                   /\ pass'[r].todo # "resume"
    BY <2>1, <2>2, <2>3
  <2> HIDE DEF stale, read
  <2>5. TypeOK'
    BY <2>1, <2>4 DEF Rows, TypeOK, rowvars, faults, history
  <2>6. Held'
    BY <2>1, <2>4 DEF Rows, Held, rowvars
  <2> QED
    BY <2>5, <2>6 DEF Rows
<1>2. CASE CommitPass
  <2>1. /\ run' = [r \in Runs |-> IF r \in DOMAIN pass THEN Recovered(r) ELSE run[r]]
        /\ silent' = [r \in Runs |-> IF r \in DOMAIN pass /\ ~Free(r) THEN 0 ELSE silent[r]]
        /\ pass' = NoPass /\ UNCHANGED <<pressed, jobs, work, faults, history>>
    BY <1>2 DEF CommitPass
  <2>2. \A r \in DOMAIN pass : Recovered(r) \in Row /\ Recovered(r).status # "none"
    <3> SUFFICES ASSUME NEW r \in DOMAIN pass PROVE Recovered(r) \in Row /\ Recovered(r).status # "none"
      OBVIOUS
    <3>1. /\ run[r] \in Row /\ run[r].status # "none"
          /\ pass[r].row.resumes \in 0..MAX_RESUMES /\ pass[r].job \in 0..MaxJobs
      BY <1>0, SeenRows DEF Rows, Held, Row
    <3>2. CASE pass[r].todo = "resume"
      <4>1. pass[r].row.resumes + 1 \in 0..MAX_RESUMES
        BY <3>1, <3>2 DEF Rows, Held, MAX_RESUMES
      <4> QED
        BY <3>1, <3>2, <4>1 DEF Recovered, Row
    <3>3. CASE pass[r].todo = "stop"
      BY <3>1, <3>3 DEF Recovered, Row, RunStatus
    <3>4. CASE pass[r].todo \notin {"resume", "stop"}
      BY <3>1, <3>4 DEF Recovered
    <3> QED
      BY <3>2, <3>3, <3>4
  <2>3. run' \in [Runs -> Row] /\ silent' \in [Runs -> Silence]
    BY <1>0, <2>1, <2>2 DEF Silence
  <2>4. \A r \in Runs : run'[r].status = "none" <=> run[r].status = "none"
    BY <1>0, <2>1, <2>2 DEF Rows, Held
  <2>5. DOMAIN pass' = {} /\ pass' \in [{} -> Seen]
    BY <2>1, EmptyPass
  <2>6. TypeOK'
    BY <2>1, <2>3, <2>5 DEF Rows, TypeOK, faults, history
  <2>7. Held'
    <3>1. \A p \in Procs : work[p].at \in Working => work[p].run \in Runs
      BY DEF Rows, Held, Working
    <3> QED
      BY <2>1, <2>4, <2>5, <3>1 DEF Rows, Held
  <2> QED
    BY <2>6, <2>7 DEF Rows
<1>3. CASE Interrupt
  <2>1. /\ interrupts' = interrupts + 1 /\ pass' = NoPass
        /\ UNCHANGED <<rowvars, jobs, work, deaths, blackouts, history>>
    BY <1>3 DEF Interrupt
  <2>2. DOMAIN pass' = {} /\ pass' \in [{} -> Seen]
    BY <2>1, EmptyPass
  <2>3. TypeOK'
    <3>1. \E S \in SUBSET Runs : pass' \in [S -> Seen]
      BY <2>2
    <3> QED
      BY <1>0, <2>1, <3>1 DEF Rows, TypeOK, rowvars, history
  <2>4. Held'
    BY <2>1, <2>2 DEF Rows, Held, rowvars
  <2> QED
    BY <2>3, <2>4 DEF Rows
<1> QED
  BY <1>1, <1>2, <1>3

LEMMA NextRows == Rows /\ [Next]_vars => Rows'
<1> SUFFICES ASSUME Rows, [Next]_vars PROVE Rows'
  OBVIOUS
<1>1. CASE UNCHANGED vars
  BY <1>1 DEF vars, rowvars, faults, history, Rows, TypeOK, Held
<1>2. CASE Next
  BY <1>2, StartRows, StepRows, QueueRows, JudgeRows, PassRows DEF Next, Start, Reaper
<1> QED
  BY <1>1, <1>2

\* Every reachable state has its types: the reaper never counts beyond
\* MAX_RESUMES, and no write makes a run out of nothing (lifecycle.recover).
THEOREM TypeCorrect == Spec => []TypeOK
<1>1. Rows => TypeOK
  BY DEF Rows
<1> QED
  BY <1>1, InitRows, NextRows, PTL DEF Spec

-----------------------------------------------------------------------------
(* One live job.  OneLiveJob is not inductive: the job a run may have beside *)
(* the lost ones is the one the reaper looks at, or the one it has just      *)
(* queued and not committed; a run that is not committed has that of its     *)
(* start.                                                                    *)

Live(r) == {j \in DOMAIN jobs : jobs[j].run = r /\ job_alive(j)}

Known(r) ==
    IF r \in DOMAIN pass /\ pass[r].todo = "resume" THEN pass[r].job ELSE run[r].job

OneKnown ==
    \A r \in Runs :
      IF run[r].status = "none"
      THEN \E j : Live(r) \subseteq {j} /\ (pressed[r] # 0 => j = pressed[r])
      ELSE Cardinality(Live(r) \ {Known(r)}) <= interrupts

LEMMA LiveSets ==
    ASSUME TypeOK
    PROVE  \A r \in Runs : \A S : S \subseteq Live(r) =>
             /\ IsFiniteSet(S) /\ Cardinality(S) \in Nat
             /\ \A T : T \subseteq S => Cardinality(T) <= Cardinality(S)
<1> SUFFICES ASSUME NEW r \in Runs, NEW S, S \subseteq Live(r)
             PROVE  /\ IsFiniteSet(S) /\ Cardinality(S) \in Nat
                    /\ \A T : T \subseteq S => Cardinality(T) <= Cardinality(S)
  OBVIOUS
<1>1. DOMAIN jobs = 1..Len(jobs) /\ Len(jobs) \in Nat
  BY LenProperties DEF TypeOK
<1>2. IsFiniteSet(1..Len(jobs))
  BY <1>1, FS_Interval
<1>3. S \in SUBSET (1..Len(jobs))
  BY <1>1 DEF Live
<1>4. IsFiniteSet(S)
  BY <1>2, <1>3, FS_Subset
<1> QED
  BY <1>4, FS_Subset, FS_CardinalityType

LEMMA InitKnown == Init => OneKnown
BY DEF Init, OneKnown, Live, NoRow

\* A run to which the step binds no job, and of which no job comes to life.
LEMMA CalmRun ==
    ASSUME Rows, OneKnown, NEW r \in Runs, Live(r)' \subseteq Live(r),
           run'[r].status = "none" <=> run[r].status = "none",
           run[r].status # "none" => Known(r)' = Known(r),
           pressed'[r] \in {0, pressed[r]}, interrupts' = interrupts
    PROVE  IF run'[r].status = "none"
           THEN \E j : Live(r)' \subseteq {j} /\ (pressed'[r] # 0 => j = pressed'[r])
           ELSE Cardinality(Live(r)' \ {Known(r)'}) <= interrupts'
<1>1. CASE run[r].status = "none"
  BY <1>1 DEF OneKnown
<1>2. CASE run[r].status # "none"
  <2>1. Live(r)' \ {Known(r)'} \subseteq Live(r) \ {Known(r)}
    BY <1>2
  <2>2. /\ Cardinality(Live(r)' \ {Known(r)'}) <= Cardinality(Live(r) \ {Known(r)})
        /\ Cardinality(Live(r)' \ {Known(r)'}) \in Nat /\ Cardinality(Live(r) \ {Known(r)}) \in Nat
    BY <2>1, LiveSets DEF Rows
  <2>3. Cardinality(Live(r) \ {Known(r)}) <= interrupts /\ interrupts \in Nat
    BY <1>2 DEF OneKnown, Rows, TypeOK
  <2> QED
    BY <1>2, <2>2, <2>3
<1> QED
  BY <1>1, <1>2

LEMMA CalmKnown ==
    ASSUME Rows, OneKnown, Calm
    PROVE  OneKnown'
<1> SUFFICES ASSUME NEW r \in Runs
             PROVE  IF run'[r].status = "none"
                    THEN \E j : Live(r)' \subseteq {j} /\ (pressed'[r] # 0 => j = pressed'[r])
                    ELSE Cardinality(Live(r)' \ {Known(r)'}) <= interrupts'
  BY DEF OneKnown
<1>1. jobs \in Seq(Job) /\ jobs' \in Seq(Job) /\ Len(jobs') = Len(jobs)
  BY DEF Calm, Kept, Rows, TypeOK
<1>2. DOMAIN jobs' = DOMAIN jobs /\ \A j \in DOMAIN jobs : jobs[j] \in Job
  BY <1>1, LenProperties
<1>3. \A j \in DOMAIN jobs : job_alive(j)' => job_alive(j)
  BY <1>2 DEF Calm, Kept, job_alive, Job
<1>4. Live(r)' \subseteq Live(r)
  BY <1>2, <1>3 DEF Live, Calm, Kept
<1>5. /\ run'[r].status = "none" <=> run[r].status = "none"
      /\ Known(r)' = Known(r) /\ pressed' = pressed /\ interrupts' = interrupts
  BY DEF Calm, Known
<1> QED
  BY <1>4, <1>5, CalmRun

LEMMA StartKnown ==
    ASSUME Rows, OneKnown, NEW s \in Runs,
           Press(s) \/ CommitStart(s) \/ RollBackStart(s) \/ ConsoleStart(s)
    PROVE  OneKnown'
<1> SUFFICES ASSUME NEW r \in Runs
             PROVE  IF run'[r].status = "none"
                    THEN \E j : Live(r)' \subseteq {j} /\ (pressed'[r] # 0 => j = pressed'[r])
                    ELSE Cardinality(Live(r)' \ {Known(r)'}) <= interrupts'
  BY DEF OneKnown
<1>0. /\ run \in [Runs -> Row] /\ pressed \in [Runs -> 0..MaxJobs] /\ interrupts \in Nat
      /\ DOMAIN pass \subseteq Runs
  BY DEF Rows, TypeOK, Held
<1>1. interrupts' = interrupts /\ pass' = pass
  BY DEF Press, CommitStart, RollBackStart, ConsoleStart, faults
<1>2. CASE jobs' = jobs /\ (r # s \/ RollBackStart(s))
  <2>1. Live(r)' = Live(r)
    BY <1>2 DEF Live, job_alive
  <2>2. run'[r] = run[r] /\ pressed'[r] \in {0, pressed[r]}
    BY <1>0, <1>2 DEF Press, CommitStart, RollBackStart, ConsoleStart
  <2>3. Known(r)' = Known(r)
    BY <1>1, <2>2 DEF Known
  <2> QED
    BY <1>1, <2>1, <2>2, <2>3, CalmRun
<1>3. CASE Press(s)
  <2>1. Len(jobs) < MaxJobs /\ jobs' = Enqueued(s, "person") /\ run' = run
        /\ pressed' = [pressed EXCEPT ![s] = Len(jobs) + 1]
    BY <1>3 DEF Press
  <2>2. jobs'[Len(jobs) + 1] = [run |-> s, state |-> "queued", by |-> "person"]
    BY <2>1, NewJob
  <2>3. /\ DOMAIN jobs' = DOMAIN jobs \cup {Len(jobs) + 1}
        /\ \A j \in DOMAIN jobs : jobs'[j] = jobs[j]
    BY <2>1, NewJob
  <2>4. CASE r = s
    <3>1. run'[r].status = "none" /\ \A j \in DOMAIN jobs : jobs[j].run # s
      BY <1>3, <2>1, <2>4 DEF Press, Unused
    <3>2. Live(r)' \subseteq {Len(jobs) + 1}
      BY <2>3, <2>4, <3>1 DEF Live
    <3>3. pressed'[r] = Len(jobs) + 1
      BY <1>0, <2>1, <2>4
    <3> QED
      BY <3>1, <3>2, <3>3
  <2>5. CASE r # s
    <3>1. Live(r)' \subseteq Live(r)
      BY <2>2, <2>3, <2>5 DEF Live, job_alive
    <3>2. pressed'[r] = pressed[r] /\ Known(r)' = Known(r)
      BY <1>0, <1>1, <2>1, <2>5 DEF Known
    <3> QED
      BY <1>1, <2>1, <3>1, <3>2, CalmRun
  <2> QED
    BY <2>4, <2>5
<1>4. CASE CommitStart(s) /\ r = s
  <2>1. /\ pressed[r] # 0 /\ jobs' = jobs
        /\ run' = [run EXCEPT ![r] = [NoRow EXCEPT !.status = "queued", !.job = pressed[r]]]
    BY <1>4 DEF CommitStart
  <2>2. run[r].status = "none"
    BY <2>1 DEF Rows, Held
  <2>3. r \notin DOMAIN pass
    BY <2>2 DEF Rows, Held
  <2>4. run'[r].status = "queued" /\ run'[r].job = pressed[r]
    BY <1>0, <2>1 DEF NoRow
  <2>5. Live(r)' \subseteq {pressed[r]}
    <3>1. Live(r)' = Live(r)
      BY <2>1 DEF Live, job_alive
    <3> QED
      BY <2>1, <2>2, <3>1 DEF OneKnown
  <2>6. Known(r)' = pressed[r]
    BY <1>1, <2>3, <2>4 DEF Known
  <2>7. Cardinality(Live(r)' \ {Known(r)'}) = 0
    <3>1. Live(r)' \ {Known(r)'} = {}
      BY <2>5, <2>6
    <3> QED
      BY <3>1, FS_EmptySet
  <2> QED
    BY <1>0, <1>1, <2>4, <2>7
<1>5. CASE ConsoleStart(s) /\ r = s
  <2>1. jobs' = jobs /\ Live(r) = {} /\ run' = [run EXCEPT ![r] = [NoRow EXCEPT !.status = "running", !.found = TRUE]]
    BY <1>5 DEF ConsoleStart, Unused, Live
  <2>2. Live(r)' = {}
    BY <2>1 DEF Live, job_alive
  <2>3. run'[r].status # "none"
    BY <1>0, <2>1 DEF NoRow
  <2>4. Cardinality(Live(r)' \ {Known(r)'}) = 0
    <3>1. Live(r)' \ {Known(r)'} = {}
      BY <2>2
    <3> QED
      BY <3>1, FS_EmptySet
  <2> QED
    BY <1>0, <1>1, <2>3, <2>4
<1> QED
  BY <1>2, <1>3, <1>4, <1>5 DEF CommitStart, RollBackStart, ConsoleStart

LEMMA JudgeKnown ==
    ASSUME Rows, OneKnown, NEW s \in Runs, Unknown(s) \/ Judge(s)
    PROVE  OneKnown'
<1> SUFFICES ASSUME NEW r \in Runs
             PROVE  IF run'[r].status = "none"
                    THEN \E j : Live(r)' \subseteq {j} /\ (pressed'[r] # 0 => j = pressed'[r])
                    ELSE Cardinality(Live(r)' \ {Known(r)'}) <= interrupts'
  BY DEF OneKnown
<1>0. s \in DOMAIN pass /\ pass[s].todo = "judge" /\ pass \in [DOMAIN pass -> Seen]
  BY DEF Unknown, Judge, Alive, Resume, Wait, Bury, Dead, Judging, Rows, Held
<1>1. run' = run /\ pressed' = pressed /\ interrupts' = interrupts
  BY DEF Unknown, Judge, Alive, Resume, Wait, Bury, rowvars, faults
<1>2. ASSUME NEW todo \in {"leave", "stop"}, Decide(s, todo), jobs' = jobs
      PROVE  Known(r)' = Known(r) /\ Live(r)' = Live(r)
  <2>1. Live(r)' = Live(r)
    BY <1>2 DEF Live, job_alive
  <2>2. DOMAIN pass' = DOMAIN pass /\ \A q \in DOMAIN pass : q # s => pass'[q] = pass[q]
    BY <1>0, <1>2 DEF Decide
  <2>3. pass'[s].todo # "resume"
    BY <1>0, <1>2 DEF Decide, Seen
  <2> QED
    BY <1>0, <1>1, <2>1, <2>2, <2>3 DEF Known
<1>3. CASE Resume(s)
  <2>1. /\ jobs' = Enqueued(s, "reaper") /\ Len(jobs) < MaxJobs
        /\ pass' = [pass EXCEPT ![s].todo = "resume", ![s].job = Len(jobs) + 1]
        /\ ~job_alive(pass[s].row.job)
    BY <1>3 DEF Resume, Dead
  <2>2. jobs'[Len(jobs) + 1] = [run |-> s, state |-> "queued", by |-> "reaper"]
    BY <2>1, NewJob
  <2>3. /\ DOMAIN jobs' = DOMAIN jobs \cup {Len(jobs) + 1}
        /\ \A j \in DOMAIN jobs : jobs'[j] = jobs[j]
    BY <2>1, NewJob
  <2>4. /\ DOMAIN pass' = DOMAIN pass /\ \A q \in DOMAIN pass : q # s => pass'[q] = pass[q]
        /\ pass'[s].todo = "resume" /\ pass'[s].job = Len(jobs) + 1
    BY <1>0, <2>1 DEF Seen
  <2>5. CASE r # s
    <3>1. Live(r)' \subseteq Live(r)
      BY <2>2, <2>3, <2>5 DEF Live, job_alive
    <3>2. Known(r)' = Known(r)
      BY <1>1, <2>4, <2>5 DEF Known
    <3> QED
      BY <1>1, <3>1, <3>2, CalmRun
  <2>6. CASE r = s
    <3>1. run[r].status # "none" /\ pass[r].row.job = run[r].job
      BY <1>0, <2>6 DEF Rows, Held
    <3>2. Known(r) = run[r].job /\ Known(r) \notin Live(r)
      BY <1>0, <2>1, <2>6, <3>1 DEF Known, Live
    <3>3. Known(r)' = Len(jobs) + 1
      BY <1>0, <2>4, <2>6 DEF Known
    <3>4. Live(r)' \ {Known(r)'} \subseteq Live(r) \ {Known(r)}
      BY <2>3, <3>2, <3>3 DEF Live, job_alive
    <3>5. Cardinality(Live(r) \ {Known(r)}) <= interrupts /\ interrupts \in Nat
      BY <3>1 DEF OneKnown, Rows, TypeOK
    <3>6. /\ Cardinality(Live(r)' \ {Known(r)'}) <= Cardinality(Live(r) \ {Known(r)})
          /\ Cardinality(Live(r)' \ {Known(r)'}) \in Nat /\ Cardinality(Live(r) \ {Known(r)}) \in Nat
      BY <3>4, LiveSets DEF Rows
    <3> QED
      BY <1>1, <3>1, <3>5, <3>6
  <2> QED
    BY <2>5, <2>6
<1>4. CASE ~Resume(s)
  <2>1. Known(r)' = Known(r) /\ Live(r)' = Live(r)
    BY <1>2, <1>4 DEF Unknown, Judge, Alive, Wait, Bury
  <2> QED
    BY <1>1, <2>1, CalmRun
<1> QED
  BY <1>3, <1>4

LEMMA PassKnown ==
    ASSUME Rows, OneKnown, Scan \/ CommitPass \/ Interrupt
    PROVE  OneKnown'
<1> SUFFICES ASSUME NEW r \in Runs
             PROVE  IF run'[r].status = "none"
                    THEN \E j : Live(r)' \subseteq {j} /\ (pressed'[r] # 0 => j = pressed'[r])
                    ELSE Cardinality(Live(r)' \ {Known(r)'}) <= interrupts'
  BY DEF OneKnown
<1>0. run \in [Runs -> Row] /\ interrupts \in Nat
  BY DEF Rows, TypeOK
<1>1. jobs' = jobs /\ pressed' = pressed /\ Live(r)' = Live(r)
  BY DEF Scan, CommitPass, Interrupt, rowvars, Live, job_alive
<1>2. CASE Scan
  <2>1. run' = run /\ interrupts' = interrupts /\ pass = NoPass
    BY <1>2 DEF Scan, rowvars, faults
  <2>2. \A q \in DOMAIN pass' : pass'[q].todo # "resume"
    BY <1>2 DEF Scan
  <2>3. Known(r)' = Known(r)
    BY <2>1, <2>2, EmptyPass DEF Known
  <2> QED
    BY <1>1, <2>1, <2>3, CalmRun
<1>3. CASE CommitPass
  <2>1. /\ run' = [q \in Runs |-> IF q \in DOMAIN pass THEN Recovered(q) ELSE run[q]]
        /\ pass' = NoPass /\ interrupts' = interrupts
    BY <1>3 DEF CommitPass, faults
  <2>2. r \in DOMAIN pass => run[r].status # "none" /\ Recovered(r).status # "none"
    BY <1>0 DEF Rows, Held, Recovered, Row
  <2>3. r \in DOMAIN pass => Recovered(r).job = Known(r)
    BY <1>0 DEF Recovered, Known, Row
  <2>4. r \notin DOMAIN pass => Known(r) = run[r].job
    BY DEF Known
  <2>5. Known(r)' = run'[r].job
    BY <2>1, EmptyPass DEF Known
  <2>6. Known(r)' = Known(r) /\ (run'[r].status = "none" <=> run[r].status = "none")
    BY <2>1, <2>2, <2>3, <2>4, <2>5
  <2> QED
    BY <1>1, <2>1, <2>6, CalmRun
<1>4. CASE Interrupt
  <2>1. run' = run /\ interrupts' = interrupts + 1
    BY <1>4 DEF Interrupt, rowvars
  <2>2. CASE run[r].status = "none"
    BY <1>1, <2>1, <2>2 DEF OneKnown
  <2>3. CASE run[r].status # "none"
    <3> DEFINE A == Live(r) \ {Known(r)}
               B == Live(r) \ {Known(r)'}
    <3>1. /\ IsFiniteSet(A) /\ Cardinality(A) \in Nat
          /\ IsFiniteSet(B) /\ Cardinality(B) \in Nat
      BY LiveSets DEF Rows
    <3>2. Cardinality(A) <= interrupts
      BY <2>3 DEF OneKnown
    <3>3. /\ IsFiniteSet(A \cup {Known(r)})
          /\ Cardinality(A \cup {Known(r)}) <= Cardinality(A) + 1
          /\ Cardinality(A \cup {Known(r)}) \in Nat
      <4> HIDE DEF A
      <4>1. IsFiniteSet(A \cup {Known(r)})
        BY <3>1, FS_AddElement
      <4>2. Cardinality(A \cup {Known(r)}) \in Nat
        BY <4>1, FS_CardinalityType
      <4>3. Cardinality(A \cup {Known(r)})
              = IF Known(r) \in A THEN Cardinality(A) ELSE Cardinality(A) + 1
        BY <3>1, FS_AddElement
      <4> QED
        BY <3>1, <4>1, <4>2, <4>3
    <3>4. B \subseteq A \cup {Known(r)}
      OBVIOUS
    <3>5. Cardinality(B) <= Cardinality(A \cup {Known(r)})
      <4> HIDE DEF A, B
      <4> QED
        BY <3>3, <3>4, FS_Subset
    <3>6. Live(r)' \ {Known(r)'} = B
      BY <1>1
    <3>7. Cardinality(B) <= interrupts + 1
      <4> HIDE DEF A, B
      <4> QED
        BY <1>0, <3>1, <3>2, <3>3, <3>5
    <3> QED
      BY <2>1, <2>3, <3>6, <3>7
  <2> QED
    BY <2>2, <2>3
<1> QED
  BY <1>2, <1>3, <1>4

LEMMA NextKnown == Rows /\ OneKnown /\ [Next]_vars => OneKnown'
<1> SUFFICES ASSUME Rows, OneKnown, [Next]_vars PROVE OneKnown'
  OBVIOUS
<1>1. CASE UNCHANGED vars
  BY <1>1 DEF vars, rowvars, faults, OneKnown, Live, Known, job_alive
<1>2. CASE Next
  BY <1>2, StepRows, QueueRows, CalmKnown, StartKnown, JudgeKnown, PassKnown
  DEF Next, Start, Reaper
<1> QED
  BY <1>1, <1>2

\* A run never has two live jobs, but for those of passes that queued a job and
\* did not commit: the reaper asks the queue for the job of the row before it
\* queues another, and the row cannot change under it (lifecycle.recover).
THEOREM OneLiveJobHolds == Spec => []OneLiveJob
<1>1. Rows /\ OneKnown => OneLiveJob
  <2> SUFFICES ASSUME Rows, OneKnown, NEW r \in Runs
               PROVE  Cardinality(Live(r)) <= 1 + interrupts
    BY DEF OneLiveJob, Live
  <2>0. interrupts \in Nat /\ IsFiniteSet(Live(r)) /\ Cardinality(Live(r)) \in Nat
    BY LiveSets DEF Rows, TypeOK
  <2>1. CASE run[r].status = "none"
    <3>1. PICK j : Live(r) \subseteq {j}
      BY <2>1 DEF OneKnown
    <3>2. IsFiniteSet({j}) /\ Cardinality({j}) = 1
      BY FS_Singleton
    <3>3. Cardinality(Live(r)) <= 1
      BY <3>1, <3>2, FS_Subset
    <3> QED
      BY <2>0, <3>3
  <2>2. CASE run[r].status # "none"
    <3>1. Cardinality(Live(r) \ {Known(r)}) <= interrupts
      BY <2>2 DEF OneKnown
    <3>2. Cardinality(Live(r) \ {Known(r)}) >= Cardinality(Live(r)) - 1
      BY <2>0, FS_RemoveElement
    <3>3. Cardinality(Live(r) \ {Known(r)}) \in Nat
      BY LiveSets DEF Rows
    <3> QED
      BY <2>0, <3>1, <3>2, <3>3
  <2> QED
    BY <2>1, <2>2
<1> QED
  BY <1>1, InitRows, NextRows, InitKnown, NextKnown, PTL DEF Spec

-----------------------------------------------------------------------------
(* What a process does to its job, to what it knows, to its run.  As long as *)
(* the reaper sees every job, each run has one process at most: the job of   *)
(* a process lives, and there is one live job.                               *)

Moves(p) ==
    /\ work[p].at # "idle"
    /\ \A q \in Procs : q # p => work'[q] = work[q]
    /\ \/ work'[p].at = "idle" /\ jobs' = Ended(jobs, work[p].job)
       \/ work'[p].at = "idle" /\ jobs' = jobs /\ p \in Runs
       \/ /\ work'[p].at # "idle" /\ jobs' = jobs
          /\ work'[p].run = work[p].run /\ work'[p].job = work[p].job

Reads(p) ==
    work'[p].at \in Working =>
      \/ /\ work[p].at = "taken" /\ work'[p].sees = run[work[p].run]
         /\ QuickPass => work[p].run \notin DOMAIN pass
      \/ /\ work[p].at \in Working
         /\ work'[p].sees.found = work[p].sees.found
         /\ work'[p].sees.resumes = work[p].sees.resumes

Writes(p) ==
    /\ \A q \in Runs : q # work[p].run => run'[q] = run[q]
    /\ \/ run'[work[p].run].resumes = run[work[p].run].resumes
       \/ work[p].at \in Working /\ run'[work[p].run].resumes = work[p].sees.resumes

Pays(p) ==
    \/ /\ work[p].at = "running" /\ work'[p].at = "bought" /\ ~work[p].sees.found
       /\ bought' = [bought EXCEPT ![work[p].run] = @ + 1] /\ lost' = lost
       /\ run'[work[p].run].found = run[work[p].run].found
    \/ /\ work[p].at = "bought" /\ work'[p].at = "listed"
       /\ run'[work[p].run].found /\ bought' = bought /\ lost' = lost
    \/ /\ work[p].at = "bought" /\ work'[p].at \in {"idle", "failing"}
       /\ run'[work[p].run].found = run[work[p].run].found
       /\ bought' = bought /\ lost' = [lost EXCEPT ![work[p].run] = @ + 1]
    \/ /\ work[p].at = "bought" <=> work'[p].at = "bought"
       /\ work'[p].at \in {"loaded", "running"} => work'[p].at = work[p].at \/ work[p].at \in {"taken", "loaded"}
       /\ run'[work[p].run].found = run[work[p].run].found /\ bought' = bought /\ lost' = lost

Steps(p) == Moves(p) /\ Reads(p) /\ Writes(p) /\ Pays(p)

\* How a process changes its own state.
LEMMA AtMoves ==
    ASSUME Rows, NEW p \in Procs,
           NEW at \in {"taken", "loaded", "running", "bought", "listed", "collecting", "failing"},
           At(p, at)
    PROVE  /\ work'[p].at = at /\ work'[p].run = work[p].run /\ work'[p].job = work[p].job
           /\ work'[p].sees = work[p].sees
           /\ \A q \in Procs : q # p => work'[q] = work[q]
<1>1. work \in [Procs -> Work]
  BY DEF Rows, TypeOK
<1> QED
  BY <1>1 DEF At, Set, Work

LEMMA ReleaseMoves ==
    ASSUME Rows, NEW p \in Procs, Release(p)
    PROVE  /\ work'[p].at = "idle" /\ jobs' = Ended(jobs, work[p].job)
           /\ \A q \in Procs : q # p => work'[q] = work[q]
BY DEF Rows, TypeOK, Release, Set, Idle

LEMMA FailMoves ==
    ASSUME Rows, NEW p \in Procs, NEW fatal, Fail(p, fatal)
    PROVE  /\ \A q \in Procs : q # p => work'[q] = work[q]
           /\ \/ work'[p].at = "idle" /\ p \in Runs
              \/ work'[p].at = "failing" /\ work'[p].run = work[p].run /\ work'[p].job = work[p].job
<1>1. work \in [Procs -> Work]
  BY DEF Rows, TypeOK
<1>2. CASE p \in Runs
  BY <1>1, <1>2 DEF Fail, Set, Idle
<1>3. CASE p \notin Runs
  BY <1>1, <1>3 DEF Fail, Set, Work
<1> QED
  BY <1>2, <1>3

\* The fields a row keeps.
LEMMA RowKeeps ==
    ASSUME NEW row \in Row
    PROVE  /\ \A s : /\ [row EXCEPT !.status = s].found = row.found
                     /\ [row EXCEPT !.status = s].resumes = row.resumes
           /\ \A n : /\ [row EXCEPT !.resumes = n].found = row.found
                     /\ [row EXCEPT !.resumes = n].resumes = n
                     /\ \A s : /\ [[row EXCEPT !.resumes = n] EXCEPT !.status = s].found = row.found
                               /\ [[row EXCEPT !.resumes = n] EXCEPT !.status = s].resumes = n
           /\ [row EXCEPT !.found = TRUE].found /\ [row EXCEPT !.found = TRUE].resumes = row.resumes
           /\ [row EXCEPT !.priced = TRUE].found = row.found
           /\ [row EXCEPT !.priced = TRUE].resumes = row.resumes
BY DEF Row

LEMMA ProcSteps ==
    ASSUME Rows, NEW p \in Procs, Step(p) \/ touch(p) \/ Die(p)
    PROVE  Steps(p)
<1> DEFINE r == work[p].run
<1>0. /\ run \in [Runs -> Row] /\ work \in [Procs -> Work] /\ lost \in [Runs -> Nat]
  BY DEF Rows, TypeOK
<1>1. ASSUME work[p].at # "idle" PROVE r \in Runs /\ run[r] \in Row
  BY <1>0, <1>1, WorkStates
<1>2. CASE Load(p)
  <2>1. /\ work[p].at = "taken"
        /\ QuickPass => r \notin DOMAIN pass
        /\ UNCHANGED <<run, jobs, bought, lost>>
    BY <1>2 DEF Load, rowvars, history
  <2>2. /\ \A q \in Procs : q # p => work'[q] = work[q]
        /\ work'[p].run = r /\ work'[p].job = work[p].job
        /\ \/ work'[p].at = "failing"
           \/ work'[p].at = "loaded" /\ work'[p].sees = run[r]
    <3>1. CASE At(p, "failing")
      BY <3>1, AtMoves
    <3>2. CASE Set(p, [work[p] EXCEPT !.at = "loaded", !.sees = run[r]])
      BY <1>0, <3>2 DEF Set, Work
    <3> QED
      BY <1>2, <3>1, <3>2 DEF Load
  <2> QED
    BY <2>1, <2>2 DEF Steps, Moves, Reads, Writes, Pays, Working
<1>3. CASE mark_running(p)
  <2>1. work[p].at = "loaded" /\ UNCHANGED <<jobs, bought, lost>> /\ r \in Runs /\ run[r] \in Row
    BY <1>1, <1>3 DEF mark_running, history
  <2>2. /\ \A q \in Procs : q # p => work'[q] = work[q]
        /\ work'[p].run = r /\ work'[p].job = work[p].job /\ work'[p].at = "running"
        /\ work'[p].sees.found = work[p].sees.found
        /\ work'[p].sees.resumes = work[p].sees.resumes
    <3>1. work[p] \in Work /\ work[p].sees \in Row
      BY WorkStates
    <3>2. work' = [work EXCEPT ![p] = [work[p] EXCEPT !.at = "running", !.sees.status = "running"]]
      BY <1>3 DEF mark_running, Set
    <3>3. work'[p] = [work[p] EXCEPT !.at = "running", !.sees = [work[p].sees EXCEPT !.status = "running"]]
      BY <1>0, <3>1, <3>2 DEF Work
    <3> QED
      BY <1>0, <3>1, <3>2, <3>3, RowKeeps DEF Work
  <2>3. /\ \A q \in Runs : q # r => run'[q] = run[q]
        /\ run'[r].found = run[r].found /\ run'[r].resumes = run[r].resumes
    BY <1>0, <1>3, <2>1, RowKeeps DEF mark_running, Write
  <2> QED
    BY <2>1, <2>2, <2>3 DEF Steps, Moves, Reads, Writes, Pays, Working
<1>4. CASE Restored(p) \/ Buy(p)
  <2>1. /\ work[p].at = "running" /\ UNCHANGED <<run, jobs, lost>>
        /\ \/ At(p, "listed") /\ bought' = bought
           \/ At(p, "bought") /\ ~work[p].sees.found /\ bought' = [bought EXCEPT ![r] = @ + 1]
    BY <1>4 DEF Restored, Buy, rowvars, history
  <2>2. /\ \A q \in Procs : q # p => work'[q] = work[q]
        /\ work'[p].run = r /\ work'[p].job = work[p].job /\ work'[p].sees = work[p].sees
        /\ \/ work'[p].at = "listed" /\ bought' = bought
           \/ /\ work'[p].at = "bought" /\ ~work[p].sees.found
              /\ bought' = [bought EXCEPT ![r] = @ + 1]
    BY <2>1, AtMoves
  <2> QED
    BY <2>1, <2>2 DEF Steps, Moves, Reads, Writes, Pays, Working
<1>5. CASE save_candidates(p)
  <2>1. /\ work[p].at = "bought" /\ At(p, "listed") /\ UNCHANGED <<jobs, bought, lost>>
        /\ r \in Runs /\ run[r] \in Row /\ Write(r, [run[r] EXCEPT !.found = TRUE])
    BY <1>1, <1>5 DEF save_candidates, history
  <2>2. /\ \A q \in Procs : q # p => work'[q] = work[q]
        /\ work'[p].run = r /\ work'[p].job = work[p].job /\ work'[p].sees = work[p].sees
        /\ work'[p].at = "listed"
    BY <2>1, AtMoves
  <2>3. /\ \A q \in Runs : q # r => run'[q] = run[q]
        /\ run'[r].found /\ run'[r].resumes = run[r].resumes
    BY <1>0, <2>1, RowKeeps DEF Write
  <2> QED
    BY <2>1, <2>2, <2>3 DEF Steps, Moves, Reads, Writes, Pays, Working
<1>6. CASE Plan(p)
  <2>1. /\ work[p].at = "listed" /\ At(p, "collecting") /\ UNCHANGED <<jobs, bought, lost>>
        /\ r \in Runs /\ run[r] \in Row
        /\ Write(r, IF work[p].sees.priced THEN run[r] ELSE [run[r] EXCEPT !.priced = TRUE])
    BY <1>1, <1>6 DEF Plan, history
  <2>2. /\ \A q \in Procs : q # p => work'[q] = work[q]
        /\ work'[p].run = r /\ work'[p].job = work[p].job /\ work'[p].sees = work[p].sees
        /\ work'[p].at = "collecting"
    BY <2>1, AtMoves
  <2>3. /\ \A q \in Runs : q # r => run'[q] = run[q]
        /\ run'[r].found = run[r].found /\ run'[r].resumes = run[r].resumes
    BY <1>0, <2>1, RowKeeps DEF Write
  <2> QED
    BY <2>1, <2>2, <2>3 DEF Steps, Moves, Reads, Writes, Pays, Working
<1>7. CASE FinishDone(p)
  <2>1. /\ work[p].at = "collecting" /\ Release(p) /\ UNCHANGED <<bought, lost>>
        /\ r \in Runs /\ run[r] \in Row
        /\ run' = [run EXCEPT ![r] = [Reported(p, run[r]) EXCEPT !.status = "done"]]
    BY <1>1, <1>7 DEF FinishDone, history
  <2>2. /\ \A q \in Runs : q # r => run'[q] = run[q]
        /\ run'[r].found = run[r].found /\ run'[r].resumes = work[p].sees.resumes
    BY <1>0, <2>1, RowKeeps DEF Reported
  <2> QED
    BY <2>1, <2>2, ReleaseMoves DEF Steps, Moves, Reads, Writes, Pays, Working
<1>8. CASE FailEarly(p)
  <2>1. PICK fatal \in BOOLEAN : Fail(p, fatal)
    BY <1>8 DEF FailEarly
  <2>2. /\ work[p].at \in {"taken", "loaded", "running", "bought", "listed"}
        /\ UNCHANGED <<run, jobs, bought>>
        /\ lost' = [lost EXCEPT ![r] = IF work[p].at = "bought" THEN @ + 1 ELSE @]
    BY <1>8 DEF FailEarly, rowvars
  <2>3. work[p].at # "bought" => lost' = lost
    BY <1>0, <2>2
  <2> QED
    BY <2>1, <2>2, <2>3, FailMoves DEF Steps, Moves, Reads, Writes, Pays, Working
<1>9. ASSUME NEW fatal \in BOOLEAN, CloseFailed(p, fatal) PROVE Steps(p)
  <2>1. /\ work[p].at = "collecting" /\ Fail(p, fatal) /\ UNCHANGED <<jobs, bought, lost>>
        /\ r \in Runs /\ run[r] \in Row
        /\ run' = [run EXCEPT ![r] = IF fatal THEN [Reported(p, run[r]) EXCEPT !.status = "stopped"]
                                     ELSE Reported(p, run[r])]
    BY <1>0, <1>1, <1>9 DEF CloseFailed, history
  <2>2. /\ \A q \in Runs : q # r => run'[q] = run[q]
        /\ run'[r].found = run[r].found /\ run'[r].resumes = work[p].sees.resumes
    BY <1>0, <2>1, RowKeeps DEF Reported
  <2> QED
    BY <2>1, <2>2, FailMoves DEF Steps, Moves, Reads, Writes, Pays, Working
<1>10. CASE _mark(p)
  <2>1. /\ work[p].at = "failing" /\ Release(p) /\ UNCHANGED <<bought, lost>>
        /\ r \in Runs /\ run[r] \in Row
    BY <1>1, <1>10 DEF _mark, history
  <2>2. /\ \A q \in Runs : q # r => run'[q] = run[q]
        /\ run'[r].found = run[r].found /\ run'[r].resumes = run[r].resumes
    BY <1>0, <1>10, <2>1 DEF _mark, Row
  <2> QED
    BY <2>1, <2>2, ReleaseMoves DEF Steps, Moves, Reads, Writes, Pays, Working
<1>11. CASE touch(p)
  <2>1. work[p].at \in Working /\ UNCHANGED <<run, jobs, work, bought, lost>>
    BY <1>11 DEF touch, Beats, history, Working
  <2> QED
    BY <2>1 DEF Steps, Moves, Reads, Writes, Pays, Working
<1>12. CASE Die(p)
  <2>1. /\ work[p].at # "idle" /\ Release(p) /\ UNCHANGED <<run, bought>>
        /\ lost' = [lost EXCEPT ![r] = IF work[p].at = "bought" THEN @ + 1 ELSE @]
    BY <1>12 DEF Die, rowvars
  <2>2. work[p].at # "bought" => lost' = lost
    BY <1>0, <2>1
  <2> QED
    BY <2>1, <2>2, ReleaseMoves DEF Steps, Moves, Reads, Writes, Pays, Working
<1> QED
  BY <1>2, <1>3, <1>4, <1>5, <1>6, <1>7, <1>8, <1>9, <1>10, <1>11, <1>12 DEF Step

\* A process has a job that runs, and no two have the same; a console has none.
Hands ==
    /\ \A p \in Workers : work[p].at # "idle" =>
         /\ work[p].job \in DOMAIN jobs /\ jobs[work[p].job].run = work[p].run
         /\ jobs[work[p].job].state = "started"
    /\ \A p, q \in Workers :
         work[p].at # "idle" /\ work[q].at # "idle" /\ work[p].job = work[q].job => p = q
    /\ \A r \in Runs : work[r].at # "idle" =>
         work[r].run = r /\ work[r].job = 0 /\ run[r].job = 0 /\ run[r].status # "none"

\* What the reaper has decided on: a run with a job, and one without a living job.
Decided ==
    \A r \in DOMAIN pass :
      /\ pass[r].todo \in {"resume", "stop"} => pass[r].row.job # 0
      /\ pass[r].todo = "stop" => Live(r) = {}

\* A step of the next-state relation, by the kind of its actor.
LEMMA NextKinds ==
    ASSUME Next
    PROVE  \/ \E p \in Procs : Step(p) \/ touch(p) \/ Die(p)
           \/ \E p \in Workers : Take(p)
           \/ \E r \in Runs : Press(r) \/ CommitStart(r) \/ RollBackStart(r) \/ ConsoleStart(r)
           \/ \E r \in Runs : Unknown(r) \/ Judge(r)
           \/ Scan \/ CommitPass \/ Interrupt \/ Blackout
           \/ \E r \in Runs : Tick(r)
BY DEF Next, Start, Reaper

LEMMA SightBack ==
    ASSUME Rows, Next, InSight'
    PROVE  InSight /\ ~Interrupt /\ ~Blackout
<1>0. blackouts \in Nat /\ interrupts \in Nat
  BY DEF Rows, TypeOK
<1>1. ~Interrupt /\ ~Blackout
  BY <1>0 DEF Interrupt, Blackout, InSight
<1>2. UNCHANGED <<blackouts, interrupts>>
  <2>1. ASSUME NEW p \in Procs, Step(p) \/ touch(p) \/ Die(p) PROVE UNCHANGED <<blackouts, interrupts>>
    BY <2>1 DEF Step, touch, Die, Load, mark_running, Restored, Buy, save_candidates, Plan,
                FinishDone, FailEarly, CloseFailed, _mark, faults
  <2>2. ASSUME NEW p \in Workers, Take(p) PROVE UNCHANGED <<blackouts, interrupts>>
    BY <2>2 DEF Take, faults
  <2>3. ASSUME NEW r \in Runs, Press(r) \/ CommitStart(r) \/ RollBackStart(r) \/ ConsoleStart(r)
        PROVE  UNCHANGED <<blackouts, interrupts>>
    BY <2>3 DEF Press, CommitStart, RollBackStart, ConsoleStart, faults
  <2>4. ASSUME NEW r \in Runs, Unknown(r) \/ Judge(r) PROVE UNCHANGED <<blackouts, interrupts>>
    BY <2>4 DEF Unknown, Judge, Alive, Resume, Wait, Bury, faults
  <2>5. CASE Scan \/ CommitPass
    BY <2>5 DEF Scan, CommitPass, faults
  <2>6. ASSUME NEW r \in Runs, Tick(r) PROVE UNCHANGED <<blackouts, interrupts>>
    BY <2>6 DEF Tick, faults
  <2> QED
    BY <1>1, <2>1, <2>2, <2>3, <2>4, <2>5, <2>6, NextKinds
<1> QED
  BY <1>1, <1>2 DEF InSight

\* The one job of a run that may live.
LEMMA OneInSight ==
    ASSUME Rows, OneKnown, InSight, NEW r \in Runs
    PROVE  /\ \E j : Live(r) \subseteq {j}
           /\ run[r].status # "none" => Live(r) \subseteq {Known(r)}
<1>1. CASE run[r].status = "none"
  BY <1>1 DEF OneKnown
<1>2. CASE run[r].status # "none"
  <2> DEFINE A == Live(r) \ {Known(r)}
  <2>1. IsFiniteSet(A) /\ Cardinality(A) \in Nat /\ Cardinality(A) <= 0
    BY <1>2, LiveSets DEF Rows, OneKnown, InSight
  <2>2. A = {}
    <3> HIDE DEF A
    <3> QED
      BY <2>1, FS_EmptySet
  <2> QED
    BY <2>2
<1> QED
  BY <1>1, <1>2

LEMMA JobTypes ==
    ASSUME Rows
    PROVE  /\ jobs \in Seq(Job) /\ DOMAIN jobs = 1..Len(jobs) /\ Len(jobs) \in Nat
           /\ 0 \notin DOMAIN jobs /\ \A j \in DOMAIN jobs : jobs[j] \in Job
BY LenProperties DEF Rows, TypeOK

\* The jobs of others when one ends.
LEMMA OthersLive ==
    ASSUME Rows, NEW i, jobs' = Ended(jobs, i), NEW j \in DOMAIN jobs, j # i
    PROVE  j \in DOMAIN jobs' /\ jobs'[j] = jobs[j]
BY JobTypes DEF Ended

LEMMA LiveHand ==
    ASSUME Hands, NEW p \in Workers, work[p].at # "idle"
    PROVE  work[p].job \in Live(work[p].run)
BY DEF Hands, Live, job_alive

\* A console's run has no living job.
LEMMA ConsoleAlone ==
    ASSUME Rows, OneKnown, InSight, Hands, Decided, NEW r \in Runs, work[r].at # "idle"
    PROVE  Live(r) = {} /\ ~(r \in DOMAIN pass /\ pass[r].todo \in {"resume", "stop"})
<1>1. run[r].status # "none" /\ run[r].job = 0
  BY DEF Hands
<1>2. ~(r \in DOMAIN pass /\ pass[r].todo \in {"resume", "stop"})
  BY <1>1 DEF Decided, Rows, Held
<1>3. Known(r) = 0
  BY <1>1, <1>2 DEF Known
<1>4. Live(r) \subseteq {0}
  BY <1>1, <1>3, OneInSight
<1> QED
  BY <1>2, <1>4, JobTypes DEF Live

\* Nobody else works on the run of a process.
LEMMA Alone ==
    ASSUME Rows, OneKnown, InSight, Hands, Decided,
           NEW p \in Procs, NEW q \in Procs, work[p].at # "idle", work[q].at # "idle",
           work[p].run = work[q].run
    PROVE  p = q
<1>0. work[p].run \in Runs
  BY WorkStates
<1>1. CASE p \in Runs
  <2>1. work[p].run = p /\ Live(p) = {}
    BY <1>1, ConsoleAlone DEF Hands
  <2>2. q \notin Workers
    BY <2>1, LiveHand
  <2> QED
    BY <2>1, <2>2 DEF Procs, Hands
<1>2. CASE q \in Runs
  <2>1. work[q].run = q /\ Live(q) = {}
    BY <1>2, ConsoleAlone DEF Hands
  <2>2. p \notin Workers
    BY <2>1, LiveHand
  <2> QED
    BY <2>1, <2>2 DEF Procs, Hands
<1>3. CASE p \in Workers /\ q \in Workers
  <2>1. work[p].job \in Live(work[p].run) /\ work[q].job \in Live(work[p].run)
    BY <1>3, LiveHand
  <2>2. PICK j : Live(work[p].run) \subseteq {j}
    BY <1>0, OneInSight
  <2> QED
    BY <1>3, <2>1, <2>2 DEF Hands
<1> QED
  BY <1>1, <1>2, <1>3 DEF Procs

LEMMA HandsStep ==
    ASSUME Rows, Hands, NEW p \in Procs, Moves(p), Calm
    PROVE  Hands'
<1>0. p \in Workers \/ p \in Runs
  BY DEF Procs
<1>1. ASSUME NEW q \in Workers, work'[q].at # "idle"
      PROVE  /\ work[q].at # "idle" /\ work'[q].job = work[q].job /\ work'[q].run = work[q].run
             /\ work[q].job \in DOMAIN jobs' /\ jobs'[work[q].job] = jobs[work[q].job]
  <2>1. q \in Procs
    BY DEF Procs
  <2>2. work[q].at # "idle" /\ work'[q].job = work[q].job /\ work'[q].run = work[q].run
    BY <1>1, <2>1 DEF Moves
  <2>3. work[q].job \in DOMAIN jobs
    BY <2>2 DEF Hands
  <2>4. CASE jobs' = jobs
    BY <2>2, <2>3, <2>4
  <2>5. CASE jobs' = Ended(jobs, work[p].job) /\ work'[p].at = "idle"
    <3>1. work[q].job # work[p].job
      <4>1. CASE p \in Workers
        BY <1>1, <2>2, <2>5, <4>1 DEF Hands, Moves
      <4>2. CASE p \in Runs
        <5>1. work[p].job = 0
          BY <4>2 DEF Hands, Moves
        <5> QED
          BY <2>3, <5>1, JobTypes
      <4> QED
        BY <1>0, <4>1, <4>2
    <3>2. work[q].job \in DOMAIN jobs' /\ jobs'[work[q].job] = jobs[work[q].job]
      BY <2>3, <2>5, <3>1, OthersLive
    <3> QED
      BY <2>2, <3>2
  <2> QED
    BY <2>4, <2>5 DEF Moves
<1>2. ASSUME NEW r \in Runs, work'[r].at # "idle"
      PROVE  work'[r].run = r /\ work'[r].job = 0 /\ run'[r].job = 0 /\ run'[r].status # "none"
  <2>1. r \in Procs
    BY DEF Procs
  <2>2. work[r].at # "idle" /\ work'[r].job = work[r].job /\ work'[r].run = work[r].run
    BY <1>2, <2>1 DEF Moves
  <2> QED
    BY <2>2 DEF Hands, Calm
<1>3. ASSUME NEW q \in Workers, work'[q].at # "idle"
      PROVE  /\ work'[q].job \in DOMAIN jobs' /\ jobs'[work'[q].job].run = work'[q].run
             /\ jobs'[work'[q].job].state = "started"
  BY <1>1, <1>3 DEF Hands
<1>4. ASSUME NEW q \in Workers, NEW s \in Workers, work'[q].at # "idle", work'[s].at # "idle",
             work'[q].job = work'[s].job
      PROVE  q = s
  BY <1>1, <1>4 DEF Hands
<1> QED
  BY <1>2, <1>3, <1>4 DEF Hands

LEMMA HandsOther ==
    ASSUME Rows, Rows', Hands, Decided, Next, ~Interrupt, ~Blackout,
           ~\E p \in Procs : Step(p) \/ touch(p) \/ Die(p)
    PROVE  Hands'
<1>0. /\ run \in [Runs -> Row] /\ work \in [Procs -> Work] /\ Runs \cap Workers = {}
  BY ActorAssumption DEF Rows, TypeOK
<1>1. ASSUME NEW p \in Workers, Take(p) PROVE Hands'
  <2>1. PICK j \in DOMAIN jobs :
          /\ jobs[j].state = "queued"
          /\ jobs' = [jobs EXCEPT ![j].state = "started"]
          /\ work' = [work EXCEPT ![p] = [Idle EXCEPT !.at = "taken", !.job = j, !.run = jobs[j].run]]
    BY <1>1 DEF Take, Set
  <2>2. /\ DOMAIN jobs' = DOMAIN jobs /\ \A i \in DOMAIN jobs : i # j => jobs'[i] = jobs[i]
        /\ jobs'[j].run = jobs[j].run /\ jobs'[j].state = "started"
    BY <2>1, JobTypes DEF Job
  <2>3. /\ \A q \in Procs : q # p => work'[q] = work[q]
        /\ work'[p].at = "taken" /\ work'[p].job = j /\ work'[p].run = jobs[j].run
    BY <1>0, <2>1 DEF Idle, Procs
  <2>4. \A q \in Workers : work[q].at # "idle" => work[q].job # j /\ work[q].job \in DOMAIN jobs
    BY <2>1 DEF Hands
  <2>5. run' = run /\ p \notin Runs
    BY <1>0, <1>1 DEF Take, rowvars
  <2> QED
    BY <2>2, <2>3, <2>4, <2>5 DEF Hands, Procs
<1>2. ASSUME NEW r \in Runs, Press(r) \/ CommitStart(r) \/ RollBackStart(r) PROVE Hands'
  <2>1. run[r].status = "none" /\ work' = work
    BY <1>2 DEF Press, CommitStart, RollBackStart, Unused, Rows, Held
  <2>2. work[r].at = "idle"
    BY <2>1 DEF Hands
  <2>3. \A q \in Runs : q # r => run'[q] = run[q]
    BY <1>0, <1>2 DEF Press, CommitStart, RollBackStart
  <2>4. \A j \in DOMAIN jobs : j \in DOMAIN jobs' /\ jobs'[j] = jobs[j]
    <3>1. CASE Press(r)
      <4>1. Len(jobs) < MaxJobs /\ jobs' = Enqueued(r, "person")
        BY <3>1 DEF Press
      <4> QED
        BY <4>1, NewJob
    <3>2. CASE ~Press(r)
      BY <1>2, <3>2 DEF CommitStart, RollBackStart
    <3> QED
      BY <3>1, <3>2
  <2> QED
    BY <2>1, <2>2, <2>3, <2>4 DEF Hands
<1>3. ASSUME NEW r \in Runs, ConsoleStart(r) PROVE Hands'
  <2> DEFINE row == [NoRow EXCEPT !.status = "running", !.found = TRUE]
  <2>1. /\ run' = [run EXCEPT ![r] = row] /\ jobs' = jobs
        /\ work' = [work EXCEPT ![r] = [Idle EXCEPT !.at = "listed", !.run = r, !.sees = row]]
    BY <1>3 DEF ConsoleStart, Set
  <2>2. run'[r].job = 0 /\ run'[r].status = "running" /\ \A q \in Runs : q # r => run'[q] = run[q]
    BY <1>0, <2>1 DEF NoRow
  <2> HIDE DEF row
  <2>3. /\ work'[r].run = r /\ work'[r].job = 0
        /\ \A q \in Procs : q # r => work'[q] = work[q]
    BY <1>0, <2>1 DEF Idle, Procs
  <2>4. \A q \in Workers : q # r /\ work'[q] = work[q]
    BY <1>0, <2>3 DEF Procs
  <2>5. \A q \in Runs : q # r => work'[q] = work[q]
    BY <2>3 DEF Procs
  <2> QED
    BY <2>1, <2>2, <2>3, <2>4, <2>5 DEF Hands
<1>4. ASSUME NEW r \in Runs, Unknown(r) \/ Judge(r) PROVE Hands'
  <2>1. run' = run /\ work' = work
    BY <1>4 DEF Unknown, Judge, Alive, Resume, Wait, Bury, rowvars
  <2>2. \A j \in DOMAIN jobs : j \in DOMAIN jobs' /\ jobs'[j] = jobs[j]
    <3>1. CASE Resume(r)
      <4>1. Len(jobs) < MaxJobs /\ jobs' = Enqueued(r, "reaper")
        BY <3>1 DEF Resume
      <4> QED
        BY <4>1, NewJob
    <3>2. CASE ~Resume(r)
      BY <1>4, <3>2 DEF Unknown, Judge, Alive, Wait, Bury
    <3> QED
      BY <3>1, <3>2
  <2> QED
    BY <2>1, <2>2 DEF Hands
<1>5. CASE Scan
  BY <1>5 DEF Scan, Hands, rowvars
<1>6. CASE CommitPass
  <2>1. /\ run' = [r \in Runs |-> IF r \in DOMAIN pass THEN Recovered(r) ELSE run[r]]
        /\ UNCHANGED <<jobs, work>>
    BY <1>6 DEF CommitPass
  <2>2. ASSUME NEW r \in Runs, work[r].at # "idle" PROVE run'[r].job = 0 /\ run'[r].status # "none"
    <3>1. run[r].job = 0 /\ run[r].status # "none" /\ run[r] \in Row
      BY <1>0, <2>2 DEF Hands
    <3>2. r \in DOMAIN pass => pass[r].todo \notin {"resume", "stop"}
      BY <3>1 DEF Decided, Rows, Held
    <3>3. run'[r] = run[r]
      BY <2>1, <3>2 DEF Recovered
    <3> QED
      BY <3>1, <3>3
  <2> QED
    BY <2>1, <2>2 DEF Hands
<1>7. ASSUME NEW r \in Runs, Tick(r) PROVE Hands'
  BY <1>7 DEF Tick, Hands
<1> QED
  BY <1>1, <1>2, <1>3, <1>4, <1>5, <1>6, <1>7, NextKinds

LEMMA CalmLive ==
    ASSUME Rows, Calm
    PROVE  \A r \in Runs : Live(r)' \subseteq Live(r)
<1>1. jobs \in Seq(Job) /\ jobs' \in Seq(Job) /\ Len(jobs') = Len(jobs)
  BY DEF Calm, Kept, Rows, TypeOK
<1>2. DOMAIN jobs' = DOMAIN jobs /\ \A j \in DOMAIN jobs : jobs[j] \in Job
  BY <1>1, LenProperties
<1>3. \A j \in DOMAIN jobs : job_alive(j)' => job_alive(j)
  BY <1>2 DEF Calm, Kept, job_alive, Job
<1> QED
  BY <1>2, <1>3 DEF Live, Calm, Kept

\* A job is added for a run: no other run has more.
LEMMA AddedLive ==
    ASSUME Rows, Len(jobs) < MaxJobs, NEW s \in Runs, NEW who \in {"person", "reaper"},
           jobs' = Enqueued(s, who), NEW r \in Runs, r # s
    PROVE  Live(r)' \subseteq Live(r)
<1>1. /\ DOMAIN jobs' = DOMAIN jobs \cup {Len(jobs) + 1}
      /\ \A j \in DOMAIN jobs : jobs'[j] = jobs[j]
      /\ jobs'[Len(jobs) + 1] = [run |-> s, state |-> "queued", by |-> who]
  BY NewJob
<1> QED
  BY <1>1 DEF Live, job_alive

LEMMA DecidedNext ==
    ASSUME Rows, OneKnown, InSight, Decided, Next, ~Interrupt
    PROVE  Decided'
<1>0. DOMAIN pass \subseteq Runs /\ pass \in [DOMAIN pass -> Seen]
  BY DEF Rows, Held
<1>1. ASSUME Calm PROVE Decided'
  <2>1. pass' = pass
    BY <1>1 DEF Calm
  <2>2. \A r \in DOMAIN pass : Live(r)' \subseteq Live(r)
    BY <1>0, <1>1, CalmLive
  <2> QED
    BY <2>1, <2>2 DEF Decided
<1>2. ASSUME NEW s \in Runs, Press(s) \/ CommitStart(s) \/ RollBackStart(s) \/ ConsoleStart(s)
      PROVE  Decided'
  <2>1. pass' = pass
    BY <1>2 DEF Press, CommitStart, RollBackStart, ConsoleStart
  <2>2. s \notin DOMAIN pass
    <3>1. run[s].status = "none"
      BY <1>2 DEF Press, CommitStart, RollBackStart, ConsoleStart, Unused, Rows, Held
    <3> QED
      BY <3>1 DEF Rows, Held
  <2>3. ASSUME NEW r \in DOMAIN pass PROVE Live(r)' \subseteq Live(r)
    <3>1. CASE Press(s)
      <4>1. Len(jobs) < MaxJobs /\ jobs' = Enqueued(s, "person") /\ r # s
        BY <2>2, <3>1 DEF Press
      <4> QED
        BY <1>0, <4>1, AddedLive
    <3>2. CASE jobs' = jobs
      BY <3>2 DEF Live, job_alive
    <3> QED
      BY <1>2, <3>1, <3>2 DEF CommitStart, RollBackStart, ConsoleStart
  <2> QED
    BY <2>1, <2>3 DEF Decided
<1>3. ASSUME NEW s \in Runs, Unknown(s) \/ Judge(s) PROVE Decided'
  <2>0. s \in DOMAIN pass /\ pass[s].todo = "judge" /\ pass[s] \in Seen
    BY <1>0, <1>3 DEF Unknown, Judge, Alive, Resume, Wait, Bury, Dead, Judging
  <2>1. CASE Resume(s)
    <3>1. /\ jobs' = Enqueued(s, "reaper") /\ Len(jobs) < MaxJobs /\ pass[s].row.job # 0
          /\ pass' = [pass EXCEPT ![s].todo = "resume", ![s].job = Len(jobs) + 1]
      BY <2>1 DEF Resume, Dead
    <3>2. /\ DOMAIN pass' = DOMAIN pass /\ \A r \in DOMAIN pass : r # s => pass'[r] = pass[r]
          /\ pass'[s].todo = "resume" /\ pass'[s].row = pass[s].row
      BY <1>0, <2>0, <3>1 DEF Seen
    <3>3. \A r \in DOMAIN pass : r # s => Live(r)' \subseteq Live(r)
      BY <1>0, <2>0, <3>1, AddedLive
    <3> QED
      BY <3>1, <3>2, <3>3 DEF Decided
  <2>2. ASSUME NEW todo \in {"leave", "stop"}, Decide(s, todo), jobs' = jobs,
               todo = "stop" => Dead(s)
        PROVE  Decided'
    <3>1. /\ DOMAIN pass' = DOMAIN pass /\ \A r \in DOMAIN pass : r # s => pass'[r] = pass[r]
          /\ pass'[s].todo = todo /\ pass'[s].row = pass[s].row
      BY <1>0, <2>0, <2>2 DEF Decide, Seen
    <3>2. \A r \in DOMAIN pass : Live(r)' = Live(r)
      BY <2>2 DEF Live, job_alive
    <3>3. Dead(s) => pass[s].row.job # 0 /\ Live(s) = {}
      <4>1. run[s].status # "none" /\ pass[s].row.job = run[s].job
        BY <2>0 DEF Rows, Held
      <4>2. Known(s) = run[s].job
        BY <2>0 DEF Known
      <4>3. Live(s) \subseteq {run[s].job}
        BY <1>3, <4>1, <4>2, OneInSight
      <4> QED
        BY <4>1, <4>3 DEF Dead, Live
    <3> QED
      BY <2>0, <2>2, <3>1, <3>2, <3>3 DEF Decided
  <2>3. CASE ~Resume(s)
    BY <1>3, <2>2, <2>3 DEF Unknown, Judge, Alive, Wait, Bury, Dead
  <2> QED
    BY <2>1, <2>3
<1>4. CASE Scan
  <2>1. \A r \in DOMAIN pass' : pass'[r].todo = "judge"
    BY <1>4 DEF Scan
  <2> QED
    BY <2>1 DEF Decided
<1>5. CASE CommitPass
  BY <1>5, EmptyPass DEF CommitPass, Decided
<1> QED
  BY <1>1, <1>2, <1>3, <1>4, <1>5, StepRows, QueueRows, NextKinds

\* All of it, as long as the reaper sees every job.
InHand == InSight => Hands /\ Decided

LEMMA InitInHand == Init => InHand
BY EmptyPass DEF Init, InHand, Hands, Decided, Idle, Procs

LEMMA NextInHand == Rows /\ OneKnown /\ InHand /\ [Next]_vars => InHand'
<1> SUFFICES ASSUME Rows, OneKnown, InHand, [Next]_vars PROVE InHand'
  OBVIOUS
<1>1. CASE UNCHANGED vars
  BY <1>1 DEF vars, rowvars, faults, InHand, InSight, Hands, Decided, Live, job_alive
<1>2. ASSUME Next, InSight' PROVE Hands' /\ Decided'
  <2>1. InSight /\ ~Interrupt /\ ~Blackout
    BY <1>2, SightBack
  <2>2. Hands /\ Decided /\ Rows'
    BY <2>1, NextRows DEF InHand
  <2>3. Decided'
    BY <1>2, <2>1, <2>2, DecidedNext
  <2>4. CASE \E p \in Procs : Step(p) \/ touch(p) \/ Die(p)
    BY <2>2, <2>3, <2>4, ProcSteps, StepRows, HandsStep DEF Steps
  <2>5. CASE ~\E p \in Procs : Step(p) \/ touch(p) \/ Die(p)
    BY <1>2, <2>1, <2>2, <2>3, <2>5, HandsOther
  <2> QED
    BY <2>3, <2>4, <2>5
<1> QED
  BY <1>1, <1>2 DEF InHand

\* The reaper never closes a run somebody works on, as long as it sees every job: it
\* closes when the job of the row is dead, no process works without a living job, and
\* no other job of the run lives (lifecycle.recover, queue.job_alive).
THEOREM NoLiveRunIsBuriedHolds == Spec => NoLiveRunIsBuried
<1> DEFINE Kind == \A r \in Runs :
                     InSight /\ r \in DOMAIN pass /\ pass[r].todo = "stop"
                     /\ Open(r) /\ run'[r].status = "stopped"
                       => \A p \in Procs : ~Carrying(p, r)
<1>1. Rows /\ OneKnown /\ InHand => Kind
  <2> SUFFICES ASSUME Rows, OneKnown, InHand, NEW r \in Runs, InSight,
                      r \in DOMAIN pass, pass[r].todo = "stop", NEW p \in Procs, Carrying(p, r)
               PROVE  FALSE
    OBVIOUS
  <2>1. Hands /\ Decided /\ work[p].run = r /\ work[p].at # "idle"
    BY DEF InHand, Carrying
  <2>2. Live(r) = {}
    BY <2>1 DEF Decided
  <2>3. p \notin Workers
    BY <2>1, <2>2, LiveHand
  <2>4. p \in Runs /\ p = r
    BY <2>1, <2>3 DEF Procs, Hands
  <2> QED
    BY <2>1, <2>4, ConsoleAlone
<1>2. Init => Rows /\ OneKnown /\ InHand
  BY InitRows, InitKnown, InitInHand
<1>3. Rows /\ OneKnown /\ InHand /\ [Next]_vars => (Rows /\ OneKnown /\ InHand)'
  BY NextRows, NextKnown, NextInHand
<1> HIDE DEF Kind
<1>4. Spec => [][Kind]_vars
  BY <1>1, <1>2, <1>3, PTL DEF Spec
<1> QED
  BY <1>4 DEF NoLiveRunIsBuried, Kind

-----------------------------------------------------------------------------
(* The purchase.  What a process has read of the candidates is what the row  *)
(* says, since nobody else works on the run; so it buys only what is not     *)
(* saved, and nobody else is about to save.                                  *)

Blank == \A r \in Runs : run[r].status = "none" => ~run[r].found /\ run[r].resumes = 0

Buying(r) == \E p \in Procs : work[p].run = r /\ work[p].at = "bought"
Once(r) == IF run[r].found \/ Buying(r) THEN 1 ELSE 0

Saved ==
    /\ \A p \in Procs : work[p].at \in {"loaded", "running"} =>
         (work[p].sees.found <=> run[work[p].run].found)
    /\ \A r \in Runs : bought[r] <= lost[r] + Once(r)

LEMMA BlankNext ==
    ASSUME Rows, Blank, Next
    PROVE  Blank'
<1>0. run \in [Runs -> Row] /\ DOMAIN pass \subseteq Runs
  BY DEF Rows, TypeOK, Held
<1>1. ASSUME NEW p \in Procs, Step(p) \/ touch(p) \/ Die(p) PROVE Blank'
  <2>1. Steps(p) /\ Calm
    BY <1>1, ProcSteps, StepRows
  <2>2. work[p].run \in Runs
    BY <2>1, WorkStates DEF Steps, Moves
  <2>3. ASSUME NEW r \in Runs, run'[r].status = "none"
        PROVE  ~run'[r].found /\ run'[r].resumes = 0
    <3>1. run[r].status = "none"
      BY <2>1, <2>3 DEF Calm
    <3>2. ~run[r].found /\ run[r].resumes = 0
      BY <3>1 DEF Blank
    <3>3. CASE r # work[p].run
      BY <2>1, <3>2, <3>3 DEF Steps, Writes
    <3>4. CASE r = work[p].run
      <4>1. work[p].at \notin Working
        BY <3>1, <3>4, WorkStates
      <4> QED
        BY <2>1, <3>2, <3>4, <4>1 DEF Steps, Writes, Pays, Working
    <3> QED
      BY <3>3, <3>4
  <2> QED
    BY <2>3 DEF Blank
<1>2. ASSUME NEW s \in Runs, CommitStart(s) \/ ConsoleStart(s) PROVE Blank'
  <2>1. /\ \A r \in Runs : r # s => run'[r] = run[r]
        /\ run'[s].status # "none"
    BY <1>0, <1>2 DEF CommitStart, ConsoleStart, NoRow
  <2> QED
    BY <2>1 DEF Blank
<1>3. CASE CommitPass
  <2>1. run' = [r \in Runs |-> IF r \in DOMAIN pass THEN Recovered(r) ELSE run[r]]
    BY <1>3 DEF CommitPass
  <2>2. \A r \in DOMAIN pass : Recovered(r).status # "none"
    BY <1>0 DEF Recovered, Rows, Held, Row
  <2> QED
    BY <1>0, <2>1, <2>2 DEF Blank
<1>4. CASE run' = run
  BY <1>4 DEF Blank
<1> QED
  BY <1>1, <1>2, <1>3, <1>4, NextKinds DEF Press, RollBackStart, Unknown, Judge, Alive, Resume,
     Wait, Bury, Scan, Interrupt, Blackout, Tick, Take, rowvars

\* A step that buys, saves and loses nothing, and reads nothing.
LEMMA SavedSame ==
    ASSUME Saved, UNCHANGED <<bought, lost>>,
           \A r \in Runs : run'[r].found <=> run[r].found,
           \A p \in Procs : work[p].at \in Working => work[p].run \in Runs,
           \A p \in Procs : \/ work'[p] = work[p]
                            \/ work[p].at = "idle" /\ work'[p].at = "taken"
    PROVE  Saved'
<1>1. \A r \in Runs : Buying(r)' <=> Buying(r)
  BY DEF Buying
<1>2. \A r \in Runs : Once(r)' = Once(r)
  BY <1>1 DEF Once
<1>3. \A p \in Procs : work'[p].at \in {"loaded", "running"} =>
        work'[p] = work[p] /\ work[p].run \in Runs
  BY DEF Working
<1> QED
  BY <1>2, <1>3 DEF Saved

LEMMA SavedStep ==
    ASSUME Rows, OneKnown, InSight, Hands, Decided, Saved,
           NEW p \in Procs, Steps(p)
    PROVE  Saved'
<1> DEFINE r == work[p].run
<1>0. /\ bought \in [Runs -> Nat] /\ lost \in [Runs -> Nat] /\ r \in Runs /\ work[p].at # "idle"
  BY WorkStates DEF Rows, TypeOK, Steps, Moves
<1>1. \A q \in Procs : q # p /\ work[q].at # "idle" => work[q].run # r /\ work'[q] = work[q]
  BY <1>0, Alone DEF Steps, Moves
<1>2. ASSUME NEW q \in Procs, work'[q].at \in {"loaded", "running"}
      PROVE  work'[q].sees.found <=> run'[work'[q].run].found
  <2>1. CASE q # p
    <3>1. work'[q] = work[q] /\ work[q].at # "idle"
      BY <1>2, <2>1 DEF Steps, Moves
    <3>2. work[q].run # r /\ work[q].run \in Runs
      BY <1>1, <2>1, <3>1, WorkStates
    <3>3. run'[work[q].run] = run[work[q].run]
      BY <3>2 DEF Steps, Writes
    <3> QED
      BY <1>2, <3>1, <3>3 DEF Saved
  <2>2. CASE q = p
    <3>1. work'[p].run = r /\ run'[r].found = run[r].found
      BY <1>2, <2>2 DEF Steps, Moves, Pays
    <3>2. CASE work[p].at = "taken" /\ work'[p].sees = run[r]
      BY <2>2, <3>1, <3>2
    <3>3. CASE work[p].at \in Working /\ work'[p].sees.found = work[p].sees.found
      <4>1. work[p].at \in {"loaded", "running"}
        BY <1>2, <2>2, <3>3 DEF Steps, Pays, Working
      <4>2. work[p].sees.found <=> run[r].found
        BY <4>1 DEF Saved
      <4> QED
        BY <2>2, <3>1, <3>3, <4>2
    <3> QED
      BY <1>2, <2>2, <3>2, <3>3 DEF Steps, Reads, Working
  <2> QED
    BY <2>1, <2>2
<1>3. ASSUME NEW s \in Runs, s # r PROVE bought'[s] <= lost'[s] + Once(s)'
  <2>1. run'[s] = run[s] /\ bought'[s] = bought[s] /\ lost'[s] = lost[s]
    BY <1>0, <1>3 DEF Steps, Writes, Pays
  <2>2. Buying(s)' <=> Buying(s)
    <3>1. \A q \in Procs : work'[q].run = s /\ work'[q].at = "bought" => q # p
      BY <1>3 DEF Steps, Moves
    <3>2. \A q \in Procs : work[q].run = s => q # p
      BY <1>3
    <3> QED
      BY <3>1, <3>2 DEF Buying, Steps, Moves
  <2>3. Once(s)' = Once(s)
    BY <2>1, <2>2 DEF Once
  <2> QED
    BY <2>1, <2>3 DEF Saved
<1>4. PICK s \in Runs : s = r
  BY <1>0
<1>5. \A q \in Procs : q # p => ~(work[q].run = s /\ work[q].at = "bought")
  BY <1>1, <1>4
<1>6. \A q \in Procs : q # p => ~(work'[q].run = s /\ work'[q].at = "bought")
  BY <1>5 DEF Steps, Moves
<1>7. Buying(s) <=> work[p].at = "bought"
  BY <1>4, <1>5 DEF Buying
<1>8. Buying(s)' <=> work'[p].at = "bought"
  <2>1. work'[p].at = "bought" => work'[p].run = s
    BY <1>4 DEF Steps, Moves
  <2> QED
    BY <1>6, <2>1 DEF Buying
<1>9. bought'[s] <= lost'[s] + Once(s)'
  <2>0. bought[s] <= lost[s] + Once(s) /\ bought[s] \in Nat /\ lost[s] \in Nat
    BY <1>0, <1>4 DEF Saved
  <2>1. /\ Once(s) = IF run[s].found \/ work[p].at = "bought" THEN 1 ELSE 0
        /\ Once(s)' = IF run'[s].found \/ work'[p].at = "bought" THEN 1 ELSE 0
    BY <1>7, <1>8 DEF Once
  <2>2. CASE /\ work[p].at = "running" /\ work'[p].at = "bought" /\ ~work[p].sees.found
             /\ bought' = [bought EXCEPT ![s] = @ + 1] /\ lost' = lost
    <3>1. ~run[s].found
      BY <1>4, <2>2 DEF Saved
    <3>2. Once(s) = 0 /\ Once(s)' = 1
      BY <2>1, <2>2, <3>1
    <3>3. bought'[s] = bought[s] + 1 /\ lost'[s] = lost[s]
      BY <1>0, <2>2
    <3> QED
      BY <2>0, <3>2, <3>3
  <2>3. CASE work[p].at = "bought" /\ run'[s].found /\ bought' = bought /\ lost' = lost
    <3>1. Once(s) = 1 /\ Once(s)' = 1
      BY <2>1, <2>3
    <3> QED
      BY <2>0, <2>3, <3>1
  <2>4. CASE bought' = bought /\ lost' = [lost EXCEPT ![s] = @ + 1]
    <3>1. Once(s) \in {0, 1} /\ Once(s)' \in {0, 1}
      BY <2>1
    <3>2. lost'[s] = lost[s] + 1 /\ bought'[s] = bought[s]
      BY <1>0, <2>4
    <3> QED
      BY <2>0, <3>1, <3>2
  <2>5. CASE /\ work[p].at = "bought" <=> work'[p].at = "bought"
             /\ run'[s].found = run[s].found /\ bought' = bought /\ lost' = lost
    <3>1. Once(s)' = Once(s)
      BY <2>1, <2>5
    <3> QED
      BY <2>0, <2>5, <3>1
  <2> QED
    BY <1>4, <2>2, <2>3, <2>4, <2>5 DEF Steps, Pays
<1> QED
  BY <1>2, <1>3, <1>4, <1>9 DEF Saved

LEMMA SavedOther ==
    ASSUME Rows, Hands, Blank, Saved, Next, ~\E p \in Procs : Step(p) \/ touch(p) \/ Die(p)
    PROVE  Saved'
<1>0. /\ run \in [Runs -> Row] /\ work \in [Procs -> Work] /\ DOMAIN pass \subseteq Runs
      /\ bought \in [Runs -> Nat] /\ lost \in [Runs -> Nat]
      /\ \A p \in Procs : work[p].at \in Working => work[p].run \in Runs /\ run[work[p].run].status # "none"
  BY WorkStates DEF Rows, TypeOK, Held, Working
<1>1. ASSUME NEW p \in Workers, Take(p) PROVE Saved'
  <2>1. UNCHANGED <<run, bought, lost>> /\ work[p].at = "idle" /\ work'[p].at = "taken"
        /\ \A q \in Procs : q # p => work'[q] = work[q]
    BY <1>0, <1>1 DEF Take, Set, Idle, Procs, rowvars, history
  <2> QED
    BY <1>0, <2>1, SavedSame
<1>2. ASSUME NEW s \in Runs, CommitStart(s) PROVE Saved'
  <2>1. /\ UNCHANGED <<work, bought, lost>> /\ run[s].status = "none" /\ ~run'[s].found
        /\ \A r \in Runs : r # s => run'[r] = run[r]
    BY <1>0, <1>2 DEF CommitStart, history, Rows, Held, NoRow
  <2>2. ~run[s].found
    BY <2>1 DEF Blank
  <2>3. \A r \in Runs : run'[r].found <=> run[r].found
    BY <2>1, <2>2
  <2> QED
    BY <1>0, <2>1, <2>3, SavedSame
<1>3. ASSUME NEW s \in Runs, ConsoleStart(s) PROVE Saved'
  <2> DEFINE row == [NoRow EXCEPT !.status = "running", !.found = TRUE]
  <2>1. /\ run' = [run EXCEPT ![s] = row] /\ lost' = lost /\ run[s].status = "none"
        /\ bought' = [bought EXCEPT ![s] = @ + 1]
        /\ work' = [work EXCEPT ![s] = [Idle EXCEPT !.at = "listed", !.run = s, !.sees = row]]
    BY <1>3 DEF ConsoleStart, Set, Unused
  <2>2. run'[s].found /\ \A r \in Runs : r # s => run'[r] = run[r]
    BY <1>0, <2>1 DEF NoRow
  <2> HIDE DEF row
  <2>3. work'[s].at = "listed" /\ \A q \in Procs : q # s => work'[q] = work[q]
    BY <1>0, <2>1 DEF Idle, Procs
  <2>4. work[s].at = "idle"
    BY <2>1 DEF Hands
  <2>5. ~Buying(s) /\ ~run[s].found
    BY <1>0, <2>1 DEF Buying, Working, Blank
  <2>6. \A r \in Runs : r # s => (Buying(r)' <=> Buying(r))
    BY <2>3, <2>4 DEF Buying, Procs
  <2>7. \A r \in Runs : r # s => Once(r)' = Once(r) /\ bought'[r] = bought[r] /\ lost'[r] = lost[r]
    BY <1>0, <2>1, <2>2, <2>6 DEF Once
  <2>8. Once(s) = 0 /\ Once(s)' = 1 /\ bought'[s] = bought[s] + 1 /\ lost'[s] = lost[s]
    BY <1>0, <2>1, <2>2, <2>5 DEF Once
  <2>9. \A q \in Procs : work'[q].at \in {"loaded", "running"} =>
          work'[q] = work[q] /\ work[q].run \in Runs /\ work[q].run # s
    BY <1>0, <2>1, <2>3 DEF Working
  <2>10. \A r \in Runs : bought'[r] <= lost'[r] + Once(r)'
    BY <1>0, <2>7, <2>8 DEF Saved
  <2> QED
    BY <2>2, <2>9, <2>10 DEF Saved
<1>4. CASE CommitPass
  <2>1. /\ run' = [r \in Runs |-> IF r \in DOMAIN pass THEN Recovered(r) ELSE run[r]]
        /\ UNCHANGED <<work, bought, lost>>
    BY <1>4 DEF CommitPass, history
  <2>2. \A r \in Runs : Recovered(r).found <=> run[r].found
    BY <1>0 DEF Recovered, Row
  <2>3. \A r \in Runs : run'[r].found <=> run[r].found
    BY <2>1, <2>2
  <2> QED
    BY <1>0, <2>1, <2>3, SavedSame
<1>5. CASE UNCHANGED <<run, work, bought, lost>>
  BY <1>0, <1>5, SavedSame
<1> QED
  BY <1>1, <1>2, <1>3, <1>4, <1>5, NextKinds DEF Press, RollBackStart, Unknown, Judge, Alive, Resume,
     Wait, Bury, Scan, Interrupt, Blackout, Tick, rowvars, history

InBooks == InSight => Saved

LEMMA InitBooks == Init => Blank /\ InBooks
BY DEF Init, Blank, InBooks, Saved, Once, Buying, NoRow, Idle

LEMMA NextBooks == Rows /\ OneKnown /\ InHand /\ Blank /\ InBooks /\ [Next]_vars => (Blank /\ InBooks)'
<1> SUFFICES ASSUME Rows, OneKnown, InHand, Blank, InBooks, [Next]_vars PROVE Blank' /\ InBooks'
  OBVIOUS
<1>1. CASE UNCHANGED vars
  BY <1>1 DEF vars, rowvars, faults, history, Blank, InBooks, InSight, Saved, Once, Buying
<1>2. CASE Next
  <2>1. Blank'
    BY <1>2, BlankNext
  <2>2. ASSUME InSight' PROVE Saved'
    <3>1. InSight
      BY <1>2, <2>2, SightBack
    <3>2. Hands /\ Decided /\ Saved
      BY <3>1 DEF InHand, InBooks
    <3>3. CASE \E p \in Procs : Step(p) \/ touch(p) \/ Die(p)
      BY <3>1, <3>2, <3>3, ProcSteps, SavedStep
    <3>4. CASE ~\E p \in Procs : Step(p) \/ touch(p) \/ Die(p)
      BY <1>2, <3>2, <3>4, SavedOther
    <3> QED
      BY <3>3, <3>4
  <2> QED
    BY <2>1, <2>2 DEF InBooks
<1> QED
  BY <1>1, <1>2

\* The search results of a run are bought once, and again only when an attempt ended
\* between the purchase and its commit, as long as the reaper sees every job: what is
\* saved is restored, and a run has one process (pipeline._candidates_for).
THEOREM BoughtOnceHolds == Spec => []BoughtOnce
<1>1. Rows /\ InBooks => BoughtOnce
  <2> SUFFICES ASSUME Rows, InBooks, InSight, NEW r \in Runs PROVE bought[r] <= 1 + lost[r]
    BY DEF BoughtOnce
  <2>1. bought[r] <= lost[r] + Once(r) /\ bought[r] \in Nat /\ lost[r] \in Nat
    BY DEF InBooks, Saved, Rows, TypeOK
  <2>2. Once(r) \in {0, 1}
    BY DEF Once
  <2> QED
    BY <2>1, <2>2
<1>2. Init => Rows /\ OneKnown /\ InHand /\ Blank /\ InBooks
  BY InitRows, InitKnown, InitInHand, InitBooks
<1>3. Rows /\ OneKnown /\ InHand /\ Blank /\ InBooks /\ [Next]_vars
        => (Rows /\ OneKnown /\ InHand /\ Blank /\ InBooks)'
  BY NextRows, NextKnown, NextInHand, NextBooks
<1> QED
  BY <1>1, <1>2, <1>3, PTL DEF Spec

-----------------------------------------------------------------------------
(* The resumes.  The row counts the jobs the reaper has queued, but for the  *)
(* one of a pass that is not committed; and what a process carries over is   *)
(* what the row says.  The latter needs a quick pass: a process that reads   *)
(* the row between a resume and its commit writes the old count back.        *)

Again(r) == {j \in DOMAIN jobs : jobs[j].run = r /\ jobs[j].by = "reaper"}
Resuming(r) == r \in DOMAIN pass /\ pass[r].todo = "resume"
Count(r) == run[r].resumes + IF Resuming(r) THEN 1 ELSE 0

Carried ==
    \A p \in Procs : work[p].at \in Working =>
      work[p].sees.resumes = run[work[p].run].resumes /\ ~Resuming(work[p].run)

Counted ==
    /\ Carried
    /\ \A r \in DOMAIN pass : pass[r].row.resumes = run[r].resumes
    /\ \A r \in Runs : Cardinality(Again(r)) = Count(r)

LEMMA AgainSame ==
    ASSUME DOMAIN jobs' = DOMAIN jobs,
           \A j \in DOMAIN jobs : jobs'[j].run = jobs[j].run /\ jobs'[j].by = jobs[j].by
    PROVE  \A r \in Runs : Again(r)' = Again(r)
BY DEF Again

LEMMA AgainEnded ==
    ASSUME Rows, NEW i, jobs' = Ended(jobs, i)
    PROVE  \A r \in Runs : Again(r)' = Again(r)
<1>1. /\ DOMAIN jobs' = DOMAIN jobs
      /\ \A j \in DOMAIN jobs : jobs'[j].run = jobs[j].run /\ jobs'[j].by = jobs[j].by
  BY JobTypes DEF Ended, Job
<1> QED
  BY <1>1, AgainSame

\* A step that queues no job for the reaper's account and counts none.
LEMMA CountedSame ==
    ASSUME Counted, \A r \in Runs : Again(r)' = Again(r),
           \A r \in Runs : run'[r].resumes = run[r].resumes,
           \A r \in Runs : Resuming(r)' <=> Resuming(r),
           DOMAIN pass' \subseteq Runs,
           \A r \in DOMAIN pass' : pass'[r].row.resumes = run[r].resumes,
           \A p \in Procs : work'[p].at \in Working =>
             /\ work'[p].run \in Runs /\ ~Resuming(work'[p].run)
             /\ work'[p].sees.resumes = run[work'[p].run].resumes
    PROVE  Counted'
<1>1. Carried'
  BY DEF Carried
<1>2. \A r \in Runs : Count(r)' = Count(r)
  BY DEF Count
<1>3. \A r \in Runs : Cardinality(Again(r))' = Count(r)'
  BY <1>2 DEF Counted
<1> QED
  BY <1>1, <1>3 DEF Counted

\* The same, of a step that starts no process on its run.
LEMMA CountedKept ==
    ASSUME Rows, Counted, \A r \in Runs : Again(r)' = Again(r),
           \A r \in Runs : run'[r].resumes = run[r].resumes,
           \A r \in Runs : Resuming(r)' <=> Resuming(r),
           DOMAIN pass' \subseteq DOMAIN pass,
           \A r \in DOMAIN pass' : pass'[r].row = pass[r].row,
           \A p \in Procs : work'[p] = work[p] \/ work'[p].at \notin Working
    PROVE  Counted'
<1>1. DOMAIN pass' \subseteq Runs /\ \A r \in DOMAIN pass' : pass'[r].row.resumes = run[r].resumes
  BY DEF Rows, Held, Counted
<1>2. \A p \in Procs : work'[p].at \in Working =>
        /\ work'[p].run \in Runs /\ ~Resuming(work'[p].run)
        /\ work'[p].sees.resumes = run[work'[p].run].resumes
  BY DEF Rows, Held, Counted, Carried, Working
<1> QED
  BY <1>1, <1>2, CountedSame

LEMMA CountedStep ==
    ASSUME Rows, Rows', QuickPass, Counted, NEW p \in Procs, Steps(p), Calm
    PROVE  Counted'
<1> DEFINE r == work[p].run
<1>0. work[p].at # "idle" /\ r \in Runs /\ pass' = pass /\ DOMAIN pass \subseteq Runs
  BY WorkStates DEF Steps, Moves, Calm, Rows, Held
<1>1. \A q \in Runs : Again(q)' = Again(q)
  <2>1. CASE jobs' = jobs
    BY <2>1 DEF Again
  <2>2. CASE jobs' = Ended(jobs, work[p].job)
    BY <2>2, AgainEnded
  <2> QED
    BY <2>1, <2>2 DEF Steps, Moves
<1>2. \A q \in Runs : run'[q].resumes = run[q].resumes
  BY <1>0 DEF Steps, Writes, Counted, Carried
<1>3. ASSUME NEW q \in Procs, work'[q].at \in Working
      PROVE  /\ work'[q].run \in Runs /\ ~Resuming(work'[q].run)
             /\ work'[q].sees.resumes = run[work'[q].run].resumes
  <2>1. CASE q # p
    <3>1. work'[q] = work[q]
      BY <2>1 DEF Steps, Moves
    <3> QED
      BY <1>3, <3>1 DEF Rows, Held, Counted, Carried, Working
  <2>2. CASE q = p
    <3>1. work'[p].run = r
      BY <1>3, <2>2 DEF Steps, Moves, Working
    <3>2. CASE work[p].at = "taken" /\ work'[p].sees = run[r] /\ (QuickPass => r \notin DOMAIN pass)
      BY <1>0, <2>2, <3>1, <3>2 DEF Resuming
    <3>3. CASE work[p].at \in Working /\ work'[p].sees.resumes = work[p].sees.resumes
      BY <1>0, <2>2, <3>1, <3>3 DEF Counted, Carried
    <3> QED
      BY <1>3, <2>2, <3>2, <3>3 DEF Steps, Reads
  <2> QED
    BY <2>1, <2>2
<1>4. /\ \A q \in Runs : Resuming(q)' <=> Resuming(q)
      /\ DOMAIN pass' \subseteq Runs
      /\ \A q \in DOMAIN pass' : pass'[q].row.resumes = run[q].resumes
  BY <1>0 DEF Resuming, Counted
<1> QED
  BY <1>1, <1>2, <1>3, <1>4, CountedSame

\* Nobody works on a run whose job is dead.
LEMMA DeadAlone ==
    ASSUME Rows, OneKnown, InSight, Hands, NEW r \in Runs, Dead(r),
           NEW p \in Procs, work[p].at # "idle"
    PROVE  work[p].run # r
<1>1. r \in DOMAIN pass /\ pass[r].row.job = run[r].job /\ run[r].status # "none" /\ run[r].job # 0
  BY DEF Dead, Judging, Rows, Held
<1>2. Live(r) = {}
  <2>1. Known(r) = run[r].job
    BY <1>1 DEF Known, Dead, Judging
  <2>2. Live(r) \subseteq {run[r].job}
    BY <1>1, <2>1, OneInSight
  <2> QED
    BY <1>1, <2>2 DEF Dead, Live
<1>3. p \in Workers => work[p].run # r
  BY <1>2, LiveHand
<1>4. p \in Runs => work[p].run # r
  BY <1>1 DEF Hands
<1> QED
  BY <1>3, <1>4 DEF Procs

LEMMA CountedResume ==
    ASSUME Rows, OneKnown, InSight, Hands, Counted, NEW s \in Runs, Resume(s)
    PROVE  Counted'
<1>0. /\ DOMAIN pass \subseteq Runs /\ pass \in [DOMAIN pass -> Seen]
      /\ s \in DOMAIN pass /\ pass[s].todo = "judge" /\ pass[s] \in Seen
      /\ Dead(s) /\ run' = run /\ work' = work
  BY DEF Rows, Held, Resume, Dead, Judging, rowvars
<1>1. /\ Len(jobs) < MaxJobs /\ jobs' = Enqueued(s, "reaper")
      /\ pass' = [pass EXCEPT ![s].todo = "resume", ![s].job = Len(jobs) + 1]
  BY DEF Resume
<1>2. /\ DOMAIN pass' = DOMAIN pass /\ \A r \in DOMAIN pass : r # s => pass'[r] = pass[r]
      /\ pass'[s].todo = "resume" /\ pass'[s].row = pass[s].row
  BY <1>0, <1>1 DEF Seen
<1>3. /\ DOMAIN jobs' = DOMAIN jobs \cup {Len(jobs) + 1} /\ Len(jobs) + 1 \notin DOMAIN jobs
      /\ \A j \in DOMAIN jobs : jobs'[j] = jobs[j]
      /\ jobs'[Len(jobs) + 1] = [run |-> s, state |-> "queued", by |-> "reaper"]
  BY <1>1, NewJob
<1>4. Again(s)' = Again(s) \cup {Len(jobs) + 1} /\ Len(jobs) + 1 \notin Again(s)
  BY <1>3 DEF Again
<1>5. Cardinality(Again(s))' = Cardinality(Again(s)) + 1
  <2>1. Again(s) \subseteq 1..Len(jobs) /\ Len(jobs) \in Nat
    BY JobTypes DEF Again
  <2>2. IsFiniteSet(Again(s))
    <3>1. IsFiniteSet(1..Len(jobs)) /\ Again(s) \in SUBSET (1..Len(jobs))
      BY <2>1, FS_Interval
    <3> QED
      BY <3>1, FS_Subset
  <2> QED
    BY <1>4, <2>2, FS_AddElement
<1>6. ~Resuming(s) /\ Resuming(s)'
  BY <1>0, <1>2 DEF Resuming
<1>7. Cardinality(Again(s))' = Count(s)'
  <2>1. run[s].resumes \in Nat
    <3>1. run[s] \in Row
      BY DEF Rows, TypeOK
    <3> QED
      BY <3>1 DEF Row, MAX_RESUMES
  <2>2. Count(s) = run[s].resumes /\ Count(s)' = run[s].resumes + 1
    BY <1>0, <1>6, <2>1 DEF Count
  <2>3. Cardinality(Again(s)) = Count(s)
    BY DEF Counted
  <2> QED
    BY <1>5, <2>2, <2>3
<1>8. ASSUME NEW r \in Runs, r # s PROVE Cardinality(Again(r))' = Count(r)'
  <2>1. Again(r)' = Again(r)
    BY <1>3, <1>8 DEF Again
  <2>2. Resuming(r)' <=> Resuming(r)
    BY <1>2, <1>8 DEF Resuming
  <2>3. Count(r)' = Count(r)
    BY <1>0, <2>2 DEF Count
  <2> QED
    BY <2>1, <2>3 DEF Counted
<1>9. Carried'
  <2> SUFFICES ASSUME NEW p \in Procs, work[p].at \in Working
               PROVE  work[p].sees.resumes = run[work[p].run].resumes /\ ~Resuming(work[p].run)'
    BY <1>0 DEF Carried
  <2>1. work[p].run # s
    BY <1>0, DeadAlone DEF Working
  <2>2. PICK r : r = work[p].run
    OBVIOUS
  <2>3. Resuming(r)' => Resuming(r)
    BY <1>2, <2>1, <2>2 DEF Resuming
  <2>4. Resuming(work[p].run)' => Resuming(r)'
    BY <1>0, <2>2 DEF Resuming
  <2> QED
    BY <2>2, <2>3, <2>4 DEF Counted, Carried
<1>10. \A r \in DOMAIN pass' : pass'[r].row.resumes = run'[r].resumes
  BY <1>0, <1>2 DEF Counted
<1> QED
  BY <1>7, <1>8, <1>9, <1>10 DEF Counted

LEMMA CountedPass ==
    ASSUME Rows, Counted, Scan \/ CommitPass
    PROVE  Counted'
<1>0. /\ run \in [Runs -> Row] /\ DOMAIN pass \subseteq Runs /\ pass \in [DOMAIN pass -> Seen]
      /\ \A r \in DOMAIN pass : pass[r].row.resumes = run[r].resumes
      /\ \A r \in Runs : Cardinality(Again(r)) = Count(r)
      /\ Carried
  BY DEF Rows, TypeOK, Held, Counted
<1>1. CASE Scan
  <2>1. /\ pass = NoPass /\ UNCHANGED <<run, jobs, work>>
        /\ DOMAIN pass' \subseteq Runs
        /\ \A r \in DOMAIN pass' : pass'[r].row = run[r] /\ pass'[r].todo = "judge"
    BY <1>1 DEF Scan, rowvars
  <2>2. \A r : ~Resuming(r) /\ ~Resuming(r)'
    BY <2>1, EmptyPass DEF Resuming
  <2>3. \A r \in Runs : Again(r)' = Again(r)
    BY <2>1 DEF Again
  <2>4. \A p \in Procs : work[p].at \in Working => work[p].run \in Runs
    BY DEF Rows, Held, Working
  <2> QED
    BY <1>0, <2>1, <2>2, <2>3, <2>4, CountedSame DEF Carried
<1>2. CASE CommitPass
  <2>1. /\ run' = [r \in Runs |-> IF r \in DOMAIN pass THEN Recovered(r) ELSE run[r]]
        /\ pass' = NoPass /\ UNCHANGED <<jobs, work>>
    BY <1>2 DEF CommitPass
  <2>2. DOMAIN pass' = {} /\ \A r : ~Resuming(r)'
    BY <2>1, EmptyPass DEF Resuming
  <2>3. \A r \in Runs : run'[r].resumes = Count(r)
    <3> TAKE r \in Runs
    <3>0. run[r] \in Row /\ run[r].resumes \in Nat
      BY <1>0 DEF Row, MAX_RESUMES
    <3>1. CASE Resuming(r)
      <4>1. run'[r] = [run[r] EXCEPT !.job = pass[r].job, !.resumes = pass[r].row.resumes + 1]
        BY <2>1, <3>1 DEF Resuming, Recovered
      <4>2. run'[r].resumes = pass[r].row.resumes + 1
        BY <3>0, <4>1 DEF Row
      <4> QED
        BY <1>0, <3>1, <4>2 DEF Resuming, Count
    <3>2. CASE ~Resuming(r) /\ r \in DOMAIN pass /\ pass[r].todo = "stop"
      <4>1. run'[r] = [run[r] EXCEPT !.status = "stopped", !.resumes = pass[r].row.resumes]
        BY <2>1, <3>2 DEF Recovered
      <4>2. run'[r].resumes = pass[r].row.resumes
        BY <3>0, <4>1 DEF Row
      <4> QED
        BY <1>0, <3>0, <3>2, <4>2 DEF Count
    <3>3. CASE ~Resuming(r) /\ ~(r \in DOMAIN pass /\ pass[r].todo = "stop")
      <4>1. run'[r] = run[r]
        BY <2>1, <3>3 DEF Resuming, Recovered
      <4> QED
        BY <3>0, <3>3, <4>1 DEF Count
    <3> QED
      BY <3>1, <3>2, <3>3
  <2>4. \A r \in Runs : Count(r)' = run'[r].resumes
    <3> TAKE r \in Runs
    <3>1. run[r].resumes \in Nat
      BY <1>0 DEF Row, MAX_RESUMES
    <3>2. run'[r].resumes \in Nat
      BY <2>3, <3>1 DEF Count
    <3> QED
      BY <2>2, <3>2 DEF Count
  <2>5. \A r \in Runs : Cardinality(Again(r))' = Count(r)'
    BY <1>0, <2>1, <2>3, <2>4 DEF Again
  <2>6. Carried'
    <3> SUFFICES ASSUME NEW p \in Procs, work[p].at \in Working
                 PROVE  work[p].sees.resumes = run'[work[p].run].resumes
      BY <2>1, <2>2 DEF Carried
    <3>1. /\ work[p].run \in Runs /\ work[p].sees.resumes = run[work[p].run].resumes
          /\ ~Resuming(work[p].run)
      BY <1>0 DEF Rows, Held, Working, Carried
    <3>2. run[work[p].run].resumes \in Nat
      BY <1>0, <3>1 DEF Row, MAX_RESUMES
    <3> QED
      BY <2>3, <3>1, <3>2 DEF Count
  <2> QED
    BY <2>2, <2>5, <2>6 DEF Counted
<1> QED
  BY <1>1, <1>2

LEMMA CountedOther ==
    ASSUME Rows, OneKnown, InSight, Hands, Blank, Counted, Next, ~Interrupt,
           ~\E p \in Procs : Step(p) \/ touch(p) \/ Die(p)
    PROVE  Counted'
<1>0. /\ run \in [Runs -> Row] /\ work \in [Procs -> Work] /\ DOMAIN pass \subseteq Runs
      /\ pass \in [DOMAIN pass -> Seen]
  BY DEF Rows, TypeOK, Held
<1>1. CASE (\E p \in Workers : Take(p)) \/ Blackout
  <2>1. UNCHANGED <<run, pass>>
    BY <1>1 DEF Take, Blackout, rowvars
  <2>2. /\ DOMAIN jobs' = DOMAIN jobs
        /\ \A j \in DOMAIN jobs : jobs'[j].run = jobs[j].run /\ jobs'[j].by = jobs[j].by
    <3>1. CASE Blackout
      BY <3>1, JobTypes DEF Blackout, Job
    <3>2. ASSUME NEW i \in DOMAIN jobs, jobs' = [jobs EXCEPT ![i].state = "started"]
          PROVE  /\ DOMAIN jobs' = DOMAIN jobs
                 /\ \A j \in DOMAIN jobs : jobs'[j].run = jobs[j].run /\ jobs'[j].by = jobs[j].by
      BY <3>2, JobTypes DEF Job
    <3>3. CASE \E p \in Workers : Take(p)
      BY <3>2, <3>3 DEF Take
    <3> QED
      BY <1>1, <3>1, <3>3
  <2>3. \A p \in Procs : work'[p] = work[p] \/ work'[p].at \notin Working
    <3>1. CASE Blackout
      BY <3>1 DEF Blackout
    <3>2. ASSUME NEW q \in Workers, Take(q)
          PROVE  \A p \in Procs : work'[p] = work[p] \/ work'[p].at \notin Working
      BY <1>0, <3>2 DEF Take, Set, Idle, Working, Procs
    <3> QED
      BY <1>1, <3>1, <3>2
  <2> QED
    BY <2>1, <2>2, <2>3, AgainSame, CountedKept DEF Resuming
<1>2. ASSUME NEW s \in Runs, Press(s) PROVE Counted'
  <2>1. UNCHANGED <<run, pass, work>> /\ Len(jobs) < MaxJobs /\ jobs' = Enqueued(s, "person")
    BY <1>2 DEF Press
  <2>2. /\ DOMAIN jobs' = DOMAIN jobs \cup {Len(jobs) + 1}
        /\ \A j \in DOMAIN jobs : jobs'[j] = jobs[j]
        /\ jobs'[Len(jobs) + 1] = [run |-> s, state |-> "queued", by |-> "person"]
    BY <2>1, NewJob
  <2>3. \A r \in Runs : Again(r)' = Again(r)
    BY <2>2 DEF Again
  <2> QED
    BY <2>1, <2>3, CountedKept DEF Resuming
<1>3. ASSUME NEW s \in Runs, CommitStart(s) \/ RollBackStart(s) PROVE Counted'
  <2>1. UNCHANGED <<pass, work, jobs>> /\ run[s].status = "none"
    BY <1>3 DEF CommitStart, RollBackStart, Rows, Held
  <2>2. \A r \in Runs : run'[r].resumes = run[r].resumes
    <3>1. CASE CommitStart(s)
      <4>1. run'[s].resumes = 0 /\ \A r \in Runs : r # s => run'[r] = run[r]
        BY <1>0, <3>1 DEF CommitStart, NoRow
      <4> QED
        BY <2>1, <4>1 DEF Blank
    <3> QED
      BY <1>3, <3>1 DEF RollBackStart
  <2> QED
    BY <2>1, <2>2, CountedKept DEF Resuming, Again
<1>4. ASSUME NEW s \in Runs, ConsoleStart(s) PROVE Counted'
  <2> DEFINE row == [NoRow EXCEPT !.status = "running", !.found = TRUE]
  <2>1. /\ run' = [run EXCEPT ![s] = row] /\ run[s].status = "none" /\ UNCHANGED <<pass, jobs>>
        /\ work' = [work EXCEPT ![s] = [Idle EXCEPT !.at = "listed", !.run = s, !.sees = row]]
    BY <1>4 DEF ConsoleStart, Set, Unused
  <2>2. row.resumes = 0
    BY DEF NoRow
  <2> HIDE DEF row
  <2>3. s \notin DOMAIN pass /\ run[s].resumes = 0
    BY <2>1 DEF Blank, Rows, Held
  <2>4. /\ work'[s].run = s /\ work'[s].sees.resumes = 0
        /\ \A p \in Procs : p # s => work'[p] = work[p]
    BY <1>0, <2>1, <2>2 DEF Idle, Procs
  <2>5. \A r \in Runs : run'[r].resumes = run[r].resumes
    BY <1>0, <2>1, <2>2, <2>3
  <2>6. \A p \in Procs : work'[p].at \in Working =>
          /\ work'[p].run \in Runs /\ ~Resuming(work'[p].run)
          /\ work'[p].sees.resumes = run[work'[p].run].resumes
    <3>1. \A p \in Procs : work[p].at \in Working =>
            /\ work[p].run \in Runs /\ ~Resuming(work[p].run)
            /\ work[p].sees.resumes = run[work[p].run].resumes
      BY DEF Rows, Held, Working, Counted, Carried
    <3>2. ~Resuming(s)
      BY <2>3 DEF Resuming
    <3> QED
      BY <2>3, <2>4, <3>1, <3>2
  <2>7. /\ \A r \in Runs : (Resuming(r)' <=> Resuming(r)) /\ Again(r)' = Again(r)
        /\ \A r \in DOMAIN pass' : pass'[r].row.resumes = run[r].resumes
    BY <2>1 DEF Resuming, Again, Counted
  <2> QED
    BY <1>0, <2>1, <2>5, <2>6, <2>7, CountedSame
<1>5. ASSUME NEW s \in Runs, Unknown(s) \/ Judge(s) PROVE Counted'
  <2>1. CASE Resume(s)
    BY <2>1, CountedResume
  <2>2. ASSUME NEW todo \in {"leave", "stop"}, Decide(s, todo), Judging(s), UNCHANGED <<run, jobs, work>>
        PROVE  Counted'
    <3>1. /\ DOMAIN pass' = DOMAIN pass /\ \A r \in DOMAIN pass : r # s => pass'[r] = pass[r]
          /\ pass'[s].todo = todo /\ pass'[s].row = pass[s].row
      BY <1>0, <2>2 DEF Decide, Judging, Seen
    <3>2. \A r \in Runs : Resuming(r)' <=> Resuming(r)
      BY <2>2, <3>1 DEF Resuming, Judging
    <3> QED
      BY <2>2, <3>1, <3>2, CountedKept DEF Again
  <2> QED
    BY <1>5, <2>1, <2>2 DEF Unknown, Judge, Alive, Wait, Bury, Dead, rowvars
<1>6. CASE Scan \/ CommitPass
  BY <1>6, CountedPass
<1>7. ASSUME NEW s \in Runs, Tick(s) PROVE Counted'
  <2>1. UNCHANGED <<run, pass, work, jobs>>
    BY <1>7 DEF Tick
  <2> QED
    BY <2>1, CountedKept DEF Resuming, Again
<1> QED
  BY <1>1, <1>2, <1>3, <1>4, <1>5, <1>6, <1>7, NextKinds

InCount == QuickPass /\ InSight => Counted

LEMMA InitCount == Init => InCount
<1> SUFFICES ASSUME Init PROVE Counted
  BY DEF InCount
<1>1. Carried
  BY DEF Init, Carried, Idle, Procs, Working
<1>2. DOMAIN pass = {}
  BY EmptyPass DEF Init
<1>3. ASSUME NEW r \in Runs PROVE Cardinality(Again(r)) = Count(r)
  <2>1. Again(r) = {}
    BY DEF Init, Again
  <2>2. Count(r) = 0
    BY <1>2 DEF Init, Count, Resuming, NoRow
  <2> QED
    BY <2>1, <2>2, FS_EmptySet
<1> QED
  BY <1>1, <1>2, <1>3 DEF Counted

LEMMA NextCount ==
    Rows /\ OneKnown /\ InHand /\ Blank /\ InCount /\ [Next]_vars => InCount'
<1> SUFFICES ASSUME Rows, OneKnown, InHand, Blank, InCount, [Next]_vars PROVE InCount'
  OBVIOUS
<1>1. CASE UNCHANGED vars
  BY <1>1 DEF vars, rowvars, faults, InCount, InSight, Counted, Carried, Count, Again, Resuming
<1>2. ASSUME Next, QuickPass, InSight' PROVE Counted'
  <2>1. InSight /\ ~Interrupt
    BY <1>2, SightBack
  <2>2. Hands /\ Counted /\ Rows'
    BY <1>2, <2>1, NextRows DEF InHand, InCount
  <2>3. CASE \E p \in Procs : Step(p) \/ touch(p) \/ Die(p)
    BY <1>2, <2>2, <2>3, ProcSteps, StepRows, CountedStep
  <2>4. CASE ~\E p \in Procs : Step(p) \/ touch(p) \/ Die(p)
    BY <1>2, <2>1, <2>2, <2>4, CountedOther
  <2> QED
    BY <2>3, <2>4
<1> QED
  BY <1>1, <1>2 DEF InCount

\* The reaper gives a run MAX_RESUMES further jobs at most, as long as it sees every job
\* and is quick: no job reads its run between the pass that queued it and the commit of
\* that pass (lifecycle.recover, repository.carried_notes).
THEOREM ResumesBoundedHolds == ASSUME QuickPass PROVE Spec => []ResumesBounded
<1>1. Rows /\ InCount => ResumesBounded
  <2> SUFFICES ASSUME Rows, Counted, NEW r \in Runs PROVE Cardinality(Again(r)) <= MAX_RESUMES
    BY DEF ResumesBounded, InCount, Again
  <2>1. Cardinality(Again(r)) = Count(r) /\ run[r].resumes \in 0..MAX_RESUMES
    BY DEF Counted, Rows, TypeOK, Row
  <2>2. Resuming(r) => run[r].resumes < MAX_RESUMES
    BY DEF Resuming, Counted, Rows, Held
  <2> QED
    BY <2>1, <2>2 DEF Count, MAX_RESUMES
<1>2. Init => Rows /\ OneKnown /\ InHand /\ Blank /\ InCount
  BY InitRows, InitKnown, InitInHand, InitBooks, InitCount
<1>3. Rows /\ OneKnown /\ InHand /\ Blank /\ InBooks /\ InCount /\ [Next]_vars
        => (Rows /\ OneKnown /\ InHand /\ Blank /\ InBooks /\ InCount)'
  BY NextRows, NextKnown, NextInHand, NextBooks, NextCount
<1>4. Init => InBooks
  BY InitBooks
<1> QED
  BY <1>1, <1>2, <1>3, <1>4, PTL DEF Spec
=============================================================================
