------------------------------- MODULE RunLife -------------------------------
(***************************************************************************)
(* The life of a run (a paid search for donors): the row of the table      *)
(* runs, the jobs of the queue "runs", and who acts on them:               *)
(*   - people: they start a run on the screen, or in a console;            *)
(*   - Workers: processes that take jobs and carry the run through         *)
(*     execute_run (a console run is carried by the console itself);       *)
(*   - the reaper: lifecycle.recover, which gives a silent run another job *)
(*     and closes the hopeless one.                                        *)
(* The money of a run is in RunBudget.                                     *)
(***************************************************************************)
EXTENDS Integers, Sequences, FiniteSets

CONSTANTS
    Runs,          \* runs somebody starts, on the screen or in a console
    Workers,       \* processes that listen to the queue
    QuickPass,     \* a pass of the reaper is over before a job it has queued,
                   \* or one that starts meanwhile, reads its run
    MaxJobs,       \* bound: jobs ever queued
    MaxFaults      \* bound: processes that die in the middle of a run, restarts
                   \* of Redis that lose its jobs, passes that do not commit

ASSUME ActorAssumption == Runs \cap Workers = {} /\ "-" \notin Runs
ASSUME FaultAssumption ==
    /\ QuickPass \in BOOLEAN
    /\ MaxJobs \in Nat /\ MaxFaults \in Nat

\* A console run has a process of its own, named after it.
Procs == Workers \cup Runs

MAX_RESUMES == 2
\* How long a run has been silent: not yet RESUME_AFTER_SEC, more than that,
\* more than STALE_AFTER_SEC.
Silence == 0..2
STALE == 2
ACTIVE == {"queued", "running"}
RunStatus == {"none", "stopped", "done"} \cup ACTIVE
JobIds == 1..MaxJobs

VARIABLES
    run,        \* the rows
    silent,     \* the age of updated_at
    pressed,    \* the job of a start that is not committed yet, 0 for none
    jobs,       \* the jobs of the queue, oldest first
    work,       \* the processes
    pass,       \* the reaper's pass: the rows it has read and what it decided
    deaths, blackouts, interrupts,
    bought,     \* history: times the search results of a run were paid for
    lost        \* history: purchases whose attempt ended before saving them

rowvars == <<run, silent, pressed>>
faults == <<deaths, blackouts, interrupts>>
history == <<bought, lost>>
vars == <<rowvars, jobs, work, pass, faults, history>>

Row == [status : RunStatus,
        job : 0..MaxJobs,          \* job_id, 0 for NULL
        resumes : 0..MAX_RESUMES,  \* stats["resumes"]
        found : BOOLEAN,           \* candidates are saved
        priced : BOOLEAN]          \* estimated_units is set
NoRow == [status |-> "none", job |-> 0, resumes |-> 0, found |-> FALSE, priced |-> FALSE]

Job == [run : Runs, state : {"queued", "started", "over"}, by : {"person", "reaper"}]

\* What a process knows of its run is what its session has read; it is not
\* read again (expire_on_commit=False).
Work == [at : {"idle", "taken", "loaded", "running", "bought", "listed",
               "collecting", "failing"},
         job : 0..MaxJobs,
         run : Runs \cup {"-"},
         sees : Row,
         fatal : BOOLEAN]
Idle == [at |-> "idle", job |-> 0, run |-> "-", sees |-> NoRow, fatal |-> FALSE]

\* "judge": still to be looked at; "leave": left alone.
Verdict == {"judge", "leave", "resume", "stop"}
Seen == [row : Row, silent : Silence, todo : Verdict, job : 0..MaxJobs]
NoPass == <<>>

TypeOK ==
    /\ run \in [Runs -> Row]
    /\ silent \in [Runs -> Silence]
    /\ pressed \in [Runs -> 0..MaxJobs]
    /\ jobs \in Seq(Job) /\ Len(jobs) <= MaxJobs
    /\ work \in [Procs -> Work]
    /\ \E S \in SUBSET Runs : pass \in [S -> Seen]
    /\ deaths \in Nat /\ blackouts \in Nat /\ interrupts \in Nat
    /\ bought \in [Runs -> Nat] /\ lost \in [Runs -> Nat]

Init ==
    /\ run = [r \in Runs |-> NoRow]
    /\ silent = [r \in Runs |-> 0]
    /\ pressed = [r \in Runs |-> 0]
    /\ jobs = <<>>
    /\ work = [p \in Procs |-> Idle]
    /\ pass = NoPass
    /\ deaths = 0 /\ blackouts = 0 /\ interrupts = 0
    /\ bought = [r \in Runs |-> 0]
    /\ lost = [r \in Runs |-> 0]

-----------------------------------------------------------------------------
(* Rows, jobs and processes.                                               *)

Open(r) == run[r].status \in ACTIVE
MayFail == deaths + blackouts + interrupts < MaxFaults

\* The reaper's UPDATEs wait for its commit at the end of the pass, and other
\* writers of the row wait for them.
Free(r) == r \in DOMAIN pass => pass[r].todo \notin {"resume", "stop"}

\* Every UPDATE of the row moves updated_at; nothing to write, no UPDATE.
Write(r, row) ==
    /\ row # run[r] => Free(r)
    /\ run' = [run EXCEPT ![r] = row]
    /\ silent' = [silent EXCEPT ![r] = IF row = run[r] THEN @ ELSE 0]

Enqueued(r, who) == Append(jobs, [run |-> r, state |-> "queued", by |-> who])
Ended(js, j) == [i \in DOMAIN js |-> IF i = j THEN [js[i] EXCEPT !.state = "over"] ELSE js[i]]

\* queue.job_alive: queued, or started by a worker whose key is there.
\* A job that is not in Redis is dead.
job_alive(j) == jobs[j].state \in {"queued", "started"}

Set(p, w) == work' = [work EXCEPT ![p] = w]
At(p, at) == Set(p, [work[p] EXCEPT !.at = at])

\* The process is done with its job.
Release(p) ==
    /\ Set(p, Idle)
    /\ jobs' = Ended(jobs, work[p].job)

-----------------------------------------------------------------------------
(* Starting a run: api/runs/routes.enqueue_run queues the job before it     *)
(* commits the row; the console has no job and no row of its own before it  *)
(* has bought the search results.                                          *)

\* The number of a run is used once, even if its start is rolled back.
Unused(r) == run[r].status = "none" /\ \A j \in DOMAIN jobs : jobs[j].run # r

Press(r) ==
    /\ Unused(r)
    /\ Len(jobs) < MaxJobs
    /\ jobs' = Enqueued(r, "person")
    /\ pressed' = [pressed EXCEPT ![r] = Len(jobs) + 1]
    /\ UNCHANGED <<run, silent, work, pass, faults, history>>

CommitStart(r) ==
    /\ pressed[r] # 0
    /\ run' = [run EXCEPT ![r] = [NoRow EXCEPT !.status = "queued", !.job = pressed[r]]]
    /\ silent' = [silent EXCEPT ![r] = 0]
    /\ pressed' = [pressed EXCEPT ![r] = 0]
    /\ UNCHANGED <<jobs, work, pass, faults, history>>

RollBackStart(r) ==
    /\ pressed[r] # 0
    /\ pressed' = [pressed EXCEPT ![r] = 0]
    /\ UNCHANGED <<run, silent, jobs, work, pass, faults, history>>

ConsoleStart(r) ==
    /\ Unused(r)
    /\ bought' = [bought EXCEPT ![r] = @ + 1]
    /\ LET row == [NoRow EXCEPT !.status = "running", !.found = TRUE]
       IN /\ run' = [run EXCEPT ![r] = row]
          /\ Set(r, [Idle EXCEPT !.at = "listed", !.run = r, !.sees = row])
    /\ UNCHANGED <<silent, pressed, jobs, pass, faults, lost>>

-----------------------------------------------------------------------------
(* A worker carries a run: run_job._search, _run, pipeline.execute_run.     *)

Take(p) ==
    /\ work[p].at = "idle"
    /\ \E j \in DOMAIN jobs :
         /\ jobs[j].state = "queued"
         /\ \A i \in 1..(j - 1) : jobs[i].state # "queued"
         /\ jobs' = [jobs EXCEPT ![j].state = "started"]
         /\ Set(p, [Idle EXCEPT !.at = "taken", !.job = j, !.run = jobs[j].run])
    /\ UNCHANGED <<rowvars, pass, faults, history>>

\* runs.get: the row as it is; a job whose row is not there fails.
Load(p) ==
    LET r == work[p].run
    IN /\ work[p].at = "taken"
       /\ QuickPass => r \notin DOMAIN pass
       /\ \/ /\ run[r].status # "none"
             /\ Set(p, [work[p] EXCEPT !.at = "loaded", !.sees = run[r]])
          \/ /\ run[r].status = "none"
             /\ At(p, "failing")
       /\ UNCHANGED <<rowvars, jobs, pass, faults, history>>

\* The ORM writes the status only if the session has read another one.
mark_running(p) ==
    LET r == work[p].run
        w == work[p]
    IN /\ w.at = "loaded"
       /\ Write(r, IF w.sees.status = "running" THEN run[r]
                   ELSE [run[r] EXCEPT !.status = "running"])
       /\ Set(p, [w EXCEPT !.at = "running", !.sees.status = "running"])
       /\ UNCHANGED <<pressed, jobs, pass, faults, history>>

\* _candidates_for: saved by an earlier attempt, or bought.
Restored(p) ==
    /\ work[p].at = "running" /\ work[p].sees.found
    /\ At(p, "listed")
    /\ UNCHANGED <<rowvars, jobs, pass, faults, history>>

Buy(p) ==
    /\ work[p].at = "running" /\ ~work[p].sees.found
    /\ bought' = [bought EXCEPT ![work[p].run] = @ + 1]
    /\ At(p, "bought")
    /\ UNCHANGED <<rowvars, jobs, pass, faults, lost>>

\* Mutant: the candidates are not written down.
XSavesNothing(p) ==
    /\ work[p].at = "bought"
    /\ At(p, "listed")
    /\ UNCHANGED <<rowvars, jobs, pass, faults, history>>

save_candidates(p) ==
    LET r == work[p].run
    IN /\ work[p].at = "bought"
       /\ Write(r, [run[r] EXCEPT !.found = TRUE])
       /\ At(p, "listed")
       /\ UNCHANGED <<pressed, jobs, pass, faults, history>>

\* plan_run has found the money, set_estimate is written once.
Plan(p) ==
    LET r == work[p].run
    IN /\ work[p].at = "listed"
       /\ Write(r, IF work[p].sees.priced THEN run[r] ELSE [run[r] EXCEPT !.priced = TRUE])
       /\ At(p, "collecting")
       /\ UNCHANGED <<pressed, jobs, pass, faults, history>>

\* Mutant: the report of an attempt replaces the notes as well.
XForgetsResumes(p, row) == [row EXCEPT !.resumes = 0]

\* carried_notes: the report of an attempt replaces the one before, and the
\* count of resumes is carried over from what the session has read.
Reported(p, row) == [row EXCEPT !.resumes = work[p].sees.resumes]

\* pipeline._close of an attempt that has gone through.
FinishDone(p) ==
    LET r == work[p].run
    IN /\ work[p].at = "collecting"
       /\ Free(r)
       /\ run' = [run EXCEPT ![r] = [Reported(p, run[r]) EXCEPT !.status = "done"]]
       /\ silent' = [silent EXCEPT ![r] = 0]
       /\ Release(p)
       /\ UNCHANGED <<pressed, pass, faults, history>>

\* Where a failed attempt goes: a job tells of it in _mark, a console ends.
Fail(p, fatal) ==
    IF p \in Runs
    THEN Set(p, Idle)
    ELSE Set(p, [work[p] EXCEPT !.at = "failing", !.fatal = fatal])

\* A failure before the collecting: of the check of the model, the ceiling,
\* the purchase, the plan.
FailEarly(p) ==
    /\ work[p].at \in {"taken", "loaded", "running", "bought", "listed"}
    /\ \E fatal \in BOOLEAN : Fail(p, fatal)
    /\ lost' = [lost EXCEPT ![work[p].run] = IF work[p].at = "bought" THEN @ + 1 ELSE @]
    /\ UNCHANGED <<rowvars, jobs, pass, faults, bought>>

\* _close of an attempt that failed in the middle of collecting.  A failure
\* that a retry may heal leaves the run "running".
CloseFailed(p, fatal) ==
    LET r == work[p].run
    IN /\ work[p].at = "collecting"
       /\ Free(r)
       /\ run' = [run EXCEPT ![r] = IF fatal THEN [Reported(p, @) EXCEPT !.status = "stopped"]
                                    ELSE Reported(p, @)]
       /\ silent' = [silent EXCEPT ![r] = 0]
       /\ Fail(p, fatal)
       /\ UNCHANGED <<pressed, jobs, pass, faults, history>>

\* run_job._mark: a session of its own writes the reason; stop_run closes the
\* run, and the alarm goes only if this write has closed it.
_mark(p) ==
    LET r == work[p].run
        stops == work[p].fatal /\ run[r].status # "stopped"
    IN /\ work[p].at = "failing"
       /\ Free(r)
       /\ run' = [run EXCEPT ![r].status = IF stops /\ @ # "none" THEN "stopped" ELSE @]
       /\ silent' = [silent EXCEPT ![r] = 0]
       /\ Release(p)
       /\ UNCHANGED <<pressed, pass, faults, history>>

\* lifecycle.heartbeat, from the first step of the work to its end.  A console
\* run has none.
Beats(p) == p \in Workers /\ work[p].at \in {"loaded", "running", "bought", "listed", "collecting"}

touch(p) ==
    /\ Beats(p) /\ Free(work[p].run)
    /\ silent[work[p].run] > 0
    /\ silent' = [silent EXCEPT ![work[p].run] = 0]
    /\ UNCHANGED <<run, pressed, jobs, work, pass, faults, history>>

-----------------------------------------------------------------------------
(* The reaper: lifecycle.recover over the runs nobody has heard of.         *)

\* repository.stale for both statuses.
Scan ==
    /\ pass = NoPass
    /\ \E r \in Runs : Open(r) /\ silent[r] > 0
    /\ pass' = [r \in {s \in Runs : Open(s) /\ silent[s] > 0} |->
                  [row |-> run[r], silent |-> silent[r], todo |-> "judge", job |-> 0]]
    /\ UNCHANGED <<rowvars, jobs, work, faults, history>>

Judging(r) == r \in DOMAIN pass /\ pass[r].todo = "judge"
Decide(r, todo) == pass' = [pass EXCEPT ![r].todo = todo]

\* Without a job, or with a queue that does not answer, nobody knows.
Unknown(r) ==
    /\ Judging(r)
    /\ Decide(r, "leave")
    /\ UNCHANGED <<rowvars, jobs, work, faults, history>>

Alive(r) ==
    /\ Judging(r) /\ pass[r].row.job # 0
    /\ job_alive(pass[r].row.job)
    /\ Decide(r, "leave")
    /\ UNCHANGED <<rowvars, jobs, work, faults, history>>

\* Mutant: silence alone is death.
XSilent(r) == Judging(r) /\ pass[r].row.job # 0

Dead(r) == Judging(r) /\ pass[r].row.job # 0 /\ ~job_alive(pass[r].row.job)

\* Mutant: no ceiling.
XResumeForEver(r) ==
    /\ Dead(r)
    /\ Len(jobs) < MaxJobs
    /\ jobs' = Enqueued(r, "reaper")
    /\ pass' = [pass EXCEPT ![r].todo = "resume", ![r].job = Len(jobs) + 1]
    /\ UNCHANGED <<rowvars, work, faults, history>>

Resume(r) ==
    /\ Dead(r) /\ pass[r].row.resumes < MAX_RESUMES
    /\ Len(jobs) < MaxJobs
    /\ jobs' = Enqueued(r, "reaper")
    /\ pass' = [pass EXCEPT ![r].todo = "resume", ![r].job = Len(jobs) + 1]
    /\ UNCHANGED <<rowvars, work, faults, history>>

\* Out of resumes, but not silent for long enough.
Wait(r) ==
    /\ Dead(r) /\ pass[r].row.resumes = MAX_RESUMES
    /\ pass[r].silent < STALE
    /\ Decide(r, "leave")
    /\ UNCHANGED <<rowvars, jobs, work, faults, history>>

\* Mutant: a run out of resumes is closed for its silence alone.
XBurySilent(r) ==
    /\ Judging(r) /\ pass[r].row.resumes = MAX_RESUMES
    /\ pass[r].silent = STALE
    /\ Decide(r, "stop")
    /\ UNCHANGED <<rowvars, jobs, work, faults, history>>

Bury(r) ==
    /\ Dead(r) /\ pass[r].row.resumes = MAX_RESUMES
    /\ pass[r].silent = STALE
    /\ Decide(r, "stop")
    /\ UNCHANGED <<rowvars, jobs, work, faults, history>>

\* Mutant: the reason is written, the run is not closed.
XOnlyNoted(r) ==
    LET s == pass[r]
    IN IF s.todo = "resume"
       THEN [run[r] EXCEPT !.job = s.job, !.resumes = s.row.resumes + 1]
       ELSE run[r]

\* bind_job, save_stats and stop_run write what was decided from the read.
Recovered(r) ==
    LET s == pass[r]
    IN CASE s.todo = "resume" -> [run[r] EXCEPT !.job = s.job, !.resumes = s.row.resumes + 1]
         [] s.todo = "stop" -> [run[r] EXCEPT !.status = "stopped", !.resumes = s.row.resumes]
         [] OTHER -> run[r]

CommitPass ==
    LET judged == DOMAIN pass
    IN /\ pass # NoPass /\ \A r \in judged : ~Judging(r)
       /\ run' = [r \in Runs |-> IF r \in judged THEN Recovered(r) ELSE run[r]]
       /\ silent' = [r \in Runs |-> IF r \in judged /\ ~Free(r) THEN 0 ELSE silent[r]]
       /\ pass' = NoPass
       /\ UNCHANGED <<pressed, jobs, work, faults, history>>

\* The pass ends without its commit: the reaper dies, the database refuses.
\* The jobs it has queued stay in the queue.
Interrupt ==
    /\ pass # NoPass /\ MayFail
    /\ interrupts' = interrupts + 1
    /\ pass' = NoPass
    /\ UNCHANGED <<rowvars, jobs, work, deaths, blackouts, history>>

-----------------------------------------------------------------------------
(* Time and faults.                                                        *)

\* Nobody has written the row for a while.  A heartbeat that cannot write is
\* only logged, so a run that is worked on may fall silent too.
Tick(r) ==
    /\ Open(r) /\ silent[r] < STALE
    /\ silent' = [silent EXCEPT ![r] = @ + 1]
    /\ UNCHANGED <<run, pressed, jobs, work, pass, faults, history>>

\* The process is killed: its job stays "started", without the worker's key.
Die(p) ==
    /\ work[p].at # "idle" /\ MayFail
    /\ deaths' = deaths + 1
    /\ lost' = [lost EXCEPT ![work[p].run] = IF work[p].at = "bought" THEN @ + 1 ELSE @]
    /\ Release(p)
    /\ UNCHANGED <<rowvars, pass, blackouts, interrupts, bought>>

\* Redis restarts without its data: no job is there, the workers go on.
Blackout ==
    /\ MayFail
    /\ \E j \in DOMAIN jobs : jobs[j].state # "over"
    /\ blackouts' = blackouts + 1
    /\ jobs' = [j \in DOMAIN jobs |-> [jobs[j] EXCEPT !.state = "over"]]
    /\ UNCHANGED <<rowvars, work, pass, deaths, interrupts, history>>

-----------------------------------------------------------------------------

Start == \E r \in Runs :
    Press(r) \/ CommitStart(r) \/ RollBackStart(r) \/ ConsoleStart(r)

\* What a process does by itself.
Step(p) ==
    \/ Load(p) \/ mark_running(p) \/ Restored(p) \/ Buy(p) \/ save_candidates(p)
    \/ Plan(p) \/ FinishDone(p) \/ FailEarly(p)
    \/ \E fatal \in BOOLEAN : CloseFailed(p, fatal)
    \/ _mark(p)

\* What the reaper does once the queue has answered it.
Judge(r) == Alive(r) \/ Resume(r) \/ Wait(r) \/ Bury(r)

Reaper ==
    \/ Scan \/ CommitPass \/ Interrupt
    \/ \E r \in Runs : Unknown(r) \/ Judge(r)

Next ==
    \/ Start
    \/ \E p \in Workers : Take(p)
    \/ \E p \in Procs : Step(p) \/ touch(p) \/ Die(p)
    \/ Reaper
    \/ \E r \in Runs : Tick(r)
    \/ Blackout

Spec == Init /\ [][Next]_vars

\* A worker takes jobs and ends what it has begun; the reaper's passes come
\* and end; time goes by; the queue answers again and again.
Fairness ==
    /\ \A p \in Workers : WF_vars(Take(p))
    /\ \A p \in Procs : WF_vars(Step(p))
    /\ WF_vars(Scan) /\ WF_vars(CommitPass)
    /\ \A r \in Runs :
         /\ WF_vars(Unknown(r) \/ Judge(r)) /\ SF_vars(Judge(r))
         /\ WF_vars(Tick(r))

LiveSpec == Spec /\ Fairness

-----------------------------------------------------------------------------
(* Safety.                                                                 *)

Carrying(p, r) == work[p].run = r /\ work[p].at \notin {"idle", "taken", "failing"}

\* Jobs lost by a restarted queue, and jobs queued by a pass that did not
\* commit, are out of the reaper's sight; its promises do not speak of them.
InSight == blackouts = 0 /\ interrupts = 0

\* A run has one job at a time, and one more for every pass that queued a job
\* without committing: the reaper queues another one only when the one it knows
\* of is dead (lifecycle.recover, queue.job_alive).
OneLiveJob ==
    \A r \in Runs :
      Cardinality({j \in DOMAIN jobs : jobs[j].run = r /\ job_alive(j)}) <= 1 + interrupts

\* The reaper gives a run MAX_RESUMES further jobs and no more: the count
\* survives the reports of the attempts (repository.carried_notes).
ResumesBounded ==
    InSight =>
      \A r \in Runs :
        Cardinality({j \in DOMAIN jobs : jobs[j].run = r /\ jobs[j].by = "reaper"})
          <= MAX_RESUMES

\* The search results of a run are bought once, and again only if an attempt
\* ended between the purchase and its commit (pipeline._candidates_for).
BoughtOnce == InSight => \A r \in Runs : bought[r] <= 1 + lost[r]

\* The reaper never closes a run somebody works on (lifecycle.recover).
NoLiveRunIsBuried ==
    [][\A r \in Runs :
         InSight /\ r \in DOMAIN pass /\ pass[r].todo = "stop"
         /\ Open(r) /\ run'[r].status = "stopped"
            => \A p \in Procs : ~Carrying(p, r)]_vars

-----------------------------------------------------------------------------
(* Liveness.                                                               *)

\* A run that has a job is closed at last, whatever its workers, the queue and
\* the reaper go through: its claim on the budget ends (lifecycle.recover,
\* repository.claimed_units).
QueuedRunCloses == \A r \in Runs : Open(r) /\ run[r].job # 0 ~> ~Open(r)
=============================================================================
