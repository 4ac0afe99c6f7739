-------------------------- MODULE InterruptProofs --------------------------
(***************************************************************************)
(* The safety properties of InterruptProperties, for any builds, slots and *)
(* signals.  The inductive invariant says, for each statement, what presto *)
(* owes to the interrupts, to make.jobs and to the goals.                  *)
(***************************************************************************)
EXTENDS InterruptProperties, FiniteSetTheorems, TLAPS

Launching == Starting \cup {"spawned"}
Visiting == Launching \cup {"bring", "deps", "depret", "goalret"}
Dispatching == {"jobs", "back", "removed", "uncounted", "resumed"}
Stopped == {"exit", "stop", "failure", "killed"}
Leaving == depth > 0 \/ pc \in Stopped

\* make.exit's pcalls stand around a dispatch or make.exit itself.
DepthInv ==
    depth > 0 => pc \in Dispatching \cup {"round", "wait", "exit", "killed"}

\* The loops' elements: the goals not yet visited, the goal's dependencies.
GoalInv ==
    /\ \A t \in Target : \A d \in deps[t] : deps[d] = {}
    /\ ~any => goals = {}
    /\ pc \in Visiting \cup {"goals"} => todo \subseteq goals
    /\ pc \in Visiting =>
          /\ goal \in goals \ todo
          /\ cur = goal \/ (cur \in deps[goal] /\ status[goal] = "none")
    /\ pc \in {"deps", "depret"} => left \subseteq deps[goal] /\ status[goal] = "none"
    /\ pc \in Visiting /\ cur # goal => left \subseteq deps[goal]
    /\ pc \in {"deps", "goalret"} => cur = goal
    /\ pc = "depret" => cur # goal
    /\ pc \in Launching \ {"marked"} => status[cur] = "none"
    /\ pc = "marked" => status[cur] \in {"running", "error"}

\* The job that a statement is about.
RoundInv ==
    /\ pc \in Dispatching => round \subseteq running
    /\ pc \in {"resumed", "back"} => id \in running \ round
    /\ pc \in {"removed", "uncounted"} => id # 0 /\ id \notin running
    /\ pc = "spawned" \/ (pc = "started" /\ ok) =>
          id # 0 /\ id \notin running /\ job[id].target = cur
    /\ pc \in {"inserted", "counted"} => id \in running /\ job[id].target = cur
    /\ pc \in {"spawned", "resumed"} \/ (pc = "started" /\ ok) => job[id].co = "live"

\* In the loop over goal's dependencies.
InLoop == pc \in {"deps", "depret"} \/ (pc \in Visiting /\ cur # goal)

\* What lost a dependency is not built, nor taken for something built.
PrunedInv ==
    /\ \A t \in Target : pruned[t] \subseteq deps[t]
    /\ \A t \in Target : pruned[t] # {} => status[t] \in {"none", "error"}
    /\ InLoop => left \cap pruned[goal] = {}
    /\ InLoop /\ cur # goal => cur \notin left \cup pruned[goal]
    /\ pc \in Launching => pruned[cur] = {}
    /\ pc = "goalret" /\ ret \notin {"running", "error"} => pruned[goal] = {}
    /\ \A j \in running : pruned[job[j].target] = {}
    /\ pc \in {"removed", "uncounted"} => pruned[job[id].target] = {}
    /\ \A j \in running :
          LET t == job[j].target IN
          t \in goals /\ deps[t] # {} /\ status[t] = "none" =>
             \/ t = goal /\ t = cur /\ pc \in {"inserted", "counted"}
             \/ t = goal /\ ret = "error" /\ pc = "goalret"
             \/ Leaving

\* The interrupts' error is noted, or on its way to the exit status.
HitInv ==
    /\ hits > 0 =>
          \/ failure \/ Leaving
          \/ ret = "error" /\ pc \in {"depret", "goalret"}
          \/ ~ok /\ pc \in {"started", "back", "removed", "uncounted"}
          \/ status[cur] = "error" /\ pc = "marked"
          \/ keepGoing /\ \E g \in goals : pruned[g] # {}
    /\ pc = "success" => ~failure /\ goals = {}

\* Before the first error every process has a job, every job a target that
\* the goals need, and every visited dependency its status.
Needed(t) == \E g \in goals : t = g \/ t \in deps[g] \ pruned[g]
Updated(D) == \A d \in D : status[d] = "updated"
AliveInv ==
    /\ \A j \in DOMAIN job : Alive(j) =>
          j \in running \/ (j = id /\ pc \in {"spawned", "started"})
    /\ \A j \in running : job[j].co = "live" \/ (j = id /\ pc = "back")
    /\ pc \in {"started", "inserted", "counted"} => ok
    /\ pc = "back" => ~Alive(id)
StatusInv ==
    /\ \A j \in running :
          \/ status[job[j].target] = "running"
          \/ j = id /\ pc \in {"inserted", "counted"}
    /\ pc \in {"removed", "uncounted"} => status[job[id].target] = "running"
    /\ \A j, k \in running : job[j].target = job[k].target => j = k
    /\ pc \in {"removed", "uncounted"} =>
          \A j \in running : job[j].target # job[id].target
NeedInv ==
    /\ \A j \in running : Needed(job[j].target)
    /\ pc \in {"stop", "success", "failure"} => running = {}
DepsInv ==
    /\ \A t \in Target :
          status[t] \in {"running", "updated"} \/ (status[t] = "error" /\ keepGoing)
             => Updated(deps[t] \ pruned[t])
    /\ pc \in Launching => Updated(deps[cur] \ pruned[cur])
    /\ InLoop /\ ~mustWait =>
          Updated((deps[goal] \ pruned[goal]) \ (left \cup {cur}))
    /\ pc = "depret" => ret = status[cur] /\ ret # "none"
    /\ pc = "goalret" => ret = "running" \/ (ret = status[goal] /\ ret # "none")
JobInv ==
    hits = 0 /\ pc # "killed" => AliveInv /\ StatusInv /\ NeedInv /\ DepsInv

IInv ==
    /\ TypeOK /\ DepthInv /\ GoalInv /\ RoundInv /\ PrunedInv /\ HitInv
    /\ CountOffByHits /\ JobInv

-----------------------------------------------------------------------------
(***************************************************************************)
(* Sequences of jobs: one is appended, or a field of one is changed.       *)
(***************************************************************************)
LEMMA JobAppended ==
    ASSUME job \in Seq(Jobs), NEW t \in Target,
           job' = Append(job, [target |-> t, co |-> "live", proc |-> "live"])
    PROVE  /\ job' \in Seq(Jobs) /\ Len(job') = Len(job) + 1
           /\ DOMAIN job' = DOMAIN job \cup {Len(job) + 1}
           /\ \A j \in DOMAIN job : job'[j] = job[j]
           /\ job'[Len(job) + 1] = [target |-> t, co |-> "live", proc |-> "live"]
<1> DEFINE new == [target |-> t, co |-> "live", proc |-> "live"]
<1>1. new \in Jobs
  BY DEF Jobs
<1> HIDE DEF new
<1>2. job' = Append(job, new)
  BY DEF new
<1> QED
  BY <1>1, <1>2 DEF new

LEMMA CoroutineDied ==
    ASSUME job \in Seq(Jobs), NEW i \in DOMAIN job,
           job' = [job EXCEPT ![i].co = "dead"]
    PROVE  /\ job' \in Seq(Jobs) /\ Len(job') = Len(job) /\ DOMAIN job' = DOMAIN job
           /\ \A j \in DOMAIN job :
                 /\ job'[j].target = job[j].target /\ job'[j].proc = job[j].proc
                 /\ j # i => job'[j] = job[j]
           /\ job'[i].co = "dead"
<1> DEFINE new == [job[i] EXCEPT !.co = "dead"]
<1>0. job[i] \in Jobs
  OBVIOUS
<1>1. new \in Jobs /\ new.target = job[i].target /\ new.proc = job[i].proc /\ new.co = "dead"
  BY <1>0 DEF Jobs
<1>2. job' = [job EXCEPT ![i] = new]
  OBVIOUS
<1> HIDE DEF new
<1>3. job' \in Seq(Jobs) /\ Len(job') = Len(job) /\ DOMAIN job' = DOMAIN job
  BY <1>1, <1>2
<1>4. job'[i] = new /\ \A j \in DOMAIN job : j # i => job'[j] = job[j]
  BY <1>2
<1> QED
  BY <1>1, <1>3, <1>4

LEMMA ProcessDied ==
    ASSUME job \in Seq(Jobs), NEW i \in DOMAIN job, NEW e \in {"ok", "bad"},
           job' = [job EXCEPT ![i].proc = e]
    PROVE  /\ job' \in Seq(Jobs) /\ Len(job') = Len(job) /\ DOMAIN job' = DOMAIN job
           /\ \A j \in DOMAIN job :
                 /\ job'[j].target = job[j].target /\ job'[j].co = job[j].co
                 /\ j # i => job'[j] = job[j]
           /\ job'[i].proc = e
<1> DEFINE new == [job[i] EXCEPT !.proc = e]
<1>0. job[i] \in Jobs
  OBVIOUS
<1>1. new \in Jobs /\ new.target = job[i].target /\ new.co = job[i].co /\ new.proc = e
  BY <1>0 DEF Jobs
<1>2. job' = [job EXCEPT ![i] = new]
  OBVIOUS
<1> HIDE DEF new
<1>3. job' \in Seq(Jobs) /\ Len(job') = Len(job) /\ DOMAIN job' = DOMAIN job
  BY <1>1, <1>2
<1>4. job'[i] = new /\ \A j \in DOMAIN job : j # i => job'[j] = job[j]
  BY <1>2
<1> QED
  BY <1>1, <1>3, <1>4

LEMMA JobFields ==
    ASSUME job \in Seq(Jobs)
    PROVE  \A j \in DOMAIN job :
              /\ job[j].target \in Target
              /\ job[j].co \in {"live", "dead"} /\ job[j].proc \in {"live", "ok", "bad"}
<1> SUFFICES ASSUME NEW j \in DOMAIN job
             PROVE  /\ job[j].target \in Target /\ job[j].co \in {"live", "dead"}
                    /\ job[j].proc \in {"live", "ok", "bad"}
  OBVIOUS
<1>1. job[j] \in Jobs
  OBVIOUS
<1> QED
  BY <1>1 DEF Jobs

(***************************************************************************)
(* The running jobs can be counted.                                        *)
(***************************************************************************)
LEMMA RunningIsFinite ==
    TypeOK => IsFiniteSet(running) /\ Cardinality(running) \in Nat
<1> SUFFICES ASSUME TypeOK PROVE IsFiniteSet(running) /\ Cardinality(running) \in Nat
  OBVIOUS
<1>1. DOMAIN job = 1 .. Len(job) /\ Len(job) \in Nat
  BY DEF TypeOK
<1>2. IsFiniteSet(DOMAIN job)
  BY <1>1, FS_Interval
<1> QED
  BY <1>2, FS_Subset, FS_CardinalityType DEF TypeOK

(***************************************************************************)
(* The hook's error.                                                       *)
(***************************************************************************)
LEMMA HookFires ==
    ASSUME TypeOK, lstop
    PROVE  hook' \in BOOLEAN /\ hits' \in Nat /\ hits' > 0 /\ handler' = handler
<1>1. hook' \in BOOLEAN /\ handler' = handler
  BY DEF lstop
<1>2. hits' = hits + 1 /\ hits \in Nat
  BY DEF lstop, TypeOK
<1> QED
  BY <1>1, <1>2

(***************************************************************************)
(* Each part of the invariant is kept by every step, given the parts it    *)
(* rests on.                                                               *)
(***************************************************************************)

LEMMA TypeStep ==
    ASSUME TypeOK, GoalInv, RoundInv, [Next]_vars
    PROVE  TypeOK'
<1> USE DEF inputVars, callVars, loopVars, roundVars, targetVars, jobVars, signalVars
<1>0. CASE UNCHANGED vars
  BY <1>0 DEF vars, TypeOK, Statements, Statuses, Deps, GoalInv, RoundInv
<1>1. CASE MainLoop
  <2>1. CASE BeginPass
    BY <2>1 DEF BeginPass, TypeOK, Statements, Statuses, Deps, GoalInv, RoundInv
  <2>2. CASE VisitGoal
    BY <2>2 DEF VisitGoal, TypeOK, Statements, Statuses, Deps, GoalInv, RoundInv
  <2>3. CASE EndGoals
    BY <2>3 DEF EndGoals, TypeOK, Statements, Statuses, Deps, GoalInv, RoundInv
  <2>4. CASE GoalReturned
    BY <2>4 DEF GoalReturned, NoteFailure, EndCall, Full, TypeOK, Statements,
         Statuses, Deps, GoalInv, RoundInv
  <2>5. CASE GoalFailed
    BY <2>5 DEF GoalFailed, EndCall, TypeOK, Statements, Statuses, Deps,
         GoalInv, RoundInv
  <2>6. CASE EndPass
    BY <2>6 DEF EndPass, AfterPass, Full, TypeOK, Statements, Statuses, Deps,
         GoalInv, RoundInv
  <2> QED
    BY <1>1, <2>1, <2>2, <2>3, <2>4, <2>5, <2>6 DEF MainLoop
<1>2. CASE BringUpToDate
  <2>1. CASE Settled
    BY <2>1 DEF Settled, Return, TypeOK, Statements, Statuses, Deps, GoalInv,
         RoundInv
  <2>2. CASE LoopOverDeps
    BY <2>2 DEF LoopOverDeps, TypeOK, Statements, Statuses, Deps, GoalInv,
         RoundInv
  <2>3. CASE VisitDep
    BY <2>3 DEF VisitDep, TypeOK, Statements, Statuses, Deps, GoalInv, RoundInv
  <2>4. CASE DepUpdated
    BY <2>4 DEF DepUpdated, TypeOK, Statements, Statuses, Deps, GoalInv,
         RoundInv
  <2>5. CASE DepRunning
    BY <2>5 DEF DepRunning, Full, TypeOK, Statements, Statuses, Deps, GoalInv,
         RoundInv
  <2>6. CASE DepPruned
    BY <2>6 DEF DepPruned, TypeOK, Statements, Statuses, Deps, GoalInv, RoundInv
  <2>7. CASE DepFailed
    BY <2>7 DEF DepFailed, TypeOK, Statements, Statuses, Deps, GoalInv, RoundInv
  <2>8. CASE MustWait
    BY <2>8 DEF MustWait, DepsVisited, Return, TypeOK, Statements, Statuses,
         Deps, GoalInv, RoundInv
  <2>9. CASE DepsFailed
    BY <2>9 DEF DepsFailed, DepsVisited, Return, TypeOK, Statements, Statuses,
         Deps, GoalInv, RoundInv
  <2>10. CASE MustBuild
    BY <2>10 DEF MustBuild, DepsVisited, TypeOK, Statements, Statuses, Deps,
         GoalInv, RoundInv
  <2> QED
    BY <1>2, <2>1, <2>2, <2>3, <2>4, <2>5, <2>6, <2>7, <2>8, <2>9, <2>10 DEF
         BringUpToDate
<1>3. CASE Start
  <2>1. CASE Spawn
    BY <2>1, JobAppended DEF Spawn, TypeOK, Statements
  <2>2. CASE YieldFirst
    BY <2>2 DEF YieldFirst, TypeOK, Statements, Statuses, Deps, GoalInv,
         RoundInv
  <2>3. CASE StartFailed
    BY <2>3 DEF StartFailed, TypeOK, Statements, Statuses, Deps, GoalInv,
         RoundInv
  <2>4. CASE Insert
    BY <2>4 DEF Insert, TypeOK, Statements, Statuses, Deps, GoalInv, RoundInv
  <2>5. CASE CountUp
    BY <2>5 DEF CountUp, TypeOK, Statements, Statuses, Deps, GoalInv, RoundInv
  <2>6. CASE MarkRunning
    BY <2>6 DEF MarkRunning, TypeOK, Statements, Statuses, Deps, GoalInv,
         RoundInv
  <2>7. CASE StartReturns
    BY <2>7 DEF StartReturns, Return, TypeOK, Statements, Statuses, Deps,
         GoalInv, RoundInv
  <2> QED
    BY <1>3, <2>1, <2>2, <2>3, <2>4, <2>5, <2>6, <2>7 DEF Start
<1>4. CASE Dispatch
  <2>1. CASE BeginRound
    BY <2>1 DEF BeginRound, TypeOK, Statements, Statuses, Deps, GoalInv,
         RoundInv
  <2>2. CASE Resume
    BY <2>2 DEF Resume, TypeOK, Statements, Statuses, Deps, GoalInv, RoundInv
  <2>3. CASE YieldAgain
    BY <2>3 DEF YieldAgain, Alive, TypeOK, Statements, Statuses, Deps, GoalInv,
         RoundInv
  <2>4. CASE EndCommand
    <3>1. id \in DOMAIN job
      BY <2>4 DEF EndCommand, TypeOK, RoundInv
    <3> QED
      BY <2>4, <3>1, CoroutineDied DEF EndCommand, TypeOK, Statements
  <2>5. CASE Remove
    BY <2>5 DEF Remove, TypeOK, Statements, Statuses, Deps, GoalInv, RoundInv
  <2>6. CASE Uncount
    BY <2>6 DEF Uncount, CountDown, TypeOK, Statements, Statuses, Deps, GoalInv,
         RoundInv
  <2>7. CASE Finish
    BY <2>7 DEF Finish, NoteFailure, TypeOK, Statements, Statuses, Deps,
         GoalInv, RoundInv
  <2>8. CASE EndRound
    BY <2>8 DEF EndRound, Full, AfterPass, TypeOK, Statements, Statuses, Deps,
         GoalInv, RoundInv
  <2>9. CASE WaitReturns
    BY <2>9 DEF WaitReturns, Alive, TypeOK, Statements, Statuses, Deps, GoalInv,
         RoundInv
  <2> QED
    BY <1>4, <2>1, <2>2, <2>3, <2>4, <2>5, <2>6, <2>7, <2>8, <2>9 DEF Dispatch
<1>5. CASE Exit
  <2>1. CASE Drain
    BY <2>1 DEF Drain, Drains, TypeOK, Statements, Statuses, Deps, GoalInv,
         RoundInv
  <2>2. CASE RaiseStop
    BY <2>2 DEF RaiseStop, Drains, Caught, TypeOK, Statements, Statuses, Deps,
         GoalInv, RoundInv
  <2>3. CASE Stop
    BY <2>3 DEF Stop, TypeOK, Statements, Statuses, Deps, GoalInv, RoundInv
  <2> QED
    BY <1>5, <2>1, <2>2, <2>3 DEF Exit
<1>6. CASE Raise
  <2>1. CASE RaiseInNewCommand
    <3>1. pc = "spawned" => id \in DOMAIN job
      BY DEF TypeOK, RoundInv
    <3>2. /\ job' \in Seq(Jobs) /\ Len(job') = Len(job)
          /\ DOMAIN job' = DOMAIN job
      BY <2>1, <3>1, CoroutineDied DEF RaiseInNewCommand, TypeOK
    <3> QED
      BY <2>1, <3>2, HookFires DEF RaiseInNewCommand, TypeOK, Statements
  <2>2. CASE RaiseInCommand
    <3>1. id \in DOMAIN job
      BY <2>2 DEF RaiseInCommand, TypeOK, RoundInv
    <3> QED
      BY <2>2, <3>1, CoroutineDied, HookFires DEF RaiseInCommand, TypeOK, Statements
  <2>3. CASE RaiseInDep
    BY <2>3, HookFires DEF RaiseInDep, Starting, TypeOK, Statements, Statuses,
         Deps, GoalInv, RoundInv
  <2>4. CASE RaiseInGoal
    BY <2>4, HookFires DEF RaiseInGoal, Starting, TypeOK, Statements, Statuses,
         Deps, GoalInv, RoundInv
  <2>5. CASE RaiseInDispatch
    BY <2>5, HookFires DEF RaiseInDispatch, Caught, TypeOK, Statements,
         Statuses, Deps, GoalInv, RoundInv
  <2>6. CASE RaiseInMain
    BY <2>6, HookFires DEF RaiseInMain, TypeOK, Statements, Statuses, Deps,
         GoalInv, RoundInv
  <2> QED
    BY <1>6, <2>1, <2>2, <2>3, <2>4, <2>5, <2>6 DEF Raise
<1>7. ASSUME NEW s \in Signal, laction(s) PROVE TypeOK'
  BY <1>7 DEF laction, Over, TypeOK, Statements, Statuses, Deps, GoalInv,
       RoundInv
<1>8. ASSUME NEW s \in Signal, SecondSignal(s) PROVE TypeOK'
  BY <1>8 DEF SecondSignal, Over, TypeOK, Statements, Statuses, Deps, GoalInv,
       RoundInv
<1>9. CASE ProcessEnds
  <2>1. PICK j \in DOMAIN job, e \in {"ok", "bad"} : job' = [job EXCEPT ![j].proc = e]
    BY <1>9 DEF ProcessEnds
  <2>2. job' \in Seq(Jobs) /\ Len(job') = Len(job) /\ DOMAIN job' = DOMAIN job
    BY <2>1, ProcessDied DEF TypeOK
  <2> QED
    BY <1>9, <2>2 DEF ProcessEnds, TypeOK, Statements
<1>10. CASE Terminated
  BY <1>10, <1>0 DEF Terminated
<1> QED
  BY <1>0, <1>1, <1>2, <1>3, <1>4, <1>5, <1>6, <1>7, <1>8, <1>9, <1>10 DEF Next,
       Presto, Signals

LEMMA DepthStep ==
    ASSUME TypeOK, DepthInv, [Next]_vars
    PROVE  DepthInv'
<1> USE DEF inputVars, callVars, loopVars, roundVars, targetVars, jobVars, signalVars
<1>0. CASE UNCHANGED vars
  BY <1>0 DEF vars, TypeOK, DepthInv, Dispatching
<1>1. CASE MainLoop
  BY <1>1 DEF MainLoop, BeginPass, VisitGoal, EndGoals, GoalReturned,
       GoalFailed, EndPass, NoteFailure, EndCall, Full, AfterPass, TypeOK,
       DepthInv, Dispatching
<1>2. CASE BringUpToDate
  BY <1>2 DEF BringUpToDate, Settled, LoopOverDeps, VisitDep, DepUpdated,
       DepRunning, DepPruned, DepFailed, MustWait, DepsFailed, MustBuild,
       Return, Full, DepsVisited, TypeOK, DepthInv, Dispatching
<1>3. CASE Start
  BY <1>3 DEF Start, Spawn, YieldFirst, StartFailed, Insert, CountUp,
       MarkRunning, StartReturns, Return, TypeOK, DepthInv, Dispatching
<1>4. CASE Dispatch
  BY <1>4 DEF Dispatch, BeginRound, Resume, YieldAgain, EndCommand, Remove,
       Uncount, Finish, EndRound, WaitReturns, Alive, CountDown, NoteFailure,
       Full, AfterPass, TypeOK, DepthInv, Dispatching
<1>5. CASE Exit
  BY <1>5 DEF Exit, Drain, RaiseStop, Stop, Drains, Caught, TypeOK, DepthInv,
       Dispatching
<1>6. CASE Raise
  BY <1>6 DEF Raise, RaiseInNewCommand, RaiseInCommand, RaiseInDep, RaiseInGoal,
       RaiseInDispatch, RaiseInMain, lstop, Starting, Caught, TypeOK, DepthInv,
       Dispatching
<1>7. ASSUME NEW s \in Signal, laction(s) PROVE DepthInv'
  BY <1>7 DEF laction, Over, TypeOK, DepthInv, Dispatching
<1>8. ASSUME NEW s \in Signal, SecondSignal(s) PROVE DepthInv'
  BY <1>8 DEF SecondSignal, Over, TypeOK, DepthInv, Dispatching
<1>9. CASE ProcessEnds
  BY <1>9 DEF ProcessEnds, Alive, TypeOK, DepthInv, Dispatching
<1>10. CASE Terminated
  BY <1>10, <1>0 DEF Terminated
<1> QED
  BY <1>0, <1>1, <1>2, <1>3, <1>4, <1>5, <1>6, <1>7, <1>8, <1>9, <1>10 DEF Next,
       Presto, Signals

LEMMA GoalStep ==
    ASSUME TypeOK, DepthInv, GoalInv, RoundInv, [Next]_vars
    PROVE  GoalInv'
<1> USE DEF inputVars, callVars, loopVars, roundVars, targetVars, jobVars, signalVars
<1>0. CASE UNCHANGED vars
  BY <1>0 DEF vars, TypeOK, Deps, Statuses, DepthInv, GoalInv, Visiting,
       Launching, Starting, Dispatching
<1>1. CASE MainLoop
  <2>1. CASE BeginPass
    BY <2>1 DEF BeginPass, TypeOK, Deps, Statuses, DepthInv, GoalInv, Visiting,
         Launching, Starting, Dispatching
  <2>2. CASE VisitGoal
    BY <2>2 DEF VisitGoal, TypeOK, Deps, Statuses, DepthInv, GoalInv, Visiting,
         Launching, Starting, Dispatching
  <2>3. CASE EndGoals
    BY <2>3 DEF EndGoals, TypeOK, Deps, Statuses, DepthInv, GoalInv, Visiting,
         Launching, Starting, Dispatching
  <2>4. CASE GoalReturned
    BY <2>4 DEF GoalReturned, NoteFailure, EndCall, Full, TypeOK, Deps,
         Statuses, DepthInv, GoalInv, Visiting, Launching, Starting, Dispatching
  <2>5. CASE GoalFailed
    BY <2>5 DEF GoalFailed, EndCall, TypeOK, Deps, Statuses, DepthInv, GoalInv,
         Visiting, Launching, Starting, Dispatching
  <2>6. CASE EndPass
    BY <2>6 DEF EndPass, AfterPass, Full, TypeOK, Deps, Statuses, DepthInv,
         GoalInv, Visiting, Launching, Starting, Dispatching
  <2> QED
    BY <1>1, <2>1, <2>2, <2>3, <2>4, <2>5, <2>6 DEF MainLoop
<1>2. CASE BringUpToDate
  <2>1. CASE Settled
    BY <2>1 DEF Settled, Return, TypeOK, Deps, Statuses, DepthInv, GoalInv,
         Visiting, Launching, Starting, Dispatching
  <2>2. CASE LoopOverDeps
    BY <2>2 DEF LoopOverDeps, TypeOK, Deps, Statuses, DepthInv, GoalInv,
         Visiting, Launching, Starting, Dispatching
  <2>3. CASE VisitDep
    BY <2>3 DEF VisitDep, TypeOK, Deps, Statuses, DepthInv, GoalInv, Visiting,
         Launching, Starting, Dispatching
  <2>4. CASE DepUpdated
    BY <2>4 DEF DepUpdated, TypeOK, Deps, Statuses, DepthInv, GoalInv, Visiting,
         Launching, Starting, Dispatching
  <2>5. CASE DepRunning
    BY <2>5 DEF DepRunning, Full, TypeOK, Deps, Statuses, DepthInv, GoalInv,
         Visiting, Launching, Starting, Dispatching
  <2>6. CASE DepPruned
    BY <2>6 DEF DepPruned, TypeOK, Deps, Statuses, DepthInv, GoalInv, Visiting,
         Launching, Starting, Dispatching
  <2>7. CASE DepFailed
    BY <2>7 DEF DepFailed, TypeOK, Deps, Statuses, DepthInv, GoalInv, Visiting,
         Launching, Starting, Dispatching
  <2>8. CASE MustWait
    BY <2>8 DEF MustWait, DepsVisited, Return, TypeOK, Deps, Statuses, DepthInv,
         GoalInv, Visiting, Launching, Starting, Dispatching
  <2>9. CASE DepsFailed
    BY <2>9 DEF DepsFailed, DepsVisited, Return, TypeOK, Deps, Statuses,
         DepthInv, GoalInv, Visiting, Launching, Starting, Dispatching
  <2>10. CASE MustBuild
    BY <2>10 DEF MustBuild, DepsVisited, TypeOK, Deps, Statuses, DepthInv,
         GoalInv, Visiting, Launching, Starting, Dispatching
  <2> QED
    BY <1>2, <2>1, <2>2, <2>3, <2>4, <2>5, <2>6, <2>7, <2>8, <2>9, <2>10 DEF
         BringUpToDate
<1>3. CASE Start
  <2>1. CASE Spawn
    BY <2>1 DEF Spawn, TypeOK, Deps, Statuses, DepthInv, GoalInv, Visiting,
         Launching, Starting, Dispatching
  <2>2. CASE YieldFirst
    BY <2>2 DEF YieldFirst, TypeOK, Deps, Statuses, DepthInv, GoalInv, Visiting,
         Launching, Starting, Dispatching
  <2>3. CASE StartFailed
    BY <2>3 DEF StartFailed, TypeOK, Deps, Statuses, DepthInv, GoalInv,
         Visiting, Launching, Starting, Dispatching
  <2>4. CASE Insert
    BY <2>4 DEF Insert, TypeOK, Deps, Statuses, DepthInv, GoalInv, Visiting,
         Launching, Starting, Dispatching
  <2>5. CASE CountUp
    BY <2>5 DEF CountUp, TypeOK, Deps, Statuses, DepthInv, GoalInv, Visiting,
         Launching, Starting, Dispatching
  <2>6. CASE MarkRunning
    BY <2>6 DEF MarkRunning, TypeOK, Deps, Statuses, DepthInv, GoalInv,
         Visiting, Launching, Starting, Dispatching
  <2>7. CASE StartReturns
    BY <2>7 DEF StartReturns, Return, TypeOK, Deps, Statuses, DepthInv, GoalInv,
         Visiting, Launching, Starting, Dispatching
  <2> QED
    BY <1>3, <2>1, <2>2, <2>3, <2>4, <2>5, <2>6, <2>7 DEF Start
<1>4. CASE Dispatch
  <2>1. CASE BeginRound
    BY <2>1 DEF BeginRound, TypeOK, Deps, Statuses, DepthInv, GoalInv, Visiting,
         Launching, Starting, Dispatching
  <2>2. CASE Resume
    BY <2>2 DEF Resume, TypeOK, Deps, Statuses, DepthInv, GoalInv, Visiting,
         Launching, Starting, Dispatching
  <2>3. CASE YieldAgain
    BY <2>3 DEF YieldAgain, Alive, TypeOK, Deps, Statuses, DepthInv, GoalInv,
         Visiting, Launching, Starting, Dispatching
  <2>4. CASE EndCommand
    BY <2>4 DEF EndCommand, Alive, TypeOK, Deps, Statuses, DepthInv, GoalInv,
         Visiting, Launching, Starting, Dispatching
  <2>5. CASE Remove
    BY <2>5 DEF Remove, TypeOK, Deps, Statuses, DepthInv, GoalInv, Visiting,
         Launching, Starting, Dispatching
  <2>6. CASE Uncount
    BY <2>6 DEF Uncount, CountDown, TypeOK, Deps, Statuses, DepthInv, GoalInv,
         Visiting, Launching, Starting, Dispatching
  <2>7. CASE Finish
    BY <2>7 DEF Finish, NoteFailure, TypeOK, Deps, Statuses, DepthInv, GoalInv,
         Visiting, Launching, Starting, Dispatching
  <2>8. CASE EndRound
    BY <2>8 DEF EndRound, Full, AfterPass, TypeOK, Deps, Statuses, DepthInv,
         GoalInv, Visiting, Launching, Starting, Dispatching
  <2>9. CASE WaitReturns
    BY <2>9 DEF WaitReturns, Alive, TypeOK, Deps, Statuses, DepthInv, GoalInv,
         Visiting, Launching, Starting, Dispatching
  <2> QED
    BY <1>4, <2>1, <2>2, <2>3, <2>4, <2>5, <2>6, <2>7, <2>8, <2>9 DEF Dispatch
<1>5. CASE Exit
  BY <1>5 DEF Exit, Drain, RaiseStop, Stop, Drains, Caught, TypeOK, Deps,
       Statuses, DepthInv, GoalInv, Visiting, Launching, Starting, Dispatching
<1>6. CASE Raise
  <2>1. CASE RaiseInNewCommand
    BY <2>1 DEF RaiseInNewCommand, lstop, TypeOK, Deps, Statuses, DepthInv,
         GoalInv, Visiting, Launching, Starting, Dispatching
  <2>2. CASE RaiseInCommand
    BY <2>2 DEF RaiseInCommand, lstop, TypeOK, Deps, Statuses, DepthInv,
         GoalInv, Visiting, Launching, Starting, Dispatching
  <2>3. CASE RaiseInDep
    BY <2>3 DEF RaiseInDep, lstop, Starting, TypeOK, Deps, Statuses, DepthInv,
         GoalInv, Visiting, Launching, Dispatching
  <2>4. CASE RaiseInGoal
    BY <2>4 DEF RaiseInGoal, lstop, Starting, TypeOK, Deps, Statuses, DepthInv,
         GoalInv, Visiting, Launching, Dispatching
  <2>5. CASE RaiseInDispatch
    BY <2>5 DEF RaiseInDispatch, lstop, Caught, TypeOK, Deps, Statuses,
         DepthInv, GoalInv, Visiting, Launching, Starting, Dispatching
  <2>6. CASE RaiseInMain
    BY <2>6 DEF RaiseInMain, lstop, TypeOK, Deps, Statuses, DepthInv, GoalInv,
         Visiting, Launching, Starting, Dispatching
  <2> QED
    BY <1>6, <2>1, <2>2, <2>3, <2>4, <2>5, <2>6 DEF Raise
<1>7. ASSUME NEW s \in Signal, laction(s) PROVE GoalInv'
  BY <1>7 DEF laction, Over, TypeOK, Deps, Statuses, DepthInv, GoalInv,
       Visiting, Launching, Starting, Dispatching
<1>8. ASSUME NEW s \in Signal, SecondSignal(s) PROVE GoalInv'
  BY <1>8 DEF SecondSignal, Over, TypeOK, Deps, Statuses, DepthInv, GoalInv,
       Visiting, Launching, Starting, Dispatching
<1>9. CASE ProcessEnds
  BY <1>9 DEF ProcessEnds, Alive, TypeOK, Deps, Statuses, DepthInv, GoalInv,
       Visiting, Launching, Starting, Dispatching
<1>10. CASE Terminated
  BY <1>10, <1>0 DEF Terminated
<1> QED
  BY <1>0, <1>1, <1>2, <1>3, <1>4, <1>5, <1>6, <1>7, <1>8, <1>9, <1>10 DEF Next,
       Presto, Signals

LEMMA RoundStep ==
    ASSUME TypeOK, DepthInv, RoundInv, [Next]_vars
    PROVE  RoundInv'
<1> USE DEF inputVars, callVars, loopVars, roundVars, targetVars, jobVars, signalVars
<1>0. CASE UNCHANGED vars
  BY <1>0 DEF vars, TypeOK, RoundInv, Dispatching
<1>1. CASE MainLoop
  BY <1>1 DEF MainLoop, BeginPass, VisitGoal, EndGoals, GoalReturned,
       GoalFailed, EndPass, NoteFailure, EndCall, Full, AfterPass, TypeOK,
       RoundInv, Dispatching
<1>2. CASE BringUpToDate
  <2>1. CASE Settled
    BY <2>1 DEF Settled, Return, TypeOK, RoundInv, Dispatching
  <2>2. CASE LoopOverDeps
    BY <2>2 DEF LoopOverDeps, TypeOK, RoundInv, Dispatching
  <2>3. CASE VisitDep
    BY <2>3 DEF VisitDep, TypeOK, RoundInv, Dispatching
  <2>4. CASE DepUpdated
    BY <2>4 DEF DepUpdated, TypeOK, RoundInv, Dispatching
  <2>5. CASE DepRunning
    BY <2>5 DEF DepRunning, Full, TypeOK, RoundInv, Dispatching
  <2>6. CASE DepPruned
    BY <2>6 DEF DepPruned, TypeOK, RoundInv, Dispatching
  <2>7. CASE DepFailed
    BY <2>7 DEF DepFailed, TypeOK, RoundInv, Dispatching
  <2>8. CASE MustWait
    BY <2>8 DEF MustWait, DepsVisited, Return, TypeOK, RoundInv, Dispatching
  <2>9. CASE DepsFailed
    BY <2>9 DEF DepsFailed, DepsVisited, Return, TypeOK, RoundInv, Dispatching
  <2>10. CASE MustBuild
    BY <2>10 DEF MustBuild, DepsVisited, TypeOK, RoundInv, Dispatching
  <2> QED
    BY <1>2, <2>1, <2>2, <2>3, <2>4, <2>5, <2>6, <2>7, <2>8, <2>9, <2>10 DEF
         BringUpToDate
<1>3. CASE Start
  <2>1. CASE Spawn
    BY <2>1 DEF Spawn, TypeOK, RoundInv, Dispatching
  <2>2. CASE YieldFirst
    BY <2>2 DEF YieldFirst, TypeOK, RoundInv, Dispatching
  <2>3. CASE StartFailed
    BY <2>3 DEF StartFailed, TypeOK, RoundInv, Dispatching
  <2>4. CASE Insert
    BY <2>4 DEF Insert, TypeOK, RoundInv, Dispatching
  <2>5. CASE CountUp
    BY <2>5 DEF CountUp, TypeOK, RoundInv, Dispatching
  <2>6. CASE MarkRunning
    BY <2>6 DEF MarkRunning, TypeOK, RoundInv, Dispatching
  <2>7. CASE StartReturns
    BY <2>7 DEF StartReturns, Return, TypeOK, RoundInv, Dispatching
  <2> QED
    BY <1>3, <2>1, <2>2, <2>3, <2>4, <2>5, <2>6, <2>7 DEF Start
<1>4. CASE Dispatch
  <2>1. CASE BeginRound
    BY <2>1 DEF BeginRound, TypeOK, RoundInv, Dispatching
  <2>2. CASE Resume
    BY <2>2 DEF Resume, TypeOK, RoundInv, Dispatching
  <2>3. CASE YieldAgain
    BY <2>3 DEF YieldAgain, Alive, TypeOK, RoundInv, Dispatching
  <2>4. CASE EndCommand
    BY <2>4 DEF EndCommand, Alive, TypeOK, RoundInv, Dispatching
  <2>5. CASE Remove
    BY <2>5 DEF Remove, TypeOK, RoundInv, Dispatching
  <2>6. CASE Uncount
    BY <2>6 DEF Uncount, CountDown, TypeOK, RoundInv, Dispatching
  <2>7. CASE Finish
    BY <2>7 DEF Finish, NoteFailure, TypeOK, RoundInv, Dispatching
  <2>8. CASE EndRound
    BY <2>8 DEF EndRound, Full, AfterPass, TypeOK, RoundInv, Dispatching
  <2>9. CASE WaitReturns
    BY <2>9 DEF WaitReturns, Alive, TypeOK, RoundInv, Dispatching
  <2> QED
    BY <1>4, <2>1, <2>2, <2>3, <2>4, <2>5, <2>6, <2>7, <2>8, <2>9 DEF Dispatch
<1>5. CASE Exit
  BY <1>5 DEF Exit, Drain, RaiseStop, Stop, Drains, Caught, TypeOK, RoundInv,
       Dispatching
<1>6. CASE Raise
  <2>1. CASE RaiseInNewCommand
    BY <2>1 DEF RaiseInNewCommand, lstop, TypeOK, RoundInv, Dispatching
  <2>2. CASE RaiseInCommand
    BY <2>2 DEF RaiseInCommand, lstop, TypeOK, RoundInv, Dispatching
  <2>3. CASE RaiseInDep
    BY <2>3 DEF RaiseInDep, lstop, Starting, TypeOK, RoundInv, Dispatching
  <2>4. CASE RaiseInGoal
    BY <2>4 DEF RaiseInGoal, lstop, Starting, TypeOK, RoundInv, Dispatching
  <2>5. CASE RaiseInDispatch
    BY <2>5 DEF RaiseInDispatch, lstop, Caught, TypeOK, RoundInv, Dispatching
  <2>6. CASE RaiseInMain
    BY <2>6 DEF RaiseInMain, lstop, TypeOK, RoundInv, Dispatching
  <2> QED
    BY <1>6, <2>1, <2>2, <2>3, <2>4, <2>5, <2>6 DEF Raise
<1>7. ASSUME NEW s \in Signal, laction(s) PROVE RoundInv'
  BY <1>7 DEF laction, Over, TypeOK, RoundInv, Dispatching
<1>8. ASSUME NEW s \in Signal, SecondSignal(s) PROVE RoundInv'
  BY <1>8 DEF SecondSignal, Over, TypeOK, RoundInv, Dispatching
<1>9. CASE ProcessEnds
  BY <1>9 DEF ProcessEnds, Alive, TypeOK, RoundInv, Dispatching
<1>10. CASE Terminated
  BY <1>10, <1>0 DEF Terminated
<1> QED
  BY <1>0, <1>1, <1>2, <1>3, <1>4, <1>5, <1>6, <1>7, <1>8, <1>9, <1>10 DEF Next,
       Presto, Signals

LEMMA PrunedStep ==
    ASSUME TypeOK, DepthInv, GoalInv, RoundInv, PrunedInv, [Next]_vars
    PROVE  PrunedInv'
<1> USE DEF inputVars, callVars, loopVars, roundVars, targetVars, jobVars, signalVars
<1>0. CASE UNCHANGED vars
  BY <1>0 DEF vars, InLoop, TypeOK, Deps, Statuses, Jobs, DepthInv, GoalInv,
       RoundInv, PrunedInv, Visiting, Launching, Starting, Dispatching, Leaving,
       Stopped
<1>1. CASE MainLoop
  <2>1. CASE BeginPass
    BY <2>1 DEF BeginPass, InLoop, TypeOK, Deps, Statuses, Jobs, DepthInv,
         GoalInv, RoundInv, PrunedInv, Visiting, Launching, Starting,
         Dispatching, Leaving, Stopped
  <2>2. CASE VisitGoal
    BY <2>2 DEF VisitGoal, InLoop, TypeOK, Deps, Statuses, Jobs, DepthInv,
         GoalInv, RoundInv, PrunedInv, Visiting, Launching, Starting,
         Dispatching, Leaving, Stopped
  <2>3. CASE EndGoals
    BY <2>3 DEF EndGoals, InLoop, TypeOK, Deps, Statuses, Jobs, DepthInv,
         GoalInv, RoundInv, PrunedInv, Visiting, Launching, Starting,
         Dispatching, Leaving, Stopped
  <2>4. CASE GoalReturned
    BY <2>4 DEF GoalReturned, NoteFailure, EndCall, Full, InLoop, TypeOK, Deps,
         Statuses, Jobs, DepthInv, GoalInv, RoundInv, PrunedInv, Visiting,
         Launching, Starting, Dispatching, Leaving, Stopped
  <2>5. CASE GoalFailed
    BY <2>5 DEF GoalFailed, EndCall, InLoop, TypeOK, Deps, Statuses, Jobs,
         DepthInv, GoalInv, RoundInv, PrunedInv, Visiting, Launching, Starting,
         Dispatching, Leaving, Stopped
  <2>6. CASE EndPass
    BY <2>6 DEF EndPass, AfterPass, Full, InLoop, TypeOK, Deps, Statuses, Jobs,
         DepthInv, GoalInv, RoundInv, PrunedInv, Visiting, Launching, Starting,
         Dispatching, Leaving, Stopped
  <2> QED
    BY <1>1, <2>1, <2>2, <2>3, <2>4, <2>5, <2>6 DEF MainLoop
<1>2. CASE BringUpToDate
  <2>1. CASE Settled
    BY <2>1 DEF Settled, Return, InLoop, TypeOK, Deps, Statuses, Jobs, DepthInv,
         GoalInv, RoundInv, PrunedInv, Visiting, Launching, Starting,
         Dispatching, Leaving, Stopped
  <2>2. CASE LoopOverDeps
    BY <2>2 DEF LoopOverDeps, InLoop, TypeOK, Deps, Statuses, Jobs, DepthInv,
         GoalInv, RoundInv, PrunedInv, Visiting, Launching, Starting,
         Dispatching, Leaving, Stopped
  <2>3. CASE VisitDep
    BY <2>3 DEF VisitDep, InLoop, TypeOK, Deps, Statuses, Jobs, DepthInv,
         GoalInv, RoundInv, PrunedInv, Visiting, Launching, Starting,
         Dispatching, Leaving, Stopped
  <2>4. CASE DepUpdated
    BY <2>4 DEF DepUpdated, InLoop, TypeOK, Deps, Statuses, Jobs, DepthInv,
         GoalInv, RoundInv, PrunedInv, Visiting, Launching, Starting,
         Dispatching, Leaving, Stopped
  <2>5. CASE DepRunning
    BY <2>5 DEF DepRunning, Full, InLoop, TypeOK, Deps, Statuses, Jobs,
         DepthInv, GoalInv, RoundInv, PrunedInv, Visiting, Launching, Starting,
         Dispatching, Leaving, Stopped
  <2>6. CASE DepPruned
    BY <2>6 DEF DepPruned, InLoop, TypeOK, Deps, Statuses, Jobs, DepthInv,
         GoalInv, RoundInv, PrunedInv, Visiting, Launching, Starting,
         Dispatching, Leaving, Stopped
  <2>7. CASE DepFailed
    BY <2>7 DEF DepFailed, InLoop, TypeOK, Deps, Statuses, Jobs, DepthInv,
         GoalInv, RoundInv, PrunedInv, Visiting, Launching, Starting,
         Dispatching, Leaving, Stopped
  <2>8. CASE MustWait
    BY <2>8 DEF MustWait, DepsVisited, Return, InLoop, TypeOK, Deps, Statuses,
         Jobs, DepthInv, GoalInv, RoundInv, PrunedInv, Visiting, Launching,
         Starting, Dispatching, Leaving, Stopped
  <2>9. CASE DepsFailed
    BY <2>9 DEF DepsFailed, DepsVisited, Return, InLoop, TypeOK, Deps, Statuses,
         Jobs, DepthInv, GoalInv, RoundInv, PrunedInv, Visiting, Launching,
         Starting, Dispatching, Leaving, Stopped
  <2>10. CASE MustBuild
    BY <2>10 DEF MustBuild, DepsVisited, InLoop, TypeOK, Deps, Statuses, Jobs,
         DepthInv, GoalInv, RoundInv, PrunedInv, Visiting, Launching, Starting,
         Dispatching, Leaving, Stopped
  <2> QED
    BY <1>2, <2>1, <2>2, <2>3, <2>4, <2>5, <2>6, <2>7, <2>8, <2>9, <2>10 DEF
         BringUpToDate
<1>3. CASE Start
  <2>1. CASE Spawn
    <3>1. \A j \in DOMAIN job : job'[j].target = job[j].target
      BY <2>1, JobAppended DEF Spawn, TypeOK
    <3>2. /\ pc = "start" /\ pc' = "spawned"
          /\ UNCHANGED <<goals, deps, goal, cur, left, ret, depth, status, pruned,
                         running>>
      BY <2>1 DEF Spawn
    <3>3. running \subseteq DOMAIN job
      BY DEF TypeOK
    <3> QED
      BY <3>1, <3>2, <3>3 DEF PrunedInv, InLoop, Visiting, Launching, Starting,
           Leaving, Stopped
  <2>2. CASE YieldFirst
    BY <2>2 DEF YieldFirst, InLoop, TypeOK, Deps, Statuses, Jobs, DepthInv,
         GoalInv, RoundInv, PrunedInv, Visiting, Launching, Starting,
         Dispatching, Leaving, Stopped
  <2>3. CASE StartFailed
    <3>1. /\ pruned[cur] = {}
          /\ \A t \in Target : status'[t] = IF t = cur THEN "error" ELSE status[t]
      BY <2>3 DEF StartFailed, PrunedInv, Launching, Starting, TypeOK
    <3>2. \A j \in running : job[j].target \in Target
      BY JobFields DEF TypeOK
    <3>3. /\ pc = "started" /\ pc' = "marked"
          /\ UNCHANGED <<goals, deps, goal, cur, left, ret, depth, pruned, running, job>>
      BY <2>3 DEF StartFailed
    <3> QED
      BY <3>1, <3>2, <3>3 DEF PrunedInv, InLoop, Visiting, Launching, Starting,
           Leaving, Stopped
  <2>4. CASE Insert
    BY <2>4 DEF Insert, InLoop, TypeOK, Deps, Statuses, Jobs, DepthInv, GoalInv,
         RoundInv, PrunedInv, Visiting, Launching, Starting, Dispatching,
         Leaving, Stopped
  <2>5. CASE CountUp
    BY <2>5 DEF CountUp, InLoop, TypeOK, Deps, Statuses, Jobs, DepthInv,
         GoalInv, RoundInv, PrunedInv, Visiting, Launching, Starting,
         Dispatching, Leaving, Stopped
  <2>6. CASE MarkRunning
    BY <2>6 DEF MarkRunning, InLoop, TypeOK, Deps, Statuses, Jobs, DepthInv,
         GoalInv, RoundInv, PrunedInv, Visiting, Launching, Starting,
         Dispatching, Leaving, Stopped
  <2>7. CASE StartReturns
    BY <2>7 DEF StartReturns, Return, InLoop, TypeOK, Deps, Statuses, Jobs,
         DepthInv, GoalInv, RoundInv, PrunedInv, Visiting, Launching, Starting,
         Dispatching, Leaving, Stopped
  <2> QED
    BY <1>3, <2>1, <2>2, <2>3, <2>4, <2>5, <2>6, <2>7 DEF Start
<1>4. CASE Dispatch
  <2>1. CASE BeginRound
    BY <2>1 DEF BeginRound, InLoop, TypeOK, Deps, Statuses, Jobs, DepthInv,
         GoalInv, RoundInv, PrunedInv, Visiting, Launching, Starting,
         Dispatching, Leaving, Stopped
  <2>2. CASE Resume
    BY <2>2 DEF Resume, InLoop, TypeOK, Deps, Statuses, Jobs, DepthInv, GoalInv,
         RoundInv, PrunedInv, Visiting, Launching, Starting, Dispatching,
         Leaving, Stopped
  <2>3. CASE YieldAgain
    BY <2>3 DEF YieldAgain, Alive, InLoop, TypeOK, Deps, Statuses, Jobs,
         DepthInv, GoalInv, RoundInv, PrunedInv, Visiting, Launching, Starting,
         Dispatching, Leaving, Stopped
  <2>4. CASE EndCommand
    <3>1. id \in DOMAIN job
      BY <2>4 DEF EndCommand, TypeOK, RoundInv
    <3>2. \A j \in DOMAIN job : job'[j].target = job[j].target
      BY <2>4, <3>1, CoroutineDied DEF EndCommand, TypeOK
    <3>3. /\ pc = "resumed" /\ pc' = "back"
          /\ UNCHANGED <<goals, deps, goal, cur, left, ret, depth, status, pruned,
                         running>>
      BY <2>4 DEF EndCommand
    <3>4. running \subseteq DOMAIN job
      BY DEF TypeOK
    <3> QED
      BY <3>2, <3>3, <3>4 DEF PrunedInv, InLoop, Visiting, Launching, Starting,
           Leaving, Stopped
  <2>5. CASE Remove
    BY <2>5 DEF Remove, InLoop, TypeOK, Deps, Statuses, Jobs, DepthInv, GoalInv,
         RoundInv, PrunedInv, Visiting, Launching, Starting, Dispatching,
         Leaving, Stopped
  <2>6. CASE Uncount
    BY <2>6 DEF Uncount, CountDown, InLoop, TypeOK, Deps, Statuses, Jobs,
         DepthInv, GoalInv, RoundInv, PrunedInv, Visiting, Launching, Starting,
         Dispatching, Leaving, Stopped
  <2>7. CASE Finish
    <3>1. id \in DOMAIN job /\ job[id].target \in Target
      BY <2>7, JobFields DEF Finish, TypeOK, RoundInv
    <3>2. /\ pruned[job[id].target] = {}
          /\ \A t \in Target : status'[t] = IF t # job[id].target THEN status[t]
                                     ELSE IF ok THEN "updated" ELSE "error"
      BY <2>7, <3>1 DEF Finish, TypeOK, PrunedInv
    <3>3. \A j \in running : job[j].target \in Target
      BY JobFields DEF TypeOK
    <3>4. /\ pc = "uncounted" /\ pc' \in {"jobs", "exit"}
          /\ UNCHANGED <<goals, deps, goal, cur, left, ret, depth, pruned, running, job>>
      BY <2>7 DEF Finish
    <3> QED
      BY <3>2, <3>3, <3>4 DEF TypeOK, Deps, Statuses, DepthInv, GoalInv, RoundInv,
           PrunedInv, InLoop, Visiting, Launching, Starting, Dispatching, Leaving,
           Stopped
  <2>8. CASE EndRound
    BY <2>8 DEF EndRound, Full, AfterPass, InLoop, TypeOK, Deps, Statuses, Jobs,
         DepthInv, GoalInv, RoundInv, PrunedInv, Visiting, Launching, Starting,
         Dispatching, Leaving, Stopped
  <2>9. CASE WaitReturns
    BY <2>9 DEF WaitReturns, Alive, InLoop, TypeOK, Deps, Statuses, Jobs,
         DepthInv, GoalInv, RoundInv, PrunedInv, Visiting, Launching, Starting,
         Dispatching, Leaving, Stopped
  <2> QED
    BY <1>4, <2>1, <2>2, <2>3, <2>4, <2>5, <2>6, <2>7, <2>8, <2>9 DEF Dispatch
<1>5. CASE Exit
  <2>1. CASE Drain
    BY <2>1 DEF Drain, Drains, InLoop, TypeOK, Deps, Statuses, Jobs, DepthInv,
         GoalInv, RoundInv, PrunedInv, Visiting, Launching, Starting,
         Dispatching, Leaving, Stopped
  <2>2. CASE RaiseStop
    BY <2>2 DEF RaiseStop, Drains, Caught, InLoop, TypeOK, Deps, Statuses, Jobs,
         DepthInv, GoalInv, RoundInv, PrunedInv, Visiting, Launching, Starting,
         Dispatching, Leaving, Stopped
  <2>3. CASE Stop
    BY <2>3 DEF Stop, InLoop, TypeOK, Deps, Statuses, Jobs, DepthInv, GoalInv,
         RoundInv, PrunedInv, Visiting, Launching, Starting, Dispatching,
         Leaving, Stopped
  <2> QED
    BY <1>5, <2>1, <2>2, <2>3 DEF Exit
<1>6. CASE Raise
  <2>1. CASE RaiseInNewCommand
    <3>1. pc = "spawned" => id \in DOMAIN job
      BY DEF TypeOK, RoundInv
    <3>2. \A j \in DOMAIN job : job'[j].target = job[j].target
      BY <2>1, <3>1, CoroutineDied DEF RaiseInNewCommand, TypeOK
    <3>3. /\ pc \in {"start", "spawned"} /\ pc' = "started"
          /\ UNCHANGED <<goals, deps, goal, cur, left, ret, depth, status, pruned,
                         running>>
      BY <2>1 DEF RaiseInNewCommand
    <3>4. running \subseteq DOMAIN job
      BY DEF TypeOK
    <3> QED
      BY <3>2, <3>3, <3>4 DEF PrunedInv, InLoop, Visiting, Launching, Starting,
           Leaving, Stopped
  <2>2. CASE RaiseInCommand
    <3>1. id \in DOMAIN job
      BY <2>2 DEF RaiseInCommand, TypeOK, RoundInv
    <3>2. \A j \in DOMAIN job : job'[j].target = job[j].target
      BY <2>2, <3>1, CoroutineDied DEF RaiseInCommand, TypeOK
    <3>3. /\ pc = "resumed" /\ pc' = "back"
          /\ UNCHANGED <<goals, deps, goal, cur, left, ret, depth, status, pruned,
                         running>>
      BY <2>2 DEF RaiseInCommand
    <3>4. running \subseteq DOMAIN job
      BY DEF TypeOK
    <3> QED
      BY <3>2, <3>3, <3>4 DEF PrunedInv, InLoop, Visiting, Launching, Starting,
           Leaving, Stopped
  <2>3. CASE RaiseInDep
    BY <2>3 DEF RaiseInDep, lstop, Starting, InLoop, TypeOK, Deps, Statuses,
         Jobs, DepthInv, GoalInv, RoundInv, PrunedInv, Visiting, Launching,
         Dispatching, Leaving, Stopped
  <2>4. CASE RaiseInGoal
    BY <2>4 DEF RaiseInGoal, lstop, Starting, InLoop, TypeOK, Deps, Statuses,
         Jobs, DepthInv, GoalInv, RoundInv, PrunedInv, Visiting, Launching,
         Dispatching, Leaving, Stopped
  <2>5. CASE RaiseInDispatch
    BY <2>5 DEF RaiseInDispatch, lstop, Caught, InLoop, TypeOK, Deps, Statuses,
         Jobs, DepthInv, GoalInv, RoundInv, PrunedInv, Visiting, Launching,
         Starting, Dispatching, Leaving, Stopped
  <2>6. CASE RaiseInMain
    BY <2>6 DEF RaiseInMain, lstop, InLoop, TypeOK, Deps, Statuses, Jobs,
         DepthInv, GoalInv, RoundInv, PrunedInv, Visiting, Launching, Starting,
         Dispatching, Leaving, Stopped
  <2> QED
    BY <1>6, <2>1, <2>2, <2>3, <2>4, <2>5, <2>6 DEF Raise
<1>7. ASSUME NEW s \in Signal, laction(s) PROVE PrunedInv'
  BY <1>7 DEF laction, Over, InLoop, TypeOK, Deps, Statuses, Jobs, DepthInv,
       GoalInv, RoundInv, PrunedInv, Visiting, Launching, Starting, Dispatching,
       Leaving, Stopped
<1>8. ASSUME NEW s \in Signal, SecondSignal(s) PROVE PrunedInv'
  BY <1>8 DEF SecondSignal, Over, InLoop, TypeOK, Deps, Statuses, Jobs,
       DepthInv, GoalInv, RoundInv, PrunedInv, Visiting, Launching, Starting,
       Dispatching, Leaving, Stopped
<1>9. CASE ProcessEnds
  <2>1. \A j \in DOMAIN job : job'[j].target = job[j].target
    <3>1. PICK j \in DOMAIN job, e \in {"ok", "bad"} :
            job' = [job EXCEPT ![j].proc = e]
      BY <1>9 DEF ProcessEnds
    <3> QED
      BY <3>1, ProcessDied DEF TypeOK
  <2>2. UNCHANGED <<pc, goals, deps, goal, cur, left, ret, depth, status, pruned, running,
                    id>>
    BY <1>9 DEF ProcessEnds
  <2>3. pc \in {"removed", "uncounted"} => id \in DOMAIN job
    BY DEF TypeOK, RoundInv
  <2>4. running \subseteq DOMAIN job
    BY DEF TypeOK
  <2> QED
    BY <2>1, <2>2, <2>3, <2>4 DEF PrunedInv, InLoop, Visiting, Launching, Starting, Leaving, Stopped
<1>10. CASE Terminated
  BY <1>10, <1>0 DEF Terminated
<1> QED
  BY <1>0, <1>1, <1>2, <1>3, <1>4, <1>5, <1>6, <1>7, <1>8, <1>9, <1>10 DEF Next,
       Presto, Signals

LEMMA HitStep ==
    ASSUME TypeOK, DepthInv, GoalInv, PrunedInv, HitInv, [Next]_vars
    PROVE  HitInv'
<1> USE DEF inputVars, callVars, loopVars, roundVars, targetVars, jobVars, signalVars
<1>0. CASE UNCHANGED vars
  BY <1>0 DEF vars, TypeOK, DepthInv, GoalInv, PrunedInv, HitInv, Visiting,
       Launching, Starting, Dispatching, Leaving, Stopped
<1>1. CASE MainLoop
  <2>1. CASE BeginPass
    BY <2>1 DEF BeginPass, TypeOK, DepthInv, GoalInv, PrunedInv, HitInv,
         Visiting, Launching, Starting, Dispatching, Leaving, Stopped
  <2>2. CASE VisitGoal
    BY <2>2 DEF VisitGoal, TypeOK, DepthInv, GoalInv, PrunedInv, HitInv,
         Visiting, Launching, Starting, Dispatching, Leaving, Stopped
  <2>3. CASE EndGoals
    BY <2>3 DEF EndGoals, TypeOK, DepthInv, GoalInv, PrunedInv, HitInv,
         Visiting, Launching, Starting, Dispatching, Leaving, Stopped
  <2>4. CASE GoalReturned
    BY <2>4 DEF GoalReturned, NoteFailure, EndCall, Full, TypeOK, DepthInv,
         GoalInv, PrunedInv, HitInv, Visiting, Launching, Starting, Dispatching,
         Leaving, Stopped
  <2>5. CASE GoalFailed
    BY <2>5 DEF GoalFailed, EndCall, TypeOK, DepthInv, GoalInv, PrunedInv,
         HitInv, Visiting, Launching, Starting, Dispatching, Leaving, Stopped
  <2>6. CASE EndPass
    BY <2>6 DEF EndPass, AfterPass, Full, TypeOK, DepthInv, GoalInv, PrunedInv,
         HitInv, Visiting, Launching, Starting, Dispatching, Leaving, Stopped
  <2> QED
    BY <1>1, <2>1, <2>2, <2>3, <2>4, <2>5, <2>6 DEF MainLoop
<1>2. CASE BringUpToDate
  <2>1. CASE Settled
    BY <2>1 DEF Settled, Return, TypeOK, DepthInv, GoalInv, PrunedInv, HitInv,
         Visiting, Launching, Starting, Dispatching, Leaving, Stopped
  <2>2. CASE LoopOverDeps
    BY <2>2 DEF LoopOverDeps, TypeOK, DepthInv, GoalInv, PrunedInv, HitInv,
         Visiting, Launching, Starting, Dispatching, Leaving, Stopped
  <2>3. CASE VisitDep
    BY <2>3 DEF VisitDep, TypeOK, DepthInv, GoalInv, PrunedInv, HitInv,
         Visiting, Launching, Starting, Dispatching, Leaving, Stopped
  <2>4. CASE DepUpdated
    BY <2>4 DEF DepUpdated, TypeOK, DepthInv, GoalInv, PrunedInv, HitInv,
         Visiting, Launching, Starting, Dispatching, Leaving, Stopped
  <2>5. CASE DepRunning
    BY <2>5 DEF DepRunning, Full, TypeOK, DepthInv, GoalInv, PrunedInv, HitInv,
         Visiting, Launching, Starting, Dispatching, Leaving, Stopped
  <2>6. CASE DepPruned
    <3>1. goal \in goals /\ goal \in Target /\ cur \in Target
      BY <2>6 DEF DepPruned, TypeOK, GoalInv, Visiting
    <3>2. pruned'[goal] # {}
      BY <2>6, <3>1 DEF DepPruned, TypeOK, Deps
    <3>3. pc' # "success" /\ keepGoing' /\ goals' = goals
      BY <2>6 DEF DepPruned
    <3> QED
      BY <3>1, <3>2, <3>3 DEF HitInv
  <2>7. CASE DepFailed
    BY <2>7 DEF DepFailed, TypeOK, DepthInv, GoalInv, PrunedInv, HitInv,
         Visiting, Launching, Starting, Dispatching, Leaving, Stopped
  <2>8. CASE MustWait
    BY <2>8 DEF MustWait, DepsVisited, Return, TypeOK, DepthInv, GoalInv,
         PrunedInv, HitInv, Visiting, Launching, Starting, Dispatching, Leaving,
         Stopped
  <2>9. CASE DepsFailed
    BY <2>9 DEF DepsFailed, DepsVisited, Return, TypeOK, DepthInv, GoalInv,
         PrunedInv, HitInv, Visiting, Launching, Starting, Dispatching, Leaving,
         Stopped
  <2>10. CASE MustBuild
    BY <2>10 DEF MustBuild, DepsVisited, TypeOK, DepthInv, GoalInv, PrunedInv,
         HitInv, Visiting, Launching, Starting, Dispatching, Leaving, Stopped
  <2> QED
    BY <1>2, <2>1, <2>2, <2>3, <2>4, <2>5, <2>6, <2>7, <2>8, <2>9, <2>10 DEF
         BringUpToDate
<1>3. CASE Start
  <2>1. CASE Spawn
    BY <2>1 DEF Spawn, TypeOK, DepthInv, GoalInv, PrunedInv, HitInv, Visiting,
         Launching, Starting, Dispatching, Leaving, Stopped
  <2>2. CASE YieldFirst
    BY <2>2 DEF YieldFirst, TypeOK, DepthInv, GoalInv, PrunedInv, HitInv,
         Visiting, Launching, Starting, Dispatching, Leaving, Stopped
  <2>3. CASE StartFailed
    BY <2>3 DEF StartFailed, TypeOK, DepthInv, GoalInv, PrunedInv, HitInv,
         Visiting, Launching, Starting, Dispatching, Leaving, Stopped
  <2>4. CASE Insert
    BY <2>4 DEF Insert, TypeOK, DepthInv, GoalInv, PrunedInv, HitInv, Visiting,
         Launching, Starting, Dispatching, Leaving, Stopped
  <2>5. CASE CountUp
    BY <2>5 DEF CountUp, TypeOK, DepthInv, GoalInv, PrunedInv, HitInv, Visiting,
         Launching, Starting, Dispatching, Leaving, Stopped
  <2>6. CASE MarkRunning
    BY <2>6 DEF MarkRunning, TypeOK, DepthInv, GoalInv, PrunedInv, HitInv,
         Visiting, Launching, Starting, Dispatching, Leaving, Stopped
  <2>7. CASE StartReturns
    BY <2>7 DEF StartReturns, Return, TypeOK, DepthInv, GoalInv, PrunedInv,
         HitInv, Visiting, Launching, Starting, Dispatching, Leaving, Stopped
  <2> QED
    BY <1>3, <2>1, <2>2, <2>3, <2>4, <2>5, <2>6, <2>7 DEF Start
<1>4. CASE Dispatch
  <2>1. CASE BeginRound
    BY <2>1 DEF BeginRound, TypeOK, DepthInv, GoalInv, PrunedInv, HitInv,
         Visiting, Launching, Starting, Dispatching, Leaving, Stopped
  <2>2. CASE Resume
    BY <2>2 DEF Resume, TypeOK, DepthInv, GoalInv, PrunedInv, HitInv, Visiting,
         Launching, Starting, Dispatching, Leaving, Stopped
  <2>3. CASE YieldAgain
    BY <2>3 DEF YieldAgain, Alive, TypeOK, DepthInv, GoalInv, PrunedInv, HitInv,
         Visiting, Launching, Starting, Dispatching, Leaving, Stopped
  <2>4. CASE EndCommand
    BY <2>4 DEF EndCommand, Alive, TypeOK, DepthInv, GoalInv, PrunedInv, HitInv,
         Visiting, Launching, Starting, Dispatching, Leaving, Stopped
  <2>5. CASE Remove
    BY <2>5 DEF Remove, TypeOK, DepthInv, GoalInv, PrunedInv, HitInv, Visiting,
         Launching, Starting, Dispatching, Leaving, Stopped
  <2>6. CASE Uncount
    BY <2>6 DEF Uncount, CountDown, TypeOK, DepthInv, GoalInv, PrunedInv,
         HitInv, Visiting, Launching, Starting, Dispatching, Leaving, Stopped
  <2>7. CASE Finish
    BY <2>7 DEF Finish, NoteFailure, TypeOK, DepthInv, GoalInv, PrunedInv,
         HitInv, Visiting, Launching, Starting, Dispatching, Leaving, Stopped
  <2>8. CASE EndRound
    BY <2>8 DEF EndRound, Full, AfterPass, TypeOK, DepthInv, GoalInv, PrunedInv,
         HitInv, Visiting, Launching, Starting, Dispatching, Leaving, Stopped
  <2>9. CASE WaitReturns
    BY <2>9 DEF WaitReturns, Alive, TypeOK, DepthInv, GoalInv, PrunedInv,
         HitInv, Visiting, Launching, Starting, Dispatching, Leaving, Stopped
  <2> QED
    BY <1>4, <2>1, <2>2, <2>3, <2>4, <2>5, <2>6, <2>7, <2>8, <2>9 DEF Dispatch
<1>5. CASE Exit
  <2>1. CASE Drain
    BY <2>1 DEF Drain, Drains, TypeOK, DepthInv, GoalInv, PrunedInv, HitInv,
         Visiting, Launching, Starting, Dispatching, Leaving, Stopped
  <2>2. CASE RaiseStop
    BY <2>2 DEF RaiseStop, Drains, Caught, TypeOK, DepthInv, GoalInv, PrunedInv,
         HitInv, Visiting, Launching, Starting, Dispatching, Leaving, Stopped
  <2>3. CASE Stop
    BY <2>3 DEF Stop, TypeOK, DepthInv, GoalInv, PrunedInv, HitInv, Visiting,
         Launching, Starting, Dispatching, Leaving, Stopped
  <2> QED
    BY <1>5, <2>1, <2>2, <2>3 DEF Exit
<1>6. CASE Raise
  <2>1. CASE RaiseInNewCommand
    BY <2>1 DEF RaiseInNewCommand, lstop, TypeOK, DepthInv, GoalInv, PrunedInv,
         HitInv, Visiting, Launching, Starting, Dispatching, Leaving, Stopped
  <2>2. CASE RaiseInCommand
    BY <2>2 DEF RaiseInCommand, lstop, TypeOK, DepthInv, GoalInv, PrunedInv,
         HitInv, Visiting, Launching, Starting, Dispatching, Leaving, Stopped
  <2>3. CASE RaiseInDep
    BY <2>3 DEF RaiseInDep, lstop, Starting, TypeOK, DepthInv, GoalInv,
         PrunedInv, HitInv, Visiting, Launching, Dispatching, Leaving, Stopped
  <2>4. CASE RaiseInGoal
    BY <2>4 DEF RaiseInGoal, lstop, Starting, TypeOK, DepthInv, GoalInv,
         PrunedInv, HitInv, Visiting, Launching, Dispatching, Leaving, Stopped
  <2>5. CASE RaiseInDispatch
    BY <2>5 DEF RaiseInDispatch, lstop, Caught, TypeOK, DepthInv, GoalInv,
         PrunedInv, HitInv, Visiting, Launching, Starting, Dispatching, Leaving,
         Stopped
  <2>6. CASE RaiseInMain
    BY <2>6 DEF RaiseInMain, lstop, TypeOK, DepthInv, GoalInv, PrunedInv,
         HitInv, Visiting, Launching, Starting, Dispatching, Leaving, Stopped
  <2> QED
    BY <1>6, <2>1, <2>2, <2>3, <2>4, <2>5, <2>6 DEF Raise
<1>7. ASSUME NEW s \in Signal, laction(s) PROVE HitInv'
  BY <1>7 DEF laction, Over, TypeOK, DepthInv, GoalInv, PrunedInv, HitInv,
       Visiting, Launching, Starting, Dispatching, Leaving, Stopped
<1>8. ASSUME NEW s \in Signal, SecondSignal(s) PROVE HitInv'
  BY <1>8 DEF SecondSignal, Over, TypeOK, DepthInv, GoalInv, PrunedInv, HitInv,
       Visiting, Launching, Starting, Dispatching, Leaving, Stopped
<1>9. CASE ProcessEnds
  BY <1>9 DEF ProcessEnds, Alive, TypeOK, DepthInv, GoalInv, PrunedInv, HitInv,
       Visiting, Launching, Starting, Dispatching, Leaving, Stopped
<1>10. CASE Terminated
  BY <1>10, <1>0 DEF Terminated
<1> QED
  BY <1>0, <1>1, <1>2, <1>3, <1>4, <1>5, <1>6, <1>7, <1>8, <1>9, <1>10 DEF Next,
       Presto, Signals

(***************************************************************************)
(* An error shifts the count by one at most.                               *)
(***************************************************************************)
LEMMA ShiftedByOne ==
    ASSUME NEW c \in Int, NEW n \in Nat, NEW h \in Nat, NEW f \in -1 .. 1,
           c + f - n \in -h .. h
    PROVE  c + 0 - n \in -(h + 1) .. (h + 1)
OBVIOUS

LEMMA CountAtRaise ==
    ASSUME TypeOK, CountOffByHits, lstop, UNCHANGED <<count, running>>,
           pc # "killed", InFlight' = 0
    PROVE  CountOffByHits'
<1>1. count \in Int /\ Cardinality(running) \in Nat /\ hits \in Nat
  BY RunningIsFinite DEF TypeOK
<1>2. InFlight \in -1 .. 1
  BY DEF InFlight
<1>3. count + InFlight - Cardinality(running) \in -hits .. hits
  BY DEF CountOffByHits
<1>4. count + 0 - Cardinality(running) \in -(hits + 1) .. (hits + 1)
  BY <1>1, <1>2, <1>3, ShiftedByOne
<1>5. /\ count' = count /\ running' = running /\ hits' = hits + 1
  BY DEF lstop
<1> QED
  BY <1>4, <1>5 DEF CountOffByHits

LEMMA CountStep ==
    ASSUME TypeOK, RoundInv, CountOffByHits, [Next]_vars
    PROVE  CountOffByHits'
<1> USE DEF inputVars, callVars, loopVars, roundVars, targetVars, jobVars, signalVars
<1>0. CASE UNCHANGED vars
  BY <1>0, RunningIsFinite DEF vars, TypeOK, RoundInv, CountOffByHits, InFlight
<1>1. CASE MainLoop
  BY <1>1, RunningIsFinite DEF MainLoop, BeginPass, VisitGoal, EndGoals,
       GoalReturned, GoalFailed, EndPass, NoteFailure, EndCall, Full, AfterPass,
       TypeOK, RoundInv, CountOffByHits, InFlight
<1>2. CASE BringUpToDate
  BY <1>2, RunningIsFinite DEF BringUpToDate, Settled, LoopOverDeps, VisitDep,
       DepUpdated, DepRunning, DepPruned, DepFailed, MustWait, DepsFailed,
       MustBuild, Return, Full, DepsVisited, TypeOK, RoundInv, CountOffByHits,
       InFlight
<1>3. CASE Start
  <2>1. CASE Spawn
    BY <2>1, RunningIsFinite DEF Spawn, TypeOK, RoundInv, CountOffByHits,
         InFlight
  <2>2. CASE YieldFirst
    BY <2>2, RunningIsFinite DEF YieldFirst, TypeOK, RoundInv, CountOffByHits,
         InFlight
  <2>3. CASE StartFailed
    BY <2>3, RunningIsFinite DEF StartFailed, TypeOK, RoundInv, CountOffByHits,
         InFlight
  <2>4. CASE Insert
    <3>1. id \notin running
      BY <2>4 DEF Insert, RoundInv
    <3>2. Cardinality(running') = Cardinality(running) + 1
      BY <2>4, <3>1, FS_AddElement, RunningIsFinite DEF Insert
    <3>3. /\ pc = "started" /\ pc' = "inserted"
          /\ UNCHANGED <<count, hits>>
      BY <2>4 DEF Insert
    <3> QED
      BY <3>2, <3>3, RunningIsFinite DEF CountOffByHits, InFlight, TypeOK
  <2>5. CASE CountUp
    BY <2>5, RunningIsFinite DEF CountUp, TypeOK, RoundInv, CountOffByHits,
         InFlight
  <2>6. CASE MarkRunning
    BY <2>6, RunningIsFinite DEF MarkRunning, TypeOK, RoundInv, CountOffByHits,
         InFlight
  <2>7. CASE StartReturns
    BY <2>7, RunningIsFinite DEF StartReturns, Return, TypeOK, RoundInv,
         CountOffByHits, InFlight
  <2> QED
    BY <1>3, <2>1, <2>2, <2>3, <2>4, <2>5, <2>6, <2>7 DEF Start
<1>4. CASE Dispatch
  <2>1. CASE BeginRound
    BY <2>1, RunningIsFinite DEF BeginRound, TypeOK, RoundInv, CountOffByHits,
         InFlight
  <2>2. CASE Resume
    BY <2>2, RunningIsFinite DEF Resume, TypeOK, RoundInv, CountOffByHits,
         InFlight
  <2>3. CASE YieldAgain
    BY <2>3, RunningIsFinite DEF YieldAgain, Alive, TypeOK, RoundInv,
         CountOffByHits, InFlight
  <2>4. CASE EndCommand
    BY <2>4, RunningIsFinite DEF EndCommand, Alive, TypeOK, RoundInv,
         CountOffByHits, InFlight
  <2>5. CASE Remove
    <3>1. id \in running
      BY <2>5 DEF Remove, RoundInv
    <3>2. Cardinality(running') = Cardinality(running) - 1
      BY <2>5, <3>1, FS_RemoveElement, RunningIsFinite DEF Remove
    <3>3. /\ pc = "back" /\ pc' = "removed"
          /\ UNCHANGED <<count, hits>>
      BY <2>5 DEF Remove
    <3> QED
      BY <3>2, <3>3, RunningIsFinite DEF CountOffByHits, InFlight, TypeOK
  <2>6. CASE Uncount
    BY <2>6, RunningIsFinite DEF Uncount, CountDown, TypeOK, RoundInv,
         CountOffByHits, InFlight
  <2>7. CASE Finish
    BY <2>7, RunningIsFinite DEF Finish, NoteFailure, TypeOK, RoundInv,
         CountOffByHits, InFlight
  <2>8. CASE EndRound
    BY <2>8, RunningIsFinite DEF EndRound, Full, AfterPass, TypeOK, RoundInv,
         CountOffByHits, InFlight
  <2>9. CASE WaitReturns
    BY <2>9, RunningIsFinite DEF WaitReturns, Alive, TypeOK, RoundInv,
         CountOffByHits, InFlight
  <2> QED
    BY <1>4, <2>1, <2>2, <2>3, <2>4, <2>5, <2>6, <2>7, <2>8, <2>9 DEF Dispatch
<1>5. CASE Exit
  BY <1>5, RunningIsFinite DEF Exit, Drain, RaiseStop, Stop, Drains, Caught,
       TypeOK, RoundInv, CountOffByHits, InFlight
<1>6. CASE Raise
  <2>1. CASE RaiseInNewCommand
    <3>1. /\ pc # "killed" /\ pc' \in {"started"}
          /\ lstop /\ UNCHANGED <<count, running>>
      BY <2>1 DEF RaiseInNewCommand
    <3>2. InFlight' = 0
      BY <3>1 DEF InFlight
    <3> QED
      BY <3>1, <3>2, CountAtRaise
  <2>2. CASE RaiseInCommand
    <3>1. /\ pc # "killed" /\ pc' \in {"back"}
          /\ lstop /\ UNCHANGED <<count, running>>
      BY <2>2 DEF RaiseInCommand
    <3>2. InFlight' = 0
      BY <3>1 DEF InFlight
    <3> QED
      BY <3>1, <3>2, CountAtRaise
  <2>3. CASE RaiseInDep
    <3>1. /\ pc # "killed" /\ pc' \in {"depret"}
          /\ lstop /\ UNCHANGED <<count, running>>
      BY <2>3 DEF RaiseInDep, Starting
    <3>2. InFlight' = 0
      BY <3>1 DEF InFlight
    <3> QED
      BY <3>1, <3>2, CountAtRaise
  <2>4. CASE RaiseInGoal
    <3>1. /\ pc # "killed" /\ pc' \in {"goalret"}
          /\ lstop /\ UNCHANGED <<count, running>>
      BY <2>4 DEF RaiseInGoal, Starting
    <3>2. InFlight' = 0
      BY <3>1 DEF InFlight
    <3> QED
      BY <3>1, <3>2, CountAtRaise
  <2>5. CASE RaiseInDispatch
    <3>1. /\ pc # "killed" /\ pc' \in {"stop", "exit"}
          /\ lstop /\ UNCHANGED <<count, running>>
      BY <2>5 DEF RaiseInDispatch, Caught
    <3>2. InFlight' = 0
      BY <3>1 DEF InFlight
    <3> QED
      BY <3>1, <3>2, CountAtRaise
  <2>6. CASE RaiseInMain
    <3>1. /\ pc # "killed" /\ pc' \in {"stop", "failure"}
          /\ lstop /\ UNCHANGED <<count, running>>
      BY <2>6 DEF RaiseInMain
    <3>2. InFlight' = 0
      BY <3>1 DEF InFlight
    <3> QED
      BY <3>1, <3>2, CountAtRaise
  <2> QED
    BY <1>6, <2>1, <2>2, <2>3, <2>4, <2>5, <2>6 DEF Raise
<1>7. ASSUME NEW s \in Signal, laction(s) PROVE CountOffByHits'
  BY <1>7, RunningIsFinite DEF laction, Over, TypeOK, RoundInv, CountOffByHits,
       InFlight
<1>8. ASSUME NEW s \in Signal, SecondSignal(s) PROVE CountOffByHits'
  BY <1>8, RunningIsFinite DEF SecondSignal, Over, TypeOK, RoundInv,
       CountOffByHits, InFlight
<1>9. CASE ProcessEnds
  BY <1>9, RunningIsFinite DEF ProcessEnds, Alive, TypeOK, RoundInv,
       CountOffByHits, InFlight
<1>10. CASE Terminated
  BY <1>10, <1>0 DEF Terminated
<1> QED
  BY <1>0, <1>1, <1>2, <1>3, <1>4, <1>5, <1>6, <1>7, <1>8, <1>9, <1>10 DEF Next,
       Presto, Signals

(***************************************************************************)
(* As long as no error is raised and presto is not killed, none was.       *)
(***************************************************************************)
LEMMA StillCalm ==
    ASSUME TypeOK, [Next]_vars, hits' = 0, pc' # "killed"
    PROVE  hits = 0 /\ pc # "killed" /\ ~Raise
<1>1. ~Raise
  BY HookFires DEF Raise, RaiseInNewCommand, RaiseInCommand, RaiseInDep, RaiseInGoal,
         RaiseInDispatch, RaiseInMain
<1>2. hits = 0
  BY <1>1 DEF Next, vars, signalVars, Presto, MainLoop, BringUpToDate, Start, Dispatch,
         Exit, Signals, BeginPass, VisitGoal, EndGoals, GoalReturned, GoalFailed,
         EndPass, Settled, LoopOverDeps, VisitDep, DepUpdated, DepRunning, DepPruned,
         DepFailed, MustWait, DepsFailed, MustBuild, Spawn, YieldFirst, StartFailed,
         Insert, CountUp, MarkRunning, StartReturns, BeginRound, Resume, YieldAgain,
         EndCommand, Remove, Uncount, Finish, EndRound, WaitReturns, Drain, RaiseStop,
         Stop, laction, SecondSignal, ProcessEnds, Terminated
<1>3. pc # "killed"
  BY <1>1 DEF Next, vars, Presto, MainLoop, BringUpToDate, Start, Dispatch,
         Exit, Signals, BeginPass, VisitGoal, EndGoals, GoalReturned, GoalFailed,
         EndPass, Settled, LoopOverDeps, VisitDep, DepUpdated, DepRunning, DepPruned,
         DepFailed, MustWait, DepsFailed, MustBuild, DepsVisited, Spawn, YieldFirst,
         StartFailed, Insert, CountUp, MarkRunning, StartReturns, BeginRound, Resume,
         YieldAgain, EndCommand, Remove, Uncount, Finish, EndRound, WaitReturns, Drain,
         RaiseStop, Stop, laction, SecondSignal, ProcessEnds, Terminated
<1> QED
  BY <1>1, <1>2, <1>3

LEMMA AliveStep ==
    ASSUME TypeOK, RoundInv, JobInv, [Next]_vars, hits' = 0, pc' # "killed"
    PROVE  AliveInv'
<1> USE DEF inputVars, callVars, loopVars, roundVars, targetVars, jobVars, signalVars
<1>c. hits = 0 /\ pc # "killed" /\ ~Raise
  BY StillCalm
<1>j. AliveInv /\ StatusInv /\ NeedInv /\ DepsInv
  BY <1>c DEF JobInv
<1>0. CASE UNCHANGED vars
  BY <1>0, <1>c, <1>j DEF vars, TypeOK, RoundInv, AliveInv, Dispatching, Alive
<1>1. CASE MainLoop
  <2>1. CASE BeginPass
    BY <2>1, <1>c, <1>j DEF BeginPass, TypeOK, RoundInv, AliveInv, Dispatching,
         Alive
  <2>2. CASE VisitGoal
    BY <2>2, <1>c, <1>j DEF VisitGoal, TypeOK, RoundInv, AliveInv, Dispatching,
         Alive
  <2>3. CASE EndGoals
    BY <2>3, <1>c, <1>j DEF EndGoals, TypeOK, RoundInv, AliveInv, Dispatching,
         Alive
  <2>4. CASE GoalReturned
    BY <2>4, <1>c, <1>j DEF GoalReturned, NoteFailure, EndCall, Full, TypeOK,
         RoundInv, AliveInv, Dispatching, Alive
  <2>5. CASE GoalFailed
    BY <2>5, <1>c, <1>j DEF GoalFailed, EndCall, TypeOK, RoundInv, AliveInv,
         Dispatching, Alive
  <2>6. CASE EndPass
    BY <2>6, <1>c, <1>j DEF EndPass, AfterPass, Full, TypeOK, RoundInv,
         AliveInv, Dispatching, Alive
  <2> QED
    BY <1>1, <2>1, <2>2, <2>3, <2>4, <2>5, <2>6 DEF MainLoop
<1>2. CASE BringUpToDate
  <2>1. CASE Settled
    BY <2>1, <1>c, <1>j DEF Settled, Return, TypeOK, RoundInv, AliveInv,
         Dispatching, Alive
  <2>2. CASE LoopOverDeps
    BY <2>2, <1>c, <1>j DEF LoopOverDeps, TypeOK, RoundInv, AliveInv,
         Dispatching, Alive
  <2>3. CASE VisitDep
    BY <2>3, <1>c, <1>j DEF VisitDep, TypeOK, RoundInv, AliveInv, Dispatching,
         Alive
  <2>4. CASE DepUpdated
    BY <2>4, <1>c, <1>j DEF DepUpdated, TypeOK, RoundInv, AliveInv, Dispatching,
         Alive
  <2>5. CASE DepRunning
    BY <2>5, <1>c, <1>j DEF DepRunning, Full, TypeOK, RoundInv, AliveInv,
         Dispatching, Alive
  <2>6. CASE DepPruned
    BY <2>6, <1>c, <1>j DEF DepPruned, TypeOK, RoundInv, AliveInv, Dispatching,
         Alive
  <2>7. CASE DepFailed
    BY <2>7, <1>c, <1>j DEF DepFailed, TypeOK, RoundInv, AliveInv, Dispatching,
         Alive
  <2>8. CASE MustWait
    BY <2>8, <1>c, <1>j DEF MustWait, DepsVisited, Return, TypeOK, RoundInv,
         AliveInv, Dispatching, Alive
  <2>9. CASE DepsFailed
    BY <2>9, <1>c, <1>j DEF DepsFailed, DepsVisited, Return, TypeOK, RoundInv,
         AliveInv, Dispatching, Alive
  <2>10. CASE MustBuild
    BY <2>10, <1>c, <1>j DEF MustBuild, DepsVisited, TypeOK, RoundInv, AliveInv,
         Dispatching, Alive
  <2> QED
    BY <1>2, <2>1, <2>2, <2>3, <2>4, <2>5, <2>6, <2>7, <2>8, <2>9, <2>10 DEF
         BringUpToDate
<1>3. CASE Start
  <2>1. CASE Spawn
    BY <2>1, <1>c, <1>j DEF Spawn, TypeOK, RoundInv, AliveInv, Dispatching,
         Alive
  <2>2. CASE YieldFirst
    BY <2>2, <1>c, <1>j DEF YieldFirst, TypeOK, RoundInv, AliveInv, Dispatching,
         Alive
  <2>3. CASE StartFailed
    BY <2>3, <1>c, <1>j DEF StartFailed, TypeOK, RoundInv, AliveInv,
         Dispatching, Alive
  <2>4. CASE Insert
    BY <2>4, <1>c, <1>j DEF Insert, TypeOK, RoundInv, AliveInv, Dispatching,
         Alive
  <2>5. CASE CountUp
    BY <2>5, <1>c, <1>j DEF CountUp, TypeOK, RoundInv, AliveInv, Dispatching,
         Alive
  <2>6. CASE MarkRunning
    BY <2>6, <1>c, <1>j DEF MarkRunning, TypeOK, RoundInv, AliveInv,
         Dispatching, Alive
  <2>7. CASE StartReturns
    BY <2>7, <1>c, <1>j DEF StartReturns, Return, TypeOK, RoundInv, AliveInv,
         Dispatching, Alive
  <2> QED
    BY <1>3, <2>1, <2>2, <2>3, <2>4, <2>5, <2>6, <2>7 DEF Start
<1>4. CASE Dispatch
  <2>1. CASE BeginRound
    BY <2>1, <1>c, <1>j DEF BeginRound, TypeOK, RoundInv, AliveInv, Dispatching,
         Alive
  <2>2. CASE Resume
    BY <2>2, <1>c, <1>j DEF Resume, TypeOK, RoundInv, AliveInv, Dispatching,
         Alive
  <2>3. CASE YieldAgain
    BY <2>3, <1>c, <1>j DEF YieldAgain, Alive, TypeOK, RoundInv, AliveInv,
         Dispatching
  <2>4. CASE EndCommand
    BY <2>4, <1>c, <1>j DEF EndCommand, Alive, TypeOK, RoundInv, AliveInv,
         Dispatching
  <2>5. CASE Remove
    BY <2>5, <1>c, <1>j DEF Remove, TypeOK, RoundInv, AliveInv, Dispatching,
         Alive
  <2>6. CASE Uncount
    BY <2>6, <1>c, <1>j DEF Uncount, CountDown, TypeOK, RoundInv, AliveInv,
         Dispatching, Alive
  <2>7. CASE Finish
    BY <2>7, <1>c, <1>j DEF Finish, NoteFailure, TypeOK, RoundInv, AliveInv,
         Dispatching, Alive
  <2>8. CASE EndRound
    BY <2>8, <1>c, <1>j DEF EndRound, Full, AfterPass, TypeOK, RoundInv,
         AliveInv, Dispatching, Alive
  <2>9. CASE WaitReturns
    BY <2>9, <1>c, <1>j DEF WaitReturns, Alive, TypeOK, RoundInv, AliveInv,
         Dispatching
  <2> QED
    BY <1>4, <2>1, <2>2, <2>3, <2>4, <2>5, <2>6, <2>7, <2>8, <2>9 DEF Dispatch
<1>5. CASE Exit
  <2>1. CASE Drain
    BY <2>1, <1>c, <1>j DEF Drain, Drains, TypeOK, RoundInv, AliveInv,
         Dispatching, Alive
  <2>2. CASE RaiseStop
    BY <2>2, <1>c, <1>j DEF RaiseStop, Drains, Caught, TypeOK, RoundInv,
         AliveInv, Dispatching, Alive
  <2>3. CASE Stop
    BY <2>3, <1>c, <1>j DEF Stop, TypeOK, RoundInv, AliveInv, Dispatching, Alive
  <2> QED
    BY <1>5, <2>1, <2>2, <2>3 DEF Exit
<1>6. CASE Raise
  BY <1>6, <1>c
<1>7. ASSUME NEW s \in Signal, laction(s) PROVE AliveInv'
  BY <1>7, <1>c, <1>j DEF laction, Over, TypeOK, RoundInv, AliveInv,
       Dispatching, Alive
<1>8. ASSUME NEW s \in Signal, SecondSignal(s) PROVE AliveInv'
  BY <1>8 DEF SecondSignal
<1>9. CASE ProcessEnds
  BY <1>9, <1>c, <1>j DEF ProcessEnds, Alive, TypeOK, RoundInv, AliveInv,
       Dispatching
<1>10. CASE Terminated
  BY <1>10, <1>0 DEF Terminated
<1> QED
  BY <1>0, <1>1, <1>2, <1>3, <1>4, <1>5, <1>6, <1>7, <1>8, <1>9, <1>10 DEF Next,
       Presto, Signals

LEMMA StatusStep ==
    ASSUME TypeOK, GoalInv, RoundInv, JobInv, [Next]_vars, hits' = 0, pc' #
           "killed"
    PROVE  StatusInv'
<1> USE DEF inputVars, callVars, loopVars, roundVars, targetVars, jobVars, signalVars
<1>c. hits = 0 /\ pc # "killed" /\ ~Raise
  BY StillCalm
<1>j. AliveInv /\ StatusInv /\ NeedInv /\ DepsInv
  BY <1>c DEF JobInv
<1>0. CASE UNCHANGED vars
  BY <1>0, <1>c, <1>j DEF vars, TypeOK, GoalInv, RoundInv, StatusInv, AliveInv,
       Dispatching, Launching, Starting, Visiting
<1>1. CASE MainLoop
  <2>1. CASE BeginPass
    BY <2>1, <1>c, <1>j DEF BeginPass, TypeOK, GoalInv, RoundInv, StatusInv,
         AliveInv, Dispatching, Launching, Starting, Visiting
  <2>2. CASE VisitGoal
    BY <2>2, <1>c, <1>j DEF VisitGoal, TypeOK, GoalInv, RoundInv, StatusInv,
         AliveInv, Dispatching, Launching, Starting, Visiting
  <2>3. CASE EndGoals
    BY <2>3, <1>c, <1>j DEF EndGoals, TypeOK, GoalInv, RoundInv, StatusInv,
         AliveInv, Dispatching, Launching, Starting, Visiting
  <2>4. CASE GoalReturned
    BY <2>4, <1>c, <1>j DEF GoalReturned, NoteFailure, EndCall, Full, TypeOK,
         GoalInv, RoundInv, StatusInv, AliveInv, Dispatching, Launching,
         Starting, Visiting
  <2>5. CASE GoalFailed
    BY <2>5, <1>c, <1>j DEF GoalFailed, EndCall, TypeOK, GoalInv, RoundInv,
         StatusInv, AliveInv, Dispatching, Launching, Starting, Visiting
  <2>6. CASE EndPass
    BY <2>6, <1>c, <1>j DEF EndPass, AfterPass, Full, TypeOK, GoalInv, RoundInv,
         StatusInv, AliveInv, Dispatching, Launching, Starting, Visiting
  <2> QED
    BY <1>1, <2>1, <2>2, <2>3, <2>4, <2>5, <2>6 DEF MainLoop
<1>2. CASE BringUpToDate
  <2>1. CASE Settled
    BY <2>1, <1>c, <1>j DEF Settled, Return, TypeOK, GoalInv, RoundInv,
         StatusInv, AliveInv, Dispatching, Launching, Starting, Visiting
  <2>2. CASE LoopOverDeps
    BY <2>2, <1>c, <1>j DEF LoopOverDeps, TypeOK, GoalInv, RoundInv, StatusInv,
         AliveInv, Dispatching, Launching, Starting, Visiting
  <2>3. CASE VisitDep
    BY <2>3, <1>c, <1>j DEF VisitDep, TypeOK, GoalInv, RoundInv, StatusInv,
         AliveInv, Dispatching, Launching, Starting, Visiting
  <2>4. CASE DepUpdated
    BY <2>4, <1>c, <1>j DEF DepUpdated, TypeOK, GoalInv, RoundInv, StatusInv,
         AliveInv, Dispatching, Launching, Starting, Visiting
  <2>5. CASE DepRunning
    BY <2>5, <1>c, <1>j DEF DepRunning, Full, TypeOK, GoalInv, RoundInv,
         StatusInv, AliveInv, Dispatching, Launching, Starting, Visiting
  <2>6. CASE DepPruned
    BY <2>6, <1>c, <1>j DEF DepPruned, TypeOK, GoalInv, RoundInv, StatusInv,
         AliveInv, Dispatching, Launching, Starting, Visiting
  <2>7. CASE DepFailed
    BY <2>7, <1>c, <1>j DEF DepFailed, TypeOK, GoalInv, RoundInv, StatusInv,
         AliveInv, Dispatching, Launching, Starting, Visiting
  <2>8. CASE MustWait
    BY <2>8, <1>c, <1>j DEF MustWait, DepsVisited, Return, TypeOK, GoalInv,
         RoundInv, StatusInv, AliveInv, Dispatching, Launching, Starting,
         Visiting
  <2>9. CASE DepsFailed
    BY <2>9, <1>c, <1>j DEF DepsFailed, DepsVisited, Return, TypeOK, GoalInv,
         RoundInv, StatusInv, AliveInv, Dispatching, Launching, Starting,
         Visiting
  <2>10. CASE MustBuild
    BY <2>10, <1>c, <1>j DEF MustBuild, DepsVisited, TypeOK, GoalInv, RoundInv,
         StatusInv, AliveInv, Dispatching, Launching, Starting, Visiting
  <2> QED
    BY <1>2, <2>1, <2>2, <2>3, <2>4, <2>5, <2>6, <2>7, <2>8, <2>9, <2>10 DEF
         BringUpToDate
<1>3. CASE Start
  <2>1. CASE Spawn
    BY <2>1, <1>c, <1>j DEF Spawn, TypeOK, GoalInv, RoundInv, StatusInv,
         AliveInv, Dispatching, Launching, Starting, Visiting
  <2>2. CASE YieldFirst
    BY <2>2, <1>c, <1>j DEF YieldFirst, TypeOK, GoalInv, RoundInv, StatusInv,
         AliveInv, Dispatching, Launching, Starting, Visiting
  <2>3. CASE StartFailed
    BY <2>3, <1>c, <1>j DEF StartFailed, TypeOK, GoalInv, RoundInv, StatusInv,
         AliveInv, Dispatching, Launching, Starting, Visiting
  <2>4. CASE Insert
    BY <2>4, <1>c, <1>j DEF Insert, TypeOK, GoalInv, RoundInv, StatusInv,
         AliveInv, Dispatching, Launching, Starting, Visiting
  <2>5. CASE CountUp
    BY <2>5, <1>c, <1>j DEF CountUp, TypeOK, GoalInv, RoundInv, StatusInv,
         AliveInv, Dispatching, Launching, Starting, Visiting
  <2>6. CASE MarkRunning
    BY <2>6, <1>c, <1>j DEF MarkRunning, TypeOK, GoalInv, RoundInv, StatusInv,
         AliveInv, Dispatching, Launching, Starting, Visiting
  <2>7. CASE StartReturns
    BY <2>7, <1>c, <1>j DEF StartReturns, Return, TypeOK, GoalInv, RoundInv,
         StatusInv, AliveInv, Dispatching, Launching, Starting, Visiting
  <2> QED
    BY <1>3, <2>1, <2>2, <2>3, <2>4, <2>5, <2>6, <2>7 DEF Start
<1>4. CASE Dispatch
  <2>1. CASE BeginRound
    BY <2>1, <1>c, <1>j DEF BeginRound, TypeOK, GoalInv, RoundInv, StatusInv,
         AliveInv, Dispatching, Launching, Starting, Visiting
  <2>2. CASE Resume
    BY <2>2, <1>c, <1>j DEF Resume, TypeOK, GoalInv, RoundInv, StatusInv,
         AliveInv, Dispatching, Launching, Starting, Visiting
  <2>3. CASE YieldAgain
    BY <2>3, <1>c, <1>j DEF YieldAgain, Alive, TypeOK, GoalInv, RoundInv,
         StatusInv, AliveInv, Dispatching, Launching, Starting, Visiting
  <2>4. CASE EndCommand
    BY <2>4, <1>c, <1>j DEF EndCommand, Alive, TypeOK, GoalInv, RoundInv,
         StatusInv, AliveInv, Dispatching, Launching, Starting, Visiting
  <2>5. CASE Remove
    BY <2>5, <1>c, <1>j DEF Remove, TypeOK, GoalInv, RoundInv, StatusInv,
         AliveInv, Dispatching, Launching, Starting, Visiting
  <2>6. CASE Uncount
    BY <2>6, <1>c, <1>j DEF Uncount, CountDown, TypeOK, GoalInv, RoundInv,
         StatusInv, AliveInv, Dispatching, Launching, Starting, Visiting
  <2>7. CASE Finish
    BY <2>7, <1>c, <1>j DEF Finish, NoteFailure, TypeOK, GoalInv, RoundInv,
         StatusInv, AliveInv, Dispatching, Launching, Starting, Visiting
  <2>8. CASE EndRound
    BY <2>8, <1>c, <1>j DEF EndRound, Full, AfterPass, TypeOK, GoalInv,
         RoundInv, StatusInv, AliveInv, Dispatching, Launching, Starting,
         Visiting
  <2>9. CASE WaitReturns
    BY <2>9, <1>c, <1>j DEF WaitReturns, Alive, TypeOK, GoalInv, RoundInv,
         StatusInv, AliveInv, Dispatching, Launching, Starting, Visiting
  <2> QED
    BY <1>4, <2>1, <2>2, <2>3, <2>4, <2>5, <2>6, <2>7, <2>8, <2>9 DEF Dispatch
<1>5. CASE Exit
  <2>1. CASE Drain
    BY <2>1, <1>c, <1>j DEF Drain, Drains, TypeOK, GoalInv, RoundInv, StatusInv,
         AliveInv, Dispatching, Launching, Starting, Visiting
  <2>2. CASE RaiseStop
    BY <2>2, <1>c, <1>j DEF RaiseStop, Drains, Caught, TypeOK, GoalInv,
         RoundInv, StatusInv, AliveInv, Dispatching, Launching, Starting,
         Visiting
  <2>3. CASE Stop
    BY <2>3, <1>c, <1>j DEF Stop, TypeOK, GoalInv, RoundInv, StatusInv,
         AliveInv, Dispatching, Launching, Starting, Visiting
  <2> QED
    BY <1>5, <2>1, <2>2, <2>3 DEF Exit
<1>6. CASE Raise
  BY <1>6, <1>c
<1>7. ASSUME NEW s \in Signal, laction(s) PROVE StatusInv'
  BY <1>7, <1>c, <1>j DEF laction, Over, TypeOK, GoalInv, RoundInv, StatusInv,
       AliveInv, Dispatching, Launching, Starting, Visiting
<1>8. ASSUME NEW s \in Signal, SecondSignal(s) PROVE StatusInv'
  BY <1>8 DEF SecondSignal
<1>9. CASE ProcessEnds
  BY <1>9, <1>c, <1>j DEF ProcessEnds, Alive, TypeOK, GoalInv, RoundInv,
       StatusInv, AliveInv, Dispatching, Launching, Starting, Visiting
<1>10. CASE Terminated
  BY <1>10, <1>0 DEF Terminated
<1> QED
  BY <1>0, <1>1, <1>2, <1>3, <1>4, <1>5, <1>6, <1>7, <1>8, <1>9, <1>10 DEF Next,
       Presto, Signals

LEMMA NeedStep ==
    ASSUME TypeOK, DepthInv, GoalInv, RoundInv, PrunedInv, CountOffByHits,
           JobInv, [Next]_vars, hits' = 0, pc' # "killed"
    PROVE  NeedInv'
<1> USE DEF inputVars, callVars, loopVars, roundVars, targetVars, jobVars, signalVars
<1>c. hits = 0 /\ pc # "killed" /\ ~Raise
  BY StillCalm
<1>j. AliveInv /\ StatusInv /\ NeedInv /\ DepsInv
  BY <1>c DEF JobInv
<1>0. CASE UNCHANGED vars
  BY <1>0, <1>c, <1>j DEF vars, TypeOK, GoalInv, RoundInv, StatusInv, DepsInv,
       NeedInv, Needed, Updated
<1>1. CASE MainLoop
  <2>1. CASE BeginPass
    BY <2>1, <1>c, <1>j DEF BeginPass, TypeOK, GoalInv, RoundInv, StatusInv,
         DepsInv, NeedInv, Needed, Updated
  <2>2. CASE VisitGoal
    BY <2>2, <1>c, <1>j DEF VisitGoal, TypeOK, GoalInv, RoundInv, StatusInv,
         DepsInv, NeedInv, Needed, Updated
  <2>3. CASE EndGoals
    BY <2>3, <1>c, <1>j DEF EndGoals, TypeOK, GoalInv, RoundInv, StatusInv,
         DepsInv, NeedInv, Needed, Updated
  <2>4. CASE GoalReturned
    <3>1. goal \in goals /\ goal \in Target
      BY <2>4 DEF GoalReturned, GoalInv, Visiting, TypeOK
    <3>2. ret # "running" =>
            /\ status[goal] \in {"updated", "error"}
            /\ \A d \in deps[goal] \ pruned[goal] : status[d] = "updated"
      BY <2>4, <3>1, <1>j DEF GoalReturned, DepsInv, Updated, TypeOK, Statuses
    <3>3. \A j \in running : status[job[j].target] = "running"
      BY <2>4, <1>j DEF GoalReturned, StatusInv
    <3>4. \A j \in running : \E g \in goals \ (IF ret = "running" THEN {} ELSE {goal}) :
             job[j].target = g \/ job[j].target \in deps[g] \ pruned[g]
      BY <3>2, <3>3, <1>j DEF NeedInv, Needed
    <3>5. /\ goals' = goals \ (IF ret = "running" THEN {} ELSE {goal})
          /\ pc' \in {"goals", "endpass"} /\ UNCHANGED <<running, job, deps, pruned>>
      BY <2>4 DEF GoalReturned
    <3> QED
      BY <3>4, <3>5 DEF NeedInv, Needed
  <2>5. CASE GoalFailed
    BY <2>5, <1>c, <1>j DEF GoalFailed, EndCall, TypeOK, GoalInv, RoundInv,
         StatusInv, DepsInv, NeedInv, Needed, Updated
  <2>6. CASE EndPass
    BY <2>6, <1>c, <1>j DEF EndPass, AfterPass, Full, TypeOK, GoalInv, RoundInv,
         StatusInv, DepsInv, NeedInv, Needed, Updated
  <2> QED
    BY <1>1, <2>1, <2>2, <2>3, <2>4, <2>5, <2>6 DEF MainLoop
<1>2. CASE BringUpToDate
  <2>1. CASE Settled
    BY <2>1, <1>c, <1>j DEF Settled, Return, TypeOK, GoalInv, RoundInv,
         StatusInv, DepsInv, NeedInv, Needed, Updated
  <2>2. CASE LoopOverDeps
    BY <2>2, <1>c, <1>j DEF LoopOverDeps, TypeOK, GoalInv, RoundInv, StatusInv,
         DepsInv, NeedInv, Needed, Updated
  <2>3. CASE VisitDep
    BY <2>3, <1>c, <1>j DEF VisitDep, TypeOK, GoalInv, RoundInv, StatusInv,
         DepsInv, NeedInv, Needed, Updated
  <2>4. CASE DepUpdated
    BY <2>4, <1>c, <1>j DEF DepUpdated, TypeOK, GoalInv, RoundInv, StatusInv,
         DepsInv, NeedInv, Needed, Updated
  <2>5. CASE DepRunning
    BY <2>5, <1>c, <1>j DEF DepRunning, Full, TypeOK, GoalInv, RoundInv,
         StatusInv, DepsInv, NeedInv, Needed, Updated
  <2>6. CASE DepPruned
    BY <2>6, <1>c, <1>j DEF DepPruned, TypeOK, GoalInv, RoundInv, StatusInv,
         DepsInv, NeedInv, Needed, Updated
  <2>7. CASE DepFailed
    BY <2>7, <1>c, <1>j DEF DepFailed, TypeOK, GoalInv, RoundInv, StatusInv,
         DepsInv, NeedInv, Needed, Updated
  <2>8. CASE MustWait
    BY <2>8, <1>c, <1>j DEF MustWait, DepsVisited, Return, TypeOK, GoalInv,
         RoundInv, StatusInv, DepsInv, NeedInv, Needed, Updated
  <2>9. CASE DepsFailed
    BY <2>9, <1>c, <1>j DEF DepsFailed, DepsVisited, Return, TypeOK, GoalInv,
         RoundInv, StatusInv, DepsInv, NeedInv, Needed, Updated
  <2>10. CASE MustBuild
    BY <2>10, <1>c, <1>j DEF MustBuild, DepsVisited, TypeOK, GoalInv, RoundInv,
         StatusInv, DepsInv, NeedInv, Needed, Updated
  <2> QED
    BY <1>2, <2>1, <2>2, <2>3, <2>4, <2>5, <2>6, <2>7, <2>8, <2>9, <2>10 DEF
         BringUpToDate
<1>3. CASE Start
  <2>1. CASE Spawn
    BY <2>1, <1>c, <1>j DEF Spawn, TypeOK, GoalInv, RoundInv, StatusInv,
         DepsInv, NeedInv, Needed, Updated
  <2>2. CASE YieldFirst
    BY <2>2, <1>c, <1>j DEF YieldFirst, TypeOK, GoalInv, RoundInv, StatusInv,
         DepsInv, NeedInv, Needed, Updated
  <2>3. CASE StartFailed
    BY <2>3, <1>c, <1>j DEF StartFailed, TypeOK, GoalInv, RoundInv, StatusInv,
         DepsInv, NeedInv, Needed, Updated
  <2>4. CASE Insert
    <3>1. goal \in goals /\ (cur = goal \/ cur \in deps[goal] \ pruned[goal])
      BY <2>4 DEF Insert, GoalInv, PrunedInv, InLoop, Visiting, Launching, Starting
    <3>2. job[id].target = cur
      BY <2>4 DEF Insert, RoundInv
    <3>3. /\ running' = running \cup {id} /\ pc' = "inserted"
          /\ UNCHANGED <<goals, job, deps, pruned>>
      BY <2>4 DEF Insert
    <3> QED
      BY <3>1, <3>2, <3>3, <1>j DEF NeedInv, Needed
  <2>5. CASE CountUp
    BY <2>5, <1>c, <1>j DEF CountUp, TypeOK, GoalInv, RoundInv, StatusInv,
         DepsInv, NeedInv, Needed, Updated
  <2>6. CASE MarkRunning
    BY <2>6, <1>c, <1>j DEF MarkRunning, TypeOK, GoalInv, RoundInv, StatusInv,
         DepsInv, NeedInv, Needed, Updated
  <2>7. CASE StartReturns
    BY <2>7, <1>c, <1>j DEF StartReturns, Return, TypeOK, GoalInv, RoundInv,
         StatusInv, DepsInv, NeedInv, Needed, Updated
  <2> QED
    BY <1>3, <2>1, <2>2, <2>3, <2>4, <2>5, <2>6, <2>7 DEF Start
<1>4. CASE Dispatch
  <2>1. CASE BeginRound
    BY <2>1, <1>c, <1>j DEF BeginRound, TypeOK, GoalInv, RoundInv, StatusInv,
         DepsInv, NeedInv, Needed, Updated
  <2>2. CASE Resume
    BY <2>2, <1>c, <1>j DEF Resume, TypeOK, GoalInv, RoundInv, StatusInv,
         DepsInv, NeedInv, Needed, Updated
  <2>3. CASE YieldAgain
    BY <2>3, <1>c, <1>j DEF YieldAgain, Alive, TypeOK, GoalInv, RoundInv,
         StatusInv, DepsInv, NeedInv, Needed, Updated
  <2>4. CASE EndCommand
    BY <2>4, <1>c, <1>j DEF EndCommand, Alive, TypeOK, GoalInv, RoundInv,
         StatusInv, DepsInv, NeedInv, Needed, Updated
  <2>5. CASE Remove
    BY <2>5, <1>c, <1>j DEF Remove, TypeOK, GoalInv, RoundInv, StatusInv,
         DepsInv, NeedInv, Needed, Updated
  <2>6. CASE Uncount
    BY <2>6, <1>c, <1>j DEF Uncount, CountDown, TypeOK, GoalInv, RoundInv,
         StatusInv, DepsInv, NeedInv, Needed, Updated
  <2>7. CASE Finish
    BY <2>7, <1>c, <1>j DEF Finish, NoteFailure, TypeOK, GoalInv, RoundInv,
         StatusInv, DepsInv, NeedInv, Needed, Updated
  <2>8. CASE EndRound
    BY <2>8, <1>c, <1>j DEF EndRound, Full, AfterPass, TypeOK, GoalInv,
         RoundInv, StatusInv, DepsInv, NeedInv, Needed, Updated
  <2>9. CASE WaitReturns
    BY <2>9, <1>c, <1>j DEF WaitReturns, Alive, TypeOK, GoalInv, RoundInv,
         StatusInv, DepsInv, NeedInv, Needed, Updated
  <2> QED
    BY <1>4, <2>1, <2>2, <2>3, <2>4, <2>5, <2>6, <2>7, <2>8, <2>9 DEF Dispatch
<1>5. CASE Exit
  <2>1. CASE Drain
    BY <2>1, <1>c, <1>j DEF Drain, Drains, TypeOK, GoalInv, RoundInv, StatusInv,
         DepsInv, NeedInv, Needed, Updated
  <2>2. CASE RaiseStop
    <3>1. InFlight = 0 /\ ~(count > 0)
      BY <2>2 DEF RaiseStop, Drains, InFlight
    <3>2. count = Cardinality(running)
      BY <2>2, <3>1, <1>c, RunningIsFinite DEF RaiseStop, CountOffByHits, TypeOK
    <3>3. running = {}
      BY <3>1, <3>2, RunningIsFinite, FS_EmptySet
    <3> QED
      BY <2>2, <3>3 DEF RaiseStop, NeedInv
  <2>3. CASE Stop
    BY <2>3, <1>c, <1>j DEF Stop, TypeOK, GoalInv, RoundInv, StatusInv, DepsInv,
         NeedInv, Needed, Updated
  <2> QED
    BY <1>5, <2>1, <2>2, <2>3 DEF Exit
<1>6. CASE Raise
  BY <1>6, <1>c
<1>7. ASSUME NEW s \in Signal, laction(s) PROVE NeedInv'
  BY <1>7, <1>c, <1>j DEF laction, Over, TypeOK, GoalInv, RoundInv, StatusInv,
       DepsInv, NeedInv, Needed, Updated
<1>8. ASSUME NEW s \in Signal, SecondSignal(s) PROVE NeedInv'
  BY <1>8 DEF SecondSignal
<1>9. CASE ProcessEnds
  BY <1>9, <1>c, <1>j DEF ProcessEnds, Alive, TypeOK, GoalInv, RoundInv,
       StatusInv, DepsInv, NeedInv, Needed, Updated
<1>10. CASE Terminated
  BY <1>10, <1>0 DEF Terminated
<1> QED
  BY <1>0, <1>1, <1>2, <1>3, <1>4, <1>5, <1>6, <1>7, <1>8, <1>9, <1>10 DEF Next,
       Presto, Signals

LEMMA DepsStep ==
    ASSUME TypeOK, GoalInv, RoundInv, PrunedInv, JobInv, [Next]_vars, hits' = 0,
           pc' # "killed"
    PROVE  DepsInv'
<1> USE DEF inputVars, callVars, loopVars, roundVars, targetVars, jobVars, signalVars
<1>c. hits = 0 /\ pc # "killed" /\ ~Raise
  BY StillCalm
<1>j. AliveInv /\ StatusInv /\ NeedInv /\ DepsInv
  BY <1>c DEF JobInv
<1>0. CASE UNCHANGED vars
  BY <1>0, <1>c, <1>j DEF vars, TypeOK, Deps, Statuses, GoalInv, RoundInv,
       PrunedInv, StatusInv, DepsInv, Updated, InLoop, Visiting, Launching,
       Starting
<1>1. CASE MainLoop
  <2>1. CASE BeginPass
    BY <2>1, <1>c, <1>j DEF BeginPass, TypeOK, Deps, Statuses, GoalInv,
         RoundInv, PrunedInv, StatusInv, DepsInv, Updated, InLoop, Visiting,
         Launching, Starting
  <2>2. CASE VisitGoal
    BY <2>2, <1>c, <1>j DEF VisitGoal, TypeOK, Deps, Statuses, GoalInv,
         RoundInv, PrunedInv, StatusInv, DepsInv, Updated, InLoop, Visiting,
         Launching, Starting
  <2>3. CASE EndGoals
    BY <2>3, <1>c, <1>j DEF EndGoals, TypeOK, Deps, Statuses, GoalInv, RoundInv,
         PrunedInv, StatusInv, DepsInv, Updated, InLoop, Visiting, Launching,
         Starting
  <2>4. CASE GoalReturned
    BY <2>4, <1>c, <1>j DEF GoalReturned, NoteFailure, EndCall, Full, TypeOK,
         Deps, Statuses, GoalInv, RoundInv, PrunedInv, StatusInv, DepsInv,
         Updated, InLoop, Visiting, Launching, Starting
  <2>5. CASE GoalFailed
    BY <2>5, <1>c, <1>j DEF GoalFailed, EndCall, TypeOK, Deps, Statuses,
         GoalInv, RoundInv, PrunedInv, StatusInv, DepsInv, Updated, InLoop,
         Visiting, Launching, Starting
  <2>6. CASE EndPass
    BY <2>6, <1>c, <1>j DEF EndPass, AfterPass, Full, TypeOK, Deps, Statuses,
         GoalInv, RoundInv, PrunedInv, StatusInv, DepsInv, Updated, InLoop,
         Visiting, Launching, Starting
  <2> QED
    BY <1>1, <2>1, <2>2, <2>3, <2>4, <2>5, <2>6 DEF MainLoop
<1>2. CASE BringUpToDate
  <2>1. CASE Settled
    BY <2>1, <1>c, <1>j DEF Settled, Return, TypeOK, Deps, Statuses, GoalInv,
         RoundInv, PrunedInv, StatusInv, DepsInv, Updated, InLoop, Visiting,
         Launching, Starting
  <2>2. CASE LoopOverDeps
    BY <2>2, <1>c, <1>j DEF LoopOverDeps, TypeOK, Deps, Statuses, GoalInv,
         RoundInv, PrunedInv, StatusInv, DepsInv, Updated, InLoop, Visiting,
         Launching, Starting
  <2>3. CASE VisitDep
    BY <2>3, <1>c, <1>j DEF VisitDep, TypeOK, Deps, Statuses, GoalInv, RoundInv,
         PrunedInv, StatusInv, DepsInv, Updated, InLoop, Visiting, Launching,
         Starting
  <2>4. CASE DepUpdated
    BY <2>4, <1>c, <1>j DEF DepUpdated, TypeOK, Deps, Statuses, GoalInv,
         RoundInv, PrunedInv, StatusInv, DepsInv, Updated, InLoop, Visiting,
         Launching, Starting
  <2>5. CASE DepRunning
    BY <2>5, <1>c, <1>j DEF DepRunning, Full, TypeOK, Deps, Statuses, GoalInv,
         RoundInv, PrunedInv, StatusInv, DepsInv, Updated, InLoop, Visiting,
         Launching, Starting
  <2>6. CASE DepPruned
    BY <2>6, <1>c, <1>j DEF DepPruned, TypeOK, Deps, Statuses, GoalInv,
         RoundInv, PrunedInv, StatusInv, DepsInv, Updated, InLoop, Visiting,
         Launching, Starting
  <2>7. CASE DepFailed
    BY <2>7, <1>c, <1>j DEF DepFailed, TypeOK, Deps, Statuses, GoalInv,
         RoundInv, PrunedInv, StatusInv, DepsInv, Updated, InLoop, Visiting,
         Launching, Starting
  <2>8. CASE MustWait
    BY <2>8, <1>c, <1>j DEF MustWait, DepsVisited, Return, TypeOK, Deps,
         Statuses, GoalInv, RoundInv, PrunedInv, StatusInv, DepsInv, Updated,
         InLoop, Visiting, Launching, Starting
  <2>9. CASE DepsFailed
    BY <2>9, <1>c, <1>j DEF DepsFailed, DepsVisited, Return, TypeOK, Deps,
         Statuses, GoalInv, RoundInv, PrunedInv, StatusInv, DepsInv, Updated,
         InLoop, Visiting, Launching, Starting
  <2>10. CASE MustBuild
    BY <2>10, <1>c, <1>j DEF MustBuild, DepsVisited, TypeOK, Deps, Statuses,
         GoalInv, RoundInv, PrunedInv, StatusInv, DepsInv, Updated, InLoop,
         Visiting, Launching, Starting
  <2> QED
    BY <1>2, <2>1, <2>2, <2>3, <2>4, <2>5, <2>6, <2>7, <2>8, <2>9, <2>10 DEF
         BringUpToDate
<1>3. CASE Start
  <2>1. CASE Spawn
    BY <2>1, <1>c, <1>j DEF Spawn, TypeOK, Deps, Statuses, GoalInv, RoundInv,
         PrunedInv, StatusInv, DepsInv, Updated, InLoop, Visiting, Launching,
         Starting
  <2>2. CASE YieldFirst
    BY <2>2, <1>c, <1>j DEF YieldFirst, TypeOK, Deps, Statuses, GoalInv,
         RoundInv, PrunedInv, StatusInv, DepsInv, Updated, InLoop, Visiting,
         Launching, Starting
  <2>3. CASE StartFailed
    BY <2>3, <1>c, <1>j DEF StartFailed, TypeOK, Deps, Statuses, GoalInv,
         RoundInv, PrunedInv, StatusInv, DepsInv, Updated, InLoop, Visiting,
         Launching, Starting
  <2>4. CASE Insert
    BY <2>4, <1>c, <1>j DEF Insert, TypeOK, Deps, Statuses, GoalInv, RoundInv,
         PrunedInv, StatusInv, DepsInv, Updated, InLoop, Visiting, Launching,
         Starting
  <2>5. CASE CountUp
    BY <2>5, <1>c, <1>j DEF CountUp, TypeOK, Deps, Statuses, GoalInv, RoundInv,
         PrunedInv, StatusInv, DepsInv, Updated, InLoop, Visiting, Launching,
         Starting
  <2>6. CASE MarkRunning
    BY <2>6, <1>c, <1>j DEF MarkRunning, TypeOK, Deps, Statuses, GoalInv,
         RoundInv, PrunedInv, StatusInv, DepsInv, Updated, InLoop, Visiting,
         Launching, Starting
  <2>7. CASE StartReturns
    BY <2>7, <1>c, <1>j DEF StartReturns, Return, TypeOK, Deps, Statuses,
         GoalInv, RoundInv, PrunedInv, StatusInv, DepsInv, Updated, InLoop,
         Visiting, Launching, Starting
  <2> QED
    BY <1>3, <2>1, <2>2, <2>3, <2>4, <2>5, <2>6, <2>7 DEF Start
<1>4. CASE Dispatch
  <2>1. CASE BeginRound
    BY <2>1, <1>c, <1>j DEF BeginRound, TypeOK, Deps, Statuses, GoalInv,
         RoundInv, PrunedInv, StatusInv, DepsInv, Updated, InLoop, Visiting,
         Launching, Starting
  <2>2. CASE Resume
    BY <2>2, <1>c, <1>j DEF Resume, TypeOK, Deps, Statuses, GoalInv, RoundInv,
         PrunedInv, StatusInv, DepsInv, Updated, InLoop, Visiting, Launching,
         Starting
  <2>3. CASE YieldAgain
    BY <2>3, <1>c, <1>j DEF YieldAgain, Alive, TypeOK, Deps, Statuses, GoalInv,
         RoundInv, PrunedInv, StatusInv, DepsInv, Updated, InLoop, Visiting,
         Launching, Starting
  <2>4. CASE EndCommand
    BY <2>4, <1>c, <1>j DEF EndCommand, Alive, TypeOK, Deps, Statuses, GoalInv,
         RoundInv, PrunedInv, StatusInv, DepsInv, Updated, InLoop, Visiting,
         Launching, Starting
  <2>5. CASE Remove
    BY <2>5, <1>c, <1>j DEF Remove, TypeOK, Deps, Statuses, GoalInv, RoundInv,
         PrunedInv, StatusInv, DepsInv, Updated, InLoop, Visiting, Launching,
         Starting
  <2>6. CASE Uncount
    BY <2>6, <1>c, <1>j DEF Uncount, CountDown, TypeOK, Deps, Statuses, GoalInv,
         RoundInv, PrunedInv, StatusInv, DepsInv, Updated, InLoop, Visiting,
         Launching, Starting
  <2>7. CASE Finish
    BY <2>7, <1>c, <1>j DEF Finish, NoteFailure, TypeOK, Deps, Statuses,
         GoalInv, RoundInv, PrunedInv, StatusInv, DepsInv, Updated, InLoop,
         Visiting, Launching, Starting
  <2>8. CASE EndRound
    BY <2>8, <1>c, <1>j DEF EndRound, Full, AfterPass, TypeOK, Deps, Statuses,
         GoalInv, RoundInv, PrunedInv, StatusInv, DepsInv, Updated, InLoop,
         Visiting, Launching, Starting
  <2>9. CASE WaitReturns
    BY <2>9, <1>c, <1>j DEF WaitReturns, Alive, TypeOK, Deps, Statuses, GoalInv,
         RoundInv, PrunedInv, StatusInv, DepsInv, Updated, InLoop, Visiting,
         Launching, Starting
  <2> QED
    BY <1>4, <2>1, <2>2, <2>3, <2>4, <2>5, <2>6, <2>7, <2>8, <2>9 DEF Dispatch
<1>5. CASE Exit
  <2>1. CASE Drain
    BY <2>1, <1>c, <1>j DEF Drain, Drains, TypeOK, Deps, Statuses, GoalInv,
         RoundInv, PrunedInv, StatusInv, DepsInv, Updated, InLoop, Visiting,
         Launching, Starting
  <2>2. CASE RaiseStop
    BY <2>2, <1>c, <1>j DEF RaiseStop, Drains, Caught, TypeOK, Deps, Statuses,
         GoalInv, RoundInv, PrunedInv, StatusInv, DepsInv, Updated, InLoop,
         Visiting, Launching, Starting
  <2>3. CASE Stop
    BY <2>3, <1>c, <1>j DEF Stop, TypeOK, Deps, Statuses, GoalInv, RoundInv,
         PrunedInv, StatusInv, DepsInv, Updated, InLoop, Visiting, Launching,
         Starting
  <2> QED
    BY <1>5, <2>1, <2>2, <2>3 DEF Exit
<1>6. CASE Raise
  BY <1>6, <1>c
<1>7. ASSUME NEW s \in Signal, laction(s) PROVE DepsInv'
  BY <1>7, <1>c, <1>j DEF laction, Over, TypeOK, Deps, Statuses, GoalInv,
       RoundInv, PrunedInv, StatusInv, DepsInv, Updated, InLoop, Visiting,
       Launching, Starting
<1>8. ASSUME NEW s \in Signal, SecondSignal(s) PROVE DepsInv'
  BY <1>8 DEF SecondSignal
<1>9. CASE ProcessEnds
  BY <1>9, <1>c, <1>j DEF ProcessEnds, Alive, TypeOK, Deps, Statuses, GoalInv,
       RoundInv, PrunedInv, StatusInv, DepsInv, Updated, InLoop, Visiting,
       Launching, Starting
<1>10. CASE Terminated
  BY <1>10, <1>0 DEF Terminated
<1> QED
  BY <1>0, <1>1, <1>2, <1>3, <1>4, <1>5, <1>6, <1>7, <1>8, <1>9, <1>10 DEF Next,
       Presto, Signals

LEMMA JobStep ==
    ASSUME TypeOK, DepthInv, GoalInv, RoundInv, PrunedInv, CountOffByHits, JobInv,
           [Next]_vars
    PROVE  JobInv'
<1> SUFFICES ASSUME hits' = 0, pc' # "killed"
             PROVE  (AliveInv /\ StatusInv /\ NeedInv /\ DepsInv)'
  BY DEF JobInv
<1> QED
  BY AliveStep, StatusStep, NeedStep, DepsStep

-----------------------------------------------------------------------------
LEMMA InitInv == Init => IInv
<1> SUFFICES ASSUME Init PROVE IInv
  OBVIOUS
<1>1. Cardinality(running) = 0
  BY FS_EmptySet DEF Init
<1>2. /\ goals \subseteq Target /\ deps \in Deps
      /\ \A t \in Target : \A d \in deps[t] : deps[d] = {}
  BY InterruptAssumption DEF Init
<1>3. TypeOK
  <2>1. /\ status \in [Target -> Statuses] /\ pruned \in Deps
        /\ handler \in [Signal -> {"laction", "default"}]
    BY DEF Init, Statuses, Deps
  <2>2. pc \in Statements /\ ret \in Statuses /\ id \in 0 .. Len(job)
    BY DEF Init, Statements, Statuses
  <2>3. job \in Seq(Jobs) /\ DOMAIN job = {}
    BY DEF Init
  <2>4. depth \in Nat /\ jobs \in Int /\ count \in Int /\ hits \in Nat
    BY DEF Init
  <2>5. mustWait \in BOOLEAN /\ any \in BOOLEAN /\ ok \in BOOLEAN
        /\ failure \in BOOLEAN /\ hook \in BOOLEAN /\ ~failure
    BY DEF Init
  <2>6. goal \in Target /\ cur \in Target /\ left \subseteq Target
        /\ todo \subseteq Target /\ keepGoing \in BOOLEAN /\ slots \in Slots
        /\ round = {} /\ waiting = {} /\ running = {}
    BY <1>2 DEF Init
  <2> QED
    BY <1>2, <2>1, <2>2, <2>3, <2>4, <2>5, <2>6 DEF TypeOK
<1>4. DepthInv /\ GoalInv /\ RoundInv /\ HitInv
  BY <1>2 DEF Init, DepthInv, GoalInv, RoundInv, HitInv, Visiting, Launching, Starting,
         Dispatching
<1>5. PrunedInv
  BY DEF Init, PrunedInv, Launching, Starting, InLoop, Visiting
<1>6. CountOffByHits
  BY <1>1 DEF Init, CountOffByHits, InFlight
<1>7. JobInv
  BY DEF Init, JobInv, AliveInv, StatusInv, NeedInv, DepsInv, Alive, Launching, Starting,
         InLoop, Visiting
<1> QED
  BY <1>3, <1>4, <1>5, <1>6, <1>7 DEF IInv

LEMMA IInvStep == IInv /\ [Next]_vars => IInv'
BY TypeStep, DepthStep, GoalStep, RoundStep, PrunedStep, HitStep, CountStep, JobStep
   DEF IInv

LEMMA IInvHolds == Spec => []IInv
BY InitInv, IInvStep, PTL DEF Spec

(***************************************************************************)
(* The types hold in every run; `depth' never goes below zero, and without *)
(* -k make.failure is never set: make.exit does not return.                *)
(***************************************************************************)
THEOREM InterruptTyped == Spec => []TypeOK
<1>1. IInv => TypeOK
  BY DEF IInv
<1> QED
  BY <1>1, IInvHolds, PTL

(***************************************************************************)
(* Whatever the goals, dependencies and slots, wherever and however often  *)
(* the hook fires: an interrupted presto does not exit with success.       *)
(***************************************************************************)
THEOREM InterruptedFails == Spec => []InterruptFails
<1>1. IInv => InterruptFails
  BY DEF IInv, TypeOK, DepthInv, HitInv, InterruptFails, Leaving, Dispatching, Stopped
<1> QED
  BY <1>1, IInvHolds, PTL

(***************************************************************************)
(* Each error of the hook puts make.jobs.count off by at most one, and     *)
(* nothing else does.                                                      *)
(***************************************************************************)
THEOREM CountedAlmost == Spec => []CountOffByHits
<1>1. IInv => CountOffByHits
  BY DEF IInv
<1> QED
  BY <1>1, IInvHolds, PTL

(***************************************************************************)
(* Without an interrupt no process outlives presto, whatever fails.        *)
(***************************************************************************)
THEOREM NoOrphans == Spec => []OrphansOnlyByInterrupt
<1>1. IInv => OrphansOnlyByInterrupt
  BY DEF IInv, JobInv, AliveInv, NeedInv, OrphansOnlyByInterrupt
<1> QED
  BY <1>1, IInvHolds, PTL

(***************************************************************************)
(* Without -k no command starts after the interrupt: only make.run of a    *)
(* new coroutine adds to the jobs, and no statement that leads there       *)
(* follows the error.                                                      *)
(***************************************************************************)
THEOREM StartsNothing == Spec => StartsNothingAfterHit
<1>1. ASSUME IInv, [Next]_vars, hits > 0, ~keepGoing PROVE Len(job') = Len(job)
  <2> USE DEF jobVars
  <2>1. job \in Seq(Jobs) /\ pc # "start"
    BY <1>1 DEF IInv, TypeOK, DepthInv, HitInv, Leaving, Dispatching, Stopped
  <2>0. CASE UNCHANGED vars
    BY <2>0 DEF vars
  <2>2. CASE MainLoop
    BY <2>2 DEF MainLoop, BeginPass, VisitGoal, EndGoals, GoalReturned, GoalFailed,
           EndPass
  <2>3. CASE BringUpToDate
    BY <2>3 DEF BringUpToDate, Settled, LoopOverDeps, VisitDep, DepUpdated, DepRunning,
           DepPruned, DepFailed, MustWait, DepsFailed, MustBuild
  <2>4. CASE Start
    BY <2>4, <2>1 DEF Start, Spawn, YieldFirst, StartFailed, Insert, CountUp,
           MarkRunning, StartReturns
  <2>5. CASE Dispatch
    BY <2>5, <2>1 DEF Dispatch, BeginRound, Resume, YieldAgain, EndCommand, Remove,
           Uncount, Finish, EndRound, WaitReturns
  <2>6. CASE Exit
    BY <2>6 DEF Exit, Drain, RaiseStop, Stop
  <2>7. CASE Raise
    BY <2>7, <2>1 DEF Raise, RaiseInNewCommand, RaiseInCommand, RaiseInDep, RaiseInGoal,
           RaiseInDispatch, RaiseInMain
  <2>8. CASE Signals \/ Terminated
    BY <2>8, <2>0 DEF Signals, laction, SecondSignal, Terminated
  <2>9. CASE ProcessEnds
    BY <2>9, <2>1 DEF ProcessEnds
  <2> QED
    BY <1>1, <2>0, <2>2, <2>3, <2>4, <2>5, <2>6, <2>7, <2>8, <2>9 DEF Next, Presto
<1>2. IInv /\ [Next]_vars => [hits > 0 /\ ~keepGoing => Len(job') = Len(job)]_vars
  BY <1>1
<1> QED
  BY <1>2, IInvHolds, PTL DEF Spec, StartsNothingAfterHit
=============================================================================
