----------------------------- MODULE Interrupt -----------------------------
(***************************************************************************)
(* What signals do to a build: the handlers of make.cpp over the           *)
(* statements of make.jobs.start, make.jobs.dispatch, make.exit,           *)
(* bring_up_to_date and make.update_goals (lua/mkinit.lua).  Every target  *)
(* must be built, with a command that runs one process; the dependencies   *)
(* of goals have none of their own, so calls of bring_up_to_date are       *)
(* nested once.                                                            *)
(*                                                                         *)
(* laction sets a hook; the hook raises an error at some statement of Lua  *)
(* code that follows (compiled code does not look at it at once), and the  *)
(* innermost pcall or coroutine.resume around that statement takes it for  *)
(* an error of its own.  `pc' is the next statement:                       *)
(*   "pass", "goals", "goalret", "endpass"   of update_goals_p             *)
(*   "bring"     bring_up_to_date of `cur', in the pcall of update_goals_p *)
(*               (cur = goal), or in that and the pcall of the loop over   *)
(*               goal's dependencies (cur # goal)                          *)
(*   "deps", "depret"                        that loop, cur # goal behind  *)
(*                                           its pcall                     *)
(*   "start", "spawned"                      the new coroutine, in make.run *)
(*   "started", "inserted", "counted", "marked"   make.jobs.start after it *)
(*   "round", "jobs", "back", "removed", "uncounted", "wait"   dispatch    *)
(*   "resumed"   the coroutine, in make.run                                *)
(*   "exit"      make.exit; `depth' pcalls of it are around the statement  *)
(*   "stop"      update_goals, with the error that left update_goals_p     *)
(***************************************************************************)
EXTENDS Integers, Sequences, FiniteSets

CONSTANTS
    Target,
    Builds,         \* what to build: the goals, and the targets' dependencies
    Slots,          \* values of make.jobs.slots
    Signal          \* the signals that setsignal handles

Deps == [Target -> SUBSET Target]

ASSUME InterruptAssumption ==
    /\ IsFiniteSet(Target) /\ IsFiniteSet(Signal)
    /\ Slots \subseteq Nat \ {0}
    /\ \A b \in Builds :
          /\ b.goals \in (SUBSET Target) \ {{}} /\ b.deps \in Deps
          /\ \A t \in Target : \A d \in b.deps[t] : b.deps[d] = {}

VARIABLES
    keepGoing, slots, deps,
    pc,                 \* the statement
    goal, cur,          \* the loops' elements: make.goals and a goal's deps
    left, mustWait,     \* bring_up_to_date(goal): deps to visit, must_wait
    ret,                \* the status that bring_up_to_date returned
    depth,
    goals, todo, any,   \* make.goals; to visit in this pass; goal_count > 0
    jobs,               \* job_count
    round, waiting,     \* dispatch: jobs to resume, and those that yielded
    id, ok,             \* make.jobs.current; what coroutine.resume returned
    count, running, failure,    \* make.jobs.count, make.jobs.running, make.failure
    status, pruned,     \* of each target: its status, the deps taken from it
    job,                \* the jobs so far: target, coroutine, process
    handler, hook,      \* of each signal; whether the hook is set
    hits                \* history: how often the hook has raised its error

inputVars == <<keepGoing, slots, deps>>
callVars == <<goal, cur, left, mustWait, ret>>
loopVars == <<goals, todo, any, jobs>>
roundVars == <<round, waiting, id, ok>>
targetVars == <<status, pruned>>
jobVars == <<count, running, job>>
signalVars == <<handler, hook, hits>>
vars == <<inputVars, pc, callVars, depth, loopVars, roundVars, targetVars, jobVars,
          failure, signalVars>>

Full == count >= slots
Over == pc \in {"success", "failure", "killed"}
Alive(j) == job[j].proc = "live"

-----------------------------------------------------------------------------
(***************************************************************************)
(* update_goals_p.                                                         *)
(***************************************************************************)
AfterPass == IF any THEN "pass" ELSE IF failure THEN "stop" ELSE "success"

BeginPass ==
    /\ pc = "pass"
    /\ todo' = goals /\ jobs' = count /\ any' = (goals # {})
    /\ pc' = "goals"
    /\ UNCHANGED <<inputVars, callVars, depth, goals, roundVars, targetVars, jobVars,
                   failure, signalVars>>

VisitGoal ==
    /\ pc = "goals"
    /\ \E g \in todo : goal' = g /\ cur' = g /\ todo' = todo \ {g}
    /\ pc' = "bring"
    /\ UNCHANGED <<inputVars, left, mustWait, ret, depth, goals, any, jobs, roundVars,
                   targetVars, jobVars, failure, signalVars>>

EndGoals ==
    /\ pc = "goals" /\ todo = {}
    /\ pc' = "endpass"
    /\ UNCHANGED <<inputVars, callVars, depth, loopVars, roundVars, targetVars, jobVars,
                   failure, signalVars>>

SwallowError(failed) == UNCHANGED failure               \* mutant
NoteFailure(failed) == failure' = (failure \/ failed)

(***************************************************************************)
(* Back from the pcall, with the status `error' also for an error raised.  *)
(* make.exit notes the failure with -k and does not return without it.     *)
(***************************************************************************)
EndCall == left' = {} /\ mustWait' = FALSE /\ ret' = "none" /\ UNCHANGED <<goal, cur>>

GoalReturned ==
    /\ pc = "goalret" /\ (ret # "error" \/ keepGoing)
    /\ goals' = IF ret = "running" THEN goals ELSE goals \ {goal}
    /\ NoteFailure(ret = "error")
    /\ IF Full THEN pc' = "endpass" /\ todo' = {} ELSE pc' = "goals" /\ UNCHANGED todo
    /\ EndCall
    /\ UNCHANGED <<inputVars, depth, any, jobs, roundVars, targetVars, jobVars,
                   signalVars>>

GoalFailed ==
    /\ pc = "goalret" /\ ret = "error" /\ ~keepGoing
    /\ pc' = "exit"
    /\ EndCall
    /\ UNCHANGED <<inputVars, depth, loopVars, roundVars, targetVars, jobVars, failure,
                   signalVars>>

EndPass ==
    /\ pc = "endpass"
    /\ pc' = IF count > 0 /\ (count = jobs \/ Full) THEN "round" ELSE AfterPass
    /\ UNCHANGED <<inputVars, callVars, depth, loopVars, roundVars, targetVars, jobVars,
                   failure, signalVars>>

-----------------------------------------------------------------------------
(***************************************************************************)
(* bring_up_to_date.  A pruned dependency and dep_status = error always    *)
(* come together: an error between the two statements gives the goal up.   *)
(***************************************************************************)
Return(s) == ret' = s /\ pc' = IF cur = goal THEN "goalret" ELSE "depret"

Settled ==
    /\ pc = "bring" /\ status[cur] # "none"
    /\ Return(status[cur])
    /\ UNCHANGED <<inputVars, goal, cur, left, mustWait, depth, loopVars, roundVars,
                   targetVars, jobVars, failure, signalVars>>

LoopOverDeps ==
    /\ pc = "bring" /\ status[cur] = "none"
    /\ IF cur = goal THEN left' = deps[cur] \ pruned[cur] /\ pc' = "deps"
                     ELSE UNCHANGED left /\ pc' = "start"
    /\ UNCHANGED <<inputVars, goal, cur, mustWait, ret, depth, loopVars, roundVars,
                   targetVars, jobVars, failure, signalVars>>

VisitDep ==
    /\ pc = "deps"
    /\ \E d \in left : cur' = d /\ left' = left \ {d}
    /\ pc' = "bring"
    /\ UNCHANGED <<inputVars, goal, mustWait, ret, depth, loopVars, roundVars,
                   targetVars, jobVars, failure, signalVars>>

DepUpdated ==
    /\ pc = "depret" /\ ret = "updated"
    /\ cur' = goal /\ pc' = "deps"
    /\ UNCHANGED <<inputVars, goal, left, mustWait, ret, depth, loopVars, roundVars,
                   targetVars, jobVars, failure, signalVars>>

DepRunning ==
    /\ pc = "depret" /\ ret = "running"
    /\ mustWait' = TRUE
    /\ left' = IF Full THEN {} ELSE left
    /\ cur' = goal /\ pc' = "deps"
    /\ UNCHANGED <<inputVars, goal, ret, depth, loopVars, roundVars, targetVars,
                   jobVars, failure, signalVars>>

DepPruned ==
    /\ pc = "depret" /\ ret = "error" /\ keepGoing
    /\ pruned' = [pruned EXCEPT ![goal] = @ \cup {cur}]
    /\ cur' = goal /\ pc' = "deps"
    /\ UNCHANGED <<inputVars, goal, left, mustWait, ret, depth, loopVars, roundVars,
                   status, jobVars, failure, signalVars>>

DepFailed ==
    /\ pc = "depret" /\ ret = "error" /\ ~keepGoing
    /\ status' = [status EXCEPT ![goal] = "error"]
    /\ cur' = goal /\ pc' = "goalret"
    /\ UNCHANGED <<inputVars, goal, left, mustWait, ret, depth, loopVars, roundVars,
                   pruned, jobVars, failure, signalVars>>

DepsVisited == pc = "deps" /\ left = {}

MustWait ==
    /\ DepsVisited /\ mustWait
    /\ Return("running")
    /\ UNCHANGED <<inputVars, goal, cur, left, mustWait, depth, loopVars, roundVars,
                   targetVars, jobVars, failure, signalVars>>

DepsFailed ==
    /\ DepsVisited /\ ~mustWait /\ pruned[goal] # {}
    /\ status' = [status EXCEPT ![goal] = "error"]
    /\ Return("error")
    /\ UNCHANGED <<inputVars, goal, cur, left, mustWait, depth, loopVars, roundVars,
                   pruned, jobVars, failure, signalVars>>

MustBuild ==
    /\ DepsVisited /\ ~mustWait /\ pruned[goal] = {}
    /\ pc' = "start"
    /\ UNCHANGED <<inputVars, callVars, depth, loopVars, roundVars, targetVars, jobVars,
                   failure, signalVars>>

-----------------------------------------------------------------------------
(***************************************************************************)
(* make.jobs.start, and make.run in the coroutine that it resumes.         *)
(***************************************************************************)
Spawn ==
    /\ pc = "start"
    /\ job' = Append(job, [target |-> cur, co |-> "live", proc |-> "live"])
    /\ id' = Len(job) + 1
    /\ pc' = "spawned"
    /\ UNCHANGED <<inputVars, callVars, depth, loopVars, round, waiting, ok, targetVars,
                   count, running, failure, signalVars>>

YieldFirst ==
    /\ pc = "spawned"
    /\ ok' = TRUE
    /\ pc' = "started"
    /\ UNCHANGED <<inputVars, callVars, depth, loopVars, round, waiting, id, targetVars,
                   jobVars, failure, signalVars>>

StartFailed ==
    /\ pc = "started" /\ ~ok
    /\ status' = [status EXCEPT ![cur] = "error"]
    /\ pc' = "marked"
    /\ UNCHANGED <<inputVars, callVars, depth, loopVars, roundVars, pruned, jobVars,
                   failure, signalVars>>

Insert ==
    /\ pc = "started" /\ ok
    /\ running' = running \cup {id}
    /\ pc' = "inserted"
    /\ UNCHANGED <<inputVars, callVars, depth, loopVars, roundVars, targetVars, count,
                   job, failure, signalVars>>

CountUp ==
    /\ pc = "inserted"
    /\ count' = count + 1
    /\ pc' = "counted"
    /\ UNCHANGED <<inputVars, callVars, depth, loopVars, roundVars, targetVars, running,
                   job, failure, signalVars>>

MarkRunning ==
    /\ pc = "counted"
    /\ status' = [status EXCEPT ![cur] = "running"]
    /\ pc' = "marked"
    /\ UNCHANGED <<inputVars, callVars, depth, loopVars, roundVars, pruned, jobVars,
                   failure, signalVars>>

StartReturns ==
    /\ pc = "marked"
    /\ Return(status[cur])
    /\ UNCHANGED <<inputVars, goal, cur, left, mustWait, depth, loopVars, roundVars,
                   targetVars, jobVars, failure, signalVars>>

-----------------------------------------------------------------------------
(***************************************************************************)
(* make.jobs.dispatch, below `depth' pcalls of make.exit.                  *)
(***************************************************************************)
BeginRound ==
    /\ pc = "round"
    /\ round' = running /\ jobs' = count /\ waiting' = {}
    /\ pc' = "jobs"
    /\ UNCHANGED <<inputVars, callVars, depth, goals, todo, any, id, ok, targetVars,
                   jobVars, failure, signalVars>>

(***************************************************************************)
(* coroutine.resume; it returns false for a coroutine that is dead.        *)
(***************************************************************************)
Resume ==
    /\ pc = "jobs"
    /\ \E j \in round :
          /\ id' = j /\ round' = round \ {j}
          /\ ok' = (job[j].co = "live")
          /\ pc' = IF job[j].co = "live" THEN "resumed" ELSE "back"
    /\ UNCHANGED <<inputVars, callVars, depth, loopVars, waiting, targetVars, jobVars,
                   failure, signalVars>>

YieldAgain ==
    /\ pc = "resumed" /\ Alive(id)
    /\ waiting' = waiting \cup {id}
    /\ pc' = "jobs"
    /\ UNCHANGED <<inputVars, callVars, depth, loopVars, round, id, ok, targetVars,
                   jobVars, failure, signalVars>>

EndCommand ==
    /\ pc = "resumed" /\ ~Alive(id)
    /\ job' = [job EXCEPT ![id].co = "dead"]
    /\ ok' = (job[id].proc = "ok")
    /\ pc' = "back"
    /\ UNCHANGED <<inputVars, callVars, depth, loopVars, round, waiting, id, targetVars,
                   count, running, failure, signalVars>>

Remove ==
    /\ pc = "back"
    /\ running' = running \ {id}
    /\ pc' = "removed"
    /\ UNCHANGED <<inputVars, callVars, depth, loopVars, roundVars, targetVars, count,
                   job, failure, signalVars>>

NoCountDown == UNCHANGED count                          \* mutant
CountDown == count' = count - 1

Uncount ==
    /\ pc = "removed"
    /\ CountDown
    /\ pc' = "uncounted"
    /\ UNCHANGED <<inputVars, callVars, depth, loopVars, roundVars, targetVars, running,
                   job, failure, signalVars>>

Finish ==
    /\ pc = "uncounted"
    /\ status' = [status EXCEPT ![job[id].target] = IF ok THEN "updated" ELSE "error"]
    /\ IF ok \/ keepGoing
       THEN NoteFailure(~ok) /\ pc' = "jobs"
       ELSE UNCHANGED failure /\ pc' = "exit"
    /\ UNCHANGED <<inputVars, callVars, depth, loopVars, roundVars, pruned, jobVars,
                   signalVars>>

EndRound ==
    /\ pc = "jobs" /\ round = {}
    /\ IF (jobs # count /\ ~Full) \/ jobs = 0
       THEN IF depth = 0 THEN pc' = AfterPass /\ UNCHANGED depth
                         ELSE pc' = "exit" /\ depth' = depth - 1
       ELSE pc' = "wait" /\ UNCHANGED depth
    /\ UNCHANGED <<inputVars, callVars, loopVars, roundVars, targetVars, jobVars,
                   failure, signalVars>>

WaitReturns ==
    /\ pc = "wait"
    /\ waiting = {} \/ \E j \in waiting : ~Alive(j)
    /\ pc' = "round"
    /\ UNCHANGED <<inputVars, callVars, depth, loopVars, roundVars, targetVars, jobVars,
                   failure, signalVars>>

-----------------------------------------------------------------------------
(***************************************************************************)
(* make.exit without -k: dispatch until no job is left, in a pcall each    *)
(* time; then error("Stop."), for the pcall of an outer make.exit or for   *)
(* update_goals.                                                           *)
(***************************************************************************)
DrainsToZero == count # 0                               \* mutant
DrainsNothing == FALSE                                  \* mutant
Drains == count > 0

Drain ==
    /\ pc = "exit" /\ Drains
    /\ depth' = depth + 1
    /\ pc' = "round"
    /\ UNCHANGED <<inputVars, callVars, loopVars, roundVars, targetVars, jobVars,
                   failure, signalVars>>

CaughtByTheLoop == pc' = "pass" /\ depth' = 0           \* mutant
CaughtBelow == pc' = "exit" /\ depth' = depth - 1       \* mutant
Caught ==
    IF depth = 0 THEN pc' = "stop" /\ UNCHANGED depth
                 ELSE pc' = "exit" /\ depth' = depth - 1

RaiseStop ==
    /\ pc = "exit" /\ ~Drains
    /\ Caught
    /\ UNCHANGED <<inputVars, callVars, loopVars, roundVars, targetVars, jobVars,
                   failure, signalVars>>

Stop ==
    /\ pc = "stop"
    /\ pc' = "failure"
    /\ UNCHANGED <<inputVars, callVars, depth, loopVars, roundVars, targetVars, jobVars,
                   failure, signalVars>>

-----------------------------------------------------------------------------
(***************************************************************************)
(* A signal: laction sets its handler back, and no other's.  The hook is   *)
(* one: a signal that comes before it fires adds nothing.                  *)
(***************************************************************************)
laction(s) ==
    /\ ~Over /\ handler[s] = "laction"
    /\ handler' = [handler EXCEPT ![s] = "default"] /\ hook' = TRUE
    /\ UNCHANGED <<inputVars, pc, callVars, depth, loopVars, roundVars, targetVars,
                   jobVars, failure, hits>>

SecondSignal(s) ==
    /\ ~Over /\ handler[s] = "default"
    /\ pc' = "killed"
    /\ UNCHANGED <<inputVars, callVars, depth, loopVars, roundVars, targetVars, jobVars,
                   failure, signalVars>>

lstop == hook /\ hook' = FALSE /\ hits' = hits + 1 /\ UNCHANGED handler

\* In the coroutine: its resume returns false.
RaiseInNewCommand ==
    /\ pc \in {"start", "spawned"}
    /\ lstop
    /\ job' = IF pc = "start" THEN job ELSE [job EXCEPT ![id].co = "dead"]
    /\ ok' = FALSE
    /\ pc' = "started"
    /\ UNCHANGED <<inputVars, callVars, depth, loopVars, round, waiting, id, targetVars,
                   count, running, failure>>

RaiseInCommand ==
    /\ pc = "resumed"
    /\ lstop
    /\ job' = [job EXCEPT ![id].co = "dead"]
    /\ ok' = FALSE
    /\ pc' = "back"
    /\ UNCHANGED <<inputVars, callVars, depth, loopVars, round, waiting, id, targetVars,
                   count, running, failure>>

(***************************************************************************)
(* In bring_up_to_date or make.jobs.start: for a dependency the loop over  *)
(* the goal's dependencies catches it, for a goal update_goals_p.          *)
(***************************************************************************)
Starting == {"start", "started", "inserted", "counted", "marked"}

RaiseInDep ==
    /\ pc \in Starting \cup {"bring"} /\ cur # goal
    /\ lstop
    /\ ret' = "error" /\ pc' = "depret"
    /\ UNCHANGED <<inputVars, goal, cur, left, mustWait, depth, loopVars, roundVars,
                   targetVars, jobVars, failure>>

RaiseInGoal ==
    /\ \/ pc \in Starting \cup {"bring"} /\ cur = goal
       \/ pc \in {"deps", "depret"}
    /\ lstop
    /\ ret' = "error" /\ cur' = goal /\ pc' = "goalret"
    /\ UNCHANGED <<inputVars, goal, left, mustWait, depth, loopVars, roundVars,
                   targetVars, jobVars, failure>>

RaiseInDispatch ==
    /\ pc \in {"round", "jobs", "back", "removed", "uncounted", "exit"}
    /\ lstop
    /\ Caught
    /\ UNCHANGED <<inputVars, callVars, loopVars, roundVars, targetVars, jobVars,
                   failure>>

RaiseInMain ==
    /\ pc \in {"pass", "goals", "goalret", "endpass", "stop"}
    /\ lstop
    /\ pc' = IF pc = "stop" THEN "failure" ELSE "stop"
    /\ UNCHANGED <<inputVars, callVars, depth, loopVars, roundVars, targetVars, jobVars,
                   failure>>

-----------------------------------------------------------------------------
ProcessEnds ==
    /\ \E j \in DOMAIN job, e \in {"ok", "bad"} :
          Alive(j) /\ job' = [job EXCEPT ![j].proc = e]
    /\ UNCHANGED <<inputVars, pc, callVars, depth, loopVars, roundVars, targetVars,
                   count, running, failure, signalVars>>

MainLoop ==
    \/ BeginPass \/ VisitGoal \/ EndGoals \/ GoalReturned \/ GoalFailed \/ EndPass
BringUpToDate ==
    \/ Settled \/ LoopOverDeps \/ VisitDep
    \/ DepUpdated \/ DepRunning \/ DepPruned \/ DepFailed
    \/ MustWait \/ DepsFailed \/ MustBuild
Start ==
    \/ Spawn \/ YieldFirst \/ StartFailed \/ Insert \/ CountUp \/ MarkRunning
    \/ StartReturns
Dispatch ==
    \/ BeginRound \/ Resume \/ YieldAgain \/ EndCommand \/ Remove \/ Uncount
    \/ Finish \/ EndRound \/ WaitReturns
Exit == Drain \/ RaiseStop \/ Stop
Presto == MainLoop \/ BringUpToDate \/ Start \/ Dispatch \/ Exit
Raise ==
    \/ RaiseInNewCommand \/ RaiseInCommand \/ RaiseInDep \/ RaiseInGoal
    \/ RaiseInDispatch \/ RaiseInMain
Signals == \E s \in Signal : laction(s) \/ SecondSignal(s)
Terminated == Over /\ UNCHANGED vars

Init ==
    /\ keepGoing \in BOOLEAN /\ slots \in Slots
    /\ \E b \in Builds : goals = b.goals /\ deps = b.deps
    /\ pc = "pass" /\ depth = 0
    /\ goal \in goals /\ cur = goal /\ left = {} /\ mustWait = FALSE /\ ret = "none"
    /\ todo = {} /\ any = TRUE /\ jobs = 0
    /\ round = {} /\ waiting = {} /\ id = 0 /\ ok = TRUE
    /\ count = 0 /\ running = {} /\ failure = FALSE
    /\ status = [t \in Target |-> "none"]
    /\ pruned = [t \in Target |-> {}]
    /\ job = <<>>
    /\ handler = [s \in Signal |-> "laction"] /\ hook = FALSE /\ hits = 0

Next == Presto \/ Raise \/ Signals \/ ProcessEnds \/ Terminated

Spec == Init /\ [][Next]_vars

(***************************************************************************)
(* presto's thread runs on, and processes end.  Nobody has to send a       *)
(* signal, and nothing says when compiled code looks at the hook.          *)
(***************************************************************************)
FairSpec == Spec /\ WF_vars(Presto) /\ WF_vars(ProcessEnds)
=============================================================================
