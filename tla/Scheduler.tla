------------------------------ MODULE Scheduler ------------------------------
(***************************************************************************)
(* make.update_goals, bring_up_to_date and make.jobs.dispatch of           *)
(* lua/mkinit.lua: one run of presto after the makefiles were read, from   *)
(* the first look at the goals to the exit status.                         *)
(*                                                                         *)
(* presto is one thread; `pc' says where it is:                            *)
(*   "start"   update_goals was called                                     *)
(*   "pass"    top of the main loop                                        *)
(*   "goals"   in the loop over the goals                                  *)
(*   "eval"    in bring_up_to_date; `stack' holds the nested calls, the    *)
(*             innermost first, `ret' what the last callee returned        *)
(*   "endpass" after the loop over the goals                               *)
(*   "round"   top of the dispatch loop                                    *)
(*   "resume"  in the loop over the running jobs                           *)
(*   "wait"    in make.proc.wait                                           *)
(*   "stop"    error("Stop.") left update_goals_p                          *)
(*   "ok", "failed"   presto exits with that status                        *)
(* Every other process, and whoever edits the sources, runs beside it.     *)
(***************************************************************************)
EXTENDS Jobs

CONSTANTS
    Inputs,     \* what a run may be given
    Rank,       \* a depth for every target: dependencies have smaller ones
    Editable    \* source files that may be edited during the run

Flags == [alwaysMake : BOOLEAN, keepGoing : BOOLEAN, question : BOOLEAN]

(***************************************************************************)
(* An input is what make.flags, make.jobs.slots, make.goals, the target    *)
(* table, its first target and the file system hold when update_goals is   *)
(* called.  check_for_cycle keeps the graph acyclic; an undefined target   *)
(* has no dependencies; no file is newer than presto's start.              *)
(***************************************************************************)
ASSUME InputAssumption ==
    /\ Rank \in [Target -> Nat]
    /\ Editable \subseteq {t \in Target : KindOf[t] = "source"}
    /\ Inputs \subseteq [flags : Flags, slots : Int, goals : SUBSET Target,
                         default : SUBSET Target, deps : [Target -> SUBSET Target],
                         disk : [Target -> Int]]
    /\ \A i \in Inputs, t \in Target :
          /\ \A d \in i.deps[t] : Rank[d] < Rank[t]
          /\ KindOf[t] = "source" => i.deps[t] = {}
          /\ i.disk[t] <= Absent
          /\ Cardinality(i.default) <= 1

VARIABLES
    pc,
    goals,      \* make.goals: the goals not finished yet
    failure,    \* make.failure
    pass,       \* locals of one turn of the main loop
    stack,      \* the frames of the nested bring_up_to_date calls
    ret,        \* what the callee returned to the innermost frame
    round,      \* locals of one turn of the dispatch loop
    draining    \* in the loop of make.exit that waits for the other jobs

loopVars == <<goals, failure, pass>>
callVars == <<stack, ret>>
dispatchVars == <<round, draining>>
evalFrame == <<input, loopVars, dispatchVars>>
vars == <<input, targetVars, cacheVars, fileVars, jobVars, pc, loopVars,
          callVars, dispatchVars>>

always == input.flags.alwaysMake
keepGoing == input.flags.keepGoing
question == input.flags.question

Frame == [t : Target, todo : SUBSET Target, build : BOOLEAN, wait : BOOLEAN]
NoReturn == [of |-> "nobody", st |-> "pending"]
Returned == ret.st # "pending"
Top == Head(stack)
Callers == Tail(stack)
SetTop(f) == stack' = <<f>> \o Callers

(***************************************************************************)
(* update_goals, the head of update_goals_p, and the top of its main loop. *)
(***************************************************************************)
UpdateGoals ==
    /\ pc = "start"
    /\ goals' = IF goals = {} THEN input.default ELSE goals
    /\ pc' = IF goals' = {} THEN "stop" ELSE "pass"
    /\ UNCHANGED <<input, targetVars, cacheVars, fileVars, jobVars, failure,
                   pass, callVars, dispatchVars>>

BeginPass ==
    /\ pc = "pass"
    /\ pass' = [jobs |-> count, todo |-> goals, any |-> goals # {}]
    /\ pc' = IF goals = {} THEN "endpass" ELSE "goals"
    /\ UNCHANGED <<input, targetVars, cacheVars, fileVars, jobVars, goals,
                   failure, callVars, dispatchVars>>

AfterPass == IF pass.any THEN "pass" ELSE IF failure THEN "stop" ELSE "ok"

EndPass ==
    /\ pc = "endpass"
    /\ pc' = IF count > 0 /\ (count = pass.jobs \/ SlotsFull) THEN "round"
                                                              ELSE AfterPass
    /\ UNCHANGED <<input, targetVars, cacheVars, fileVars, jobVars, loopVars,
                   callVars, dispatchVars>>

(***************************************************************************)
(* Calling t:bring_up_to_date() from `below', the frames left on the stack *)
(* (none for a goal).  The early return of lines 171-175 needs no frame.   *)
(***************************************************************************)
Calls(t, below) ==
    \/ /\ NeedsNoCall(t)
       /\ ret' = [of |-> t, st |-> status[t]]
       /\ stack' = below
       /\ UNCHANGED seenExists
    \/ /\ ~NeedsNoCall(t)
       /\ ret' = NoReturn
       /\ stack' = <<[t |-> t, todo |-> deps[t], build |-> always \/ ~Exists(t),
                      wait |-> FALSE]>> \o below
       /\ IF always THEN UNCHANGED seenExists ELSE ReadExists(t)

VisitGoal(t) ==
    /\ pc = "goals"
    /\ t \in pass.todo
    /\ pass' = [pass EXCEPT !.todo = @ \ {t}]
    /\ Calls(t, <<>>)
    /\ pc' = "eval"
    /\ UNCHANGED <<input, targetVars, seenTime, fileVars, jobVars, goals,
                   failure, dispatchVars>>

(***************************************************************************)
(* bring_up_to_date, the loop over the dependencies.                       *)
(***************************************************************************)
InLoop == pc = "eval" /\ stack # <<>>
VisitDep(d) ==
    /\ InLoop /\ ~Returned
    /\ d \in Top.todo
    /\ Calls(d, <<[Top EXCEPT !.todo = @ \ {d}]>> \o Callers)
    /\ UNCHANGED <<evalFrame, pc, targetVars, seenTime, fileVars, jobVars>>

Answered(s) == InLoop /\ ret.st = s

MarkNewer(t, d) == depsNewer' = [depsNewer EXCEPT ![t] = @ \cup {d}]

DepUpdated ==
    /\ Answered("updated")
    /\ SetTop([Top EXCEPT !.build = TRUE])
    /\ MarkNewer(Top.t, ret.of)
    /\ ret' = NoReturn
    /\ UNCHANGED <<evalFrame, pc, status, deps, depFailed, cacheVars, fileVars,
                   jobVars>>

DepUnchanged ==
    /\ Answered("none")
    /\ HasTimestamp(Top.t)
    /\ IF Newer(ret.of, Top.t)
       THEN SetTop([Top EXCEPT !.build = TRUE]) /\ MarkNewer(Top.t, ret.of)
       ELSE UNCHANGED <<stack, depsNewer>>
    /\ ReadTimestamps({Top.t, ret.of})
    /\ ret' = NoReturn
    /\ UNCHANGED <<evalFrame, pc, status, deps, depFailed, seenExists, fileVars,
                   jobVars>>

DepRunning ==
    /\ Answered("running")
    /\ SetTop([Top EXCEPT !.wait = TRUE, !.todo = IF SlotsFull THEN {} ELSE @])
    /\ ret' = NoReturn
    /\ UNCHANGED <<evalFrame, pc, targetVars, cacheVars, fileVars, jobVars>>

DepPruned ==
    /\ Answered("error") /\ keepGoing
    /\ deps' = [deps EXCEPT ![Top.t] = @ \ {ret.of}]
    /\ depFailed' = [depFailed EXCEPT ![Top.t] = TRUE]
    /\ ret' = NoReturn
    /\ UNCHANGED <<evalFrame, pc, stack, status, depsNewer, cacheVars, fileVars,
                   jobVars>>

(***************************************************************************)
(* Leaving bring_up_to_date.  The caller is behind a pcall: an error that  *)
(* was raised and the status `error' are the same to it.                   *)
(***************************************************************************)
Return(s) ==
    /\ stack' = Callers
    /\ ret' = [of |-> Top.t, st |-> s]

DepFailed ==
    /\ Answered("error") /\ ~keepGoing
    /\ SetStatus(Top.t, "error")
    /\ Return("error")
    /\ UNCHANGED <<evalFrame, pc, deps, depFailed, depsNewer, cacheVars,
                   fileVars, jobVars>>

TimestampRaises ==
    /\ Answered("none") /\ ~HasTimestamp(Top.t)
    /\ Return("error")
    /\ UNCHANGED <<evalFrame, pc, targetVars, cacheVars, fileVars, jobVars>>

LoopDone == InLoop /\ ~Returned /\ Top.todo = {}

ReturnRunning ==
    /\ LoopDone /\ Top.wait
    /\ Return("running")
    /\ UNCHANGED <<evalFrame, pc, targetVars, cacheVars, fileVars, jobVars>>

ReturnDepError ==
    /\ LoopDone /\ ~Top.wait /\ depFailed[Top.t]
    /\ SetStatus(Top.t, "error")
    /\ Return("error")
    /\ UNCHANGED <<evalFrame, pc, deps, depFailed, depsNewer, cacheVars,
                   fileVars, jobVars>>

DepsVisited == LoopDone /\ ~depFailed[Top.t]            \* mutant
DepsDone == LoopDone /\ ~Top.wait                       \* mutant
DepsSettled == LoopDone /\ ~Top.wait /\ ~depFailed[Top.t]
MustBuild == DepsSettled /\ Top.build

(***************************************************************************)
(* With -q line 234 indexes the function phony_target, which raises before *)
(* the status is stored, whatever the target.                              *)
(***************************************************************************)
QuestionRaises ==
    /\ MustBuild /\ question
    /\ Return("error")
    /\ UNCHANGED <<evalFrame, pc, targetVars, cacheVars, fileVars, jobVars>>

MayStart == MustBuild /\ ~question /\ Top.t \in Recipe

StartJob ==
    /\ MayStart
    /\ \/ StartThrows(Top.t) /\ Return("error")
       \/ StartReturns(Top.t) /\ Return("updated")
       \/ StartSuspends(Top.t) /\ Return("running")
    /\ UNCHANGED <<evalFrame, pc, deps, depFailed, depsNewer, cacheVars>>

NoWayToMake == ~always \/ ~Exists(Top.t)

NoRule ==
    /\ MustBuild /\ ~question /\ Top.t \notin Recipe
    /\ NoWayToMake
    /\ SetStatus(Top.t, "error")
    /\ IF always THEN ReadExists(Top.t) ELSE UNCHANGED seenExists
    /\ Return("error")
    /\ UNCHANGED <<evalFrame, pc, deps, depFailed, depsNewer, seenTime,
                   fileVars, jobVars>>

NothingToRun ==
    /\ MustBuild /\ ~question /\ Top.t \notin Recipe
    /\ ~NoWayToMake
    /\ ReadExists(Top.t)
    /\ Return("none")
    /\ UNCHANGED <<evalFrame, pc, targetVars, seenTime, fileVars, jobVars>>

UpToDate ==
    /\ DepsSettled /\ ~Top.build
    /\ Return("none")
    /\ UNCHANGED <<evalFrame, pc, targetVars, cacheVars, fileVars, jobVars>>

(***************************************************************************)
(* Back in the loop over the goals.                                        *)
(***************************************************************************)
GoalAnswered(s) == pc = "eval" /\ stack = <<>> /\ ret.st = s
AfterGoal == IF SlotsFull \/ pass.todo = {} THEN "endpass" ELSE "goals"

KeepGoal(g) == UNCHANGED goals                          \* mutant
FinishGoal(g) == goals' = goals \ {g}

(***************************************************************************)
(* make.exit: with -k it notes the failure, without it waits for the jobs  *)
(* that still run (n of them) and leaves with error("Stop.").              *)
(***************************************************************************)
NoteFailure == failure' = TRUE
LeavesJobs(n) ==                                        \* mutant
    /\ draining' = FALSE
    /\ pc' = "stop"
ExitAfter(n) ==
    /\ draining' = (n > 0)
    /\ pc' = IF n > 0 THEN "round" ELSE "stop"

GoalRunning ==
    /\ GoalAnswered("running")
    /\ pc' = AfterGoal
    /\ ret' = NoReturn
    /\ UNCHANGED <<evalFrame, targetVars, cacheVars, fileVars, jobVars, stack>>

GoalDone ==
    /\ GoalAnswered("none") \/ GoalAnswered("updated")
    /\ FinishGoal(ret.of)
    /\ pc' = AfterGoal
    /\ ret' = NoReturn
    /\ UNCHANGED <<input, targetVars, cacheVars, fileVars, jobVars, failure,
                   pass, stack, dispatchVars>>

GoalFailedGoOn ==
    /\ GoalAnswered("error") /\ keepGoing
    /\ NoteFailure
    /\ FinishGoal(ret.of)
    /\ pc' = AfterGoal
    /\ ret' = NoReturn
    /\ UNCHANGED <<input, targetVars, cacheVars, fileVars, jobVars, pass, stack,
                   dispatchVars>>

GoalFailedExit ==
    /\ GoalAnswered("error") /\ ~keepGoing
    /\ ExitAfter(count)
    /\ ret' = NoReturn
    /\ UNCHANGED <<input, targetVars, cacheVars, fileVars, jobVars, loopVars,
                   stack, round>>

(***************************************************************************)
(* make.jobs.dispatch, and make.exit when a job fails.                     *)
(***************************************************************************)
BeginRound ==
    /\ pc = "round"
    /\ round' = [jobs |-> count, todo |-> running, waiting |-> {}]
    /\ pc' = "resume"
    /\ UNCHANGED <<input, targetVars, cacheVars, fileVars, jobVars, loopVars,
                   callVars, draining>>

Resume(t) ==
    /\ pc = "resume"
    /\ t \in round.todo

WaitFor(t) == [round EXCEPT !.todo = @ \ {t}, !.waiting = @ \cup {t}]
DoneWith(t) == [round EXCEPT !.todo = @ \ {t}]

ResumeBusy(t) ==
    /\ Resume(t) /\ Busy(t)
    /\ round' = WaitFor(t)
    /\ UNCHANGED <<input, pc, targetVars, cacheVars, fileVars, jobVars, loopVars,
                   callVars, draining>>

ResumeAdvances(t) ==
    /\ Resume(t)
    /\ JobAdvances(t)
    /\ round' = IF YieldsHandle(t, job'[t].step) THEN WaitFor(t) ELSE DoneWith(t)
    /\ UNCHANGED <<input, pc, deps, depFailed, depsNewer, cacheVars, loopVars,
                   callVars, draining>>

ResumeReturns(t) ==
    /\ Resume(t)
    /\ JobReturns(t)
    /\ round' = DoneWith(t)
    /\ UNCHANGED <<input, pc, deps, depFailed, depsNewer, cacheVars, loopVars,
                   callVars, draining>>

ResumeThrowsGoOn(t) ==
    /\ Resume(t) /\ keepGoing
    /\ JobThrows(t)
    /\ NoteFailure
    /\ round' = DoneWith(t)
    /\ UNCHANGED <<input, pc, deps, depFailed, depsNewer, cacheVars, goals, pass,
                   callVars, draining>>

ResumeThrowsExit(t) ==
    /\ Resume(t) /\ ~keepGoing
    /\ JobThrows(t)
    /\ ExitAfter(count')
    /\ round' = DoneWith(t)
    /\ UNCHANGED <<input, deps, depFailed, depsNewer, cacheVars, loopVars,
                   callVars>>

LeaveWhenIdle == round.jobs = 0                         \* mutant
LeaveDispatch == (round.jobs # count /\ ~SlotsFull) \/ round.jobs = 0
AfterDispatchGoOn == AfterPass                          \* mutant
AfterDispatch ==
    IF ~draining THEN AfterPass ELSE IF count > 0 THEN "round" ELSE "stop"

EndRound ==
    /\ pc = "resume" /\ round.todo = {}
    /\ pc' = IF LeaveDispatch THEN AfterDispatch ELSE "wait"
    /\ UNCHANGED <<input, targetVars, cacheVars, fileVars, jobVars, loopVars,
                   callVars, dispatchVars>>

(***************************************************************************)
(* make.proc.wait returns when one of the processes has ended, at once     *)
(* when it is given none, and now and then because of output (or because   *)
(* the event of a new process is still signalled).                         *)
(***************************************************************************)
WaitReturns ==
    /\ pc = "wait"
    /\ round.waiting = {} \/ \E t \in round.waiting : ~Busy(t)
    /\ pc' = "round"
    /\ UNCHANGED <<input, targetVars, cacheVars, fileVars, jobVars, loopVars,
                   callVars, dispatchVars>>

WaitSeesOutput ==
    /\ pc = "wait"
    /\ \E t \in round.waiting : Busy(t)
    /\ pc' = "round"
    /\ UNCHANGED <<input, targetVars, cacheVars, fileVars, jobVars, loopVars,
                   callVars, dispatchVars>>

(***************************************************************************)
(* update_goals caught the error.  Its clean-up calls make.file.exist,     *)
(* which does not exist: nothing is deleted, and presto fails either way.  *)
(***************************************************************************)
DeleteOnError == started \cap Registers
CleanUp == UNCHANGED fileVars

Stop ==
    /\ pc = "stop"
    /\ CleanUp
    /\ pc' = "failed"
    /\ UNCHANGED <<input, targetVars, cacheVars, jobVars, loopVars, callVars,
                   dispatchVars>>

Exited == pc \in {"ok", "failed"}
Terminated == Exited /\ UNCHANGED vars

(***************************************************************************)
(* The processes, and an editor that saves each source file at most once   *)
(* (a bound).                                                              *)
(***************************************************************************)
ProcExit(t) ==
    /\ ProcSucceeds(t) \/ ProcFails(t)
    /\ UNCHANGED <<input, targetVars, cacheVars, pc, loopVars, callVars,
                   dispatchVars>>

Edit(t) ==
    /\ ~Exited
    /\ t \in Editable /\ disk[t] <= Absent
    /\ Touch(t)
    /\ UNCHANGED <<input, targetVars, cacheVars, jobVars, pc, loopVars, callVars,
                   dispatchVars>>

Evaluate ==
    \/ \E t \in Target : VisitGoal(t) \/ VisitDep(t)
    \/ DepUpdated \/ DepUnchanged \/ DepRunning \/ DepPruned \/ DepFailed
    \/ TimestampRaises \/ ReturnRunning \/ ReturnDepError \/ QuestionRaises
    \/ StartJob \/ NoRule \/ NothingToRun \/ UpToDate

MainLoop ==
    \/ UpdateGoals \/ BeginPass \/ EndPass \/ Stop
    \/ GoalRunning \/ GoalDone \/ GoalFailedGoOn \/ GoalFailedExit

Dispatch ==
    \/ BeginRound \/ EndRound \/ WaitReturns
    \/ \E t \in Target :
          \/ ResumeBusy(t) \/ ResumeAdvances(t) \/ ResumeReturns(t)
          \/ ResumeThrowsGoOn(t) \/ ResumeThrowsExit(t)

Presto == Evaluate \/ MainLoop \/ Dispatch
Environment == WaitSeesOutput \/ \E t \in Target : ProcExit(t) \/ Edit(t)

Init ==
    /\ input \in Inputs
    /\ TargetInit
    /\ JobInit
    /\ pc = "start"
    /\ goals = input.goals
    /\ failure = FALSE
    /\ pass = [jobs |-> 0, todo |-> {}, any |-> FALSE]
    /\ stack = <<>>
    /\ ret = NoReturn
    /\ round = [jobs |-> 0, todo |-> {}, waiting |-> {}]
    /\ draining = FALSE

Next == Presto \/ Environment \/ Terminated

Spec == Init /\ [][Next]_vars

(***************************************************************************)
(* presto's thread runs whenever it can, and every process ends.           *)
(***************************************************************************)
Fairness ==
    /\ WF_vars(Presto)
    /\ \A t \in Target : WF_vars(ProcExit(t))

FairSpec == Spec /\ Fairness
=============================================================================
