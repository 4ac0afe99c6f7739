-------------------------------- MODULE Jobs --------------------------------
(***************************************************************************)
(* make.jobs: a job is a coroutine that runs the command of one target.    *)
(* Script[t] is what that command does, as the scheduler sees it: "run"    *)
(* is a call of make.run (spawn a process, yield its handle until it is    *)
(* gone), "yield" a bare coroutine.yield().  The actions here change the   *)
(* jobs, the status of their targets and the files they write; Scheduler   *)
(* says when they happen.                                                  *)
(***************************************************************************)
EXTENDS TargetObjects

CONSTANTS
    Script,     \* the steps of each target's command
    Fallible,   \* the targets whose command may throw, or run a failing process
    Registers   \* the targets whose command adds itself to delete_on_error

ASSUME JobAssumption ==
    /\ Script \in [Target -> Seq({"run", "yield"})]
    /\ \A t \in Target : KindOf[t] \in {"phony", "dir"} => Script[t] = <<>>
    /\ Fallible \subseteq Target
    /\ Registers \subseteq Target

VARIABLES
    count,      \* make.jobs.count
    running,    \* make.jobs.running, by target (a job has one target)
    job,        \* where each target's coroutine is suspended
    started     \* history: the targets whose command was started

jobVars == <<count, running, job, started>>

Processes == {"none", "live", "succeeded", "failed"}

SlotsOverfull == count > input.slots       \* mutant
SlotsFull == count >= input.slots

(***************************************************************************)
(* The coroutine of t is suspended in step n of its script.  exit_code is  *)
(* nil until a flushio has seen the pipe closed, so make.run yields at     *)
(* least once, with the handle of its process.                             *)
(***************************************************************************)
AtStep(t, n) ==
    [step |-> n, proc |-> IF Script[t][n] = "run" THEN "live" ELSE "none"]
YieldsHandle(t, n) == Script[t][n] = "run"
RunsProcess(t) == \E n \in DOMAIN Script[t] : Script[t][n] = "run"

(***************************************************************************)
(* make.jobs.start: the first resume of a new coroutine.                   *)
(***************************************************************************)
StartThrowsUncounts(t) ==       \* mutant: as if the job had been counted
    /\ t \in Fallible
    /\ started' = started \cup {t}
    /\ SetStatus(t, "error")
    /\ count' = count - 1
    /\ UNCHANGED <<running, job, fileVars>>

StartThrows(t) ==
    /\ t \in Fallible
    /\ started' = started \cup {t}
    /\ SetStatus(t, "error")
    /\ UNCHANGED <<count, running, job, fileVars>>

StartReturns(t) ==
    /\ Script[t] = <<>>
    /\ started' = started \cup {t}
    /\ SetStatus(t, "updated")
    /\ WriteOutput(t)
    /\ UNCHANGED <<count, running, job>>

StartSuspends(t) ==
    /\ Script[t] # <<>>
    /\ started' = started \cup {t}
    /\ job' = [job EXCEPT ![t] = AtStep(t, 1)]
    /\ running' = running \cup {t}
    /\ count' = count + 1
    /\ SetStatus(t, "running")
    /\ UNCHANGED fileVars

(***************************************************************************)
(* coroutine.resume from the dispatcher, by what the coroutine does.       *)
(***************************************************************************)
Busy(t) == job[t].proc = "live"

JobThrows(t) ==
    /\ job[t].proc = "failed" \/ (t \in Fallible /\ ~Busy(t))
    /\ running' = running \ {t}
    /\ count' = count - 1
    /\ SetStatus(t, "error")
    /\ UNCHANGED <<job, started, fileVars>>

JobReturns(t) ==
    /\ job[t].proc \in {"none", "succeeded"}
    /\ job[t].step = Len(Script[t])
    /\ running' = running \ {t}
    /\ count' = count - 1
    /\ SetStatus(t, "updated")
    /\ IF RunsProcess(t) THEN UNCHANGED fileVars ELSE WriteOutput(t)
    /\ UNCHANGED <<job, started>>

JobAdvances(t) ==
    /\ job[t].proc \in {"none", "succeeded"}
    /\ job[t].step < Len(Script[t])
    /\ job' = [job EXCEPT ![t] = AtStep(t, job[t].step + 1)]
    /\ UNCHANGED <<count, running, started, status, fileVars>>

(***************************************************************************)
(* The environment: a process ends.  One that succeeds has written its     *)
(* target, one that fails may have written part of it.                     *)
(***************************************************************************)
ProcSucceeds(t) ==
    /\ t \in running /\ Busy(t)
    /\ job' = [job EXCEPT ![t].proc = "succeeded"]
    /\ WriteOutput(t)
    /\ UNCHANGED <<count, running, started>>

ProcFails(t) ==
    /\ t \in running /\ Busy(t) /\ t \in Fallible
    /\ job' = [job EXCEPT ![t].proc = "failed"]
    /\ WriteOutput(t) \/ UNCHANGED fileVars
    /\ UNCHANGED <<count, running, started>>

JobTypeOK ==
    /\ count \in Nat
    /\ running \subseteq Target
    /\ job \in [Target -> [step : Nat, proc : Processes]]
    /\ started \subseteq Target

JobInit ==
    /\ count = 0
    /\ running = {}
    /\ job = [t \in Target |-> [step |-> 0, proc |-> "none"]]
    /\ started = {}
=============================================================================
