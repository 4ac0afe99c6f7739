------------------------- MODULE SchedulerProperties -------------------------
(***************************************************************************)
(* What a run of presto promises, stated against its input alone wherever  *)
(* possible: which targets are stale, and which cannot be made, is defined *)
(* here from the dependency graph and the stamps on disk at the start, and *)
(* compared with what the scheduler did.                                   *)
(***************************************************************************)
EXTENDS Scheduler

TypeOK ==
    /\ TargetTypeOK
    /\ JobTypeOK
    /\ input \in Inputs
    /\ pc \in {"start", "pass", "goals", "eval", "endpass", "round", "resume",
               "wait", "stop", "ok", "failed"}
    /\ goals \subseteq Target
    /\ failure \in BOOLEAN
    /\ pass \in [jobs : Nat, todo : SUBSET Target, any : BOOLEAN]
    /\ stack \in Seq(Frame)
    /\ ret \in {NoReturn} \cup [of : Target, st : Statuses]
    /\ round \in [jobs : Nat, todo : SUBSET Target, waiting : SUBSET Target]
    /\ draining \in BOOLEAN

-----------------------------------------------------------------------------
(***************************************************************************)
(* The declarative side: closures over the dependency graph of an input i. *)
(***************************************************************************)
Closure(S, next) ==
    LET grow[n \in 0 .. Cardinality(Target)] ==
            IF n = 0 THEN S ELSE UNION {{t} \cup next[t] : t \in grow[n - 1]}
    IN grow[Cardinality(Target)]

Below(i, S) == Closure(S, i.deps)
AskedForBy(i) == IF i.goals = {} THEN i.default ELSE i.goals

Missing(i, t) == KindOf[t] # "dir" /\ i.disk[t] = Absent
Age(i, t) == IF KindOf[t] = "dir" THEN BeginningOfTime ELSE i.disk[t]
FollowsDeps(i, t) == t \in Recipe \/ ~i.flags.alwaysMake
OutOfDate(i, t) ==
    \/ Missing(i, t)
    \/ i.flags.alwaysMake /\ (t \in Recipe \/ i.flags.question)
    \/ KindOf[t] = "phony"
    \/ FollowsDeps(i, t) /\ \E d \in i.deps[t] :
                                KindOf[d] # "phony" /\ Age(i, t) < Age(i, d)

\* A target must be remade if it is out of date itself or any dependency was.
PlanOf ==
    [i \in Inputs |->
        [deps |-> i.deps,
         stale |-> Closure({t \in Target : OutOfDate(i, t)},
                           [d \in Target |-> {t \in Target : FollowsDeps(i, t)
                                                             /\ d \in i.deps[t]}]),
         requested |-> Below(i, AskedForBy(i)),
         makeable |-> IF i.flags.question THEN {} ELSE Recipe,
         capacity |-> IF i.slots > 1 THEN i.slots ELSE 1,
         keepGoing |-> i.flags.keepGoing]]

(***************************************************************************)
(* Nobody edits the sources, and no target that is asked for is derived:   *)
(* the time stamp of such a target cannot be read, which raises.           *)
(***************************************************************************)
Undisturbed ==
    /\ Editable = {}
    /\ \A i \in Inputs : \A t \in PlanOf[i].requested : HasTimestamp(t)

\* Such a target is not asked for with -k, which goes on after it raised.
KeepGoingNeverRaises ==
    \A i \in Inputs : i.flags.keepGoing => \A t \in PlanOf[i].requested : HasTimestamp(t)

Requested == PlanOf[input].requested
Stale == PlanOf[input].stale

\* What cannot be made: it failed, it has no rule, or something below it has.
Doomed ==
    Closure({t \in Target : \/ t \in started /\ status[t] = "error"
                            \/ t \in Stale /\ t \notin Recipe},
            [d \in Target |-> {t \in Target : d \in input.deps[t]}])

-----------------------------------------------------------------------------
(***************************************************************************)
(* make.jobs.count is the number of jobs in make.jobs.running, those are   *)
(* the targets with status running, and there are never more than the      *)
(* slots of -j (one, if that number is not positive).                      *)
(***************************************************************************)
Capacity == IF input.slots > 1 THEN input.slots ELSE 1
JobAccounting ==
    /\ running = {t \in Target : status[t] = "running"}
    /\ count = Cardinality(running)
    /\ count <= Capacity

(***************************************************************************)
(* However often the main loop comes back to a target, through however     *)
(* many dependents, bring_up_to_date runs its command at most once.        *)
(***************************************************************************)
NeverStartedTwice == MayStart => Top.t \notin started

(***************************************************************************)
(* A command starts only when nothing below it is still to be made, is     *)
(* running or failed: nothing it reads is written after it started.        *)
(***************************************************************************)
DepsFirst ==
    MayStart => \A d \in Below(input, input.deps[Top.t]) :
                   /\ status[d] \in {"none", "updated"}
                   /\ d \in Stale => d \in started

(***************************************************************************)
(* On success no target that a command makes is older than a file it       *)
(* depends on: the next run would find nothing to do.                      *)
(***************************************************************************)
SuccessLeavesFresh ==
    pc = "ok" => \A t \in Requested \cap Recipe :
                    KindOf[t] \in {"file", "derived"} =>
                       /\ OnDisk(t)
                       /\ \A d \in input.deps[t] :
                             KindOf[d] \in {"file", "source", "derived"} => disk[d] <= disk[t]

(***************************************************************************)
(* -k: after a failure, every stale target with nothing doomed below it is *)
(* remade all the same, before presto exits.                               *)
(***************************************************************************)
KeepGoingIsComplete ==
    Exited /\ keepGoing /\ ~question =>
        started = {t \in Requested \cap Stale \cap Recipe :
                      input.deps[t] \cap Doomed = {}}

(***************************************************************************)
(* Without -k no command starts once anything failed.                      *)
(***************************************************************************)
NoStartAfterFailure ==
    [][~keepGoing /\ (ret.st = "error" \/ draining
                        \/ \E t \in Target : status[t] = "error")
          => started' = started]_vars

(***************************************************************************)
(* presto does not sit in make.proc.wait with a free slot while a target   *)
(* could be started: everything below it is made, and a goal needs it.     *)
(***************************************************************************)
Ready(t) ==
    /\ t \in Requested \cap Stale \cap Recipe
    /\ t \notin started
    /\ \A d \in Below(input, input.deps[t]) \cap Stale : status[d] = "updated"

NoIdleSlot ==
    pc = "wait" /\ ~draining /\ ~SlotsFull => \A t \in Target : ~Ready(t)

(***************************************************************************)
(* No job outlives presto.                                                 *)
(***************************************************************************)
NoJobAtExit == Exited => running = {} /\ \A t \in Target : job[t].proc # "live"

(***************************************************************************)
(* If every process ends, presto exits.                                    *)
(***************************************************************************)
Exits == <>Exited

-----------------------------------------------------------------------------
(***************************************************************************)
(* The main loop, the nested calls, the dispatcher and make.exit together  *)
(* implement Build, while nobody edits the sources and no derived target   *)
(* raises: a target is made when its job is gone from the running ones,    *)
(* whatever the scheduler is doing at the time.                            *)
(***************************************************************************)
Progress(t) ==
    CASE status[t] = "none" -> "idle" [] status[t] = "running" -> "building"
      [] status[t] = "updated" -> "made" [] status[t] = "error" -> "failed"

Abstract == INSTANCE Build WITH
    plan <- PlanOf[input],
    state <- [t \in Target |-> Progress(t)],
    result <- IF Exited THEN pc ELSE "open"

IsABuild == Abstract!Spec

-----------------------------------------------------------------------------
(***************************************************************************)
(* What comments and the usage text say, and the code does not do.         *)
(***************************************************************************)

\* mkinit.lua:588: a directory target used as a dependency is created.
DirectoriesCreated ==
    pc = "ok" => \A t \in Requested : KindOf[t] = "dir" => OnDisk(t)

\* mkinit.lua:459: a failed build deletes what is listed in delete_on_error.
CleansUp ==
    pc = "failed" => \A t \in DeleteOnError : disk[t] = Absent
=============================================================================
