------------------------ MODULE InterruptProperties ------------------------
(***************************************************************************)
(* What signals may and may not do to a build.                             *)
(***************************************************************************)
EXTENDS Interrupt

Statements ==
    {"pass", "goals", "goalret", "endpass", "bring", "deps", "depret", "start",
     "spawned", "started", "inserted", "counted", "marked", "round", "jobs", "back",
     "removed", "uncounted", "wait", "resumed", "exit", "stop", "success", "failure",
     "killed"}
Statuses == {"none", "running", "updated", "error"}
Jobs ==
    [target : Target, co : {"live", "dead"}, proc : {"live", "ok", "bad"}]

TypeOK ==
    /\ keepGoing \in BOOLEAN /\ slots \in Slots /\ deps \in Deps
    /\ pc \in Statements /\ depth \in Nat
    /\ goal \in Target /\ cur \in Target /\ left \subseteq Target
    /\ mustWait \in BOOLEAN /\ ret \in Statuses
    /\ goals \subseteq Target /\ todo \subseteq Target /\ any \in BOOLEAN /\ jobs \in Int
    /\ job \in Seq(Jobs)
    /\ round \subseteq DOMAIN job /\ waiting \subseteq DOMAIN job
    /\ id \in 0 .. Len(job) /\ ok \in BOOLEAN
    /\ count \in Int /\ running \subseteq DOMAIN job
    /\ failure \in BOOLEAN /\ (~keepGoing => ~failure)
    /\ status \in [Target -> Statuses] /\ pruned \in Deps
    /\ handler \in [Signal -> {"laction", "default"}]
    /\ hook \in BOOLEAN /\ hits \in Nat

(***************************************************************************)
(* Five pcalls and the coroutines stand between the hook's error and       *)
(* presto's exit status, with -k and without: none of them loses it.       *)
(***************************************************************************)
InterruptFails == hits > 0 => pc # "success"

(***************************************************************************)
(* A process outlives presto only after an interrupt, whatever failed.     *)
(***************************************************************************)
OrphansOnlyByInterrupt ==
    pc \in {"success", "failure"} /\ hits = 0 => \A j \in DOMAIN job : ~Alive(j)

(***************************************************************************)
(* make.jobs.count and make.jobs.running change in two statements each.    *)
(* An error between them puts the count off by one, for good; each signal  *)
(* can do so once, and without one they always agree.                      *)
(***************************************************************************)
InFlight == CASE pc = "inserted" -> 1 [] pc = "removed" -> -1 [] OTHER -> 0
CountOffByHits ==
    pc # "killed" =>
        count + InFlight - Cardinality(running) \in -hits .. hits

(***************************************************************************)
(* Without -k no command starts after the interrupt: the error always      *)
(* leaves the main loop.                                                   *)
(***************************************************************************)
StartsNothingAfterHit == [][hits > 0 /\ ~keepGoing => Len(job') = Len(job)]_vars

(***************************************************************************)
(* presto ends, unless the error left the count off by one.  Too high:     *)
(* make.exit waits for a job that does not exist and dispatch turns        *)
(* forever.  Too low, with -k: the main loop turns forever beside a job    *)
(* that it does not dispatch.                                              *)
(***************************************************************************)
WaitsForNobody == ~keepGoing /\ running = {} /\ count > 0
ForgetsAJob == keepGoing /\ running # {} /\ count <= 0
Exits == <>Over \/ <>[](hits > 0 /\ (WaitsForNobody \/ ForgetsAJob))
=============================================================================
