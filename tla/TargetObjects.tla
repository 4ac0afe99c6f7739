---------------------------- MODULE TargetObjects ----------------------------
(***************************************************************************)
(* The target objects of lua/mkinit.lua and the files they stand for.      *)
(*                                                                         *)
(* A target object is a Lua table: its `deps', `deps_newer', `status' and  *)
(* `dep_status' fields are variables here, indexed by target name.  Its    *)
(* `exists' and `timestamp' are looked up through the metatables of its    *)
(* class, so what they answer depends on how the makefile made the object: *)
(*   file     target.X = ... or target:new{"X"}; answers are cached        *)
(*   source   a name no makefile defined; a new object at every read       *)
(*   phony    phony_target("X")                                            *)
(*   dir      dir_target("X")                                              *)
(*   derived  class:new{"X"} with class = target:new{...}                  *)
(*                                                                         *)
(* A definition marked "mutant" is a plausible wrong version of the one    *)
(* after it.  Nothing uses it; the README says which property breaks when  *)
(* it replaces the right one.                                              *)
(***************************************************************************)
EXTENDS Integers, Sequences, FiniteSets

CONSTANTS
    Target,             \* target names
    KindOf,             \* the kind of object each name stands for
    Recipe,             \* the targets that have a command
    BeginningOfTime,    \* make.beginning_of_time
    Unread              \* a property whose value was not cached yet

Kinds == {"file", "source", "phony", "dir", "derived"}
Statuses == {"none", "updated", "running", "error"}

ASSUME TargetAssumption ==
    /\ IsFiniteSet(Target)
    /\ KindOf \in [Target -> Kinds]
    /\ Recipe \subseteq {t \in Target : KindOf[t] # "source"}
    /\ \A t \in Target : KindOf[t] \in {"phony", "dir"} => t \in Recipe
    /\ BeginningOfTime \in Int
    /\ Unread \notin Int
    /\ Unread \notin BOOLEAN

VARIABLES
    input,       \* what this run of presto was given; never changes
    status,      \* target.status; "none" stands for nil as well
    deps,        \* target.deps
    depFailed,   \* target.dep_status = make.status.error
    depsNewer,   \* target.deps_newer
    seenExists,  \* `exists' as cached in the object (file targets only)
    seenTime,    \* `timestamp' as cached in the object (file targets only)
    disk,        \* time stamp of the file of that name, or Absent
    clock        \* the next stamp the file system hands out

targetVars == <<status, deps, depFailed, depsNewer>>
cacheVars == <<seenExists, seenTime>>
fileVars == <<disk, clock>>

(***************************************************************************)
(* Stamps are relative to the start of presto: files of earlier builds     *)
(* have negative ones.  get_timestamp answers 0 for a missing file.        *)
(***************************************************************************)
Absent == 0
OnDisk(t) == disk[t] # Absent

Exists(t) ==
    \/ KindOf[t] = "dir"        \* `exists' is a function there, never called
    \/ KindOf[t] = "source" /\ OnDisk(t)
    \/ KindOf[t] = "file" /\ (IF seenExists[t] = Unread THEN OnDisk(t)
                                                        ELSE seenExists[t])

ReadExists(t) ==
    seenExists' = IF KindOf[t] = "file" THEN [seenExists EXCEPT ![t] = Exists(t)]
                                        ELSE seenExists

(***************************************************************************)
(* A derived target has no time stamp: the lookup runs on its class, which *)
(* has no name, and raises (see TimestampRaises in the scheduler).         *)
(***************************************************************************)
HasTimestamp(t) == KindOf[t] # "derived"

Timestamp(t) ==
    CASE KindOf[t] = "dir"    -> BeginningOfTime
      [] KindOf[t] = "phony"  -> 0
      [] KindOf[t] = "file"   -> IF seenTime[t] = Unread THEN disk[t] ELSE seenTime[t]
      [] OTHER                -> disk[t]

ReadTimestamps(T) ==
    seenTime' = [x \in Target |-> IF x \in T /\ KindOf[x] = "file" THEN Timestamp(x)
                                                                   ELSE seenTime[x]]

OlderThan(d, t) == Timestamp(d) < Timestamp(t)          \* mutant
Newer(d, t) == Timestamp(t) < Timestamp(d)

(***************************************************************************)
(* Fields of an object that no makefile defined do not outlive the call.   *)
(***************************************************************************)
SetStatus(t, s) ==
    status' = IF KindOf[t] = "source" THEN status ELSE [status EXCEPT ![t] = s]

NeedsNoCallOnceDone(t) == status[t] \in {"updated", "error"}    \* mutant
NeedsNoCall(t) == status[t] \in {"updated", "running", "error"}

(***************************************************************************)
(* The file system: a job leaves its target with a fresh stamp, a phony    *)
(* target has no file, mkdir leaves an existing directory alone.           *)
(***************************************************************************)
Touch(t) ==
    /\ disk' = [disk EXCEPT ![t] = clock]
    /\ clock' = clock + 1

WriteOutput(t) ==
    IF KindOf[t] = "phony" \/ (KindOf[t] = "dir" /\ OnDisk(t))
    THEN UNCHANGED fileVars
    ELSE Touch(t)

TargetTypeOK ==
    /\ status \in [Target -> Statuses]
    /\ deps \in [Target -> SUBSET Target]
    /\ depFailed \in [Target -> BOOLEAN]
    /\ depsNewer \in [Target -> SUBSET Target]
    /\ seenExists \in [Target -> BOOLEAN \cup {Unread}]
    /\ seenTime \in [Target -> Int \cup {Unread}]
    /\ disk \in [Target -> Int]
    /\ clock \in Nat \ {0}

TargetInit ==
    /\ status = [t \in Target |-> "none"]
    /\ deps = input.deps
    /\ depFailed = [t \in Target |-> FALSE]
    /\ depsNewer = [t \in Target |-> {}]
    /\ seenExists = [t \in Target |-> Unread]
    /\ seenTime = [t \in Target |-> Unread]
    /\ disk = input.disk
    /\ clock = 1
=============================================================================
