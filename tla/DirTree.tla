------------------------------ MODULE DirTree ------------------------------
(***************************************************************************)
(* make.dir.md and make.dir.rd (lmakelib.cpp) and the command of a         *)
(* dir_target (lua/mkinit.lua).  __make_dir_md looks for a directory, goes *)
(* to the part of the path before the file name if there is none, and      *)
(* creates what is missing on its way back.  Several callers, each in a    *)
(* process of its own, do so in one file system.                           *)
(*                                                                         *)
(* A path is the sequence of its components: an absolute one begins with   *)
(* its root.  The part before the only component is the empty path, which  *)
(* is no directory and whose part before the file name is again empty.     *)
(***************************************************************************)
EXTENDS Integers, Sequences, SequencesExt, FiniteSets

CONSTANTS
    Caller,         \* calls of make.dir.md
    Path,           \* the path each is given
    Trees,          \* the directories there may be before
    Roots,          \* roots of drives
    Obstacles,      \* paths that are files
    MaxRemovals     \* bound on the directories removed

Ancestors(p) == {SubSeq(p, 1, n) : n \in 1 .. Len(p)}
Parent(p) == SubSeq(p, 1, Len(p) - 1)
Paths == UNION {Ancestors(Path[m]) : m \in Caller}
Closed(D) == \A d \in D : Len(d) > 1 => Parent(d) \in D

ASSUME DirAssumption ==
    /\ \A m \in Caller : Path[m] \in Seq(STRING) /\ Path[m] # <<>>
    /\ \A D \in Trees : D \subseteq Paths \ Obstacles /\ Closed(D)
    /\ Obstacles \subseteq Paths
    /\ MaxRemovals \in Nat

VARIABLES
    dirs,       \* the directories among Paths
    pc,         \* of each call: "before", "descend", "create", and how it ended
    level,      \* how many components of the path the innermost call has
    removals,
    raced,      \* history: calls of whose path another has made a part meanwhile
    lost        \* history: calls of whose path a part was removed since

vars == <<dirs, pc, level, removals, raced, lost>>

Prefix(m) == SubSeq(Path[m], 1, level[m])
InCall(m) == pc[m] \in {"descend", "create"}
Passing(p) == {m \in Caller : p \in Ancestors(Path[m])}
Go(m, where, n) ==
    /\ pc' = [pc EXCEPT ![m] = where]
    /\ level' = [level EXCEPT ![m] = n]

(***************************************************************************)
(* The command of a dir_target: nothing to do when it is there.            *)
(***************************************************************************)
Command(m) ==
    /\ pc[m] = "before"
    /\ Go(m, IF Path[m] \in dirs THEN "ok" ELSE "descend", Len(Path[m]))
    /\ UNCHANGED <<dirs, removals, raced, lost>>

(***************************************************************************)
(* One call of __make_dir_md: PathIsDirectory, and either the return to    *)
(* the caller or the next call.  On the empty path the calls never end:    *)
(* the stack overflows.                                                    *)
(***************************************************************************)
WholeFound(m) == Path[m] \in dirs                           \* mutant
Found(m) == Prefix(m) \in dirs
Below(m) == IF level[m] = 0 THEN "overflow" ELSE "descend"

Descend(m) ==
    /\ pc[m] = "descend"
    /\ ~Found(m)
    /\ Go(m, Below(m), IF level[m] = 0 THEN 0 ELSE level[m] - 1)
    /\ UNCHANGED <<dirs, removals, raced, lost>>

ReturnToLast(m) ==                                          \* mutant
    IF level[m] = Len(Path[m]) THEN Go(m, "ok", level[m])
                               ELSE Go(m, "create", Len(Path[m]))
Return(m) ==
    IF level[m] = Len(Path[m]) THEN Go(m, "ok", level[m])
                               ELSE Go(m, "create", level[m] + 1)

FindDir(m) ==
    /\ pc[m] = "descend"
    /\ Found(m)
    /\ Return(m)
    /\ UNCHANGED <<dirs, removals, raced, lost>>

(***************************************************************************)
(* CreateDirectory, which fails for a name that is taken, by a directory   *)
(* too, and without a parent; then every call returns false.               *)
(***************************************************************************)
MayCreate(p) ==
    /\ p \notin dirs \cup Obstacles
    /\ Len(p) > 1 => Parent(p) \in dirs

Create(m) ==
    /\ pc[m] = "create" /\ MayCreate(Prefix(m))
    /\ dirs' = dirs \cup {Prefix(m)}
    /\ raced' = raced \cup {o \in Passing(Prefix(m)) \ {m} : InCall(o)}
    /\ Return(m)
    /\ UNCHANGED <<removals, lost>>

Ignored == "ok"                                             \* mutant
Refused == "failed"
CreateFails(m) ==
    /\ pc[m] = "create" /\ ~MayCreate(Prefix(m))
    /\ Go(m, Refused, level[m])
    /\ UNCHANGED <<dirs, removals, raced, lost>>

(***************************************************************************)
(* make.dir.rd, or another program: an empty directory is removed.         *)
(***************************************************************************)
RemoveDirectory(d) ==
    /\ removals < MaxRemovals
    /\ d \in dirs \ Roots
    /\ ~\E e \in dirs : Len(e) > 1 /\ Parent(e) = d
    /\ dirs' = dirs \ {d}
    /\ removals' = removals + 1
    /\ lost' = lost \cup {m \in Passing(d) : pc[m] # "before"}
    /\ UNCHANGED <<pc, level, raced>>

Over(m) == pc[m] \in {"ok", "failed", "overflow"}
Step(m) == Command(m) \/ Descend(m) \/ FindDir(m) \/ Create(m) \/ CreateFails(m)
Terminated == (\A m \in Caller : Over(m)) /\ UNCHANGED vars

Init ==
    /\ dirs \in Trees
    /\ pc = [m \in Caller |-> "before"]
    /\ level = [m \in Caller |-> 0]
    /\ removals = 0
    /\ raced = {}
    /\ lost = {}

Next ==
    \/ \E m \in Caller : Step(m)
    \/ \E d \in Paths : RemoveDirectory(d)
    \/ Terminated

Spec == Init /\ [][Next]_vars
FairSpec == Spec /\ \A m \in Caller : WF_vars(Step(m))

-----------------------------------------------------------------------------
TypeOK ==
    /\ dirs \subseteq Paths \ Obstacles /\ Closed(dirs)
    /\ pc \in [Caller -> {"before", "descend", "create", "ok", "failed", "overflow"}]
    /\ level \in [Caller -> Nat]
    /\ \A m \in Caller : level[m] \in 0 .. Len(Path[m])
    /\ removals \in 0 .. MaxRemovals
    /\ raced \subseteq Caller /\ lost \subseteq Caller

(***************************************************************************)
(* make.dir.md returns only when the whole path is there, also when others *)
(* made parts of it, and nobody removed some of it since.                  *)
(***************************************************************************)
SuccessMeansThere ==
    \A m \in Caller : pc[m] = "ok" => Path[m] \in dirs \/ m \in lost

(***************************************************************************)
(* It raises only because of a file in the way, a removal, or another who  *)
(* made a part of the path between the look and CreateDirectory: that the  *)
(* directory is there then does not help.                                  *)
(***************************************************************************)
FailureHasCause ==
    \A m \in Caller : pc[m] = "failed" =>
        m \in lost \cup raced \/ Ancestors(Path[m]) \cap Obstacles # {}

(***************************************************************************)
(* The calls that never end are those for a path of which nothing exists:  *)
(* a relative path whose first component is missing.                       *)
(***************************************************************************)
OverflowHasCause ==
    \A m \in Caller : pc[m] = "overflow" =>
        m \in lost \cup raced \/ Ancestors(Path[m]) \cap dirs = {}

(***************************************************************************)
(* While some part of the path exists every call ends.                     *)
(***************************************************************************)
CallsReturn ==
    \A m \in Caller :
        [](Ancestors(Path[m]) \cap dirs # {}) => <>(pc[m] \in {"ok", "failed"})
=============================================================================
