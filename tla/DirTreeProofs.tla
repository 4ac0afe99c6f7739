--------------------------- MODULE DirTreeProofs ---------------------------
(***************************************************************************)
(* The safety properties of DirTree, for any number of callers, any paths  *)
(* and any trees.                                                          *)
(***************************************************************************)
EXTENDS DirTree, SequenceTheorems, TLAPS

\* The first k components of the path of m.
Part(m, k) == SubSeq(Path[m], 1, k)

Excused(m) == m \in lost \cup raced
MissingFrom(m, n) == \A k \in n .. Len(Path[m]) : Part(m, k) \notin dirs

(***************************************************************************)
(* A call has seen that everything below the level where it looks next is  *)
(* missing; on the way back the directory above is there, so level 1 is    *)
(* never created.                                                          *)
(***************************************************************************)
CallInv ==
    \A m \in Caller :
        /\ pc[m] = "descend" => Excused(m) \/ MissingFrom(m, level[m] + 1)
        /\ pc[m] = "create" =>
              /\ level[m] >= 2
              /\ \/ Excused(m)
                 \/ Part(m, level[m] - 1) \in dirs /\ MissingFrom(m, level[m])

IInv == TypeOK /\ CallInv /\ SuccessMeansThere /\ FailureHasCause /\ OverflowHasCause

-----------------------------------------------------------------------------
(***************************************************************************)
(* What SubSeq does to a path.                                             *)
(***************************************************************************)
LEMMA PartLength ==
    ASSUME NEW m \in Caller, NEW k \in 0 .. Len(Path[m])
    PROVE  Part(m, k) \in Seq(STRING) /\ Len(Part(m, k)) = k
BY DirAssumption DEF Part

LEMMA WholePath ==
    ASSUME NEW m \in Caller
    PROVE  Len(Path[m]) \in Nat \ {0} /\ Part(m, Len(Path[m])) = Path[m]
BY DirAssumption, SubSeqFull DEF Part

LEMMA PartsAreAncestors ==
    ASSUME NEW m \in Caller
    PROVE  Ancestors(Path[m]) = {Part(m, k) : k \in 1 .. Len(Path[m])}
BY DEF Ancestors, Part

LEMMA PartsArePaths ==
    ASSUME NEW m \in Caller, NEW k \in 1 .. Len(Path[m])
    PROVE  Part(m, k) \in Paths
BY PartsAreAncestors DEF Paths

LEMMA ParentOfPart ==
    ASSUME NEW m \in Caller, NEW k \in 1 .. Len(Path[m])
    PROVE  Parent(Part(m, k)) = Part(m, k - 1)
<1> DEFINE s == Part(m, k)
<1>1. s \in Seq(STRING) /\ Len(s) = k
  BY PartLength
<1>2. Path[m] \in Seq(STRING) /\ Len(Path[m]) \in Nat
  BY DirAssumption
<1>3. Part(m, k - 1) \in Seq(STRING) /\ Len(Part(m, k - 1)) = k - 1
  BY PartLength
<1>4. \A j \in 1 .. k - 1 : Part(m, k - 1)[j] = Path[m][j]
  BY <1>2 DEF Part
<1>5. \A j \in 1 .. k : s[j] = Path[m][j]
  BY <1>2 DEF Part
<1> HIDE DEF s
<1>6. /\ SubSeq(s, 1, k - 1) \in Seq(STRING) /\ Len(SubSeq(s, 1, k - 1)) = k - 1
      /\ \A j \in 1 .. k - 1 : SubSeq(s, 1, k - 1)[j] = s[j]
  BY <1>1
<1>7. SubSeq(s, 1, k - 1) = Part(m, k - 1)
  BY <1>3, <1>4, <1>5, <1>6, SeqEqual
<1> QED
  BY <1>1, <1>7 DEF Parent, s

LEMMA ParentIsAncestor ==
    ASSUME NEW m \in Caller, NEW p \in Ancestors(Path[m]), Len(p) > 1
    PROVE  Parent(p) \in Ancestors(Path[m])
<1>1. PICK k \in 1 .. Len(Path[m]) : p = Part(m, k)
  BY PartsAreAncestors
<1>2. k > 1 /\ k - 1 \in 1 .. Len(Path[m])
  BY <1>1, PartLength, WholePath
<1> QED
  BY <1>1, <1>2, ParentOfPart, PartsAreAncestors

LEMMA PathsAreNotEmpty == \A p \in Paths : p # <<>>
<1> SUFFICES ASSUME NEW m \in Caller, NEW p \in Ancestors(Path[m]) PROVE p # <<>>
  BY DEF Paths
<1>1. PICK k \in 1 .. Len(Path[m]) : p = Part(m, k)
  BY PartsAreAncestors
<1> QED
  BY <1>1, PartLength, WholePath

-----------------------------------------------------------------------------
(***************************************************************************)
(* The first look at the whole path.                                       *)
(***************************************************************************)
LEMMA CommandStep ==
    ASSUME IInv, NEW m \in Caller, Command(m)
    PROVE  IInv'
<1>1. level[m]' = Len(Path[m]) /\ Len(Path[m]) \in Nat \ {0}
  BY WholePath DEF Command, Go, IInv, TypeOK
<1>2. UNCHANGED <<dirs, removals, raced, lost>>
  BY DEF Command
<1>3. TypeOK'
  BY <1>1, <1>2 DEF Command, Go, IInv, TypeOK
<1>4. CallInv'
  BY <1>1, <1>2 DEF Command, Go, IInv, TypeOK, CallInv, Excused, MissingFrom
<1>5. SuccessMeansThere' /\ FailureHasCause' /\ OverflowHasCause'
  BY <1>2 DEF Command, Go, IInv, TypeOK, SuccessMeansThere, FailureHasCause,
     OverflowHasCause
<1> QED
  BY <1>3, <1>4, <1>5 DEF IInv

(***************************************************************************)
(* The call below: one more part of the path is known to be missing.       *)
(***************************************************************************)
LEMMA DescendStep ==
    ASSUME IInv, NEW m \in Caller, Descend(m)
    PROVE  IInv'
<1>1. level[m] \in 0 .. Len(Path[m]) /\ Part(m, level[m]) \notin dirs
  BY DEF Descend, Found, Prefix, Part, IInv, TypeOK
<1>2. UNCHANGED <<dirs, removals, raced, lost>>
  BY DEF Descend
<1>3. Len(Path[m]) \in Nat
  BY WholePath
<1>4. TypeOK'
  BY <1>1, <1>2, <1>3 DEF Descend, Go, Below, IInv, TypeOK
<1>5. Excused(m) \/ MissingFrom(m, level[m])
  BY <1>1, <1>3 DEF Descend, IInv, CallInv, MissingFrom
<1>6. CASE level[m] = 0
  <2>1. pc' = [pc EXCEPT ![m] = "overflow"] /\ level' = [level EXCEPT ![m] = 0]
    BY <1>6 DEF Descend, Go, Below
  <2>2. Excused(m) \/ Ancestors(Path[m]) \cap dirs = {}
    BY <1>5, <1>6, <1>3, PartsAreAncestors DEF MissingFrom
  <2>3. CallInv'
    BY <2>1, <1>2 DEF IInv, TypeOK, CallInv, Excused, MissingFrom
  <2> QED
    BY <2>1, <2>2, <2>3, <1>2, <1>4 DEF IInv, TypeOK, SuccessMeansThere,
       FailureHasCause, OverflowHasCause, Excused
<1>7. CASE level[m] # 0
  <2>1. /\ pc' = [pc EXCEPT ![m] = "descend"]
        /\ level' = [level EXCEPT ![m] = level[m] - 1]
    BY <1>7 DEF Descend, Go, Below
  <2>2. CallInv'
    BY <2>1, <1>1, <1>2, <1>3, <1>5, <1>7 DEF IInv, TypeOK, CallInv, Excused,
       MissingFrom
  <2> QED
    BY <2>1, <2>2, <1>2, <1>4 DEF IInv, TypeOK, SuccessMeansThere, FailureHasCause,
       OverflowHasCause
<1> QED
  BY <1>6, <1>7

(***************************************************************************)
(* The way back begins below a directory that was found, never at level 0. *)
(***************************************************************************)
LEMMA FindDirStep ==
    ASSUME IInv, NEW m \in Caller, FindDir(m)
    PROVE  IInv'
<1>1. level[m] \in 0 .. Len(Path[m]) /\ Part(m, level[m]) \in dirs
  BY DEF FindDir, Found, Prefix, Part, IInv, TypeOK
<1>2. UNCHANGED <<dirs, removals, raced, lost>>
  BY DEF FindDir
<1>3. Len(Path[m]) \in Nat
  BY WholePath
<1>4. level[m] >= 1
  <2>1. Part(m, 0) = <<>>
    BY SubSeqEmpty DEF Part
  <2> QED
    BY <1>1, <1>3, <2>1, PathsAreNotEmpty DEF IInv, TypeOK
<1>5. TypeOK'
  BY <1>1, <1>2, <1>3 DEF FindDir, Return, Go, IInv, TypeOK
<1>6. CASE level[m] = Len(Path[m])
  <2>1. pc' = [pc EXCEPT ![m] = "ok"] /\ level' = [level EXCEPT ![m] = level[m]]
    BY <1>6 DEF FindDir, Return, Go
  <2>2. Path[m] \in dirs
    BY <1>1, <1>6, WholePath
  <2>3. CallInv'
    BY <2>1, <1>2 DEF IInv, TypeOK, CallInv, Excused, MissingFrom
  <2> QED
    BY <2>1, <2>2, <2>3, <1>2, <1>5 DEF IInv, TypeOK, SuccessMeansThere,
       FailureHasCause, OverflowHasCause
<1>7. CASE level[m] # Len(Path[m])
  <2>1. /\ pc' = [pc EXCEPT ![m] = "create"]
        /\ level' = [level EXCEPT ![m] = level[m] + 1]
    BY <1>7 DEF FindDir, Return, Go
  <2>2. Excused(m) \/ MissingFrom(m, level[m] + 1)
    BY DEF FindDir, IInv, CallInv
  <2>3. CallInv'
    BY <2>1, <2>2, <1>1, <1>2, <1>3, <1>4 DEF IInv, TypeOK, CallInv, Excused,
       MissingFrom
  <2> QED
    BY <2>1, <2>3, <1>2, <1>5 DEF IInv, TypeOK, SuccessMeansThere, FailureHasCause,
       OverflowHasCause
<1> QED
  BY <1>6, <1>7

(***************************************************************************)
(* A directory is made: whoever was on the way to it is excused, and a     *)
(* call that overflowed has no part of its path made, since the parent of  *)
(* that part would have to be there.                                       *)
(***************************************************************************)
LEMMA CreateStep ==
    ASSUME IInv, NEW m \in Caller, Create(m)
    PROVE  IInv'
<1> DEFINE n == level[m]
           made == Part(m, n)
<1>1. n \in 2 .. Len(Path[m]) /\ Len(Path[m]) \in Nat
  BY WholePath DEF Create, IInv, TypeOK, CallInv
<1>2. dirs' = dirs \cup {made} /\ UNCHANGED <<removals, lost>>
  BY DEF Create, Prefix, Part
<1>3. raced' = raced \cup {o \in Passing(made) \ {m} : InCall(o)}
  BY DEF Create, Prefix, Part
<1>4. made \notin dirs \cup Obstacles /\ Parent(made) \in dirs
  <2>1. Len(made) = n
    BY <1>1, PartLength
  <2> QED
    BY <1>1, <2>1 DEF Create, MayCreate, Prefix, Part
<1>5. made \in Paths
  BY <1>1, PartsArePaths
<1>6. /\ pc' = [pc EXCEPT ![m] = IF n = Len(Path[m]) THEN "ok" ELSE "create"]
      /\ level' = [level EXCEPT ![m] = IF n = Len(Path[m]) THEN n ELSE n + 1]
  BY DEF Create, Return, Go
<1>7. pc[m] = "create"
  BY DEF Create
<1> HIDE DEF n, made
<1>8. TypeOK'
  <2>1. dirs' \subseteq Paths \ Obstacles /\ Closed(dirs')
    BY <1>2, <1>4, <1>5 DEF IInv, TypeOK, Closed
  <2>2. raced' \subseteq Caller
    BY <1>3 DEF IInv, TypeOK, Passing
  <2>3. pc' \in [Caller -> {"before", "descend", "create", "ok", "failed", "overflow"}]
    BY <1>6 DEF IInv, TypeOK
  <2>4. level' \in [Caller -> Nat] /\ \A o \in Caller : level'[o] \in 0 .. Len(Path[o])
    BY <1>1, <1>6 DEF IInv, TypeOK
  <2> QED
    BY <1>2, <2>1, <2>2, <2>3, <2>4 DEF IInv, TypeOK
<1>9. \A o \in Caller \ {m} : pc'[o] = pc[o] /\ level'[o] = level[o]
  BY <1>6 DEF IInv, TypeOK
<1>10. \A o \in Caller \ {m} :
          \/ o \in raced' \/ ~InCall(o)
          \/ \A k \in 1 .. Len(Path[o]) : Part(o, k) # made
  BY <1>3, PartsAreAncestors DEF Passing
<1>11. CallInv'
  <2>1. ASSUME NEW o \in Caller \ {m}, pc[o] \in {"descend", "create"}
        PROVE  \/ Excused(o)'
               \/ \A k \in 1 .. Len(Path[o]) : Part(o, k) \in dirs' <=> Part(o, k) \in dirs
    BY <2>1, <1>2, <1>10 DEF Excused, InCall
  <2>2. \A o \in Caller : level[o] \in 0 .. Len(Path[o]) /\ Len(Path[o]) \in Nat
    BY WholePath DEF IInv, TypeOK
  <2>3. \A o \in Caller : Excused(o) => Excused(o)'
    BY <1>2, <1>3 DEF Excused
  <2>4. ASSUME NEW o \in Caller \ {m}, pc'[o] = "descend"
        PROVE  Excused(o)' \/ MissingFrom(o, level[o] + 1)'
    BY <2>1, <2>2, <2>3, <2>4, <1>9 DEF IInv, CallInv, MissingFrom
  <2>5. ASSUME NEW o \in Caller \ {m}, pc'[o] = "create"
        PROVE  /\ level[o] >= 2
               /\ \/ Excused(o)'
                  \/ Part(o, level[o] - 1) \in dirs' /\ MissingFrom(o, level[o])'
    BY <2>1, <2>2, <2>3, <2>5, <1>2, <1>9 DEF IInv, CallInv, MissingFrom
  <2>6. ASSUME pc'[m] = "create"
        PROVE  /\ level'[m] = n + 1 /\ Part(m, n) \in dirs'
               /\ \/ Excused(m)'
                  \/ \A k \in n + 1 .. Len(Path[m]) : Part(m, k) \notin dirs'
    <3>1. level'[m] = n + 1 /\ made = Part(m, n)
      BY <2>6, <1>6 DEF IInv, TypeOK, made
    <3>2. \A k \in n + 1 .. Len(Path[m]) : Part(m, k) # made
      BY <1>1, <3>1, PartLength
    <3>3. Excused(m) \/ MissingFrom(m, n)
      BY <1>7 DEF IInv, CallInv, n
    <3> QED
      BY <3>1, <3>2, <3>3, <2>3, <1>1, <1>2 DEF MissingFrom
  <2>7. pc'[m] \in {"ok", "create"}
    BY <1>6 DEF IInv, TypeOK
  <2>8. ASSUME NEW o \in Caller
        PROVE  /\ pc'[o] = "descend" => Excused(o)' \/ MissingFrom(o, level[o] + 1)'
               /\ pc'[o] = "create" =>
                     /\ level'[o] >= 2
                     /\ \/ Excused(o)'
                        \/ Part(o, level[o] - 1)' \in dirs' /\ MissingFrom(o, level[o])'
    <3>1. CASE o = m
      BY <3>1, <2>6, <2>7, <1>1 DEF MissingFrom, Part
    <3>2. CASE o # m
      BY <3>2, <2>4, <2>5, <1>9 DEF Part
    <3> QED
      BY <3>1, <3>2
  <2> QED
    BY <2>8 DEF CallInv
<1>12. SuccessMeansThere'
  BY <1>1, <1>2, <1>6, <1>9, WholePath DEF IInv, TypeOK, SuccessMeansThere, n, made
<1>13. FailureHasCause'
  BY <1>2, <1>3, <1>6, <1>9 DEF IInv, TypeOK, FailureHasCause
<1>14. OverflowHasCause'
  <2> SUFFICES ASSUME NEW o \in Caller, pc'[o] = "overflow", o \notin lost' \cup raced'
               PROVE  Ancestors(Path[o]) \cap dirs' = {}
    BY DEF OverflowHasCause
  <2>1. o # m /\ pc[o] = "overflow"
    BY <1>6, <1>9 DEF IInv, TypeOK
  <2>2. Ancestors(Path[o]) \cap dirs = {}
    BY <2>1, <1>2, <1>3 DEF IInv, OverflowHasCause
  <2>3. made \notin Ancestors(Path[o])
    <3>1. Len(made) > 1
      BY <1>1, PartLength DEF made
    <3> QED
      BY <3>1, <2>2, <1>4, ParentIsAncestor
  <2> QED
    BY <2>2, <2>3, <1>2
<1> QED
  BY <1>8, <1>11, <1>12, <1>13, <1>14 DEF IInv

(***************************************************************************)
(* CreateDirectory fails only for a part that is there or a parent that is *)
(* not; a call with nobody to blame has seen neither.                      *)
(***************************************************************************)
LEMMA CreateFailsStep ==
    ASSUME IInv, NEW m \in Caller, CreateFails(m)
    PROVE  IInv'
<1>1. /\ pc' = [pc EXCEPT ![m] = "failed"] /\ level' = [level EXCEPT ![m] = level[m]]
      /\ UNCHANGED <<dirs, removals, raced, lost>>
  BY DEF CreateFails, Go, Refused
<1>2. level[m] \in 2 .. Len(Path[m]) /\ Len(Path[m]) \in Nat
  BY WholePath DEF CreateFails, IInv, TypeOK, CallInv
<1>3. Excused(m) \/ Part(m, level[m]) \in Obstacles
  <2>1. SUFFICES ASSUME ~Excused(m) PROVE Part(m, level[m]) \in Obstacles
    OBVIOUS
  <2>2. Part(m, level[m] - 1) \in dirs /\ Part(m, level[m]) \notin dirs
    BY <2>1, <1>2 DEF CreateFails, IInv, CallInv, MissingFrom
  <2>3. Parent(Part(m, level[m])) \in dirs
    BY <2>2, <1>2, ParentOfPart
  <2> QED
    BY <2>2, <2>3 DEF CreateFails, MayCreate, Prefix, Part
<1>4. Excused(m) \/ Ancestors(Path[m]) \cap Obstacles # {}
  BY <1>2, <1>3, PartsAreAncestors
<1>5. TypeOK' /\ CallInv'
  BY <1>1 DEF IInv, TypeOK, CallInv, Excused, MissingFrom
<1> QED
  BY <1>1, <1>4, <1>5 DEF IInv, TypeOK, SuccessMeansThere, FailureHasCause,
     OverflowHasCause, Excused

(***************************************************************************)
(* Whoever has looked at a path that loses a part is excused.              *)
(***************************************************************************)
LEMMA RemoveStep ==
    ASSUME IInv, NEW d \in Paths, RemoveDirectory(d)
    PROVE  IInv'
<1>1. /\ dirs' = dirs \ {d} /\ removals' = removals + 1 /\ removals < MaxRemovals
      /\ lost' = lost \cup {m \in Passing(d) : pc[m] # "before"}
      /\ ~\E e \in dirs : Len(e) > 1 /\ Parent(e) = d
      /\ UNCHANGED <<pc, level, raced>>
  BY DEF RemoveDirectory
<1>2. TypeOK'
  <2>1. dirs' \subseteq Paths \ Obstacles /\ Closed(dirs')
    BY <1>1 DEF IInv, TypeOK, Closed
  <2>2. lost' \subseteq Caller /\ removals' \in 0 .. MaxRemovals
    BY <1>1, DirAssumption DEF IInv, TypeOK, Passing
  <2> QED
    BY <1>1, <2>1, <2>2 DEF IInv, TypeOK
<1>3. \A m \in Caller :
         \/ m \in lost' \/ pc[m] = "before"
         \/ \A k \in 1 .. Len(Path[m]) : Part(m, k) # d
  BY <1>1, PartsAreAncestors DEF Passing
<1>4. CallInv'
  <2>1. \A m \in Caller : level[m] \in 0 .. Len(Path[m]) /\ Len(Path[m]) \in Nat
    BY WholePath DEF IInv, TypeOK
  <2>2. \A m \in Caller : Excused(m) => Excused(m)'
    BY <1>1 DEF Excused
  <2>3. \A m \in Caller, j \in Nat : MissingFrom(m, j) => MissingFrom(m, j)'
    BY <1>1 DEF MissingFrom
  <2>4. ASSUME NEW m \in Caller, pc[m] = "create"
        PROVE  Excused(m)' \/ Part(m, level[m] - 1) # d
    BY <2>1, <2>4, <1>3 DEF IInv, CallInv, Excused
  <2> QED
    BY <2>1, <2>2, <2>3, <2>4, <1>1 DEF IInv, CallInv
<1>5. SuccessMeansThere'
  BY <1>1, <1>3, WholePath DEF IInv, SuccessMeansThere
<1>6. FailureHasCause' /\ OverflowHasCause'
  BY <1>1 DEF IInv, FailureHasCause, OverflowHasCause
<1> QED
  BY <1>2, <1>4, <1>5, <1>6 DEF IInv

-----------------------------------------------------------------------------
LEMMA InitInv == Init => IInv
<1> SUFFICES ASSUME Init PROVE IInv
  OBVIOUS
<1>1. TypeOK
  BY DirAssumption, WholePath DEF Init, TypeOK
<1>2. CallInv /\ SuccessMeansThere /\ FailureHasCause /\ OverflowHasCause
  BY DEF Init, CallInv, SuccessMeansThere, FailureHasCause, OverflowHasCause
<1> QED
  BY <1>1, <1>2 DEF IInv

LEMMA IInvStep == IInv /\ [Next]_vars => IInv'
<1> SUFFICES ASSUME IInv, [Next]_vars PROVE IInv'
  OBVIOUS
<1>1. CASE UNCHANGED vars
  BY <1>1 DEF vars, IInv, TypeOK, CallInv, Excused, MissingFrom, SuccessMeansThere,
     FailureHasCause, OverflowHasCause
<1>2. CASE Terminated
  BY <1>1, <1>2 DEF Terminated
<1> QED
  BY <1>1, <1>2, CommandStep, DescendStep, FindDirStep, CreateStep, CreateFailsStep,
     RemoveStep DEF Next, Step

LEMMA IInvHolds == Spec => []IInv
BY InitInv, IInvStep, PTL DEF Spec

(***************************************************************************)
(* No directory is ever without its parent, whoever creates and removes.   *)
(***************************************************************************)
THEOREM TreeTyped == Spec => []TypeOK
<1>1. IInv => TypeOK
  BY DEF IInv
<1> QED
  BY <1>1, IInvHolds, PTL

(***************************************************************************)
(* make.dir.md returns only with the whole path there, for any number of   *)
(* callers, or some part was removed since.                                *)
(***************************************************************************)
THEOREM SuccessIsThere == Spec => []SuccessMeansThere
<1>1. IInv => SuccessMeansThere
  BY DEF IInv
<1> QED
  BY <1>1, IInvHolds, PTL

(***************************************************************************)
(* It raises only for a file in the way, a removal, or a part that another *)
(* made meanwhile.                                                         *)
(***************************************************************************)
THEOREM FailuresHaveCause == Spec => []FailureHasCause
<1>1. IInv => FailureHasCause
  BY DEF IInv
<1> QED
  BY <1>1, IInvHolds, PTL

(***************************************************************************)
(* The calls that never end are those for a path of which no part exists,  *)
(* and none is ever made by others.                                        *)
(***************************************************************************)
THEOREM OverflowsHaveCause == Spec => []OverflowHasCause
<1>1. IInv => OverflowHasCause
  BY DEF IInv
<1> QED
  BY <1>1, IInvHolds, PTL
=============================================================================
