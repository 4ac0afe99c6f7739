----------------------- MODULE CommandLineProperties -----------------------
(***************************************************************************)
(* What a command line means, said of its words alone, and what the two    *)
(* passes made of it.                                                      *)
(***************************************************************************)
EXTENDS CommandLine, FiniteSetsExt

Takers(w) == {n \in 2 .. Len(w) : w[n] \in ArgLetters}
Letters(w) == SubSeq(w, 2, IF Takers(w) = {} THEN Len(w) ELSE Min(Takers(w)))
Taker(w) == Last(Letters(w))
WantsNext(w) == Takers(w) # {} /\ Min(Takers(w)) = Len(w)

(***************************************************************************)
(* What each word of a line l is, by the one before it.                    *)
(***************************************************************************)
FirstRole(w) ==
    IF w = <<>> \/ w[1] # "-" THEN "word"
    ELSE IF Len(w) > 1 /\ w[2] = "-" THEN IF Len(w) = 2 THEN "--" ELSE "long"
    ELSE "switches"
Roles(l) ==
    LET role[k \in DOMAIN l] ==
            IF k > 1 /\ role[k - 1] \in {"--", "rest"} THEN "rest"
            ELSE IF k > 1 /\ role[k - 1] = "switches" /\ WantsNext(l[k - 1])
                 THEN "argument"
            ELSE FirstRole(l[k])
    IN  role

Switches(l) == LET role == Roles(l) IN {k \in DOMAIN l : role[k] = "switches"}
Plain(l) == LET role == Roles(l) IN {k \in DOMAIN l : role[k] \in {"word", "rest"}}
Assignments(l) == {k \in Plain(l) : Contains(l[k], "=")}
Goals(l) == Plain(l) \ Assignments(l)

With(l, L) == {k \in Switches(l) : Takers(l[k]) # {} /\ Taker(l[k]) \in L}
Argument(l, k) ==
    IF WantsNext(l[k]) THEN IF k = Len(l) THEN <<>> ELSE l[k + 1]
    ELSE SubSeq(l[k], Min(Takers(l[k])) + 1, Len(l[k]))

(***************************************************************************)
(* Words that get no further than a text, by what the usage text says of   *)
(* them: a mistake, or -h and -v, which ask for one; and words that it     *)
(* promises and presto refuses (UsageKept).                                *)
(***************************************************************************)
LastTaker(l, k) == k \in Switches(l) /\ WantsNext(l[k]) /\ k = Len(l)
Mistake(l, k) ==
    \/ Roles(l)[k] = "long"
    \/ /\ k \in Switches(l)
       /\ Range(Letters(l[k])) \ (FlagLetters \cup ArgLetters) # {}
    \/ LastTaker(l, k) /\ Taker(l[k]) # "j"
Refused(l, k) ==
    k \in With(l, {"C"}) \cup Goals(l) \/ (LastTaker(l, k) /\ Taker(l[k]) = "j")
BadWord(l, k) == Mistake(l, k) \/ Refused(l, k)
Mistaken(l) == \E k \in DOMAIN l : Mistake(l, k)

(***************************************************************************)
(* What its first d words ask for.                                         *)
(***************************************************************************)
FlagsTo(l, d) ==
    FlagLetters \cap UNION {Range(Letters(l[k])) : k \in Switches(l) \cap 1 .. d}
JobsTo(l, d) ==
    LET J == With(l, {"j"}) \cap 1 .. d
        n == Atoi(Argument(l, Max(J)))
    IN  IF J = {} THEN 1 ELSE IF n = 0 THEN Ridiculous ELSE n
CodeTo(l, d) ==
    LET asked[k \in 0 .. Len(l)] ==
            IF k = 0 THEN <<>>
            ELSE IF k \in With(l, CodeLetters)
                 THEN Append(asked[k - 1], <<Taker(l[k]), Argument(l, k)>>)
            ELSE asked[k - 1]
    IN  asked[d]

AllFlags == FlagsTo(line, Len(line))
JobsAsked == JobsTo(line, Len(line))
CodeAsked == CodeTo(line, Len(line))

\* The chunks of a history h that stand on the line l.
CodeIn(h, l) ==
    LET run[n \in 0 .. Len(h)] ==
            IF n = 0 THEN <<>>
            ELSE IF h[n].at \in DOMAIN l THEN Append(run[n - 1], h[n].chunk)
            ELSE run[n - 1]
    IN  run[Len(h)]
CodeRun == CodeIn(ran, line)

-----------------------------------------------------------------------------
(***************************************************************************)
(* A command line with a mistake anywhere, or with -h or -v, runs no code, *)
(* not even that of the switches before it, and fails.  (Lines with words  *)
(* that the usage text promises are left to UsageKept.)                    *)
(***************************************************************************)
NothingRunsOnBadLine ==
    Mistaken(line) => ran = <<>> /\ ~built /\ (pc = "exit" => status = 1)

(***************************************************************************)
(* From the first line of Lua code on the flags are those of the whole     *)
(* command line, of words behind the code as well; an argument that looks  *)
(* like a switch is none.  The last -j counts, for the setup code and for  *)
(* the build; in the second pass each -j is set once more as its turn      *)
(* comes, and the code between two of them sees the first.                 *)
(***************************************************************************)
SwitchesBeforeCode ==
    /\ ran # <<>> => flags = AllFlags /\ quit = ("Q" \in AllFlags)
    /\ pc \in {"mkinit", "mksite", "init", "makefile", "build"} => slots = JobsAsked

(***************************************************************************)
(* The code of the command line runs once, in order, after the setup code; *)
(* nothing is built before all of it has run.                              *)
(***************************************************************************)
CodeInOrder ==
    /\ IsPrefix(CodeRun, CodeAsked)
    /\ CodeRun # <<>> => ran[1].chunk = <<"mkinit">> /\ ran[2].chunk = <<"mksite">>
    /\ built => CodeRun = CodeAsked

(***************************************************************************)
(* NAME=VALUE holds against the environment, the setup code, PRESTO_INIT   *)
(* and the code before it on the line, the last one of a name counting;    *)
(* only code behind it can change the variable.                            *)
(***************************************************************************)
Named(l, name, d) == {k \in Assignments(l) \cap 1 .. d : NameOf(l[k]) = name}
SetBehind(h, name, m) == name = Shared /\ \E r \in Range(h) : r.sets /\ r.at > m
Holds(e, name, value) ==
    IF value = <<>> THEN name \notin DOMAIN e ELSE name \in DOMAIN e /\ e[name] = value
VariablesHold(l, d, e, h) ==
    \A k \in Assignments(l) \cap 1 .. d :
        LET name == NameOf(l[k])
            m == Max(Named(l, name, d))
        IN  ~SetBehind(h, name, m) => Holds(e, name, ValueOf(l[m]))
VariablesWin ==
    pc \in {"makefile", "build"} => VariablesHold(line, Len(line), env, ran)

(***************************************************************************)
(* presto exits with 0 only after it ran all the code it was given and     *)
(* then, unless -Q was among the switches, read a makefile and built.      *)
(***************************************************************************)
SuccessMeansBuilt ==
    pc = "exit" /\ status = 0 =>
        /\ CodeRun = CodeAsked
        /\ built = ("Q" \notin AllFlags)
        /\ built => With(line, {"f"}) # {} \/ makefile

-----------------------------------------------------------------------------
(***************************************************************************)
(* print_usage, make.cpp:46, 49 and 54: "presto [options] [target] ...",   *)
(* "-C DIRECTORY  Change to DIRECTORY before doing anything.", "-j [N]".   *)
(* So presto gets to its Lua code on every line without a mistake, and     *)
(* switches behind a -j that has no number are switches.                   *)
(***************************************************************************)
BareJ(l, k) == k \in With(l, {"j"}) /\ WantsNext(l[k])
FlagsBehindJ(l) ==
    {f \in FlagLetters : \E k \in DOMAIN l :
        /\ BareJ(l, k) /\ k < Len(l) /\ FirstRole(l[k + 1]) = "switches"
        /\ Atoi(l[k + 1]) = 0 /\ f \in Range(Letters(l[k + 1]))}
UsageKept ==
    /\ pc = "exit" /\ ran = <<>> => Mistaken(line)
    /\ pc = "mkinit" => FlagsBehindJ(line) \subseteq flags
=============================================================================
