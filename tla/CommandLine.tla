---------------------------- MODULE CommandLine ----------------------------
(***************************************************************************)
(* make.cpp: main, pmain and parse_commandline.  The command line is gone  *)
(* through twice: before any Lua code for the switches and environment     *)
(* variables, and after the setup code for the code it names.  Then comes  *)
(* the makefile, and make.update_goals, whose run is one step here.        *)
(*                                                                         *)
(* A word is a sequence of symbols; a chunk of code succeeds or raises,    *)
(* and may set the environment variable Shared in make.env.                *)
(***************************************************************************)
EXTENDS Integers, Sequences, SequencesExt

CONSTANTS
    Lines,          \* the command lines: sequences of words
    Symbol,
    Upper,          \* toupper
    Digit,          \* the values of the symbols that are digits
    Shared          \* a variable that the chunks may set too

Word == Seq(Symbol)
FlagLetters == {"B", "d", "k", "n", "q", "Q"}
CodeLetters == {"e", "f", "l"}
ArgLetters == CodeLetters \cup {"C", "j"}

ASSUME LineAssumption ==
    /\ Lines \subseteq Seq(Word)
    /\ FlagLetters \cup ArgLetters \cup {"-", "="} \subseteq Symbol
    /\ Upper \in [Symbol -> Symbol]
    /\ DOMAIN Digit \subseteq Symbol /\ \A s \in DOMAIN Digit : Digit[s] \in 0 .. 9

VARIABLES
    line,           \* argv, without argv[0]
    init, makefile, \* whether there is PRESTO_INIT, and a default makefile
    pc,             \* "pass1", "mkinit", "mksite", "init", "pass2",
                    \* "makefile", "build", "exit"
    i, sw,          \* parse_commandline: the current word, its letters left
    switches,       \*   parsing_switches
    flags, slots, env,              \* make.flags, make.jobs.slots, make.env
    loaded, quit,                   \* s->loaded_file, s->quit
    status,                         \* of the program: 0 or 1
    raised,                         \* a Lua error ended pmain
    ran,                            \* history: the chunks that ran, and whether
                                    \* they set Shared
    built                           \* history: make.update_goals was called

given == <<line, init, makefile>>
place == <<i, sw, switches>>
settings == <<flags, slots, env, loaded, quit>>
vars == <<given, pc, place, settings, status, raised, ran, built>>

Put(e, name, value) ==
    [n \in DOMAIN e \cup {name} |-> IF n = name THEN value ELSE e[n]]
Unset(e, name) == [n \in DOMAIN e \ {name} |-> e[n]]

Parsing == pc \in {"pass1", "pass2"}
Exit(s) == pc' = "exit" /\ status' = s

(***************************************************************************)
(* A chunk of Lua code in a pcall.  Where it fails the program ends.       *)
(***************************************************************************)
Runs(chunk, at, next) ==
    \E sets, ok \in BOOLEAN :
        /\ ran' = Append(ran, [chunk |-> chunk, sets |-> sets, at |-> at])
        /\ env' = IF sets THEN Put(env, Shared, "chunk") ELSE env
        /\ IF ok THEN pc' = next /\ UNCHANGED status ELSE Exit(1)
        /\ UNCHANGED raised
Raises ==
    /\ Exit(1)
    /\ raised' = TRUE

-----------------------------------------------------------------------------
(***************************************************************************)
(* parse_commandline, one word, or one letter of a word of switches.       *)
(***************************************************************************)
BadUsage ==
    /\ Exit(1)
    /\ UNCHANGED <<given, place, settings, raised, ran>>

AtWord == Parsing /\ sw = <<>> /\ i < Len(line)
Current == line[i + 1]
LooksLikeSwitch == switches /\ Current # <<>> /\ Current[1] = "-"
DoubleDash == LooksLikeSwitch /\ Len(Current) > 1 /\ Current[2] = "-"

EndOfSwitches ==
    /\ AtWord /\ DoubleDash /\ Len(Current) = 2
    /\ switches' = FALSE
    /\ i' = i + 1
    /\ UNCHANGED <<given, pc, sw, settings, status, raised, ran>>

LongSwitch ==
    /\ AtWord /\ DoubleDash /\ Len(Current) > 2
    /\ BadUsage

SwitchWord ==
    /\ AtWord /\ LooksLikeSwitch /\ ~DoubleDash
    /\ sw' = Tail(Current)
    /\ i' = i + 1
    /\ UNCHANGED <<given, pc, switches, settings, status, raised, ran>>

(***************************************************************************)
(* NAME=VALUE: names are upper case, an empty value unsets.                *)
(***************************************************************************)
Equals(w) == CHOOSE n \in DOMAIN w : w[n] = "=" /\ \A k \in 1 .. n - 1 : w[k] # "="
NameOf(w) == [k \in 1 .. Equals(w) - 1 |-> Upper[w[k]]]
ValueOf(w) == SubSeq(w, Equals(w) + 1, Len(w))
AssignOnce(w) ==                                        \* mutant
    IF pc = "pass1" THEN Put(env, NameOf(w), ValueOf(w)) ELSE env
Assign(w) ==
    IF ValueOf(w) = <<>> THEN Unset(env, NameOf(w))
                         ELSE Put(env, NameOf(w), ValueOf(w))

Assignment ==
    /\ AtWord /\ ~LooksLikeSwitch /\ Contains(Current, "=")
    /\ env' = Assign(Current)
    /\ i' = i + 1
    /\ UNCHANGED <<given, pc, sw, switches, flags, slots, loaded, quit, status,
                   raised, ran>>

(***************************************************************************)
(* A goal.  make.goals is made by the setup code: in the first pass it is  *)
(* nil, and luaL_checktype raises.                                         *)
(***************************************************************************)
Goal ==
    /\ AtWord /\ ~LooksLikeSwitch /\ ~Contains(Current, "=")
    /\ pc = "pass1"
    /\ Raises
    /\ UNCHANGED <<given, place, settings, ran>>

(***************************************************************************)
(* The letters.  get_arg takes the rest of the word or else the next word. *)
(***************************************************************************)
AtLetter == Parsing /\ sw # <<>>
Letter == Head(sw)
HasArg == Len(sw) > 1 \/ i < Len(line)
Arg == IF Len(sw) > 1 THEN Tail(sw) ELSE line[i + 1]
KeepWord == i' = i                                      \* mutant
SkipArg == i' = IF Len(sw) > 1 THEN i ELSE i + 1
TakeArg == SkipArg /\ sw' = <<>>

Flag ==
    /\ AtLetter /\ Letter \in FlagLetters
    /\ flags' = flags \cup {Letter}
    /\ quit' = (quit \/ Letter = "Q")
    /\ sw' = Tail(sw)
    /\ UNCHANGED <<given, pc, i, switches, slots, env, loaded, status, raised, ran>>

VersionOrUsage ==
    /\ AtLetter
    /\ Letter \notin FlagLetters \cup ArgLetters \/ (Letter \in ArgLetters /\ ~HasArg)
    /\ BadUsage

(***************************************************************************)
(* -C: make_dir_cd takes its argument from the bottom of the stack, where  *)
(* pmain's own argument is: it raises.                                     *)
(***************************************************************************)
ChangeDir ==
    /\ AtLetter /\ Letter = "C" /\ HasArg
    /\ TakeArg
    /\ Raises
    /\ UNCHANGED <<given, switches, settings, ran>>

(***************************************************************************)
(* atoi: a sign and the digits behind it; what follows them is left out,   *)
(* as is the range of int.                                                 *)
(***************************************************************************)
Signed(w) == w # <<>> /\ w[1] \in {"-", "+"}
Atoi(w) ==
    LET d == IF Signed(w) THEN Tail(w) ELSE w
        n == Max({k \in 0 .. Len(d) : \A m \in 1 .. k : d[m] \in DOMAIN Digit})
        value[k \in 0 .. n] == IF k = 0 THEN 0 ELSE 10 * value[k - 1] + Digit[d[k]]
    IN  IF Signed(w) /\ w[1] = "-" THEN -value[n] ELSE value[n]
Ridiculous == 1024
MaxJobs ==
    /\ AtLetter /\ Letter = "j" /\ HasArg
    /\ TakeArg
    /\ slots' = IF Atoi(Arg) = 0 THEN Ridiculous ELSE Atoi(Arg)
    /\ UNCHANGED <<given, pc, switches, flags, env, loaded, quit, status, raised,
                   ran>>

SkipCode ==
    /\ AtLetter /\ Letter \in CodeLetters /\ HasArg
    /\ pc = "pass1"
    /\ TakeArg
    /\ UNCHANGED <<given, pc, switches, settings, status, raised, ran>>

AnyPass == TRUE                                         \* mutant
ExecuteCode == pc = "pass2"
RunCode ==
    /\ AtLetter /\ Letter \in CodeLetters /\ HasArg
    /\ ExecuteCode
    /\ TakeArg
    /\ Runs(<<Letter, Arg>>, i', pc)
    /\ loaded' = (loaded \/ (Letter = "f" /\ status' = 0))
    /\ UNCHANGED <<given, switches, flags, slots, quit>>

-----------------------------------------------------------------------------
(***************************************************************************)
(* pmain, between and after the passes.                                    *)
(***************************************************************************)
Parsed == Parsing /\ sw = <<>> /\ i = Len(line)
BeginPass == i' = 0 /\ sw' = <<>> /\ switches' = TRUE

EndPass1 ==
    /\ Parsed /\ pc = "pass1"
    /\ pc' = "mkinit"
    /\ UNCHANGED <<given, place, settings, status, raised, ran>>

Setup ==
    /\ \/ pc = "mkinit" /\ Runs(<<"mkinit">>, 0, "mksite")
       \/ pc = "mksite" /\ Runs(<<"mksite">>, 0, "init")
    /\ UNCHANGED <<given, place, flags, slots, loaded, quit>>

PrestoInit ==
    /\ pc = "init"
    /\ IF init THEN Runs(<<"PRESTO_INIT">>, 0, "pass2")
               ELSE pc' = "pass2" /\ UNCHANGED <<env, status, raised, ran>>
    /\ BeginPass
    /\ UNCHANGED <<given, flags, slots, loaded, quit>>

AfterPass2 == IF loaded THEN "build" ELSE "makefile"
QuitLast == FALSE                                       \* mutant
QuitFirst == quit

EndPass2 ==
    /\ Parsed /\ pc = "pass2"
    /\ IF QuitFirst THEN Exit(0) ELSE pc' = AfterPass2 /\ UNCHANGED status
    /\ UNCHANGED <<given, place, settings, raised, ran>>

DefaultMakefile ==
    /\ pc = "makefile" /\ makefile
    /\ Runs(<<"makefile">>, Len(line) + 1, "build")
    /\ UNCHANGED <<given, place, flags, slots, loaded, quit>>

NoMakefile ==
    /\ pc = "makefile" /\ ~makefile
    /\ Raises
    /\ UNCHANGED <<given, place, settings, ran>>

UpdateGoals ==
    /\ pc = "build"
    /\ built' = TRUE
    /\ (Exit(0) /\ UNCHANGED raised) \/ Raises
    /\ UNCHANGED <<given, place, settings, ran>>

Terminated == pc = "exit" /\ UNCHANGED vars

Init ==
    /\ line \in Lines
    /\ init \in BOOLEAN /\ makefile \in BOOLEAN
    /\ pc = "pass1"
    /\ i = 0 /\ sw = <<>> /\ switches = TRUE
    /\ flags = {} /\ slots = 1 /\ env = <<>>
    /\ loaded = FALSE /\ quit = FALSE
    /\ status = 0 /\ raised = FALSE
    /\ ran = <<>> /\ built = FALSE

ParseStep ==
    \/ EndOfSwitches \/ LongSwitch \/ SwitchWord \/ Assignment \/ Goal
    \/ Flag \/ VersionOrUsage \/ ChangeDir \/ MaxJobs \/ SkipCode \/ RunCode
MainStep ==
    \/ EndPass1 \/ Setup \/ PrestoInit \/ EndPass2 \/ DefaultMakefile
    \/ NoMakefile

Next ==
    \/ (ParseStep \/ MainStep) /\ UNCHANGED built
    \/ UpdateGoals
    \/ Terminated

Spec == Init /\ [][Next]_vars
=============================================================================
