---------------------------- MODULE MCCommandLine ----------------------------
(***************************************************************************)
(* Every command line of up to three words out of a list with each kind of *)
(* word, where each can be the argument of the one before; and a few       *)
(* longer ones.                                                            *)
(***************************************************************************)
EXTENDS CommandLineProperties, TLC

MCSymbol == FlagLetters \cup ArgLetters
              \cup {"-", "+", "=", "v", "h", "x", "X", "a", "0", "4"}
MCUpper == [s \in MCSymbol |-> IF s = "x" THEN "X" ELSE s]
MCDigit == ("0" :> 0) @@ ("4" :> 4)
MCShared == <<"X">>

MCWords ==
    {<<"-", "B", "k">>, <<"-", "Q">>, <<"-", "f">>, <<"-", "f", "k">>,
     <<"-", "k", "e">>, <<"-", "j">>, <<"-", "j", "4">>, <<"-", "v">>,
     <<"-", "C">>, <<"-", "-">>, <<"-">>, <<"4">>, <<"x", "=", "a">>, <<"X", "=">>}
MCLines ==
    UNION {[1 .. n -> MCWords] : n \in 0 .. 3}
      \cup {<<x, c, y, d>> : x, y \in {<<"x", "=", "a">>, <<"X", "=", "4", "=">>},
                             c \in {<<"-", "l", "a">>, <<"-", "e", "a">>},
                             d \in {<<"-", "f", "a">>, <<"-", "n", "j", "0">>,
                                    <<"-", "-", "q">>, <<"-", "d", "q", "h">>}}
      \cup {<<e, <<"-", "k", "j">>, n>> :
                e \in {<<"-", "e", "a">>, <<"-", "Q">>},
                n \in {<<"-", "4">>, <<"+", "0", "4", "a">>, <<"-", "0">>,
                      <<"4", "0">>, <<"-", "k">>}}

\* Lines that the usage text promises: a target, -C, -j without a number.
MCUsageLines ==
    {<<<<"a">>>>, <<<<"-", "C">>, <<"a">>>>, <<<<"-", "j">>>>,
     <<<<"-", "j">>, <<"-", "k">>>>}
=============================================================================
