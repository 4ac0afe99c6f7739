------------------------------- MODULE MCProc -------------------------------
(***************************************************************************)
(* Two processes, with every cut of their output into writes and reads of  *)
(* at most two characters.  A limit of 3 is exceeded by two processes, as  *)
(* 64 is by 33.                                                            *)
(***************************************************************************)
EXTENDS ProcProperties, TLC

CONSTANTS p, q, a, b, cr, lf

MCLetter == {a, b}
MCTexts == {(p :> <<a, cr, lf, b>>) @@ (q :> <<b, cr>>),
            (p :> <<cr, lf, a, cr, lf>>) @@ (q :> <<>>)}
=============================================================================
