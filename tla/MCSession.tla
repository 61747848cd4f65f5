----------------------------- MODULE MCSession -----------------------------
(***************************************************************************)
(* A small instance of Session for TLC: three callers, of which one sends  *)
(* two lines, and a router that greets with a line of text and answers     *)
(* with nothing but the end of the echo, or with a line that has a prompt  *)
(* in the middle of it.                                                    *)
(***************************************************************************)
EXTENDS Session

CONSTANTS c1, c2, c3, read, ipHost, save

Scripts == [c \in Callers |-> IF c = c1 THEN <<ipHost, save>> ELSE <<read>>]
Welcome == <<"t", "n">>
Texts == {<<"e", "n">>, <<"t", "p", "q", "t", "n">>}

\* The premise of the theorems holds of these texts.
ASSUME LegibleTexts == Legible
=============================================================================
