------------------------------- MODULE MCPage -------------------------------
(***************************************************************************)
(* The chat page on small instances.                                       *)
(***************************************************************************)
EXTENDS Page

\* A token may be empty; a text may hold a blank line and a character of two bytes.
SomeTexts == { <<>>, <<"acute", "nl", "nl">> }

ShortByDefault == [max_tokens |-> 1, think |-> FALSE]
=============================================================================
