--------------------------- MODULE HighlightModes ---------------------------
(***************************************************************************)
(* A highlight.js grammar is a graph of modes.  A mode says by regular      *)
(* expressions where it begins and ends, which modes it contains, and by    *)
(* options what happens to the stack of modes and to the matched text when  *)
(* it begins or ends.  The model keeps the graph and the options and leaves *)
(* the expressions, the keywords and the relevance out: a text can match    *)
(* any of a mode's expressions at any place.                                *)
(*                                                                          *)
(* A grammar is a record with one field per mode; the field "language" is   *)
(* the object the language's function returns.  Modes are named after the   *)
(* variable that holds them, else after their className, else after the     *)
(* line their literal starts on (L21734).  Modes that differ only in what   *)
(* is left out are one mode; those with no option and nothing inside are    *)
(* "span" (with a className) and "text" (without).                          *)
(*                                                                          *)
(* The graphs are those in force once every language is registered.  The    *)
(* language functions share the modes of hljs, and Mercury's pushes its     *)
(* format mode into the array QUOTE_STRING_MODE.contains itself (line       *)
(* 17764), so that mode is inside the quoted strings of every language.     *)
(***************************************************************************)
EXTENDS Naturals, Sequences, TLC

\* The options of a mode.  "end" marks a mode with endsWithParent that also has
\* an end of its own; "noBegin" one whose beginning can match nothing at all;
\* "hollow" one whose beginning can match nothing in the text, but does not match
\* the empty string by itself; "nullIllegal" one whose illegal expression matches
\* the empty string.
Options ==
    {"className", "returnBegin", "returnEnd", "excludeBegin", "excludeEnd",
     "endsWithParent", "endsParent", "skip", "endSameAsBegin", "subLanguage",
     "end", "noBegin", "hollow", "nullIllegal"}

Mode(options, contains) ==
    [options |-> options, contains |-> contains, starts |-> "", variants |-> <<>>]

\* A mode that is followed by another one when it ends.
Starts(options, contains, starts) ==
    [options |-> options, contains |-> contains, starts |-> starts, variants |-> <<>>]

\* A mode that stands for several: each variant is given with the fields it
\* inherits from the mode.
Variants(variants) ==
    [options |-> {}, contains |-> <<>>, starts |-> "", variants |-> variants]

\* The modes without options and contents that every grammar may name.
Plain == [text |-> Mode({}, <<>>), span |-> Mode({"className"}, <<>>)]
=============================================================================
