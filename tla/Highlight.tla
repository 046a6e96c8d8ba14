------------------------------ MODULE Highlight ------------------------------
(***************************************************************************)
(* highlight(): a scan of a text that keeps a stack of modes, writes the    *)
(* text out again and wraps parts of it in spans.  Each step finds the next *)
(* lexeme that the mode on top of the stack looks for; the lexeme begins a  *)
(* mode, ends one or several, is illegal, or is none of these.              *)
(*                                                                          *)
(* The scan is for any grammar that has been compiled; any expression may   *)
(* match anywhere.  A text is only a length: what is kept of it is how much *)
(* of it has been read (index), how much of that is in the buffer of the    *)
(* current mode and how much is in the result.                              *)
(***************************************************************************)
EXTENDS Naturals, Integers, Sequences, FiniteSets

CONSTANTS
    Grammar,        \* a function: for each language its compiled modes, by identity
    Root,           \* the identity of the language object itself
    NoMode,         \* "no mode" in a starts field
    MaxText,        \* bound on the length of the text of one call
    MaxDepth,       \* bound on the height of the stack of modes
    MaxCalls        \* bound on the calls that continue one another

Languages == DOMAIN Grammar
Modes(l) == DOMAIN Grammar[l]

ASSUME BoundsAssumption ==
    MaxText \in Nat /\ MaxDepth \in Nat /\ MaxCalls \in Nat

\* The objects of a compiled language refer to each other and the language is one.
ASSUME GrammarAssumption ==
    \A l \in Languages :
        /\ Root \in Modes(l)
        /\ NoMode \notin Modes(l)
        /\ \A m \in Modes(l) :
              /\ Grammar[l][m].contains \subseteq Modes(l)
              /\ Grammar[l][m].starts \in Modes(l) \cup {NoMode}

\* What the scan needs of the options.  A mode that gives its lexeme back may not
\* keep it as well, or it is written twice; and the modes that can be next to the
\* language itself do not end their parent.
ASSUME OptionsAssumption ==
    \A l \in Languages :
        /\ \A m \in Modes(l) :
              /\ "returnBegin" \in Grammar[l][m].options =>
                    {"excludeBegin", "skip"} \cap Grammar[l][m].options = {}
              /\ "returnEnd" \in Grammar[l][m].options =>
                    {"excludeEnd", "skip"} \cap Grammar[l][m].options = {}
              /\ Grammar[l][m].starts # NoMode =>
                    "endsParent" \notin Grammar[l][Grammar[l][m].starts].options
        /\ \A m \in Grammar[l][Root].contains : "endsParent" \notin Grammar[l][m].options
        /\ "endsWithParent" \notin Grammar[l][Root].options

VARIABLES
    language,           \* the language of the calls
    ignore_illegals,    \* argument of highlight()
    stack,              \* the modes from the language to top, along their parent fields
    index,              \* how much of the text has been read
    buffer,             \* length of mode_buffer
    emitted,            \* how much of the text is in result
    open,               \* opening tags less closing tags in result
    phase,              \* "scan" or "done"
    calls,              \* calls made so far
    fresh               \* history: how many modes on top began at this index

vars == <<language, ignore_illegals, stack, index, buffer, emitted, open, phase, calls, fresh>>

TypeOK ==
    /\ language \in Languages
    /\ ignore_illegals \in BOOLEAN
    /\ stack \in Seq(Modes(language))
    /\ index \in Nat
    /\ buffer \in Nat
    /\ emitted \in Nat
    /\ open \in Int
    /\ phase \in {"scan", "done"}
    /\ calls \in Nat
    /\ fresh \in Nat

Init ==
    /\ language \in Languages
    /\ ignore_illegals \in BOOLEAN
    /\ stack = <<Root>>
    /\ index = 0 /\ buffer = 0 /\ emitted = 0 /\ open = 0
    /\ phase = "scan"
    /\ calls = 1
    /\ fresh = 0

Cell(m) == Grammar[language][m]
Is(m, option) == option \in Cell(m).options
top == stack[Len(stack)]

\* The modes on the stack, above the language and from a level on, that have a span.
Spans(s, level) == {i \in 2 .. Len(s) : i >= level /\ Is(s[i], "className")}

\* A match: the text before the lexeme and the lexeme, as lengths.
Match(before, lexeme) ==
    /\ phase = "scan"
    /\ stack # <<>>
    /\ before \in 0 .. 1 /\ lexeme \in 0 .. 1
    /\ index + before + lexeme <= MaxText

\* The position after a match of which count characters are taken.
Advance(before, count) == index' = index + before + count

\* How many of the modes that stay on the stack began at the position that is reached.
Stay(height, moved) ==
    IF moved > 0 \/ fresh < Len(stack) - height THEN 0 ELSE fresh - (Len(stack) - height)

\* Mutant: the lexeme of a mode with returnBegin is kept in the buffer.
KeepReturned(c, before, lexeme) ==
    IF Is(c, "skip")
    THEN /\ buffer' = buffer + before + lexeme
         /\ emitted' = emitted
    ELSE /\ emitted' = emitted + buffer + before + (IF Is(c, "excludeBegin") THEN lexeme ELSE 0)
         /\ buffer' = IF Is(c, "excludeBegin") THEN 0 ELSE lexeme

\* processLexeme, the text when the mode c begins: it goes to the outer mode or to c.
BeginText(c, before, lexeme) ==
    IF Is(c, "skip")
    THEN /\ buffer' = buffer + before + lexeme
         /\ emitted' = emitted
    ELSE /\ emitted' = emitted + buffer + before + (IF Is(c, "excludeBegin") THEN lexeme ELSE 0)
         /\ buffer' = IF Is(c, "returnBegin") \/ Is(c, "excludeBegin") THEN 0 ELSE lexeme

\* processLexeme, the text when the mode m is the one on top while modes end.
EndText(m, before, lexeme) ==
    IF Is(m, "skip")
    THEN /\ buffer' = buffer + before + lexeme
         /\ emitted' = emitted
    ELSE /\ emitted' = emitted + buffer + before
                        + (IF Is(m, "returnEnd") \/ Is(m, "excludeEnd") THEN 0 ELSE lexeme)
         /\ buffer' = IF Is(m, "excludeEnd") THEN lexeme ELSE 0

\* Mutant: an empty lexeme begins any mode, as without the look at the match's place.
BeginModeAnywhere(c, before, lexeme) ==
    /\ Match(before, lexeme)
    /\ c \in Cell(top).contains
    /\ Len(stack) < MaxDepth
    /\ BeginText(c, before, lexeme)
    /\ LET count == IF Is(c, "returnBegin") THEN 0 ELSE lexeme IN
       /\ Advance(before, count)
       /\ fresh' = Stay(Len(stack), before + count) + (IF count > 0 THEN 0 ELSE 1)
    /\ stack' = Append(stack, c)
    /\ open' = open + (IF Is(c, "className") THEN 1 ELSE 0)
    /\ UNCHANGED <<language, ignore_illegals, phase, calls>>

\* processLexeme, subMode and startNewMode: the lexeme begins a mode that the mode on
\* top contains.  An empty lexeme begins only a mode whose beginning can be empty.
BeginMode(c, before, lexeme) ==
    /\ Match(before, lexeme)
    /\ c \in Cell(top).contains
    /\ lexeme = 0 => Is(c, "noBegin")
    /\ Len(stack) < MaxDepth
    /\ BeginText(c, before, lexeme)
    /\ LET count == IF Is(c, "returnBegin") THEN 0 ELSE lexeme IN
       /\ Advance(before, count)
       /\ fresh' = Stay(Len(stack), before + count) + (IF count > 0 THEN 0 ELSE 1)
    /\ stack' = Append(stack, c)
    /\ open' = open + (IF Is(c, "className") THEN 1 ELSE 0)
    /\ UNCHANGED <<language, ignore_illegals, phase, calls>>

\* endOfMode, the mode whose end the lexeme is: the top or, as long as the modes end
\* with their parent, one below.  The language itself has no end.
EndsAt(k) ==
    /\ k \in 2 .. Len(stack)
    /\ Is(stack[k], "endsWithParent") => Is(stack[k], "end")
    /\ \A i \in k + 1 .. Len(stack) : Is(stack[i], "endsWithParent")

\* endOfMode, the last mode that ends with it: up over those with endsParent.
EndMode(k, j) ==
    /\ j \in 1 .. k
    /\ \A i \in j + 1 .. k : Is(stack[i], "endsParent")
    /\ j = 1 \/ ~Is(stack[j], "endsParent")

\* processLexeme: the lexeme is the end of the mode at level k; the modes from level j
\* on are left, and what the lowest one starts is entered in its place.
EndModes(k, j, before, lexeme) ==
    /\ Match(before, lexeme)
    /\ EndsAt(k)
    /\ EndMode(k, j)
    /\ EndText(top, before, lexeme)
    /\ LET count == IF Is(top, "returnEnd") THEN 0 ELSE lexeme
           starts == Cell(stack[j]).starts
           left == SubSeq(stack, 1, j - 1)
       IN /\ Advance(before, count)
          /\ stack' = IF starts = NoMode THEN left ELSE Append(left, starts)
          /\ open' = open - Cardinality(Spans(stack, j))
                     + (IF starts # NoMode /\ Is(starts, "className") THEN 1 ELSE 0)
          /\ fresh' = Stay(j - 1, before + count)
                      + (IF starts # NoMode THEN 1 ELSE 0)
    /\ UNCHANGED <<language, ignore_illegals, phase, calls>>

\* A mode that stops at a place without a lexeme that would begin or end a mode there:
\* at a beginning that only the text around it makes match, or at an illegal
\* expression that matches the empty string, when illegals are ignored.
EmptyStop(m) ==
    \/ \E c \in Cell(m).contains : Is(c, "hollow")
    \/ ignore_illegals /\ Is(m, "nullIllegal")

\* processLexeme, the end of the function: the lexeme by itself is neither beginning
\* nor end, nor illegal unless that is ignored.  An empty one is stepped over together
\* with the character that follows.
PassLexeme(before, lexeme) ==
    /\ Match(before, lexeme)
    /\ lexeme = 0 => EmptyStop(top)
    /\ buffer' = buffer + before + lexeme
    /\ Advance(before, IF lexeme = 0 THEN 1 ELSE lexeme)
    /\ fresh' = 0
    /\ UNCHANGED <<language, ignore_illegals, stack, emitted, open, phase, calls>>

\* isIllegal and the catch clause: the result is the text without any span.
Illegal(before, lexeme) ==
    /\ Match(before, lexeme)
    /\ ~ignore_illegals
    /\ phase' = "done"
    /\ stack' = <<Root>>
    /\ index' = index + before + lexeme
    /\ buffer' = 0
    /\ emitted' = index'
    /\ open' = 0
    /\ fresh' = 0
    /\ UNCHANGED <<language, ignore_illegals, calls>>

\* Mutant: the last mode is not closed.
FinishLeavingTop(rest) ==
    /\ phase = "scan" /\ stack # <<>>
    /\ rest \in 0 .. 1 /\ (rest = 0 \/ index + rest <= MaxText)
    /\ phase' = "done"
    /\ index' = index + rest
    /\ emitted' = emitted + buffer + rest
    /\ buffer' = 0
    /\ open' = open - Cardinality(Spans(stack, 2) \ {Len(stack)})
    /\ fresh' = 0
    /\ UNCHANGED <<language, ignore_illegals, stack, calls>>

\* The end of highlight: no terminator is left, the rest is written and the modes
\* that are still open are closed in the result, but stay for a continuation.
Finish(rest) ==
    /\ phase = "scan" /\ stack # <<>>
    /\ rest \in 0 .. 1 /\ (rest = 0 \/ index + rest <= MaxText)
    /\ phase' = "done"
    /\ index' = index + rest
    /\ emitted' = emitted + buffer + rest
    /\ buffer' = 0
    /\ open' = open - Cardinality(Spans(stack, 2))
    /\ fresh' = 0
    /\ UNCHANGED <<language, ignore_illegals, stack, calls>>

\* processSubLanguage and the beginning of highlight: the next part of a text in an
\* embedded language goes on from the stack of the last one, whose spans open again.
Continue ==
    /\ phase = "done" /\ stack # <<>>
    /\ ignore_illegals
    /\ calls < MaxCalls
    /\ phase' = "scan"
    /\ calls' = calls + 1
    /\ index' = 0 /\ buffer' = 0 /\ emitted' = 0
    /\ open' = Cardinality(Spans(stack, 2))
    /\ fresh' = 0
    /\ UNCHANGED <<language, ignore_illegals, stack>>

Begin ==
    \E before, lexeme \in 0 .. 1 :
        Match(before, lexeme) /\ \E c \in Cell(top).contains : BeginMode(c, before, lexeme)
End == \E before, lexeme \in 0 .. 1 : \E k, j \in 1 .. Len(stack) : EndModes(k, j, before, lexeme)
Pass == \E before, lexeme \in 0 .. 1 : PassLexeme(before, lexeme)
Reject == \E before, lexeme \in 0 .. 1 : Illegal(before, lexeme)
Complete == \E rest \in 0 .. 1 : Finish(rest)

Next == Begin \/ End \/ Pass \/ Reject \/ Complete \/ Continue

Spec == Init /\ [][Next]_vars

------------------------------------------------------------------------------

\* The result of a call is well formed whatever the text and however the modes end:
\* during the scan exactly the modes on the stack have an open span, and none is left
\* when the call returns (lines 2868-2876, 2907-2911 and 2925-2929).
SpansBalanced ==
    open = IF phase = "scan" THEN Cardinality(Spans(stack, 2)) ELSE 0

\* The language object is never left: top.parent is not followed past it (line 2876).
RootStays == stack # <<>> /\ stack[1] = Root

\* Together: what a call writes is well formed, whatever modes begin, end and end others.
OutputSound == RootStays /\ SpansBalanced

\* No text is written twice, and none is lost but the character after an empty lexeme
\* that no mode takes, which only some grammars can meet, some of them only when
\* illegals are ignored (lines 2828-2896).
TextKept ==
    /\ emitted + buffer <= index
    /\ (\A m \in Modes(language) : ~EmptyStop(m)) => emitted + buffer = index

\* Every mode the scan enters has its terminators, and one that ends with its parent
\* stops at every end of the parent it was entered from, so that the end of the outer
\* mode is seen from inside (lines 2561-2568 and 2659-2704).
ParentEndSeen ==
    \A i \in 1 .. Len(stack) :
        /\ Cell(stack[i]).terminators
        /\ i > 1 /\ Is(stack[i], "endsWithParent") =>
              Cell(stack[i - 1]).ends \subseteq Cell(stack[i]).ends

\* The scan does not go deeper and deeper at one place of the text: the modes that have
\* begun there are all different (lines 2837-2855 and 2904-2910).
DescentEnds ==
    \A i, j \in Len(stack) - fresh + 1 .. Len(stack) : stack[i] = stack[j] => i = j
=============================================================================
