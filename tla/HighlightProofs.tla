--------------------------- MODULE HighlightProofs ---------------------------
(***************************************************************************)
(* Proofs about Highlight, for every set of compiled grammars that          *)
(* satisfies the assumptions on options, and texts, stacks and chains of    *)
(* calls of any length.                                                     *)
(***************************************************************************)
EXTENDS Highlight, FiniteSetTheorems, TLAPS

(***************************************************************************)
(* The inductive invariant.  The language stays at the bottom because the   *)
(* mode next to it never ends its parent.                                   *)
(***************************************************************************)
NextToRoot == Len(stack) >= 2 => ~Is(stack[2], "endsParent")

IInv == TypeOK /\ RootStays /\ NextToRoot /\ SpansBalanced /\ TextKept

\* Spans for a given language.
SpansIn(l, s, level) ==
    {i \in 2 .. Len(s) : i >= level /\ "className" \in Grammar[l][s[i]].options}

------------------------------------------------------------------------------
\* The spans of a stack are finitely many.
LEMMA SpansFinite ==
    ASSUME NEW l, NEW S, NEW s \in Seq(S), NEW level
    PROVE  /\ IsFiniteSet(SpansIn(l, s, level))
           /\ Cardinality(SpansIn(l, s, level)) \in Nat
<1>1. IsFiniteSet(2 .. Len(s))
  BY FS_Interval
<1>2. SpansIn(l, s, level) \in SUBSET (2 .. Len(s))
  BY DEF SpansIn
<1> QED BY <1>1, <1>2, FS_Subset, FS_CardinalityType

\* startNewMode opens a span exactly when the mode has a class name.
LEMMA SpansOfPush ==
    ASSUME NEW l, NEW S, NEW s \in Seq(S), NEW c \in S, Len(s) >= 1
    PROVE  Cardinality(SpansIn(l, Append(s, c), 2)) =
              Cardinality(SpansIn(l, s, 2))
              + (IF "className" \in Grammar[l][c].options THEN 1 ELSE 0)
<1> DEFINE old == SpansIn(l, s, 2)
           new == SpansIn(l, Append(s, c), 2)
<1>1. /\ Len(Append(s, c)) = Len(s) + 1
      /\ Append(s, c)[Len(s) + 1] = c
      /\ \A i \in 1 .. Len(s) : Append(s, c)[i] = s[i]
      /\ Len(s) \in Nat
  OBVIOUS
<1>2. IsFiniteSet(old) /\ Cardinality(old) \in Nat
  BY SpansFinite
<1>3. Len(s) + 1 \notin old
  BY <1>1 DEF SpansIn
<1>4. CASE "className" \in Grammar[l][c].options
  <2>1. new = old \cup {Len(s) + 1}
    BY <1>1, <1>4 DEF SpansIn
  <2> HIDE DEF old, new
  <2> QED BY <2>1, <1>2, <1>3, <1>4, FS_AddElement DEF old, new
<1>5. CASE "className" \notin Grammar[l][c].options
  <2>1. new = old
    BY <1>1, <1>5 DEF SpansIn
  <2> QED BY <2>1, <1>2, <1>5
<1> QED BY <1>4, <1>5

\* The modes that are left close their spans and no other: the loop of processLexeme
\* stops at the parent of the last mode that ends.
LEMMA SpansOfPop ==
    ASSUME NEW l, NEW S, NEW s \in Seq(S), NEW j \in 2 .. Len(s)
    PROVE  Cardinality(SpansIn(l, SubSeq(s, 1, j - 1), 2)) =
              Cardinality(SpansIn(l, s, 2)) - Cardinality(SpansIn(l, s, j))
<1> DEFINE all == SpansIn(l, s, 2)
           gone == SpansIn(l, s, j)
           left == SpansIn(l, SubSeq(s, 1, j - 1), 2)
<1>1. /\ Len(s) \in Nat /\ j \in Nat
      /\ Len(SubSeq(s, 1, j - 1)) = j - 1
      /\ \A i \in 1 .. j - 1 : SubSeq(s, 1, j - 1)[i] = s[i]
  OBVIOUS
<1>2. /\ IsFiniteSet(all) /\ IsFiniteSet(gone)
      /\ Cardinality(all) \in Nat /\ Cardinality(gone) \in Nat
  BY SpansFinite
<1>3. left = all \ gone
  BY <1>1 DEF SpansIn
<1>4. all \cap gone = gone
  BY <1>1 DEF SpansIn
<1>5. Cardinality(all \ gone) = Cardinality(all) - Cardinality(all \cap gone)
  <2> HIDE DEF all, gone
  <2> QED BY <1>2, FS_Difference
<1> QED BY <1>3, <1>4, <1>5

\* The spans of the model are those of its language.
LEMMA SpansAre ==
    ASSUME NEW s, NEW level
    PROVE  Spans(s, level) = SpansIn(language, s, level)
BY DEF Spans, SpansIn, Is, Cell

------------------------------------------------------------------------------
\* The mode on top, what it contains and what a mode starts are modes of the language.
LEMMA ModesKnown ==
    ASSUME TypeOK
    PROVE  /\ \A m \in Modes(language) : Cell(m).contains \subseteq Modes(language)
           /\ \A m \in Modes(language) : Cell(m).starts # NoMode =>
                 Cell(m).starts \in Modes(language) /\ ~Is(Cell(m).starts, "endsParent")
           /\ \A m \in Cell(Root).contains : ~Is(m, "endsParent")
           /\ Root \in Modes(language)
BY GrammarAssumption, OptionsAssumption DEF TypeOK, Cell, Is

\* A call starts with the language alone and nothing written.
LEMMA InitIInv == Init => IInv
<1> SUFFICES ASSUME Init PROVE IInv
  OBVIOUS
<1>1. Root \in Modes(language)
  BY GrammarAssumption DEF Init
<1>2. TypeOK
  BY <1>1 DEF Init, TypeOK
<1>3. RootStays /\ NextToRoot
  BY DEF Init, RootStays, NextToRoot
<1>4. SpansIn(language, stack, 2) = {}
  BY DEF Init, SpansIn
<1>5. SpansBalanced
  BY <1>4, SpansAre, FS_EmptySet DEF SpansBalanced, Init
<1>6. TextKept
  BY DEF Init, TextKept
<1> QED BY <1>2, <1>3, <1>5, <1>6 DEF IInv

\* What a grammar allows does not change during a call; so a step that takes as much
\* text as it keeps keeps TextKept.
LEMMA TextStays ==
    ASSUME TypeOK, TypeOK', TextKept, language' = language, ignore_illegals' = ignore_illegals,
           (emitted + buffer) + index' = (emitted' + buffer') + index
    PROVE  TextKept'
<1> DEFINE whole == \A m \in Modes(language) : ~EmptyStop(m)
<1>1. whole' <=> whole
  BY DEF Modes, EmptyStop, Is, Cell
<1>2. emitted + buffer <= index /\ (whole => emitted + buffer = index)
  BY DEF TextKept
<1>3. PICK e \in Nat, b \in Nat, i \in Nat : e = emitted' /\ b = buffer' /\ i = index'
  BY DEF TypeOK
<1>4. emitted \in Nat /\ buffer \in Nat /\ index \in Nat
  BY DEF TypeOK
<1>5. (emitted + buffer) + i = (e + b) + index
  BY <1>3
<1> HIDE DEF whole
<1>6. e + b <= i /\ (emitted + buffer = index => e + b = i)
  BY <1>2, <1>4, <1>5
<1>7. emitted' + buffer' <= index' /\ (whole' => emitted' + buffer' = index')
  BY <1>1, <1>2, <1>3, <1>6
<1> QED BY <1>7 DEF TextKept, whole

\* A stack that is not empty has one mode or more.
LEMMA OneOrMore ==
    ASSUME NEW n \in Nat, n >= 1
    PROVE  n = 1 \/ n > 1
OBVIOUS

\* Beginning a mode keeps the invariant.
LEMMA BeginKeeps ==
    ASSUME IInv, NEW before \in 0 .. 1, NEW lexeme \in 0 .. 1, NEW c \in Modes(language),
           BeginMode(c, before, lexeme)
    PROVE  IInv'
<1> USE DEF IInv
<1>0. Len(stack) \in Nat /\ Len(stack) >= 1
  BY DEF TypeOK, RootStays
<1>1. /\ stack \in Seq(Modes(language)) /\ stack # <<>>
      /\ stack' = Append(stack, c)
      /\ language' = language /\ ignore_illegals' = ignore_illegals
      /\ phase = "scan" /\ phase' = "scan"
      /\ c \in Cell(top).contains
      /\ Root \in Modes(language)
  BY ModesKnown DEF TypeOK, BeginMode, Match
<1>2. /\ stack' \in Seq(Modes(language)) /\ Len(stack') = Len(stack) + 1
      /\ \A i \in 1 .. Len(stack) : stack'[i] = stack[i]
      /\ stack'[Len(stack) + 1] = c
  BY <1>1
<1>3. TypeOK'
  <2>1. buffer' \in Nat /\ emitted' \in Nat
    BY DEF TypeOK, BeginMode, BeginText
  <2>2. index' \in Nat /\ fresh' \in Nat
    BY <1>0, <1>1 DEF TypeOK, BeginMode, Advance, Stay
  <2>3. open' \in Int
    BY DEF TypeOK, BeginMode
  <2>4. ignore_illegals' = ignore_illegals /\ calls' = calls
    BY DEF BeginMode
  <2> QED BY <1>1, <1>2, <2>1, <2>2, <2>3, <2>4 DEF TypeOK
<1>4. RootStays'
  BY <1>0, <1>1, <1>2 DEF RootStays
<1>5. NextToRoot'
  <2>1. CASE Len(stack) = 1
    <3>1. top = Root
      BY <2>1 DEF RootStays, top
    <3>2. ~Is(c, "endsParent")
      BY <3>1, <1>1, ModesKnown
    <3> QED BY <3>2, <2>1, <1>1, <1>2 DEF NextToRoot, Is, Cell
  <2>2. CASE Len(stack) > 1
    BY <2>2, <1>0, <1>1, <1>2 DEF NextToRoot, Is, Cell
  <2>3. Len(stack) = 1 \/ Len(stack) > 1
    BY <1>0, OneOrMore
  <2> QED BY <2>1, <2>2, <2>3
<1>6. SpansBalanced'
  <2>1. open = Cardinality(SpansIn(language, stack, 2))
    BY <1>1, SpansAre DEF SpansBalanced
  <2>2. open' = open + (IF "className" \in Grammar[language][c].options THEN 1 ELSE 0)
    BY DEF BeginMode, Is, Cell
  <2>3. open' = Cardinality(SpansIn(language, stack', 2))
    BY <2>1, <2>2, <1>0, <1>1, SpansOfPush
  <2> QED BY <2>3, <1>1 DEF SpansBalanced, SpansIn, Spans, Is, Cell
<1>7. TextKept'
  <2>1. ~(Is(c, "returnBegin") /\ (Is(c, "excludeBegin") \/ Is(c, "skip")))
    BY OptionsAssumption DEF TypeOK, Is, Cell
  <2>2. (emitted + buffer) + index' = (emitted' + buffer') + index
    <3>1. /\ index' = index + before + (IF Is(c, "returnBegin") THEN 0 ELSE lexeme)
          /\ BeginText(c, before, lexeme)
      BY DEF BeginMode, Advance
    <3>2. CASE Is(c, "skip")
      BY <3>1, <3>2, <2>1 DEF BeginText, TypeOK
    <3>3. CASE ~Is(c, "skip")
      BY <3>1, <3>3, <2>1 DEF BeginText, TypeOK
    <3> QED BY <3>2, <3>3
  <2> QED BY <2>2, <1>1, <1>3, TextStays
<1> QED BY <1>3, <1>4, <1>5, <1>6, <1>7

\* Ending modes keeps the invariant.
LEMMA EndKeeps ==
    ASSUME IInv, NEW before \in 0 .. 1, NEW lexeme \in 0 .. 1,
           NEW k \in 1 .. Len(stack), NEW j \in 1 .. Len(stack),
           EndModes(k, j, before, lexeme)
    PROVE  IInv'
<1> USE DEF IInv
<1> DEFINE starts == Cell(stack[j]).starts
           left == SubSeq(stack, 1, j - 1)
           opens == IF starts # NoMode /\ Is(starts, "className") THEN 1 ELSE 0
<1>0. Len(stack) \in Nat /\ Len(stack) >= 1
  BY DEF TypeOK, RootStays
<1>1. /\ stack \in Seq(Modes(language))
      /\ language' = language /\ ignore_illegals' = ignore_illegals
      /\ phase = "scan" /\ phase' = "scan"
      /\ stack' = IF starts = NoMode THEN left ELSE Append(left, starts)
      /\ open' = open - Cardinality(Spans(stack, j)) + opens
  BY DEF TypeOK, EndModes, Match
<1>2. j >= 2
  <2>1. k \in 2 .. Len(stack) /\ EndMode(k, j)
    BY DEF EndModes, EndsAt
  <2>2. ~Is(stack[2], "endsParent")
    BY <2>1, <1>0 DEF NextToRoot
  <2>3. CASE j = 1
    <3>1. Is(stack[2], "endsParent")
      BY <2>1, <2>3 DEF EndMode
    <3> QED BY <3>1, <2>2
  <2>4. j \in Nat /\ j >= 1
    BY <1>0
  <2>5. j > 1
    BY <2>3, <2>4, OneOrMore
  <2> QED BY <2>4, <2>5
<1>3. /\ stack[j] \in Modes(language)
      /\ stack[Len(stack)] \in Modes(language)
      /\ starts # NoMode => starts \in Modes(language) /\ ~Is(starts, "endsParent")
  BY <1>0, <1>1, ModesKnown
<1>4. /\ left \in Seq(Modes(language)) /\ Len(left) = j - 1
      /\ \A i \in 1 .. j - 1 : left[i] = stack[i]
  BY <1>0, <1>1, <1>2
<1> HIDE DEF left, starts, opens
<1>5. stack' \in Seq(Modes(language)) /\ RootStays' /\ NextToRoot'
  <2>1. CASE starts = NoMode
    BY <2>1, <1>0, <1>1, <1>2, <1>4 DEF RootStays, NextToRoot, Is, Cell
  <2>2. CASE starts # NoMode
    <3>1. /\ stack' \in Seq(Modes(language)) /\ Len(stack') = j
          /\ \A i \in 1 .. j - 1 : stack'[i] = stack[i]
          /\ stack'[j] = starts
      BY <2>2, <1>0, <1>1, <1>2, <1>3, <1>4
    <3>2. stack'[1] = stack[1]
      BY <3>1, <1>0, <1>2
    <3>3. stack'[2] = (IF j = 2 THEN starts ELSE stack[2])
      BY <3>1, <1>0, <1>2
    <3>4. RootStays'
      BY <3>1, <3>2, <1>0, <1>2 DEF RootStays
    <3>5. NextToRoot'
      BY <3>3, <2>2, <1>0, <1>1, <1>2, <1>3 DEF NextToRoot, Is, Cell
    <3> QED BY <3>1, <3>4, <3>5
  <2> QED BY <2>1, <2>2
<1>6. open' = Cardinality(SpansIn(language, stack', 2))
  <2> DEFINE all == Cardinality(SpansIn(language, stack, 2))
             gone == Cardinality(SpansIn(language, stack, j))
             kept == Cardinality(SpansIn(language, left, 2))
  <2>1. open = all
    BY <1>1, SpansAre DEF SpansBalanced
  <2>2. kept = all - gone
    BY <1>0, <1>1, <1>2, SpansOfPop DEF left
  <2>3. all \in Nat /\ gone \in Nat /\ kept \in Nat
    BY <1>1, <1>4, SpansFinite
  <2>4. open' = open - gone + opens
    BY <1>1, SpansAre
  <2>5. opens \in Nat
    BY DEF opens
  <2> HIDE DEF all, gone, kept
  <2>6. open' = kept + opens
    BY <2>1, <2>2, <2>3, <2>4, <2>5
  <2>7. CASE starts = NoMode
    <3>1. opens = 0 /\ stack' = left
      BY <2>7, <1>1 DEF opens
    <3> QED BY <3>1, <2>3, <2>6 DEF kept
  <2>8. CASE starts # NoMode
    <3>1. /\ stack' = Append(left, starts)
          /\ opens = (IF "className" \in Grammar[language][starts].options THEN 1 ELSE 0)
      BY <2>8, <1>1 DEF opens, Is, Cell
    <3>2. Len(left) >= 1
      BY <1>0, <1>2, <1>4
    <3>3. Cardinality(SpansIn(language, Append(left, starts), 2)) = kept + opens
      BY <3>1, <3>2, <2>8, <1>3, <1>4, SpansOfPush DEF kept
    <3> QED BY <3>1, <3>3, <2>6
  <2> QED BY <2>7, <2>8
<1>7. TypeOK'
  <2>1. buffer' \in Nat /\ emitted' \in Nat
    BY DEF TypeOK, EndModes, EndText
  <2>2. index' \in Nat
    BY DEF TypeOK, EndModes, Advance
  <2>3. fresh' \in Nat
    <3>1. fresh' = Stay(j - 1, before + (IF Is(top, "returnEnd") THEN 0 ELSE lexeme))
                   + (IF starts # NoMode THEN 1 ELSE 0)
      BY DEF EndModes, starts
    <3>2. Stay(j - 1, before + (IF Is(top, "returnEnd") THEN 0 ELSE lexeme)) \in Nat
      BY <1>0, <1>2 DEF Stay, TypeOK
    <3> HIDE DEF Stay
    <3> QED BY <3>1, <3>2
  <2>4. open' \in Int
    BY <1>5, <1>6, SpansFinite
  <2>5. ignore_illegals' = ignore_illegals /\ calls' = calls
    BY DEF EndModes
  <2> QED BY <1>1, <1>5, <2>1, <2>2, <2>3, <2>4, <2>5 DEF TypeOK
<1>8. SpansBalanced'
  <2>1. language' = language /\ phase' = "scan"
    BY <1>1
  <2> QED BY <2>1, <1>6 DEF SpansBalanced, SpansIn, Spans, Is, Cell
<1>9. TextKept'
  <2>1. ~(Is(top, "returnEnd") /\ (Is(top, "excludeEnd") \/ Is(top, "skip")))
    BY <1>3, OptionsAssumption DEF TypeOK, Is, Cell, top
  <2>2. (emitted + buffer) + index' = (emitted' + buffer') + index
    <3>1. /\ index' = index + before + (IF Is(top, "returnEnd") THEN 0 ELSE lexeme)
          /\ EndText(top, before, lexeme)
      BY DEF EndModes, Advance
    <3>2. CASE Is(top, "skip")
      BY <3>1, <3>2, <2>1 DEF EndText, TypeOK
    <3>3. CASE ~Is(top, "skip")
      BY <3>1, <3>3, <2>1 DEF EndText, TypeOK
    <3> QED BY <3>2, <3>3
  <2> QED BY <2>2, <1>1, <1>7, TextStays
<1> QED BY <1>5, <1>7, <1>8, <1>9

\* A lexeme that is passed over keeps the invariant.
LEMMA PassKeeps ==
    ASSUME IInv, NEW before \in 0 .. 1, NEW lexeme \in 0 .. 1, PassLexeme(before, lexeme)
    PROVE  IInv'
<1> USE DEF IInv
<1>1. /\ stack' = stack /\ language' = language /\ phase' = phase /\ open' = open
      /\ ignore_illegals' = ignore_illegals /\ calls' = calls /\ emitted' = emitted
      /\ fresh' = 0
      /\ buffer' = buffer + before + lexeme
      /\ index' = index + before + (IF lexeme = 0 THEN 1 ELSE lexeme)
  BY DEF PassLexeme, Advance
<1>2. TypeOK'
  BY <1>1 DEF TypeOK
<1>3. RootStays' /\ NextToRoot' /\ SpansBalanced'
  BY <1>1 DEF RootStays, NextToRoot, SpansBalanced, Spans, Is, Cell
<1>4. TextKept'
  <2>1. CASE lexeme = 1
    <3>1. (emitted + buffer) + index' = (emitted' + buffer') + index
      BY <2>1, <1>1 DEF TypeOK
    <3> QED BY <3>1, <1>1, <1>2, TextStays
  <2>2. CASE lexeme = 0
    <3>1. EmptyStop(top)
      BY <2>2 DEF PassLexeme
    <3>2. top \in Modes(language)
      BY DEF top, TypeOK, RootStays
    <3>4. ~(\A m \in Modes(language) : ~EmptyStop(m))'
      BY <3>1, <3>2, <1>1 DEF Modes, EmptyStop, Is, Cell
    <3>5. emitted + buffer <= index
      BY DEF TextKept
    <3>6. emitted' + buffer' <= index'
      BY <3>5, <2>2, <1>1 DEF TypeOK
    <3> QED BY <3>4, <3>6 DEF TextKept
  <2> QED BY <2>1, <2>2
<1> QED BY <1>2, <1>3, <1>4

\* An illegal lexeme keeps the invariant.
LEMMA IllegalKeeps ==
    ASSUME IInv, NEW before \in 0 .. 1, NEW lexeme \in 0 .. 1, Illegal(before, lexeme)
    PROVE  IInv'
<1> USE DEF IInv
<1>1. /\ stack' = <<Root>> /\ language' = language /\ phase' = "done" /\ open' = 0
      /\ ignore_illegals' = ignore_illegals /\ calls' = calls
      /\ emitted' = index + before + lexeme /\ index' = index + before + lexeme
      /\ buffer' = 0 /\ fresh' = 0
  BY DEF Illegal
<1>2. Root \in Modes(language)
  BY ModesKnown
<1>3. TypeOK'
  BY <1>1, <1>2 DEF TypeOK
<1>4. RootStays' /\ NextToRoot' /\ SpansBalanced'
  BY <1>1 DEF RootStays, NextToRoot, SpansBalanced
<1>5. TextKept'
  BY <1>1 DEF TextKept, TypeOK
<1> QED BY <1>3, <1>4, <1>5

\* The end of a call keeps the invariant: every span is closed.
LEMMA FinishKeeps ==
    ASSUME IInv, NEW rest \in 0 .. 1, Finish(rest)
    PROVE  IInv'
<1> USE DEF IInv
<1>1. /\ stack' = stack /\ language' = language /\ phase = "scan" /\ phase' = "done"
      /\ ignore_illegals' = ignore_illegals /\ calls' = calls /\ fresh' = 0
      /\ emitted' = emitted + buffer + rest /\ buffer' = 0 /\ index' = index + rest
  BY DEF Finish
<1>2. open' = 0
  <2>1. Cardinality(SpansIn(language, stack, 2)) \in Nat
    BY SpansFinite DEF TypeOK
  <2>2. /\ open = Cardinality(SpansIn(language, stack, 2))
        /\ open' = open - Cardinality(SpansIn(language, stack, 2))
    BY <1>1, SpansAre DEF SpansBalanced, Finish
  <2> QED BY <2>1, <2>2
<1>3. TypeOK'
  BY <1>1, <1>2 DEF TypeOK
<1>4. RootStays' /\ NextToRoot'
  BY <1>1 DEF RootStays, NextToRoot, Is, Cell
<1>5. SpansBalanced'
  BY <1>1, <1>2 DEF SpansBalanced
<1>6. TextKept'
  <2>1. (emitted + buffer) + index' = (emitted' + buffer') + index
    BY <1>1 DEF TypeOK
  <2> QED BY <2>1, <1>1, <1>3, TextStays
<1> QED BY <1>3, <1>4, <1>5, <1>6

\* A continuation keeps the invariant: the spans that open again are those of the stack.
LEMMA ContinueKeeps ==
    ASSUME IInv, Continue
    PROVE  IInv'
<1> USE DEF IInv
<1>1. /\ stack' = stack /\ language' = language /\ phase' = "scan"
      /\ ignore_illegals' = ignore_illegals /\ calls' = calls + 1 /\ fresh' = 0
      /\ emitted' = 0 /\ buffer' = 0 /\ index' = 0
      /\ open' = Cardinality(SpansIn(language, stack, 2))
  BY SpansAre DEF Continue
<1>2. TypeOK'
  BY <1>1, SpansFinite DEF TypeOK
<1>3. RootStays' /\ NextToRoot'
  BY <1>1 DEF RootStays, NextToRoot, Is, Cell
<1>4. SpansBalanced'
  <2>1. /\ language' = language /\ phase' = "scan" /\ stack' = stack
        /\ open' = Cardinality(SpansIn(language, stack, 2))
    BY <1>1
  <2> QED BY <2>1 DEF SpansBalanced, SpansIn, Spans, Is, Cell
<1>5. TextKept'
  BY <1>1 DEF TextKept
<1> QED BY <1>2, <1>3, <1>4, <1>5

------------------------------------------------------------------------------
\* The invariant is inductive.
THEOREM Invariance == Spec => []IInv
<1>1. IInv /\ [Next]_vars => IInv'
  <2> SUFFICES ASSUME IInv, [Next]_vars PROVE IInv'
    OBVIOUS
  <2>1. CASE Begin
    <3>1. PICK before \in 0 .. 1, lexeme \in 0 .. 1 :
             Match(before, lexeme)
             /\ \E c \in Cell(top).contains : BeginMode(c, before, lexeme)
      BY <2>1 DEF Begin
    <3>2. top \in Modes(language)
      BY <3>1 DEF Match, IInv, TypeOK, top
    <3>3. Cell(top).contains \subseteq Modes(language)
      BY <3>2, ModesKnown DEF IInv
    <3> QED BY <3>1, <3>3, BeginKeeps
  <2>2. CASE End
    BY <2>2, EndKeeps DEF End
  <2>3. CASE Pass
    BY <2>3, PassKeeps DEF Pass
  <2>4. CASE Reject
    BY <2>4, IllegalKeeps DEF Reject
  <2>5. CASE Complete
    BY <2>5, FinishKeeps DEF Complete
  <2>6. CASE Continue
    BY <2>6, ContinueKeeps
  <2>7. CASE UNCHANGED vars
    BY <2>7 DEF vars, IInv, TypeOK, RootStays, NextToRoot, SpansBalanced, TextKept, Modes,
                EmptyStop, Spans, Is, Cell
  <2> QED BY <2>1, <2>2, <2>3, <2>4, <2>5, <2>6, <2>7 DEF Next
<1> QED BY <1>1, InitIInv, PTL DEF Spec

\* What highlight returns is well formed for every grammar and every text: the spans open
\* during the scan are those of the modes on the stack, the language is at its bottom, and
\* none is open at the end.
THEOREM OutputWellFormed == Spec => []OutputSound
BY Invariance, PTL DEF IInv, OutputSound

\* The text that comes out is the text that went in, for every grammar none of whose
\* modes stops at a place where no lexeme begins or ends a mode: no beginning that only
\* the text around it makes match and, when illegals are ignored, no illegal expression
\* that matches the empty string.  Under every grammar no text is written twice.
THEOREM TextPreserved == Spec => []TextKept
BY Invariance, PTL DEF IInv

\* The loop that leaves modes never leaves the language, whatever modes end their parents.
THEOREM LanguageNeverLeft == Spec => []RootStays
BY Invariance, PTL DEF IInv
=============================================================================
