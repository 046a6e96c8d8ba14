-------------------------- MODULE HighlightCompile --------------------------
(***************************************************************************)
(* How the highlighter prepares a language before its first use.            *)
(* compileMode walks the graph of modes in place: it marks every object,    *)
(* replaces the names in its contains by objects, and gives it the ends a   *)
(* scan has to look for.  A mode with endsWithParent depends on where it    *)
(* stands, so expand_mode copies it for each parent; the copy is a shallow  *)
(* one, of the object as it is at that moment.                              *)
(*                                                                          *)
(* The heap maps the identity of an object to its fields.  <<n>> is the     *)
(* object the grammar calls n, and Append(m, n) the copy of mode n that was *)
(* made for the contains of m.                                              *)
(***************************************************************************)
EXTENDS HighlightModes, SequencesExt

Language == <<"language">>
NoParent == <<>>

\* An object as the language's function leaves it.  "ends" is terminator_end, the
\* modes whose end it names; "terminators" says whether that expression exists.
Fresh(name) ==
    [mode |-> name, compiled |-> FALSE, ends |-> {}, contains |-> <<>>,
     terminators |-> FALSE]

Heap(g) == [m \in {<<n>> : n \in DOMAIN g} |-> Fresh(m[1])] @@ <<>>

Has(g, cell, option) == option \in g[cell.mode].options

\* Mutant: expand_mode returns the mode itself, endsWithParent or not.
ExpandInPlace(g, found, m, c) ==
    LET object == IF c = "self" THEN m ELSE <<c>>
        variants == g[found.heap[object].mode].variants
    IN [found EXCEPT !.contains =
            @ \o (IF variants # <<>> THEN [i \in DOMAIN variants |-> <<variants[i]>>]
                                     ELSE <<object>>)]

\* expand_mode: the objects that stand for one entry c of the contains of m.  The
\* variants are made once and shared by all parents.
expand_mode(g, found, m, c) ==
    LET object == IF c = "self" THEN m ELSE <<c>>
        cell == found.heap[object]
        variants == g[cell.mode].variants
        copy == Append(m, cell.mode)
    IN IF variants # <<>>
       THEN [found EXCEPT !.contains = @ \o [i \in DOMAIN variants |-> <<variants[i]>>]]
       ELSE IF Has(g, cell, "endsWithParent")
       THEN [heap |-> (copy :> cell) @@ found.heap,
             contains |-> Append(found.contains, copy)]
       ELSE [found EXCEPT !.contains = Append(@, object)]

\* The ends a mode of the given parent stops at: its own, unless it only ends with
\* its parent, and with endsWithParent also those of the parent.
TerminatorEnd(g, heap, m, parent) ==
    LET cell == heap[m] IN
    IF parent = NoParent THEN {}
    ELSE (IF Has(g, cell, "endsWithParent") /\ ~Has(g, cell, "end") THEN {} ELSE {cell.mode})
         \cup (IF Has(g, cell, "endsWithParent") THEN heap[parent].ends ELSE {})

\* A call of compileMode for m as part of parent, and the point where the call for m
\* goes on after the calls it makes.
Call(m, parent) == [mode |-> m, parent |-> parent, back |-> FALSE]
Back(m) == [mode |-> m, parent |-> NoParent, back |-> TRUE]

\* The member of a set of one element.  Only({f(x) : x \in {e}}) is f(e) with e
\* computed once.
Only(S) == CHOOSE x \in S : TRUE

\* The contains of m with every entry replaced by objects.
Expanded(g, heap, m) ==
    FoldLeft(LAMBDA found, c : expand_mode(g, found, m, c),
             [heap |-> heap, contains |-> <<>>], g[heap[m].mode].contains)

\* The calls that compileMode makes for a mode that is part of parent: for what it
\* contains and for what it starts.
InnerCalls(g, m, parent, contains, starts) ==
    [i \in DOMAIN contains |-> Call(contains[i], m)]
    \o (IF starts = "" THEN <<>> ELSE <<Call(<<starts>>, parent)>>)

\* compileMode, up to the calls it makes; they are put before the calls that are waiting.
compileMode(g, heap, call, waiting) ==
    CASE call.back ->
            [heap |-> [heap EXCEPT ![call.mode].terminators = TRUE], calls |-> waiting]
      [] ~call.back /\ heap[call.mode].compiled ->
            [heap |-> heap, calls |-> waiting]
      [] OTHER ->
            LET marked == [heap EXCEPT ![call.mode].compiled = TRUE,
                                       ![call.mode].ends = TerminatorEnd(g, heap, call.mode, call.parent)]
            IN Only({[heap |-> [e.heap EXCEPT ![call.mode].contains = e.contains],
                      calls |-> InnerCalls(g, call.mode, call.parent, e.contains,
                                           g[heap[call.mode].mode].starts)
                                \o <<Back(call.mode)>> \o waiting] :
                     e \in {Expanded(g, marked, call.mode)}})

RECURSIVE Calls(_, _, _)

\* The calls of compileMode one after the other, up to 2^k of them.
Calls(g, run, k) ==
    CASE run.calls = <<>> -> run
      [] run.calls # <<>> /\ k = 0 ->
            Only({compileMode(g, r.heap, Head(r.calls), Tail(r.calls)) : r \in {run}})
      [] OTHER -> Calls(g, Calls(g, run, k - 1), k - 1)

\* No language needs more than 2^MaxCallsLog calls to be compiled.
MaxCallsLog == 9

\* compileLanguage: the objects of the language with what the scan reads of them.  (The
\* merge with an empty function lets TLC keep the table it has computed.)
compileLanguage(grammar) ==
    LET g == grammar @@ Plain
        heap == Calls(g, [heap |-> Heap(g), calls |-> <<Call(Language, NoParent)>>], MaxCallsLog).heap
        compiled == {m \in DOMAIN heap : heap[m].compiled}
        Object(m) ==
            [options |-> g[heap[m].mode].options,
             contains |-> Range(heap[m].contains),
             starts |-> LET s == g[heap[m].mode].starts IN IF s = "" THEN <<>> ELSE <<s>>,
             ends |-> heap[m].ends,
             terminators |-> heap[m].terminators]
    IN [m \in compiled |-> Object(m)] @@ <<>>
=============================================================================
