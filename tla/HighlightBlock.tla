--------------------------- MODULE HighlightBlock ---------------------------
(***************************************************************************)
(* highlightBlock(): what happens to a code block of the page around the    *)
(* call of highlight().  The language is taken from the block or found by   *)
(* trying all, and when the block already contains elements, their tags and *)
(* those of the result are merged into one text.                            *)
(*                                                                          *)
(* A document is the sequence of its tags and characters.  The result of    *)
(* highlight() is any well-formed document with the same text, which is     *)
(* what Highlight shows it to be.                                           *)
(***************************************************************************)
EXTENDS Naturals, Sequences, FiniteSets, SequencesExt

CONSTANTS
    Originals,      \* what elements a block may have, each time in the order they begin
    Voids,          \* those of them that have no end tag in HTML
    Unended,        \* those whose name has br, hr, img or input in it, as abbr has
    Highlights,     \* the spans of the result, in the order they begin
    Length,         \* the length of the text
    Candidates,     \* how many languages are tried
    MaxRelevance    \* bound on the relevance a language reaches

ASSUME ElementsAssumption == Voids \subseteq Unended

VARIABLES
    stage,          \* "detect", "merge" or "ready"; "none" when there is no block
    scores,         \* the relevance each language tried so far has reached
    best,           \* result of highlightAuto: a position in scores, 0 for plain text
    second_best,
    block,          \* the document of the block and that of the result
    colored,
    original,       \* what mergeStreams has still to take of the two streams
    highlighted,
    processed,      \* the offset up to which the text is in result
    nodeStack,      \* the spans that are open
    result          \* the merged document

blockVars == <<stage, scores, best, second_best, block, colored, original, highlighted,
               processed, nodeStack, result>>

------------------------------------------------------------------------------
\* Documents.  Offsets matter in streams only.

Char(p) == [event |-> "text", node |-> "", offset |-> p]
Tag(event, node) == [event |-> event, node |-> node, offset |-> 0]
IsTag(x) == x.event # "text"
IsChar(x) == x.event = "text"

\* Every element but the given ones ends, and the last one that began ends first.
WellFormed(d, void) ==
    LET Push(open, x) ==
            CASE IsChar(x) \/ x.node \in void -> open
              [] x.event = "start" -> Append(open, x.node)
              [] x.event = "stop" /\ open # <<>> /\ Last(open) = x.node -> Front(open)
              [] OTHER -> Append(open, "no such element")
    IN FoldLeft(Push, <<>>, d) = <<>>

\* The elements of a set that are open at a place of a document.
Around(d, i, nodes) ==
    {n \in nodes : LET Upto(event) == Cardinality({k \in 1 .. i : d[k] = Tag(event, n)})
                   IN Upto("start") > Upto("stop")}

\* The documents over the text with the first n of the given elements.
DocumentsWith(nodes, n) ==
    LET mine == {nodes[i] : i \in 1 .. n}
        all == {Tag("start", m) : m \in mine} \cup {Tag("stop", m) : m \in mine \ Voids}
               \cup {Char(p) : p \in 1 .. Length}
        orders[S \in SUBSET all] ==
            IF S = {} THEN {<<>>}
            ELSE UNION {{Append(d, x) : d \in orders[S \ {x}]} : x \in S}
        Before(d, x, y) == \E i, j \in DOMAIN d : i < j /\ d[i] = x /\ d[j] = y
    IN {d \in orders[all] :
            /\ WellFormed(d, Voids)
            /\ \A p \in 1 .. Length - 1 : Before(d, Char(p), Char(p + 1))
            /\ \A i \in 1 .. n - 1 : Before(d, Tag("start", nodes[i]), Tag("start", nodes[i + 1]))}

Documents(nodes) == UNION {DocumentsWith(nodes, n) : n \in 0 .. Len(nodes)}

BlockDocuments == UNION {Documents(nodes) : nodes \in Originals}
ColoredDocuments == Documents(Highlights)

\* An element whose name matches /br|hr|img|input/, anywhere in it, has no stop event.
HasEvent(x) == x.event = "stop" => x.node \notin Unended

\* nodeStream: the tags of a document with the number of characters before them.
nodeStream(d) ==
    LET At(i) == [d[i] EXCEPT !.offset = Cardinality({k \in 1 .. i : IsChar(d[k])})]
        Listed(x) == IsTag(x) /\ HasEvent(x)
    IN SelectSeq([i \in DOMAIN d |-> At(i)], Listed)

------------------------------------------------------------------------------
BlockInit ==
    /\ stage = "detect"
    /\ scores = <<>> /\ best = 0 /\ second_best = 0
    /\ block = <<>> /\ colored = <<>>
    /\ original = <<>> /\ highlighted = <<>>
    /\ processed = 0 /\ nodeStack = <<>> /\ result = <<>>

Relevance(s, i) == IF i = 0 THEN 0 ELSE s[i]

\* highlightAuto: one more language is tried.
Try(relevance) ==
    /\ stage = "detect" /\ Len(scores) < Candidates
    /\ LET all == Append(scores, relevance)
           this == Len(all)
       IN /\ scores' = all
          /\ best' = IF relevance > Relevance(all, best) THEN this ELSE best
          /\ second_best' =
                IF relevance > Relevance(all, best) THEN best
                ELSE IF relevance > Relevance(all, second_best) THEN this ELSE second_best
    /\ UNCHANGED <<stage, block, colored, original, highlighted, processed, nodeStack, result>>

\* highlightBlock: the language is known, by the block's class or because all have been
\* tried, and the text is highlighted, plainly if none was relevant; mergeStreams begins
\* if the block has elements.
Merge(before, after) ==
    /\ stage = "detect" /\ Len(scores) \in {0, Candidates}
    /\ best = 0 /\ scores # <<>> => nodeStream(after) = <<>>
    /\ block' = before /\ colored' = after
    /\ IF nodeStream(before) = <<>>
       THEN /\ stage' = "ready" /\ result' = after
            /\ UNCHANGED <<original, highlighted>>
       ELSE /\ stage' = "merge" /\ result' = <<>>
            /\ original' = nodeStream(before)
            /\ highlighted' = nodeStream(after)
    /\ scores' = <<>> /\ best' = 0 /\ second_best' = 0
    /\ UNCHANGED <<processed, nodeStack>>

\* selectStream: which stream gives the next event.
FromOriginal(o, h) ==
    IF o = <<>> \/ h = <<>> THEN o # <<>>
    ELSE IF o[1].offset # h[1].offset THEN o[1].offset < h[1].offset
    ELSE h[1].event = "start"

\* The text between what is written and an offset.
TextTo(offset) ==
    IF offset <= processed THEN <<>> ELSE [i \in 1 .. offset - processed |-> Char(processed + i)]

Tags(event, nodes) == [i \in DOMAIN nodes |-> Tag(event, nodes[i])]
Rendered(events) == [i \in DOMAIN events |-> [events[i] EXCEPT !.offset = 0]]

\* Mutant: the spans are not opened again after the tags of the block.
TakeOriginalAndStop ==
    /\ stage = "merge" /\ (original # <<>> \/ highlighted # <<>>)
    /\ FromOriginal(original, highlighted)
    /\ LET offset == original[1].offset
           Rest(i) == SubSeq(original, i + 1, Len(original))
           Again(i) == /\ FromOriginal(Rest(i), highlighted)
                       /\ Rest(i)[1].offset = offset
           taken == CHOOSE i \in DOMAIN original : ~Again(i) /\ \A j \in 1 .. i - 1 : Again(j)
       IN /\ result' = result \o TextTo(offset) \o Tags("stop", Reverse(nodeStack))
                       \o Rendered(SubSeq(original, 1, taken))
          /\ original' = Rest(taken)
          /\ processed' = offset
    /\ UNCHANGED <<stage, scores, best, second_best, block, colored, highlighted, nodeStack>>

\* mergeStreams, a tag of the block: all open spans end, the tags of the block at this
\* offset follow as long as they are next, and the spans begin again.
TakeOriginal ==
    /\ stage = "merge" /\ (original # <<>> \/ highlighted # <<>>)
    /\ FromOriginal(original, highlighted)
    /\ LET offset == original[1].offset
           Rest(i) == SubSeq(original, i + 1, Len(original))
           Again(i) == /\ FromOriginal(Rest(i), highlighted)
                       /\ Rest(i)[1].offset = offset
           taken == CHOOSE i \in DOMAIN original : ~Again(i) /\ \A j \in 1 .. i - 1 : Again(j)
       IN /\ result' = result \o TextTo(offset) \o Tags("stop", Reverse(nodeStack))
                       \o Rendered(SubSeq(original, 1, taken)) \o Tags("start", nodeStack)
          /\ original' = Rest(taken)
          /\ processed' = offset
    /\ UNCHANGED <<stage, scores, best, second_best, block, colored, highlighted, nodeStack>>

\* mergeStreams, a tag of the result of highlight().
TakeHighlighted ==
    /\ stage = "merge" /\ (original # <<>> \/ highlighted # <<>>)
    /\ ~FromOriginal(original, highlighted)
    /\ LET event == highlighted[1]
       IN /\ nodeStack' = IF event.event = "start" THEN Append(nodeStack, event.node)
                                                   ELSE Front(nodeStack)
          /\ result' = result \o TextTo(event.offset) \o Rendered(<<event>>)
          /\ processed' = event.offset
    /\ highlighted' = Tail(highlighted)
    /\ UNCHANGED <<stage, scores, best, second_best, block, colored, original>>

\* mergeStreams, its return: the rest of the text.
Ready ==
    /\ stage = "merge" /\ original = <<>> /\ highlighted = <<>>
    /\ result' = result \o TextTo(Length)
    /\ stage' = "ready"
    /\ UNCHANGED <<scores, best, second_best, block, colored, original, highlighted,
                   processed, nodeStack>>

BlockNext ==
    \/ \E relevance \in 0 .. MaxRelevance : Try(relevance)
    \/ stage = "detect" /\ \E before \in BlockDocuments, after \in ColoredDocuments : Merge(before, after)
    \/ TakeOriginal
    \/ TakeHighlighted
    \/ Ready

------------------------------------------------------------------------------

\* The language that is found has the highest relevance, the earliest of those that have,
\* and second_best is the best of the others (lines 2959-2981).
BestFound ==
    LET others == {i \in DOMAIN scores : i # best}
    IN /\ \A i \in DOMAIN scores : scores[i] <= Relevance(scores, best)
       /\ \A i \in 1 .. best - 1 : scores[i] < scores[best]
       /\ second_best = 0 \/ second_best # best
       /\ \A i \in others : scores[i] <= Relevance(scores, second_best)

\* The merged document keeps the block's own tags and text as they were, except the end
\* tags of elements that the code takes for void; it is well formed as far as those are
\* void, so altogether when the block has no element like abbr; and it has every character
\* in the spans it was given (lines 2456-2557).
MergeExact ==
    stage = "ready" =>
        LET Elements == UNION {Range(nodes) : nodes \in Originals}
            Own(x) == IsChar(x) \/ x.node \in Elements
            Place(d, p) == CHOOSE i \in DOMAIN d : d[i] = Char(p)
        IN /\ WellFormed(result, Unended)
           /\ SelectSeq(result, Own) = SelectSeq(block, HasEvent)
           /\ \A p \in 1 .. Length :
                 Around(result, Place(result, p), Range(Highlights))
                     = Around(colored, Place(colored, p), Range(Highlights))

\* No span that has text is begun just to be ended: "To avoid starting the stream just
\* before it should stop the order is ensured that original always starts first and
\* closes last" (lines 2499-2514).
NoHollowSpan ==
    \A i \in 2 .. Len(result), n \in Range(Highlights) :
        result[i - 1] = Tag("start", n) /\ result[i] = Tag("stop", n) =>
            \E k \in 2 .. Len(colored) : colored[k - 1] = Tag("start", n) /\ colored[k] = Tag("stop", n)

\* Together: the block shows the best language, its own elements and the spans.
BlockExact == BestFound /\ MergeExact /\ NoHollowSpan
=============================================================================
