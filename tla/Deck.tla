-------------------------------- MODULE Deck --------------------------------
(***************************************************************************)
(* From the source of a slideshow to its slides: Parser.parse and the       *)
(* function createSlides of models/slideshow.  A source is the sequence of  *)
(* the lexer's tokens; a text is the properties that stand at its           *)
(* beginning.  Of a property there is only what the two functions look at.  *)
(***************************************************************************)
EXTENDS Naturals, Sequences, FiniteSets, SequencesExt

\* The properties of a slide that has none in its text.  "hidden" says whether one of
\* its classes is among excludedClasses.
NoProperties ==
    [name |-> "", template |-> "", layout |-> "", count |-> "", exclude |-> "",
     hidden |-> FALSE, continued |-> "false"]

Text(properties) == [type |-> "text", text |-> "", properties |-> properties]
Separator(dashes) == [type |-> "separator", text |-> dashes, properties |-> <<>>]
Notes == [type |-> "notes_separator", text |-> "???", properties |-> <<>>]

\* A slide being parsed: how many texts are in its content and in its notes, which are
\* absent at first.
createSlide(continued) ==
    [properties |-> [NoProperties EXCEPT !.continued = continued], content |-> 0,
     hasNotes |-> FALSE, notes |-> 0]

\* appendTo, with extractProperties for the first text of the content.
appendTo(slide, token) ==
    IF slide.hasNotes THEN [slide EXCEPT !.notes = @ + 1]
    ELSE [slide EXCEPT !.content = @ + 1,
                       !.properties = IF slide.content > 0 THEN @
                                      ELSE [p \in DOMAIN @ |-> IF p \in DOMAIN token.properties
                                                               THEN token.properties[p] ELSE @[p]]]

\* One token of parse.  The slides that are complete, and the one that is not.
Token(parsed, token, disableIncrementalSlides) ==
    CASE token.type = "text" -> [parsed EXCEPT !.slide = appendTo(@, token)]
      [] token.type = "notes_separator" ->
            [parsed EXCEPT !.slide.hasNotes = TRUE, !.slide.notes = 0]
      [] token.type = "separator" /\ token.text = "--" /\ disableIncrementalSlides ->
            [parsed EXCEPT !.slide.hasNotes = FALSE, !.slide.notes = 0]
      [] OTHER ->
            [slides |-> Append(parsed.slides, parsed.slide),
             slide |-> createSlide(IF token.text = "--" THEN "true" ELSE "false")]

parse(tokens, disableIncrementalSlides) ==
    LET parsed == FoldLeft(LAMBDA p, t : Token(p, t, disableIncrementalSlides),
                           [slides |-> <<>>, slide |-> createSlide("false")], tokens)
        Shown(slide) == slide.properties.exclude # "true"
    IN SelectSeq(Append(parsed.slides, parsed.slide), Shown)

------------------------------------------------------------------------------
\* createSlides.  A slide is known by its position in what was parsed; 0 is none.

Nothing ==
    [slides |-> <<>>, byName |-> <<>>, names |-> <<>>, byNumber |-> <<>>, layoutSlide |-> 0,
     slideNumber |-> 0]

Found(table, key) == IF key \in DOMAIN table THEN table[key] ELSE 0

\* The slide from which the i-th inherits, and the layout for those that follow.
Template(deck, p, i) ==
    IF p.continued = "true" /\ i > 1
    THEN IF deck.slides = <<>> THEN 0 ELSE Last(deck.slides).at
    ELSE IF Found(deck.byName, p.template) # 0 THEN deck.byName[p.template]
    ELSE IF p.layout = "false" \/ p.layout = "true" THEN 0 ELSE deck.layoutSlide

LayoutAfter(deck, p, i) ==
    CASE p.layout = "true" -> i
      [] /\ p.layout = "false"
         /\ ~(p.continued = "true" /\ i > 1)
         /\ Found(deck.byName, p.template) = 0 -> 0
      [] OTHER -> deck.layoutSlide

\* One parsed slide.
Create(deck, slide, i, countIncrementalSlides) ==
    LET p == slide.properties
        count == IF p.continued = "true" /\ ~countIncrementalSlides /\ p.count = "" THEN "false"
                                                                                  ELSE p.count
        counted == ~p.hidden /\ p.layout # "true" /\ count # "false"
        number == deck.slideNumber + (IF counted THEN 1 ELSE 0)
        model == [at |-> i, index |-> Len(deck.slides), number |-> number,
                  template |-> Template(deck, p, i)]
        named == p.name # ""
        member == p.layout # "true" /\ ~p.hidden
        numbers == IF counted THEN Append(deck.byNumber, <<>>) ELSE deck.byNumber
        With(table, value) ==
            IF named THEN [n \in DOMAIN table \cup {p.name} |-> IF n = p.name THEN value ELSE table[n]]
                     ELSE table
    IN [slides |-> IF member THEN Append(deck.slides, model) ELSE deck.slides,
        byName |-> With(deck.byName, i),
        names |-> IF p.layout = "true" THEN deck.names ELSE With(deck.names, model.index),
        byNumber |-> IF member /\ number > 0 THEN [numbers EXCEPT ![number] = Append(@, model)]
                                             ELSE numbers,
        layoutSlide |-> LayoutAfter(deck, p, i),
        slideNumber |-> number]

createSlides(parsed, countIncrementalSlides) ==
    FoldLeft(LAMBDA deck, i : Create(deck, parsed[i], i, countIncrementalSlides),
             Nothing, [i \in DOMAIN parsed |-> i])
=============================================================================
