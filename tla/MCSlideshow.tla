----------------------------- MODULE MCSlideshow -----------------------------
(***************************************************************************)
(* Slideshow for TLC: two decks, the second with a slide more, and          *)
(* locations that are a number, out of range, of presenter mode, a name or  *)
(* unknown.                                                                 *)
(***************************************************************************)
EXTENDS Slideshow, Deck

\* A title, and a slide that grows by an incremental part without a number.
Source ==
    <<Text([name |-> "title"]), Separator("---"), Text([name |-> "demo"]), Notes, Text([x \in {} |-> 0]),
      Separator("--"), Text([x \in {} |-> 0])>>

BothDecks ==
    <<createSlides(parse(Source, FALSE), FALSE),
      createSlides(parse(Source \o <<Separator("---"), Text([name |-> "end"])>>, FALSE), FALSE)>>

MCDecks == BothDecks

MCLocations ==
    {Location("number", 2), Location("number", 9), Location("presenter", 3), Named("demo"), Named("")}

------------------------------------------------------------------------------
\* createSlides against a definition that takes no steps, over short decks.

Kinds == [layout : {"", "true"}, count : {"", "false"}, hidden : BOOLEAN, continued : {"true", "false"},
          name : {"", "a"}]
Parsed(kinds) ==
    [i \in DOMAIN kinds |->
        [createSlide("false") EXCEPT !.properties = [p \in DOMAIN @ |-> IF p \in DOMAIN kinds[i]
                                                                       THEN kinds[i][p] ELSE @[p]]]]
ShortDecks == UNION {[1 .. n -> Kinds] : n \in 1 .. 3}

\* The slides are those that are neither layouts nor excluded, in order; the number of a
\* slide is how many of those up to it count, whatever else stands in between; a number leads
\* to the slides that have it, and to one at least; a name leads to as many slides as there
\* are before the last one of that name.
ASSUME SlidesAsDefined ==
    \A kinds \in ShortDecks, countIncrementalSlides \in BOOLEAN :
        LET deck == createSlides(Parsed(kinds), countIncrementalSlides)
            Member(i) == kinds[i].layout # "true" /\ ~kinds[i].hidden
            Counts(i) == /\ Member(i) /\ kinds[i].count # "false"
                         /\ countIncrementalSlides \/ kinds[i].continued = "false"
            Before(i, P(_)) == Cardinality({j \in 1 .. i : P(j)})
            named == {i \in DOMAIN kinds : kinds[i].name = "a" /\ kinds[i].layout # "true"}
        IN /\ {<<m.at, m.index, m.number>> : m \in ToSet(deck.slides)} =
                 {<<i, Before(i - 1, Member), Before(i, Counts)>> : i \in {j \in DOMAIN kinds : Member(j)}}
           /\ \A k \in DOMAIN deck.slides : deck.slides[k].index = k - 1
           /\ DOMAIN deck.byNumber = 1 .. Before(Len(kinds), Counts)
           /\ \A n \in DOMAIN deck.byNumber :
                 /\ deck.byNumber[n] # <<>>
                 /\ deck.byNumber[n] = SelectSeq(deck.slides, LAMBDA m : m.number = n)
           /\ named # {} => deck.names["a"] = Before(Max(named) - 1, Member)
=============================================================================
