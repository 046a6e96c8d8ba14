\* Texts of four characters under every grammar; blocks of two characters.
SPECIFICATION MCSpec
CONSTANTS
    Grammar <- MCGrammar
    Root <- Language
    NoMode <- NoParent
    MaxText = 4
    MaxDepth = 6
    MaxCalls = 2
    Originals <- MCOriginals
    Voids = {"br"}
    Unended = {"br", "abbr"}
    Highlights <- MCHighlights
    Length = 2
    Candidates = 3
    MaxRelevance = 2
CHECK_DEADLOCK FALSE
INVARIANTS
    OutputSound
    TextKept
    ParentEndSeen
    DescentEnds
    BlockExact
