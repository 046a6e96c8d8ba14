\* Everything a speaker does in four inputs, in the window and in its clone.
SPECIFICATION Spec
CONSTANTS
    Decks <- MCDecks
    Locations <- MCLocations
    StartOnChange = TRUE
    Shrinking = FALSE
    MaxSlides = 4
    MaxInputs = 4
INVARIANTS
    InStep
    OneOnScreen
    HashLeadsHere
PROPERTY
    Mirrored
\* The people may stop.
CHECK_DEADLOCK FALSE
