------------------------------ MODULE Slideshow ------------------------------
(***************************************************************************)
(* A remark slideshow, as the slides of Liquidsoap's documentation run it,  *)
(* in the window of the speaker and in a clone of it.  Keys, the wheel, the *)
(* location and messages become events; navigation, view, controller and    *)
(* timer handle them.  Each window posts its moves to the other one.        *)
(*                                                                          *)
(* A handler is an operator from the state of its window to the next; what  *)
(* it posts is collected in the field "out".  Positions count from 0, and   *)
(* -1 is no slide, as in the code.                                          *)
(***************************************************************************)
EXTENDS Integers, Sequences, FiniteSets, SequencesExt

CONSTANTS
    Decks,          \* a sequence of decks, as createSlides returns them; the page has the first
    Locations,      \* what may stand after the # of the location
    StartOnChange,  \* option of the timer
    Shrinking,      \* a deck may be replaced by a shorter one
    MaxSlides,      \* bound on the length of a deck
    MaxInputs       \* bound on what the people at the windows and the page's script do

Opener == "opener"
Clone == "clone"
Windows == {Opener, Clone}
Other(w) == IF w = Opener THEN Clone ELSE Opener

ASSUME SlideshowAssumption ==
    /\ MaxSlides \in Nat /\ \A d \in DOMAIN Decks : Len(Decks[d].slides) \in 1 .. MaxSlides
    /\ StartOnChange \in BOOLEAN /\ Shrinking \in BOOLEAN
    /\ MaxInputs \in Nat

VARIABLES
    at,         \* per window: "closed", "loading" or "open"
    win,        \* per window: the state of its slideshow
    chan,       \* per window: the messages posted to it that have not arrived
    inputs,     \* history: what the people have done so far, as a number
    apart       \* history: a window was moved that had a message waiting, or got a deck of its own

vars == <<at, win, chan, inputs, apart>>

------------------------------------------------------------------------------
\* The state of a window.

Location(kind, n) == [kind |-> kind, n |-> n, name |-> ""]
Named(name) == [kind |-> "name", n |-> 0, name |-> name]
Listening == [keyboard |-> 1, pointer |-> 1, scroll |-> 1]

NewWindow(deck, hash) ==
    [deck |-> deck, current |-> -1, started |-> "null", visible |-> {}, fading |-> {},
     hash |-> hash, changed |-> FALSE, modes |-> {}, orientation |-> "landscape",
     timer |-> "INITIAL", handlers |-> Listening, rest |-> <<>>, typed |-> <<>>, out |-> <<>>]

\* In place of the state of a window that is closed.
NoWindow == NewWindow(1, Location("number", 0))

getSlideCount(s) == Len(Decks[s.deck].slides)
Flip(set, x) == IF x \in set THEN set \ {x} ELSE set \cup {x}

GotoMessage(n) == [kind |-> "gotoSlide", slide |-> n]
BlackoutMessage == [kind |-> "toggleBlackout", slide |-> 0]
Post(s, message) == [s EXCEPT !.out = Append(@, message)]

------------------------------------------------------------------------------
\* The view.

\* getElementsByClassName is live: the loop that takes the class from the elements
\* that are fading passes over every other one.
StillFading(set) == {i \in set : Cardinality({j \in set : j < i}) % 2 = 1}

\* Mutant: the slides that were fading before stay so.
HideOnly(s, i) == [s EXCEPT !.visible = @ \ {i}, !.fading = @ \cup {i}]

\* The handler of hideSlide, with SlideView.hide.
hideSlide(s, i) == [s EXCEPT !.visible = @ \ {i}, !.fading = StillFading(@) \cup {i}]

\* SlideshowView.showSlide; there is no view to show beyond the last slide.
showSlide(s, i) ==
    IF i < getSlideCount(s) THEN [s EXCEPT !.visible = @ \cup {i}, !.fading = @ \ {i}] ELSE s

\* updateSlideViews: all views are new.
updateSlideViews(s) ==
    LET new == [s EXCEPT !.visible = {}, !.fading = {}]
    IN IF s.current > -1 THEN showSlide(new, s.current) ELSE new

updateHash(s, n) ==
    [s EXCEPT !.hash = Location(IF "presenter" \in s.modes THEN "presenter" ELSE "number", n)]

forcePresenterMode(s) ==
    IF "presenter" \in s.modes THEN s
    ELSE [s EXCEPT !.modes = @ \cup {"presenter"}, !.orientation = "landscape"]

\* Mutant: the location is left as it is.
TogglePresenterOnly(s) ==
    LET toggled == [s EXCEPT !.modes = Flip(@, "presenter")]
    IN [toggled EXCEPT !.orientation = IF "presenter" \in toggled.modes THEN "portrait"
                                                                        ELSE "landscape"]

togglePresenterMode(s) ==
    LET toggled == updateHash([s EXCEPT !.modes = Flip(@, "presenter")], s.current + 1)
    IN [toggled EXCEPT !.orientation = IF "presenter" \in toggled.modes THEN "portrait"
                                                                        ELSE "landscape"]

toggleBlackout(s, propagate) ==
    LET toggled == [s EXCEPT !.modes = Flip(@, "blackout")]
    IN IF propagate THEN Post(toggled, BlackoutMessage) ELSE toggled

hideOverlay(s) == [s EXCEPT !.modes = @ \ {"blackout", "help"}]

------------------------------------------------------------------------------
\* Navigation.

\* The first slide shown is no move; the one after it starts the timer.
Started(s) ==
    CASE s.started = "null" -> [s EXCEPT !.started = "false"]
      [] s.started = "false" ->
            [s EXCEPT !.started = "true", !.timer = IF StartOnChange THEN "RUNNING" ELSE @]
      [] OTHER -> s

gotoSlideByIndex(s, i, noMessage) ==
    IF i = s.current \/ i \notin 0 .. getSlideCount(s) - 1 THEN s
    ELSE IF s.current >= getSlideCount(s) THEN [s EXCEPT !.fading = StillFading(@)]
    ELSE LET hidden == IF s.current = -1 THEN s ELSE hideSlide(s, s.current)
             moved == [showSlide(Started(hidden), i) EXCEPT !.current = i]
             located == updateHash(moved, i + 1)
         IN IF noMessage THEN located ELSE Post(located, GotoMessage(i + 1))

\* getSlideIndex: a number counts from one, and an unknown name is the first slide.
getSlideIndex(s, hash) ==
    LET names == Decks[s.deck].names
    IN CASE hash.kind # "name" -> hash.n - 1
         [] hash.kind = "name" /\ hash.name \in DOMAIN names -> names[hash.name]
         [] OTHER -> 0

gotoSlide(s, hash, noMessage) ==
    LET asked == IF hash.kind = "presenter" THEN forcePresenterMode(s) ELSE s
    IN gotoSlideByIndex(asked, getSlideIndex(s, hash), noMessage)

gotoSlideNumber(s, number) ==
    LET byNumber == Decks[s.deck].byNumber
    IN IF number \in DOMAIN byNumber /\ byNumber[number] # <<>>
       THEN gotoSlideByIndex(s, byNumber[number][1].index, FALSE) ELSE s

\* loadFromString: navigation handles slidesChanged before the view does.
loadFromString(s, deck) ==
    LET loaded == [s EXCEPT !.deck = deck]
        count == getSlideCount(loaded)
    IN updateSlideViews([loaded EXCEPT !.current = IF @ > count THEN count ELSE @])

------------------------------------------------------------------------------
\* Controllers.

\* Mutant: a message is handled like a move of this window.
NavigateAndTell(s, message) ==
    IF message.kind = "gotoSlide" THEN gotoSlide(s, Location("number", message.slide), FALSE)
                                  ELSE toggleBlackout(s, FALSE)

navigateByMessage(s, message) ==
    IF message.kind = "gotoSlide" THEN gotoSlide(s, Location("number", message.slide), TRUE)
                                  ELSE toggleBlackout(s, FALSE)

\* The handlers of pause: those of DOMMouseScroll stay.
Pause(s) ==
    [s EXCEPT !.modes = Flip(@, "pause"), !.handlers.keyboard = 0, !.handlers.pointer = 0]

Resume(s) ==
    [s EXCEPT !.modes = Flip(@, "pause"), !.typed = <<>>,
              !.handlers = [k \in DOMAIN @ |-> @[k] + 1]]

toggleTimer(s) == [s EXCEPT !.timer = IF @ = "RUNNING" THEN "PAUSED" ELSE "RUNNING"]
resetTimer(s) == [s EXCEPT !.started = "false", !.timer = "INITIAL"]
Return(s) ==
    IF s.typed = <<>> THEN s
    ELSE [gotoSlideNumber(s, FoldLeft(LAMBDA n, d : 10 * n + d, 0, s.typed)) EXCEPT !.typed = <<>>]

\* What the keys and the wheel emit.
Keys == {"gotoNextSlide", "gotoPreviousSlide", "gotoFirstSlide", "gotoLastSlide", "hideOverlay",
         "gotoSlideNumber", "0", "2", "toggleBlackout", "toggleMirrored", "toggleHelp",
         "togglePresenterMode", "toggleTimer", "resetTimer"}
Turns == {"gotoNextSlide", "gotoPreviousSlide"}

Emit(s, event) ==
    CASE event = "gotoNextSlide" -> gotoSlideByIndex(s, s.current + 1, FALSE)
      [] event = "gotoPreviousSlide" -> gotoSlideByIndex(s, s.current - 1, FALSE)
      [] event = "gotoFirstSlide" -> gotoSlideByIndex(s, 0, FALSE)
      [] event = "gotoLastSlide" -> gotoSlideByIndex(s, getSlideCount(s) - 1, FALSE)
      [] event = "gotoSlideNumber" -> Return(s)
      [] event = "0" -> [s EXCEPT !.typed = Append(@, 0)]
      [] event = "2" -> [s EXCEPT !.typed = Append(@, 2)]
      [] event = "hideOverlay" -> hideOverlay(s)
      [] event = "toggleBlackout" -> toggleBlackout(s, TRUE)
      [] event = "toggleMirrored" -> [s EXCEPT !.modes = Flip(@, "mirrored")]
      [] event = "toggleHelp" -> [s EXCEPT !.modes = Flip(@, "help")]
      [] event = "togglePresenterMode" -> togglePresenterMode(s)
      [] event = "toggleTimer" -> toggleTimer(s)
      [] event = "resetTimer" -> resetTimer(s)

\* Every handler of the key or of the wheel emits the event once.
Dispatch(s, event, handlers) == [Emit(s, event) EXCEPT !.rest = [h \in 1 .. handlers - 1 |-> event]]

------------------------------------------------------------------------------
\* The windows.

Gotos(messages) == SelectSeq(messages, LAMBDA m : m.kind = "gotoSlide")

\* Mutant: the clone tells where it starts, and of no move after that.
EndsUntold(w, s, waiting) ==
    LET told == IF w = Clone /\ win[w].current # -1
                THEN SelectSeq(s.out, LAMBDA m : m.kind # "gotoSlide") ELSE s.out
    IN /\ win' = [win EXCEPT ![w] = [s EXCEPT !.out = <<>>]]
       /\ chan' = IF at[Other(w)] = "closed" THEN waiting
                  ELSE [waiting EXCEPT ![Other(w)] = @ \o told]

\* Window w ends a step in state s, with the given messages still waiting: what it has
\* posted is on its way, if there is a window to post to.
EndsWith(w, s, waiting) ==
    /\ win' = [win EXCEPT ![w] = [s EXCEPT !.out = <<>>]]
    /\ chan' = IF at[Other(w)] = "closed" THEN waiting
               ELSE [waiting EXCEPT ![Other(w)] = @ \o s.out]

Ends(w, s) == EndsWith(w, s, chan)

\* The window moves although it has been told to go elsewhere.
Crosses(w, s) == Gotos(s.out) # <<>> /\ Gotos(chan[w]) # <<>>

Idle(w) == at[w] = "open" /\ win[w].rest = <<>>

Count == inputs < MaxInputs /\ inputs' = inputs + 1

\* Something is done at window w that leaves it in state s.
Input(w, s) ==
    /\ Count
    /\ Ends(w, s)
    /\ apart' = (apart \/ Crosses(w, s))
    /\ UNCHANGED at

Init ==
    /\ at = [w \in Windows |-> IF w = Opener THEN "open" ELSE "closed"]
    /\ \E h \in Locations :
          win = [w \in Windows |->
                    IF w = Opener THEN [gotoSlide(NewWindow(1, h), h, FALSE) EXCEPT !.out = <<>>]
                                  ELSE NoWindow]
    /\ chan = [w \in Windows |-> <<>>]
    /\ inputs = 0
    /\ apart = FALSE

Press(w) ==
    /\ Idle(w) /\ win[w].handlers.keyboard > 0
    /\ \E key \in Keys : Input(w, Dispatch(win[w], key, win[w].handlers.keyboard))

\* mousewheel, or DOMMouseScroll in Firefox.
Turn(w) ==
    /\ Idle(w)
    /\ \E wheel \in {"pointer", "scroll"}, turn \in Turns :
          /\ win[w].handlers[wheel] > 0
          /\ Input(w, Dispatch(win[w], turn, win[w].handlers[wheel]))

\* The next of the handlers of an event.
HandleRest(w) ==
    /\ at[w] = "open" /\ win[w].rest # <<>>
    /\ LET s == Emit([win[w] EXCEPT !.rest = Tail(@)], Head(win[w].rest))
       IN Ends(w, s) /\ apart' = (apart \/ Crosses(w, s))
    /\ UNCHANGED <<at, inputs>>

\* What a script of the page may call.
CallPause(w) == Idle(w) /\ Input(w, Pause(win[w]))
CallResume(w) == Idle(w) /\ Input(w, Resume(win[w]))

CallLoad(w) ==
    /\ Idle(w) /\ Count
    /\ \E d \in DOMAIN Decks :
          /\ d # win[w].deck
          /\ Shrinking \/ win[w].current < Len(Decks[d].slides)
          /\ Ends(w, loadFromString(win[w], d))
    /\ apart' = (apart \/ at[Clone] # "closed")
    /\ UNCHANGED at

\* A location is typed; the browser tells the page afterwards.
Type(w) ==
    /\ Idle(w)
    /\ \E h \in Locations :
          h # win[w].hash /\ Input(w, [win[w] EXCEPT !.hash = h, !.changed = TRUE])

navigateByHash(w) ==
    /\ Idle(w) /\ win[w].changed
    /\ LET s == gotoSlide([win[w] EXCEPT !.changed = FALSE], win[w].hash, FALSE)
       IN Ends(w, s) /\ apart' = (apart \/ Crosses(w, s))
    /\ UNCHANGED <<at, inputs>>

\* The clone starts at the location the opener has now; of several handlers of the key
\* the later ones find it there.
createClone ==
    /\ Idle(Opener) /\ win[Opener].handlers.keyboard > 0 /\ Count
    /\ IF at[Clone] # "closed" THEN UNCHANGED <<at, win, apart>>
       ELSE /\ at' = [at EXCEPT ![Clone] = "loading"]
            /\ win' = [win EXCEPT ![Clone] = NewWindow(1, win[Opener].hash)]
            /\ apart' = (apart /\ chan[Opener] # <<>>)
    /\ UNCHANGED chan

\* Api.create in the clone: the page's deck, and the slide of the location.
LoadClone ==
    /\ at[Clone] = "loading"
    /\ at' = [at EXCEPT ![Clone] = "open"]
    /\ LET s == gotoSlide(win[Clone], win[Clone].hash, FALSE)
       IN Ends(Clone, s) /\ apart' = (apart \/ Crosses(Clone, s) \/ s.deck # win[Opener].deck)
    /\ UNCHANGED inputs

CloseClone ==
    /\ at[Clone] # "closed" /\ win[Clone].rest = <<>> /\ Count
    /\ at' = [at EXCEPT ![Clone] = "closed"]
    /\ win' = [win EXCEPT ![Clone] = NoWindow]
    /\ chan' = [chan EXCEPT ![Clone] = <<>>]
    /\ UNCHANGED apart

\* A message arrives; nothing listens to it in a page that is not loaded.
Receive(w) ==
    /\ chan[w] # <<>>
    /\ LET waiting == [chan EXCEPT ![w] = Tail(@)] IN
       \/ Idle(w) /\ EndsWith(w, navigateByMessage(win[w], Head(chan[w])), waiting)
       \/ at[w] = "loading" /\ chan' = waiting /\ UNCHANGED win
    /\ UNCHANGED <<at, inputs, apart>>

\* A second after it was hidden a slide is gone for good.
FadeEnd(w) ==
    /\ Idle(w)
    /\ \E i \in win[w].fading : win' = [win EXCEPT ![w].fading = @ \ {i}]
    /\ UNCHANGED <<at, chan, inputs, apart>>

Next ==
    \/ \E w \in Windows :
          \/ Press(w) \/ Turn(w) \/ HandleRest(w) \/ CallPause(w) \/ CallResume(w) \/ CallLoad(w)
          \/ Type(w) \/ navigateByHash(w) \/ Receive(w) \/ FadeEnd(w)
    \/ createClone \/ LoadClone \/ CloseClone

Spec == Init /\ [][Next]_vars

------------------------------------------------------------------------------
\* As long as the windows have not been moved at the same time, the clone follows: when no
\* move is on its way both show the same slide, and otherwise the last one on its way
\* leads there.  (gotoSlideByIndex posts every move that is not the answer to a message,
\* and a clone that has loaded posts where it starts, 26713-26756 and 2088.)
InStep ==
    at[Clone] = "open" /\ ~apart /\ win[Clone].current # -1 =>
        /\ \A w \in Windows : LET gotos == Gotos(chan[w]) IN
              gotos # <<>> => Last(gotos).slide = win[Other(w)].current + 1
        /\ (\A w \in Windows : Gotos(chan[w]) = <<>>) => win[Opener].current = win[Clone].current

\* A window shows its current slide and no other, and at most one more is fading, whichever
\* timeouts of earlier moves have run.  ("To make sure that there is only one element fading
\* at a time", 27611; SlideView.hide removes the class a second later, 27301.)
OneOnScreen ==
    \A w \in Windows : LET s == win[w] IN
        at[w] = "open" =>
            /\ s.visible = {s.current} \ {-1}
            /\ Cardinality(s.fading) <= 1
            /\ s.visible \cap s.fading = {}

\* To load the page again, or to clone it, at the location it has leads to the slide it shows,
\* and to presenter mode only if it is in that, unless the location is of no slide in a deck
\* the window may have had when it got it.
\* (updateHash runs after every move and every toggle of presenter mode, 2085-2086.)
HashLeadsHere ==
    \A w \in Windows : LET s == win[w] IN
        at[w] = "open" /\ ~s.changed =>
            /\ \/ getSlideIndex(s, s.hash) = s.current
               \/ \E d \in DOMAIN Decks :
                     getSlideIndex([s EXCEPT !.deck = d], s.hash) \notin 0 .. Len(Decks[d].slides) - 1
            /\ s.hash.kind = "presenter" => "presenter" \in s.modes

\* What the windows promise together.
Shown(w) == IF win[w].visible = {} THEN 0 ELSE 1 + CHOOSE i \in win[w].visible : TRUE

Abs == INSTANCE MirroredShow WITH
    there <- [w \in Windows |-> at[w] # "closed"],
    ready <- [w \in Windows |-> at[w] = "open"],
    length <- [w \in Windows |-> IF at[w] = "open" THEN getSlideCount(win[w]) ELSE 0],
    shown <- [w \in Windows |-> Shown(w)],
    dark <- [w \in Windows |-> "blackout" \in win[w].modes],
    duty <- chan

\* Every step of a slideshow in two windows is one that MirroredShow allows, or none for it: a
\* move is posted once, a message is acted on once and not answered, what is done in one
\* window (overlays, presenter mode, pause, fading, the timer) changes nothing else.
Mirrored == Abs!Spec
=============================================================================
