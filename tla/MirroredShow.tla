---------------------------- MODULE MirroredShow ----------------------------
(***************************************************************************)
(* What a slideshow in two windows promises: each window shows one slide of *)
(* its deck or none, a move in one window is repeated once in the other, in *)
(* order, and what is repeated is not sent back.                            *)
(***************************************************************************)
EXTENDS Naturals, Sequences

CONSTANTS
    Windows,    \* the window of the speaker and its clone
    MaxSlides   \* bound on the length of a deck

VARIABLES
    there,      \* whether a window exists, so that moves are sent to it
    ready,      \* whether it has loaded
    length,     \* the number of slides of its deck, 0 before it has loaded
    shown,      \* the slide it shows, 0 for none
    dark,       \* whether it is blacked out
    duty        \* moves of the other window that have not arrived

vars == <<there, ready, length, shown, dark, duty>>

GotoSlide(n) == [kind |-> "gotoSlide", slide |-> n]
ToggleBlackout == [kind |-> "toggleBlackout", slide |-> 0]

Other(w) == CHOOSE v \in Windows : v # w

\* The duties after window w has sent a message.
Sent(w, message) ==
    IF there[Other(w)] THEN [duty EXCEPT ![Other(w)] = Append(@, message)] ELSE duty

Init ==
    /\ \E w \in Windows :
          /\ there = [v \in Windows |-> v = w]
          /\ ready = [v \in Windows |-> v = w]
          /\ \E n \in 1 .. MaxSlides : \E s \in 0 .. n :
                /\ length = [v \in Windows |-> IF v = w THEN n ELSE 0]
                /\ shown = [v \in Windows |-> IF v = w THEN s ELSE 0]
    /\ dark = [v \in Windows |-> FALSE]
    /\ duty = [v \in Windows |-> <<>>]

\* The window goes to another slide.
Move(w) ==
    /\ ready[w]
    /\ \E n \in 1 .. length[w] \ {shown[w]} :
          /\ shown' = [shown EXCEPT ![w] = n]
          /\ duty' = Sent(w, GotoSlide(n))
    /\ UNCHANGED <<there, ready, length, dark>>

Toggle(w) ==
    /\ ready[w]
    /\ dark' = [dark EXCEPT ![w] = ~@]
    /\ duty' = Sent(w, ToggleBlackout)
    /\ UNCHANGED <<there, ready, length, shown>>

Uncover(w) ==
    /\ ready[w]
    /\ dark' = [dark EXCEPT ![w] = FALSE]
    /\ UNCHANGED <<there, ready, length, shown, duty>>

\* The first duty is done: at once or, in a window that has not loaded, never.
Repeat(w) ==
    /\ duty[w] # <<>>
    /\ LET message == Head(duty[w]) IN
       /\ shown' = IF /\ ready[w] /\ message.kind = "gotoSlide"
                      /\ message.slide \in 1 .. length[w]
                   THEN [shown EXCEPT ![w] = message.slide] ELSE shown
       /\ dark' = IF ready[w] /\ message.kind = "toggleBlackout"
                  THEN [dark EXCEPT ![w] = ~@] ELSE dark
    /\ duty' = [duty EXCEPT ![w] = Tail(@)]
    /\ UNCHANGED <<there, ready, length>>

\* A second window is opened, loads and is closed.
Open(w) ==
    /\ ~there[w]
    /\ there' = [there EXCEPT ![w] = TRUE]
    /\ UNCHANGED <<ready, length, shown, dark, duty>>

Load(w) ==
    /\ there[w] /\ ~ready[w]
    /\ ready' = [ready EXCEPT ![w] = TRUE]
    /\ \E n \in 1 .. MaxSlides : \E s \in 0 .. n :
          /\ length' = [length EXCEPT ![w] = n]
          /\ shown' = [shown EXCEPT ![w] = s]
          /\ duty' = IF s = 0 THEN duty ELSE Sent(w, GotoSlide(s))
    /\ UNCHANGED <<there, dark>>

Close(w) ==
    /\ there[w]
    /\ there' = [there EXCEPT ![w] = FALSE]
    /\ ready' = [ready EXCEPT ![w] = FALSE]
    /\ shown' = [shown EXCEPT ![w] = 0]
    /\ dark' = [dark EXCEPT ![w] = FALSE]
    /\ length' = [length EXCEPT ![w] = 0]
    /\ duty' = [duty EXCEPT ![w] = <<>>]

\* Another deck; the window stays on its slide.
Replace(w) ==
    /\ ready[w]
    /\ UNCHANGED <<there, ready, shown, dark, duty>>
    /\ \E n \in shown[w] .. MaxSlides : n > 0 /\ length' = [length EXCEPT ![w] = n]

Next ==
    \E w \in Windows :
        \/ Move(w) \/ Toggle(w) \/ Uncover(w) \/ Repeat(w)
        \/ Open(w) \/ Load(w) \/ Close(w) \/ Replace(w)

Spec == Init /\ [][Next]_vars
=============================================================================
