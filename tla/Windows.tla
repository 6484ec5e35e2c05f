------------------------------- MODULE Windows -------------------------------
(***************************************************************************)
(* What every limiter of the service keeps: the ages of past events, oldest   *)
(* first, in ticks.  An age is dropped or stays at the window's length once   *)
(* it says nothing more.                                                     *)
(***************************************************************************)
EXTENDS Naturals, Sequences

\* The elements of s that are in S, in their order: [x for x in s if x in S].
Kept(s, S) ==
  LET kept[n \in 0..Len(s)] ==
        IF n = 0 THEN <<>>
        ELSE IF s[n] \in S THEN Append(kept[n - 1], s[n]) ELSE kept[n - 1]
  IN  kept[Len(s)]

\* The ages inside a window.
Inside(ages, window) == Kept(ages, 0..window - 1)

\* One tick later; an age of a whole window grows no further.
Older(age, window) == IF age < window THEN age + 1 ELSE age
Aged(ages, window) == [i \in DOMAIN ages |-> Older(ages[i], window)]
=============================================================================
