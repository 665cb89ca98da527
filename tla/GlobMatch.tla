------------------------------ MODULE GlobMatch ------------------------------
(***************************************************************************)
(* The matcher behind --exclude: `glob_match` of scanner.rs, and what a    *)
(* pattern means.  Names and patterns are sequences of character codes.    *)
(***************************************************************************)
EXTENDS Integers, Sequences

Star == 42
AnyOne == 63

\* to_lowercase, for the letters a model uses.
Lower(c) == IF c \in 65..90 THEN c + 32 ELSE c
Folded(s) == [i \in 1..Len(s) |-> Lower(s[i])]

\* Where the loop may stand: at pi in the pattern and ti in the text, with the
\* last star behind it and the text it was at then.  star = 0 is usize::MAX.
Place(pi, ti, star, mark) == [pi |-> pi, ti |-> ti, star |-> star, mark |-> mark]
Places(p, t) ==
    {s \in [pi : 1..(Len(p) + 1), ti : 1..(Len(t) + 1), star : 0..Len(p), mark : 1..(Len(t) + 1)] :
        s.star < s.pi /\ s.mark <= s.ti}
Outset == Place(1, 1, 0, 1)

AtLetter(p, t, s) == s.pi <= Len(p) /\ p[s.pi] \in {AnyOne, t[s.ti]}
AtStar(p, s) == s.pi <= Len(p) /\ p[s.pi] = Star
PastLetter(s) == Place(s.pi + 1, s.ti + 1, s.star, s.mark)
PastStar(s) == Place(s.pi + 1, s.ti, s.pi, s.ti)

\* Mutant: backtracking forgets what the star has taken already.
Back_NoAdvance(s) == Place(s.star + 1, s.ti + 1, s.star, s.mark)

\* Back to the last star, which takes one more character of the text.
Back(s) == Place(s.star + 1, s.mark + 1, s.star, s.mark + 1)

\* The loop: a greedy match with one point to go back to, the last star seen.
Loop(p, t) ==
    LET run[s \in Places(p, t)] ==
            IF s.ti > Len(t) THEN \A i \in s.pi..Len(p) : p[i] = Star
            ELSE IF AtLetter(p, t, s) THEN run[PastLetter(s)]
            ELSE IF AtStar(p, s) THEN run[PastStar(s)]
            ELSE IF s.star # 0 THEN run[Back(s)]
            ELSE FALSE
    IN  run[Outset]

Globs(pattern, text) == Loop(Folded(pattern), Folded(text))

\* What a pattern means: the text can be cut into one piece per character of
\* the pattern, any piece for `*`, a single character otherwise, which is the
\* pattern's own unless that is `?`; case is ignored.
Matches(pattern, text) ==
    \E cut \in [1..(Len(pattern) + 1) -> 1..(Len(text) + 1)] :
        /\ cut[1] = 1 /\ cut[Len(pattern) + 1] = Len(text) + 1
        /\ \A i \in 1..Len(pattern) :
            /\ cut[i] <= cut[i + 1]
            /\ pattern[i] # Star =>
                /\ cut[i + 1] = cut[i] + 1
                /\ pattern[i] # AnyOne => Lower(pattern[i]) = Lower(text[cut[i]])
=============================================================================
