------------------------------ MODULE ScanProofs ------------------------------
(***************************************************************************)
(* Theorems about GlobMatch, Scan and PathForm: the loop with one point to *)
(* go back to accepts what a pattern means; the walk yields, for every     *)
(* tree and under every failure, exactly what can be got to; and what it   *)
(* yields is opened where the roots, however typed, were meant.            *)
(***************************************************************************)
EXTENDS Scan, FiniteSetTheorems, SequenceTheorems, WellFoundedInduction, TLAPS

-------------------------------------------------------------------------------
(* Natural numbers. *)

Before == {p \in Nat \X Nat : p[1] < p[2]}

\* A set of natural numbers that is not empty has a least member.
LEMMA LeastMember ==
    ASSUME NEW T \in SUBSET Nat, T # {}
    PROVE  \E x \in T : \A y \in T : x <= y
<1>1. OpToRel(<, Nat) = Before
  BY Zenon DEF OpToRel, Before
<1>2. IsWellFoundedOn(Before, Nat)
  BY Zenon, <1>1, NatLessThanWellFounded
<1>3. PICK x \in T : \A y \in T : ~ <<y, x>> \in Before
  BY Zenon, <1>2, WFMin
<1>4. ASSUME NEW y \in T PROVE x <= y
  <2>1. <<y, x>> \in Nat \X Nat
    OBVIOUS
  <2>2. <<y, x>>[1] = y /\ <<y, x>>[2] = x
    OBVIOUS
  <2>3. ~ (y < x)
    BY Zenon, <1>3, <2>1, <2>2 DEF Before
  <2> QED BY <2>1, <2>3
<1> QED BY <1>4

\* Induction over the natural numbers, with a set in the place of a predicate.
LEMMA Induction ==
    ASSUME NEW S \in SUBSET Nat, 0 \in S, \A n \in S : n + 1 \in S
    PROVE  S = Nat
<1>1. SUFFICES ASSUME Nat \ S # {} PROVE FALSE
  OBVIOUS
<1>2. PICK x \in Nat \ S : \A y \in Nat \ S : x <= y
  BY <1>1, LeastMember
<1>3. x # 0 /\ x - 1 \in Nat /\ x - 1 \in S
  BY <1>2
<1> QED BY <1>2, <1>3

LEMMA ProductNat ==
    ASSUME NEW a \in Nat, NEW b \in Nat
    PROVE  a * b \in Nat
OBVIOUS

\* One factor more is one multiple more.
LEMMA ProductGap ==
    ASSUME NEW k \in Nat, NEW m \in Nat, NEW a \in Nat, k < m
    PROVE  k * a + a <= m * a
OBVIOUS

LEMMA ProductMonotone ==
    ASSUME NEW k \in Nat, NEW m \in Nat, NEW a \in Nat, k <= m
    PROVE  k * a <= m * a
OBVIOUS

-------------------------------------------------------------------------------
(* A loop as a recursive function: one whose measure falls with every step is *)
(* defined everywhere.                                                       *)

Follows(f, D, ends, says, next) ==
    \A s \in D : f[s] = IF s \in ends THEN s \in says ELSE f[next[s]]

LEMMA LoopsAreDefined ==
    ASSUME NEW D, NEW ends \in SUBSET D, NEW says \in SUBSET D,
           NEW next \in [D -> D], NEW measure \in [D -> Nat], NEW bound \in Nat,
           \A s \in D : measure[s] < bound,
           \A s \in D \ ends : measure[next[s]] < measure[s]
    PROVE  \E f \in [D -> BOOLEAN] : Follows(f, D, ends, says, next)
<1> DEFINE Low(n) == {s \in D : measure[s] < n}
           Holds(f, n) == \A s \in Low(n) : f[s] = IF s \in ends THEN s \in says ELSE f[next[s]]
           S == {n \in Nat : \E f \in [D -> BOOLEAN] : Holds(f, n)}
<1>1. 0 \in S
  <2>1. Holds([s \in D |-> FALSE], 0)
    OBVIOUS
  <2> QED BY <2>1
<1>2. ASSUME NEW n \in S PROVE n + 1 \in S
  <2>1. PICK f \in [D -> BOOLEAN] : Holds(f, n)
    OBVIOUS
  <2> DEFINE g == [s \in D |-> IF s \in Low(n) THEN f[s]
                               ELSE IF s \in ends THEN s \in says ELSE f[next[s]]]
  <2>2. g \in [D -> BOOLEAN]
    <3>1. ASSUME NEW s \in D
          PROVE  (IF s \in Low(n) THEN f[s] ELSE IF s \in ends THEN s \in says ELSE f[next[s]]) \in BOOLEAN
      <4>1. f[s] \in BOOLEAN /\ f[next[s]] \in BOOLEAN
        OBVIOUS
      <4>2. (s \in says) \in BOOLEAN
        OBVIOUS
      <4> QED BY Zenon, <4>1, <4>2
    <3> QED BY Zenon, <3>1
  <2>3. ASSUME NEW s \in Low(n + 1)
        PROVE  g[s] = IF s \in ends THEN s \in says ELSE g[next[s]]
    <3>1. s \notin ends => next[s] \in Low(n)
      BY <2>3
    <3>2. s \notin ends => g[next[s]] = f[next[s]]
      BY <3>1
    <3>3. g[s] = IF s \in ends THEN s \in says ELSE f[next[s]]
      BY <2>1, <2>3
    <3> QED BY <3>2, <3>3
  <2> HIDE DEF g
  <2>4. Holds(g, n + 1)
    BY <2>3
  <2> HIDE DEF Holds
  <2> QED BY <2>2, <2>4
<1>3. S = Nat
  <2> HIDE DEF S
  <2> QED BY <1>1, <1>2, Induction DEF S
<1>4. bound \in S
  BY Zenon, <1>3
<1>5. PICK f \in [D -> BOOLEAN] : Holds(f, bound)
  <2> HIDE DEF Holds
  <2> QED BY <1>4
<1>6. Follows(f, D, ends, says, next)
  BY <1>5 DEF Follows
<1> QED BY <1>6

-------------------------------------------------------------------------------
(* The loop of glob_match: every step finds a later star, or starts later in  *)
(* the text from the same one, or moves on in the pattern.                    *)

Ends(p, t) ==
    {s \in Places(p, t) : s.ti > Len(t) \/ (~AtLetter(p, t, s) /\ ~AtStar(p, s) /\ s.star = 0)}
Says(p, t) ==
    {s \in Places(p, t) : s.ti > Len(t) /\ \A i \in s.pi..Len(p) : p[i] = Star}
Step(p, t, s) ==
    IF AtLetter(p, t, s) THEN PastLetter(s) ELSE IF AtStar(p, s) THEN PastStar(s) ELSE Back(s)
Steps(p, t) == [s \in Places(p, t) |-> IF s \in Ends(p, t) THEN s ELSE Step(p, t, s)]

\* Where the loop stands, as numbers.
Standing(P, T, pi, ti, star, mark) ==
    /\ pi \in Nat /\ ti \in Nat /\ star \in Nat /\ mark \in Nat
    /\ 1 <= pi /\ pi <= P + 1 /\ 1 <= mark /\ mark <= ti /\ ti <= T + 1
    /\ star < pi

LEMMA PlaceFields ==
    ASSUME NEW p \in Seq(Nat), NEW t \in Seq(Nat), NEW s \in Places(p, t)
    PROVE  /\ Standing(Len(p), Len(t), s.pi, s.ti, s.star, s.mark)
           /\ Len(p) \in Nat /\ Len(t) \in Nat
BY DEF Places, Standing

LEMMA PlaceMade ==
    ASSUME NEW p \in Seq(Nat), NEW t \in Seq(Nat), NEW pi, NEW ti, NEW star, NEW mark,
           Standing(Len(p), Len(t), pi, ti, star, mark)
    PROVE  Place(pi, ti, star, mark) \in Places(p, t)
BY DEF Places, Place, Standing

LEMMA PlaceParts ==
    ASSUME NEW pi, NEW ti, NEW star, NEW mark
    PROVE  LET s == Place(pi, ti, star, mark)
           IN  s.pi = pi /\ s.ti = ti /\ s.star = star /\ s.mark = mark
BY DEF Place

\* The three ways on from a place where the loop does not end.
LEMMA StepCases ==
    ASSUME NEW p \in Seq(Nat), NEW t \in Seq(Nat), NEW s \in Places(p, t) \ Ends(p, t)
    PROVE  /\ s.ti <= Len(t)
           /\ \/ /\ s.pi <= Len(p) /\ p[s.pi] \in {AnyOne, t[s.ti]}
                 /\ Step(p, t, s) = Place(s.pi + 1, s.ti + 1, s.star, s.mark)
              \/ /\ s.pi <= Len(p) /\ p[s.pi] = Star /\ p[s.pi] \notin {AnyOne, t[s.ti]}
                 /\ Step(p, t, s) = Place(s.pi + 1, s.ti, s.pi, s.ti)
              \/ /\ s.star # 0 /\ ~(s.pi <= Len(p) /\ p[s.pi] \in {AnyOne, Star, t[s.ti]})
                 /\ Step(p, t, s) = Place(s.star + 1, s.mark + 1, s.star, s.mark + 1)
<1>1. s.ti <= Len(t)
  BY PlaceFields DEF Ends, Standing
<1>2. AtLetter(p, t, s) \/ AtStar(p, s) \/ s.star # 0
  BY Zenon DEF Ends
<1>3. AtLetter(p, t, s) <=> s.pi <= Len(p) /\ p[s.pi] \in {AnyOne, t[s.ti]}
  BY Zenon DEF AtLetter
<1>4. AtStar(p, s) <=> s.pi <= Len(p) /\ p[s.pi] = Star
  BY Zenon DEF AtStar
<1>5. /\ AtLetter(p, t, s) => Step(p, t, s) = Place(s.pi + 1, s.ti + 1, s.star, s.mark)
      /\ ~AtLetter(p, t, s) /\ AtStar(p, s) => Step(p, t, s) = Place(s.pi + 1, s.ti, s.pi, s.ti)
      /\ ~AtLetter(p, t, s) /\ ~AtStar(p, s) =>
            Step(p, t, s) = Place(s.star + 1, s.mark + 1, s.star, s.mark + 1)
  BY Zenon DEF Step, PastLetter, PastStar, Back
<1> QED BY Zenon, <1>1, <1>2, <1>3, <1>4, <1>5

LEMMA StandingOn ==
    ASSUME NEW P \in Nat, NEW T \in Nat, NEW pi, NEW ti, NEW star, NEW mark,
           Standing(P, T, pi, ti, star, mark), ti <= T
    PROVE  /\ pi <= P => Standing(P, T, pi + 1, ti + 1, star, mark)
           /\ pi <= P => Standing(P, T, pi + 1, ti, pi, ti)
           /\ Standing(P, T, star + 1, mark + 1, star, mark + 1)
BY DEF Standing

LEMMA StepStays ==
    ASSUME NEW p \in Seq(Nat), NEW t \in Seq(Nat), NEW s \in Places(p, t) \ Ends(p, t)
    PROVE  Step(p, t, s) \in Places(p, t)
<1>1. Standing(Len(p), Len(t), s.pi, s.ti, s.star, s.mark) /\ s.ti <= Len(t)
  BY PlaceFields, StepCases
<1>2. Len(p) \in Nat /\ Len(t) \in Nat
  OBVIOUS
<1>3. /\ s.pi <= Len(p) => Standing(Len(p), Len(t), s.pi + 1, s.ti + 1, s.star, s.mark)
      /\ s.pi <= Len(p) => Standing(Len(p), Len(t), s.pi + 1, s.ti, s.pi, s.ti)
      /\ Standing(Len(p), Len(t), s.star + 1, s.mark + 1, s.star, s.mark + 1)
  BY Zenon, <1>1, <1>2, StandingOn
<1>4. /\ s.pi <= Len(p) => Place(s.pi + 1, s.ti + 1, s.star, s.mark) \in Places(p, t)
      /\ s.pi <= Len(p) => Place(s.pi + 1, s.ti, s.pi, s.ti) \in Places(p, t)
      /\ Place(s.star + 1, s.mark + 1, s.star, s.mark + 1) \in Places(p, t)
  BY <1>3, PlaceMade
<1> QED BY <1>4, StepCases

\* What is left to do, for a pattern of P and a text of T characters: the stars
\* still to come weigh more than the places in the text, and those more than the
\* rest of the pattern.
PerMark(P) == P + 2
PerStar(P, T) == (T + 1) * PerMark(P) + PerMark(P)
LeftToDo(P, T, pi, star, mark) ==
    (P - star) * PerStar(P, T) + (T + 1 - mark) * PerMark(P) + (P + 1 - pi)
MostToDo(P, T) == P * PerStar(P, T) + (T + 1) * PerMark(P) + P + 2

LEMMA LeftToDoFalls ==
    ASSUME NEW P \in Nat, NEW T \in Nat, NEW pi, NEW ti, NEW star, NEW mark,
           Standing(P, T, pi, ti, star, mark)
    PROVE  /\ LeftToDo(P, T, pi, star, mark) \in Nat
           /\ MostToDo(P, T) \in Nat /\ LeftToDo(P, T, pi, star, mark) < MostToDo(P, T)
           /\ pi <= P => LeftToDo(P, T, pi + 1, star, mark) < LeftToDo(P, T, pi, star, mark)
           /\ pi <= P => LeftToDo(P, T, pi + 1, pi, ti) < LeftToDo(P, T, pi, star, mark)
           /\ ti <= T => LeftToDo(P, T, star + 1, star, mark + 1) < LeftToDo(P, T, pi, star, mark)
<1> DEFINE V == PerMark(P)
           W == PerStar(P, T)
           A(n) == (P - n) * W
           B(m) == (T + 1 - m) * V
<1>1. /\ pi \in Nat /\ ti \in Nat /\ star \in Nat /\ mark \in Nat
      /\ 1 <= pi /\ pi <= P + 1 /\ 1 <= mark /\ mark <= ti /\ ti <= T + 1 /\ star < pi
  BY DEF Standing
<1>2. V \in Nat /\ V = P + 2
  BY DEF PerMark
<1>3. (T + 1) * V \in Nat
  BY <1>2, ProductNat
<1>4. W \in Nat /\ W = (T + 1) * V + V
  BY <1>2, <1>3 DEF PerStar
<1> HIDE DEF V, W
<1>5. A(star) \in Nat /\ A(star) <= P * W /\ P * W \in Nat
  <2>1. P - star \in Nat /\ P - star <= P
    BY <1>1
  <2> QED BY <1>4, <2>1, ProductNat, ProductMonotone
<1>6. ASSUME NEW m \in 1..(T + 1) PROVE B(m) \in Nat /\ B(m) <= (T + 1) * V
  <2>1. T + 1 - m \in Nat /\ T + 1 - m <= T + 1 /\ T + 1 \in Nat
    OBVIOUS
  <2> QED BY <1>2, <2>1, ProductNat, ProductMonotone
<1>7. pi <= P => A(pi) \in Nat /\ A(pi) + W <= A(star)
  <2>1. ASSUME pi <= P PROVE P - pi \in Nat /\ P - star \in Nat /\ P - pi < P - star
    BY <1>1, <2>1
  <2> QED BY <1>4, <2>1, ProductNat, ProductGap
<1>8. ti <= T => B(mark + 1) \in Nat /\ B(mark + 1) + V <= B(mark)
  <2>1. ASSUME ti <= T
        PROVE  T + 1 - (mark + 1) \in Nat /\ T + 1 - mark \in Nat /\ T + 1 - (mark + 1) < T + 1 - mark
    BY <1>1, <2>1
  <2> QED BY <1>2, <2>1, ProductNat, ProductGap
<1>9. /\ \A k, n, m : LeftToDo(P, T, k, n, m) = A(n) + B(m) + (P + 1 - k)
      /\ MostToDo(P, T) = P * W + (T + 1) * V + P + 2
  BY DEF LeftToDo, MostToDo, V, W
<1>10. mark \in 1..(T + 1) /\ ti \in 1..(T + 1)
  BY <1>1
<1>11. B(mark) \in Nat /\ B(mark) <= (T + 1) * V /\ B(ti) \in Nat /\ B(ti) <= (T + 1) * V
  BY <1>6, <1>10
<1> HIDE DEF A, B
<1>12. LeftToDo(P, T, pi, star, mark) \in Nat /\ MostToDo(P, T) \in Nat
       /\ LeftToDo(P, T, pi, star, mark) < MostToDo(P, T)
  BY <1>1, <1>3, <1>5, <1>9, <1>11
<1>13. pi <= P => LeftToDo(P, T, pi + 1, star, mark) < LeftToDo(P, T, pi, star, mark)
  BY <1>1, <1>5, <1>9, <1>11
<1>14. pi <= P => LeftToDo(P, T, pi + 1, pi, ti) < LeftToDo(P, T, pi, star, mark)
  BY <1>1, <1>2, <1>3, <1>4, <1>5, <1>7, <1>9, <1>11
<1>15. ti <= T => LeftToDo(P, T, star + 1, star, mark + 1) < LeftToDo(P, T, pi, star, mark)
  BY <1>1, <1>2, <1>5, <1>8, <1>9, <1>11
<1> QED BY <1>12, <1>13, <1>14, <1>15

ToDo(p, t) == [s \in Places(p, t) |-> LeftToDo(Len(p), Len(t), s.pi, s.star, s.mark)]

LEMMA ToDoFalls ==
    ASSUME NEW p \in Seq(Nat), NEW t \in Seq(Nat)
    PROVE  /\ ToDo(p, t) \in [Places(p, t) -> Nat]
           /\ MostToDo(Len(p), Len(t)) \in Nat
           /\ \A s \in Places(p, t) : ToDo(p, t)[s] < MostToDo(Len(p), Len(t))
           /\ \A s \in Places(p, t) \ Ends(p, t) :
                Step(p, t, s) \in Places(p, t) /\ ToDo(p, t)[Step(p, t, s)] < ToDo(p, t)[s]
<1>1. Len(p) \in Nat /\ Len(t) \in Nat
  OBVIOUS
<1>2. ASSUME NEW s \in Places(p, t)
      PROVE  /\ LeftToDo(Len(p), Len(t), s.pi, s.star, s.mark) \in Nat
             /\ LeftToDo(Len(p), Len(t), s.pi, s.star, s.mark) < MostToDo(Len(p), Len(t))
             /\ MostToDo(Len(p), Len(t)) \in Nat
  BY Zenon, <1>1, PlaceFields, LeftToDoFalls
<1>3. Outset \in Places(p, t)
  <2>1. Standing(Len(p), Len(t), 1, 1, 0, 1)
    BY <1>1 DEF Standing
  <2> QED BY <2>1, PlaceMade DEF Outset
<1>4. ASSUME NEW s \in Places(p, t) \ Ends(p, t)
      PROVE  /\ Step(p, t, s) \in Places(p, t)
             /\ ToDo(p, t)[Step(p, t, s)] < ToDo(p, t)[s]
  <2>1. Step(p, t, s) \in Places(p, t)
    BY StepStays
  <2>2. Standing(Len(p), Len(t), s.pi, s.ti, s.star, s.mark)
    BY PlaceFields
  <2>3. /\ s.pi <= Len(p) => LeftToDo(Len(p), Len(t), s.pi + 1, s.star, s.mark)
                             < LeftToDo(Len(p), Len(t), s.pi, s.star, s.mark)
        /\ s.pi <= Len(p) => LeftToDo(Len(p), Len(t), s.pi + 1, s.pi, s.ti)
                             < LeftToDo(Len(p), Len(t), s.pi, s.star, s.mark)
        /\ s.ti <= Len(t) => LeftToDo(Len(p), Len(t), s.star + 1, s.star, s.mark + 1)
                             < LeftToDo(Len(p), Len(t), s.pi, s.star, s.mark)
    BY Zenon, <1>1, <2>2, LeftToDoFalls
  <2>4. LET u == Step(p, t, s)
        IN  LeftToDo(Len(p), Len(t), u.pi, u.star, u.mark)
            < LeftToDo(Len(p), Len(t), s.pi, s.star, s.mark)
    BY <2>3, StepCases, PlaceParts
  <2> QED BY <2>1, <2>4 DEF ToDo
<1>5. ToDo(p, t) \in [Places(p, t) -> Nat]
  BY <1>2 DEF ToDo
<1>6. \A s \in Places(p, t) : ToDo(p, t)[s] < MostToDo(Len(p), Len(t))
  BY <1>2 DEF ToDo
<1> QED BY <1>2, <1>3, <1>4, <1>5, <1>6

\* The loop always ends, so its recursive function is defined.
LEMMA LoopRuns ==
    ASSUME NEW p \in Seq(Nat), NEW t \in Seq(Nat)
    PROVE  \E run :
                /\ Follows(run, Places(p, t), Ends(p, t), Says(p, t), Steps(p, t))
                /\ Loop(p, t) = run[Outset]
<1> DEFINE D == Places(p, t)
           Body(f) == [s \in D |->
                IF s.ti > Len(t) THEN \A i \in s.pi..Len(p) : p[i] = Star
                ELSE IF AtLetter(p, t, s) THEN f[PastLetter(s)]
                ELSE IF AtStar(p, s) THEN f[PastStar(s)]
                ELSE IF s.star # 0 THEN f[Back(s)]
                ELSE FALSE]
           run == CHOOSE f : f = Body(f)
<1>1. Ends(p, t) \subseteq D /\ Says(p, t) \subseteq D
  BY DEF Ends, Says
<1>2. Steps(p, t) \in [D -> D]
  BY ToDoFalls DEF Steps
<1>3. \A s \in D \ Ends(p, t) : ToDo(p, t)[Steps(p, t)[s]] < ToDo(p, t)[s]
  BY ToDoFalls DEF Steps
<1>4. PICK f \in [D -> BOOLEAN] : Follows(f, D, Ends(p, t), Says(p, t), Steps(p, t))
  BY Zenon, <1>1, <1>2, <1>3, ToDoFalls, LoopsAreDefined
<1>5. ASSUME NEW g, NEW s \in D
      PROVE  Body(g)[s] = IF s \in Ends(p, t) THEN s \in Says(p, t) ELSE g[Steps(p, t)[s]]
  <2>1. Body(g)[s] =
            IF s.ti > Len(t) THEN \A i \in s.pi..Len(p) : p[i] = Star
            ELSE IF AtLetter(p, t, s) THEN g[PastLetter(s)]
            ELSE IF AtStar(p, s) THEN g[PastStar(s)]
            ELSE IF s.star # 0 THEN g[Back(s)]
            ELSE FALSE
    BY Zenon
  <2>2. s \in Says(p, t) <=> s.ti > Len(t) /\ \A i \in s.pi..Len(p) : p[i] = Star
    BY Zenon DEF Says
  <2>3. s \in Ends(p, t) <=> s.ti > Len(t) \/ (~AtLetter(p, t, s) /\ ~AtStar(p, s) /\ s.star = 0)
    BY Zenon DEF Ends
  <2>4. s \notin Ends(p, t) => Steps(p, t)[s] = Step(p, t, s)
    BY Zenon DEF Steps
  <2> HIDE DEF Body
  <2>5. CASE s.ti > Len(t)
    <3>1. Body(g)[s] = \A i \in s.pi..Len(p) : p[i] = Star
      BY Zenon, <2>1, <2>5
    <3>2. CASE \A i \in s.pi..Len(p) : p[i] = Star
      <4>1. Body(g)[s] = TRUE
        BY Zenon, <3>1, <3>2
      <4>2. (s \in Says(p, t)) = TRUE
        BY <2>2, <2>5, <3>2
      <4> QED BY Zenon, <2>3, <2>5, <4>1, <4>2
    <3>3. CASE ~(\A i \in s.pi..Len(p) : p[i] = Star)
      <4>1. Body(g)[s] = FALSE
        BY Zenon, <3>1, <3>3
      <4>2. (s \in Says(p, t)) = FALSE
        BY <2>2, <3>3
      <4> QED BY Zenon, <2>3, <2>5, <4>1, <4>2
    <3> QED BY <3>2, <3>3
  <2>6. CASE ~(s.ti > Len(t)) /\ s \in Ends(p, t)
    <3>1. Body(g)[s] = FALSE
      BY Zenon, <2>1, <2>3, <2>6
    <3>2. (s \in Says(p, t)) = FALSE
      BY <2>2, <2>6
    <3> QED BY Zenon, <2>6, <3>1, <3>2
  <2>7. CASE ~(s.ti > Len(t)) /\ s \notin Ends(p, t)
    <3>1. Body(g)[s] = g[Step(p, t, s)]
      BY Zenon, <2>1, <2>3, <2>7 DEF Step
    <3>2. Body(g)[s] = g[Steps(p, t)[s]]
      BY Zenon, <2>4, <2>7, <3>1
    <3> QED BY Zenon, <2>7, <3>2
  <2> QED BY Zenon, <2>5, <2>6, <2>7
<1>6. f = Body(f)
  <2>1. ASSUME NEW s \in D PROVE f[s] = Body(f)[s]
    <3>1. f[s] = IF s \in Ends(p, t) THEN s \in Says(p, t) ELSE f[Steps(p, t)[s]]
      BY Zenon, <1>4 DEF Follows
    <3>2. Body(f)[s] = IF s \in Ends(p, t) THEN s \in Says(p, t) ELSE f[Steps(p, t)[s]]
      BY Zenon, <1>5
    <3> DEFINE answer == IF s \in Ends(p, t) THEN s \in Says(p, t) ELSE f[Steps(p, t)[s]]
    <3>3. f[s] = answer /\ Body(f)[s] = answer
      BY Zenon, <3>1, <3>2
    <3> HIDE DEF answer, Body
    <3> QED BY Zenon, <3>3
  <2>2. f = [s \in D |-> f[s]]
    BY Zenon
  <2>3. Body(f) = [s \in D |-> Body(f)[s]]
    BY Zenon
  <2> QED BY Zenon, <2>1, <2>2, <2>3
<1>7. run = Body(run)
  BY Zenon, <1>6
<1>8. Follows(run, D, Ends(p, t), Says(p, t), Steps(p, t))
  <2>1. ASSUME NEW s \in D
        PROVE  run[s] = IF s \in Ends(p, t) THEN s \in Says(p, t) ELSE run[Steps(p, t)[s]]
    <3>1. Body(run)[s] = IF s \in Ends(p, t) THEN s \in Says(p, t) ELSE run[Steps(p, t)[s]]
      BY Zenon, <1>5
    <3> HIDE DEF Body, run
    <3> QED BY Zenon, <1>7, <3>1
  <2> QED BY Zenon, <2>1 DEF Follows
<1>9. Loop(p, t) = run[Outset]
  BY Zenon DEF Loop
<1> QED BY Zenon, <1>8, <1>9

-------------------------------------------------------------------------------
(* What the rest of a pattern means for the rest of a text.                   *)

\* A piece of the text from j to m - 1 for the i-th character of the pattern.
Piece(p, t, i, j, m) ==
    /\ j <= m
    /\ p[i] # Star => m = j + 1 /\ (p[i] # AnyOne => p[i] = t[j])

Cuts(p, t, i, cut) ==
    /\ cut \in [i..(Len(p) + 1) -> 1..(Len(t) + 1)]
    /\ cut[Len(p) + 1] = Len(t) + 1
    /\ \A k \in i..Len(p) : Piece(p, t, k, cut[k], cut[k + 1])

\* The pattern from i on takes the text from j on.
Fits(p, t, i, j) == \E cut : Cuts(p, t, i, cut) /\ cut[i] = j

LEMMA FitsInText ==
    ASSUME NEW p \in Seq(Nat), NEW t \in Seq(Nat), NEW i \in 1..(Len(p) + 1), NEW j, Fits(p, t, i, j)
    PROVE  j \in 1..(Len(t) + 1)
<1>1. PICK cut : Cuts(p, t, i, cut) /\ cut[i] = j
  BY DEF Fits
<1>2. i \in i..(Len(p) + 1)
  OBVIOUS
<1> QED BY <1>1, <1>2 DEF Cuts

LEMMA FitsEnd ==
    ASSUME NEW p \in Seq(Nat), NEW t \in Seq(Nat), NEW j
    PROVE  Fits(p, t, Len(p) + 1, j) <=> j = Len(t) + 1
<1>1. Fits(p, t, Len(p) + 1, j) => j = Len(t) + 1
  BY DEF Fits, Cuts
<1>2. Fits(p, t, Len(p) + 1, Len(t) + 1)
  <2> DEFINE cut == [k \in (Len(p) + 1)..(Len(p) + 1) |-> Len(t) + 1]
  <2>1. cut \in [(Len(p) + 1)..(Len(p) + 1) -> 1..(Len(t) + 1)]
    OBVIOUS
  <2>2. cut[Len(p) + 1] = Len(t) + 1
    OBVIOUS
  <2>3. (Len(p) + 1)..Len(p) = {}
    OBVIOUS
  <2> HIDE DEF cut
  <2>4. Cuts(p, t, Len(p) + 1, cut)
    BY <2>1, <2>2, <2>3 DEF Cuts
  <2> QED BY <2>2, <2>4 DEF Fits
<1> QED BY <1>1, <1>2

\* The first character takes its piece, the others the rest.
LEMMA FitsFirst ==
    ASSUME NEW p \in Seq(Nat), NEW t \in Seq(Nat),
           NEW i \in 1..Len(p), NEW j \in 1..(Len(t) + 1)
    PROVE  Fits(p, t, i, j) <=>
                \E m \in 1..(Len(t) + 1) : Piece(p, t, i, j, m) /\ Fits(p, t, i + 1, m)
<1>1. i + 1 \in 1..(Len(p) + 1) /\ i..Len(p) = {i} \cup (i + 1)..Len(p)
      /\ i..(Len(p) + 1) = {i} \cup (i + 1)..(Len(p) + 1) /\ i + 1 \in (i + 1)..(Len(p) + 1)
  OBVIOUS
<1>2. ASSUME Fits(p, t, i, j)
      PROVE  \E m \in 1..(Len(t) + 1) : Piece(p, t, i, j, m) /\ Fits(p, t, i + 1, m)
  <2>1. PICK cut : Cuts(p, t, i, cut) /\ cut[i] = j
    BY <1>2 DEF Fits
  <2> DEFINE rest == [k \in (i + 1)..(Len(p) + 1) |-> cut[k]]
  <2>2. /\ cut[i + 1] \in 1..(Len(t) + 1) /\ Piece(p, t, i, j, cut[i + 1])
        /\ \A k \in (i + 1)..(Len(p) + 1) : cut[k] \in 1..(Len(t) + 1)
        /\ \A k \in (i + 1)..Len(p) : Piece(p, t, k, cut[k], cut[k + 1])
        /\ cut[Len(p) + 1] = Len(t) + 1
    BY <1>1, <2>1 DEF Cuts
  <2>3. \A k \in (i + 1)..(Len(p) + 1) : rest[k] = cut[k]
    OBVIOUS
  <2>4. rest \in [(i + 1)..(Len(p) + 1) -> 1..(Len(t) + 1)]
    BY <2>2
  <2> HIDE DEF rest
  <2>5. Len(p) + 1 \in (i + 1)..(Len(p) + 1)
        /\ \A k \in (i + 1)..Len(p) : k \in (i + 1)..(Len(p) + 1) /\ k + 1 \in (i + 1)..(Len(p) + 1)
    OBVIOUS
  <2>6. Cuts(p, t, i + 1, rest) /\ rest[i + 1] = cut[i + 1]
    BY <1>1, <2>2, <2>3, <2>4, <2>5 DEF Cuts
  <2> QED BY <2>2, <2>6 DEF Fits
<1>3. ASSUME NEW m \in 1..(Len(t) + 1), Piece(p, t, i, j, m), Fits(p, t, i + 1, m)
      PROVE  Fits(p, t, i, j)
  <2>1. PICK rest : Cuts(p, t, i + 1, rest) /\ rest[i + 1] = m
    BY <1>3 DEF Fits
  <2> DEFINE cut == [k \in i..(Len(p) + 1) |-> IF k = i THEN j ELSE rest[k]]
  <2>2. /\ rest \in [(i + 1)..(Len(p) + 1) -> 1..(Len(t) + 1)]
        /\ rest[Len(p) + 1] = Len(t) + 1
        /\ \A k \in (i + 1)..Len(p) : Piece(p, t, k, rest[k], rest[k + 1])
    BY <2>1 DEF Cuts
  <2>3. cut[i] = j /\ \A k \in (i + 1)..(Len(p) + 1) : cut[k] = rest[k]
    BY <1>1
  <2>4. cut \in [i..(Len(p) + 1) -> 1..(Len(t) + 1)]
    BY <2>2
  <2> HIDE DEF cut
  <2>5. Len(p) + 1 \in (i + 1)..(Len(p) + 1)
        /\ \A k \in (i + 1)..Len(p) : k \in (i + 1)..(Len(p) + 1) /\ k + 1 \in (i + 1)..(Len(p) + 1)
    OBVIOUS
  <2>6. \A k \in i..Len(p) : Piece(p, t, k, cut[k], cut[k + 1])
    <3>1. Piece(p, t, i, cut[i], cut[i + 1])
      BY <1>1, <1>3, <2>1, <2>3
    <3>2. \A k \in (i + 1)..Len(p) : Piece(p, t, k, cut[k], cut[k + 1])
      BY <2>2, <2>3, <2>5
    <3> QED BY <1>1, <3>1, <3>2
  <2>7. cut[Len(p) + 1] = Len(t) + 1
    BY <2>2, <2>3, <2>5
  <2>8. Cuts(p, t, i, cut)
    BY Zenon, <2>4, <2>6, <2>7 DEF Cuts
  <2> QED BY <2>3, <2>8 DEF Fits
<1> QED BY <1>2, <1>3

LEMMA FitsLetter ==
    ASSUME NEW p \in Seq(Nat), NEW t \in Seq(Nat),
           NEW i \in 1..Len(p), NEW j \in 1..(Len(t) + 1), p[i] # Star
    PROVE  Fits(p, t, i, j) <=>
                j <= Len(t) /\ p[i] \in {AnyOne, t[j]} /\ Fits(p, t, i + 1, j + 1)
<1>1. \A m \in 1..(Len(t) + 1) : Piece(p, t, i, j, m) <=> m = j + 1 /\ p[i] \in {AnyOne, t[j]}
  BY DEF Piece
<1>2. j + 1 \in 1..(Len(t) + 1) <=> j <= Len(t)
  OBVIOUS
<1>3. Fits(p, t, i, j) <=>
            \E m \in 1..(Len(t) + 1) : Piece(p, t, i, j, m) /\ Fits(p, t, i + 1, m)
  BY FitsFirst
<1> QED BY Zenon, <1>1, <1>2, <1>3

LEMMA FitsStar ==
    ASSUME NEW p \in Seq(Nat), NEW t \in Seq(Nat),
           NEW i \in 1..Len(p), NEW j \in 1..(Len(t) + 1), p[i] = Star
    PROVE  Fits(p, t, i, j) <=> \E m \in 1..(Len(t) + 1) : j <= m /\ Fits(p, t, i + 1, m)
<1>1. \A m \in 1..(Len(t) + 1) : Piece(p, t, i, j, m) <=> j <= m
  BY Zenon DEF Piece
<1>2. Fits(p, t, i, j) <=>
            \E m \in 1..(Len(t) + 1) : Piece(p, t, i, j, m) /\ Fits(p, t, i + 1, m)
  BY FitsFirst
<1> QED BY Zenon, <1>1, <1>2

\* Without a star each character takes one.
LEMMA FitsRun ==
    ASSUME NEW p \in Seq(Nat), NEW t \in Seq(Nat),
           NEW i \in 1..(Len(p) + 1), NEW j \in 1..(Len(t) + 1), Fits(p, t, i, j),
           NEW k \in i..(Len(p) + 1), \A n \in i..(k - 1) : p[n] # Star
    PROVE  j + (k - i) \in 1..(Len(t) + 1) /\ Fits(p, t, k, j + (k - i))
<1> DEFINE S == {n \in Nat : i + n <= k => Fits(p, t, i + n, j + n)}
<1>1. 0 \in S
  OBVIOUS
<1>2. ASSUME NEW n \in S PROVE n + 1 \in S
  <2>1. SUFFICES ASSUME i + (n + 1) <= k PROVE Fits(p, t, i + (n + 1), j + (n + 1))
    OBVIOUS
  <2>2. i + n \in 1..Len(p) /\ i + n \in i..(k - 1) /\ i + n \in 1..(Len(p) + 1)
    BY <2>1
  <2>3. Fits(p, t, i + n, j + n)
    BY <2>1
  <2>4. j + n \in 1..(Len(t) + 1)
    BY <2>2, <2>3, FitsInText
  <2>5. p[i + n] # Star
    BY <2>2
  <2>6. Fits(p, t, (i + n) + 1, (j + n) + 1)
    BY <2>2, <2>3, <2>4, <2>5, FitsLetter
  <2> QED BY <2>6
<1>3. S = Nat
  <2> HIDE DEF S
  <2> QED BY <1>1, <1>2, Induction DEF S
<1>4. k - i \in Nat /\ i + (k - i) = k
  OBVIOUS
<1>5. Fits(p, t, i + (k - i), j + (k - i))
  <2>1. k - i \in S
    BY Zenon, <1>3, <1>4
  <2> QED BY <1>4, <2>1
<1>6. k \in 1..(Len(p) + 1)
  OBVIOUS
<1> QED BY <1>4, <1>5, <1>6, FitsInText

\* At the end of the text only stars are left to fit.
LEMMA FitsNothing ==
    ASSUME NEW p \in Seq(Nat), NEW t \in Seq(Nat), NEW i \in 1..(Len(p) + 1)
    PROVE  Fits(p, t, i, Len(t) + 1) <=> \A k \in i..Len(p) : p[k] = Star
<1> DEFINE T == Len(t) + 1
<1>1. T \in 1..(Len(t) + 1)
  OBVIOUS
<1>2. \A k \in 1..Len(p) : Fits(p, t, k, T) => p[k] = Star /\ Fits(p, t, k + 1, T)
  <2> SUFFICES ASSUME NEW k \in 1..Len(p), Fits(p, t, k, T)
               PROVE  p[k] = Star /\ Fits(p, t, k + 1, T)
    OBVIOUS
  <2>1. p[k] = Star
    <3>1. SUFFICES ASSUME p[k] # Star PROVE FALSE
      OBVIOUS
    <3>2. T <= Len(t)
      BY <1>1, <3>1, FitsLetter
    <3> QED BY <3>2
  <2>2. PICK m \in 1..(Len(t) + 1) : T <= m /\ Fits(p, t, k + 1, m)
    BY <1>1, <2>1, FitsStar
  <2>3. m = T
    <3>1. Len(t) \in Nat /\ m \in Nat /\ m <= Len(t) + 1
      BY <2>2
    <3> QED BY <2>2, <3>1
  <2> QED BY <2>1, <2>2, <2>3
<1>3. \A k \in 1..Len(p) : p[k] = Star /\ Fits(p, t, k + 1, T) => Fits(p, t, k, T)
  <2> SUFFICES ASSUME NEW k \in 1..Len(p), p[k] = Star, Fits(p, t, k + 1, T)
               PROVE  Fits(p, t, k, T)
    OBVIOUS
  <2>1. T <= T
    BY <1>1
  <2> QED BY <1>1, <2>1, FitsStar
<1>4. Fits(p, t, Len(p) + 1, T)
  BY FitsEnd
<1>5. ASSUME Fits(p, t, i, T), NEW k \in i..Len(p) PROVE p[k] = Star
  <2> DEFINE S == {n \in Nat : i + n <= Len(p) + 1 => Fits(p, t, i + n, T)}
  <2>1. 0 \in S
    BY <1>5
  <2>2. ASSUME NEW n \in S PROVE n + 1 \in S
    <3> HIDE DEF T
    <3>1. SUFFICES ASSUME i + (n + 1) <= Len(p) + 1 PROVE Fits(p, t, i + (n + 1), T)
      OBVIOUS
    <3>2. i + n \in 1..Len(p) /\ Fits(p, t, i + n, T)
      BY <3>1
    <3>3. Fits(p, t, (i + n) + 1, T)
      BY <1>2, <3>2
    <3> QED BY <3>3
  <2>3. S = Nat
    <3> HIDE DEF S
    <3> QED BY <2>1, <2>2, Induction DEF S
  <2>4. k - i \in Nat /\ i + (k - i) = k /\ k \in 1..Len(p) /\ i + (k - i) <= Len(p) + 1
    OBVIOUS
  <2>5. Fits(p, t, k, T)
    <3>1. k - i \in S
      BY Zenon, <2>3, <2>4
    <3> QED BY <2>4, <3>1
  <2> QED BY <1>2, <2>4, <2>5
<1>6. ASSUME \A k \in i..Len(p) : p[k] = Star PROVE Fits(p, t, i, T)
  <2> DEFINE S == {n \in Nat : i <= Len(p) + 1 - n => Fits(p, t, Len(p) + 1 - n, T)}
  <2>1. 0 \in S
    BY <1>4
  <2>2. ASSUME NEW n \in S PROVE n + 1 \in S
    <3> HIDE DEF T
    <3>1. SUFFICES ASSUME i <= Len(p) + 1 - (n + 1) PROVE Fits(p, t, Len(p) + 1 - (n + 1), T)
      OBVIOUS
    <3> DEFINE k == Len(p) + 1 - (n + 1)
    <3>2. k \in i..Len(p) /\ k \in 1..Len(p) /\ k + 1 = Len(p) + 1 - n /\ i <= Len(p) + 1 - n
      BY <3>1
    <3>3. Fits(p, t, k + 1, T)
      BY <3>2
    <3> QED BY <1>3, <1>6, <3>2, <3>3
  <2>3. S = Nat
    <3> HIDE DEF S
    <3> QED BY <2>1, <2>2, Induction DEF S
  <2>4. Len(p) + 1 - i \in Nat /\ Len(p) + 1 - (Len(p) + 1 - i) = i /\ i <= i
    OBVIOUS
  <2>5. Len(p) + 1 - i \in S
    BY Zenon, <2>3, <2>4
  <2> QED BY <2>4, <2>5
<1> QED BY <1>5, <1>6

-------------------------------------------------------------------------------
(* The loop accepts when the rest fits from where it stands, or would from a  *)
(* later start after the last star: no earlier star need be gone back to.     *)

Recoverable(p, t, star, mark) == \E j \in 1..(Len(t) + 1) : mark < j /\ Fits(p, t, star + 1, j)
Hope(p, t, s) == Fits(p, t, s.pi, s.ti) \/ (s.star # 0 /\ Recoverable(p, t, s.star, s.mark))

\* Since the last star one character took one.
SteadyAt(p, pi, ti, star, mark) ==
    star # 0 =>
        /\ ti - mark = pi - star - 1
        /\ \A k \in (star + 1)..(pi - 1) : p[k] # Star
Steady(p, s) == SteadyAt(p, s.pi, s.ti, s.star, s.mark)

LEMMA SteadyOn ==
    ASSUME NEW p, NEW pi \in Nat, NEW ti \in Nat, NEW star \in Nat, NEW mark \in Nat
    PROVE  /\ SteadyAt(p, pi, ti, star, mark) /\ p[pi] # Star => SteadyAt(p, pi + 1, ti + 1, star, mark)
           /\ SteadyAt(p, pi + 1, ti, pi, ti)
<1>1. ASSUME SteadyAt(p, pi, ti, star, mark), p[pi] # Star
      PROVE  SteadyAt(p, pi + 1, ti + 1, star, mark)
  <2> SUFFICES ASSUME star # 0
               PROVE  /\ ti + 1 - mark = pi + 1 - star - 1
                      /\ \A k \in (star + 1)..(pi + 1 - 1) : p[k] # Star
    BY DEF SteadyAt
  <2>1. ti - mark = pi - star - 1 /\ \A k \in (star + 1)..(pi - 1) : p[k] # Star
    BY <1>1 DEF SteadyAt
  <2>2. \A k \in (star + 1)..(pi + 1 - 1) : k = pi \/ k \in (star + 1)..(pi - 1)
    OBVIOUS
  <2> QED BY <1>1, <2>1, <2>2
<1>2. SteadyAt(p, pi + 1, ti, pi, ti)
  BY DEF SteadyAt
<1> QED BY <1>1, <1>2

LEMMA Numbers ==
    ASSUME NEW i \in Nat, NEW k \in Nat, NEW n \in Nat
    PROVE  /\ 1 <= i /\ i <= n + 1 /\ i # n + 1 => i \in 1..n /\ i <= n
           /\ i <= k /\ k <= n => i + 1 \in 1..(n + 1)
           /\ \A m \in 1..(n + 1) : i < m <=> m = i + 1 \/ i + 1 < m
OBVIOUS

\* A later start arrives here later.
LEMMA LaterStart ==
    ASSUME NEW p \in Seq(Nat), NEW t \in Seq(Nat), NEW s \in Places(p, t), Steady(p, s),
           s.star # 0, Recoverable(p, t, s.star, s.mark)
    PROVE  \E m \in 1..(Len(t) + 1) : s.ti < m /\ Fits(p, t, s.pi, m)
<1>1. PICK j \in 1..(Len(t) + 1) : s.mark < j /\ Fits(p, t, s.star + 1, j)
  BY DEF Recoverable
<1> DEFINE i == s.star + 1
           k == s.pi
<1>2. /\ s.pi \in Nat /\ s.ti \in Nat /\ s.star \in Nat /\ s.mark \in Nat
      /\ s.pi <= Len(p) + 1 /\ s.star < s.pi
  BY PlaceFields DEF Standing
<1>3. i \in 1..(Len(p) + 1) /\ k \in i..(Len(p) + 1)
  BY <1>2
<1>4. \A n \in i..(k - 1) : p[n] # Star
  BY DEF Steady, SteadyAt
<1>5. j + (k - i) \in 1..(Len(t) + 1) /\ Fits(p, t, k, j + (k - i))
  <2> HIDE DEF i, k
  <2>1. Fits(p, t, i, j)
    BY <1>1 DEF i
  <2> QED BY <1>3, <1>4, <2>1, FitsRun
<1>6. s.ti < j + (k - i)
  <2>1. s.ti - s.mark = s.pi - s.star - 1
    BY Zenon DEF Steady, SteadyAt
  <2>2. j \in Nat /\ s.mark < j
    BY <1>1
  <2>3. \A pi, ti, star, mark, n \in Nat :
            ti - mark = pi - star - 1 /\ mark < n => ti < n + (pi - (star + 1))
    OBVIOUS
  <2> QED BY Zenon, <1>2, <2>1, <2>2, <2>3
<1> QED BY <1>5, <1>6

LEMMA HopeAtTheEnd ==
    ASSUME NEW p \in Seq(Nat), NEW t \in Seq(Nat), NEW s \in Ends(p, t), Steady(p, s)
    PROVE  s \in Says(p, t) <=> Hope(p, t, s)
<1>1. s \in Places(p, t)
  BY DEF Ends
<1>2. /\ s.pi \in Nat /\ s.ti \in Nat /\ s.star \in Nat /\ s.mark \in Nat
      /\ 1 <= s.pi /\ s.pi <= Len(p) + 1 /\ 1 <= s.ti /\ s.ti <= Len(t) + 1 /\ Len(t) \in Nat
  BY <1>1, PlaceFields DEF Standing
<1>3. CASE s.ti > Len(t)
  <2>1. s.ti = Len(t) + 1
    BY <1>2, <1>3
  <2>2. s.pi \in 1..(Len(p) + 1)
    BY <1>2
  <2>3. Fits(p, t, s.pi, s.ti) <=> \A k \in s.pi..Len(p) : p[k] = Star
    BY Zenon, <2>1, <2>2, FitsNothing
  <2>4. ~(s.star # 0 /\ Recoverable(p, t, s.star, s.mark))
    <3>1. ~ \E m \in 1..(Len(t) + 1) : s.ti < m
      BY <1>2, <2>1
    <3> QED BY <1>1, <3>1, LaterStart
  <2>5. s \in Says(p, t) <=> \A k \in s.pi..Len(p) : p[k] = Star
    BY Zenon, <1>1, <1>3 DEF Says
  <2> QED BY Zenon, <2>3, <2>4, <2>5 DEF Hope
<1>4. CASE ~(s.ti > Len(t))
  <2>1. ~AtLetter(p, t, s) /\ ~AtStar(p, s) /\ s.star = 0
    BY Zenon, <1>4 DEF Ends
  <2>2. s \notin Says(p, t)
    BY Zenon, <1>4 DEF Says
  <2>3. ~Fits(p, t, s.pi, s.ti)
    <3>1. s.ti <= Len(t) /\ s.ti \in 1..(Len(t) + 1)
      BY <1>2, <1>4
    <3>2. CASE s.pi = Len(p) + 1
      <4>1. s.ti # Len(t) + 1
        BY <1>2, <3>1
      <4> QED BY <3>2, <4>1, FitsEnd
    <3>3. CASE s.pi # Len(p) + 1
      <4>1. s.pi \in 1..Len(p) /\ s.pi <= Len(p)
        BY <1>2, <3>3
      <4>2. p[s.pi] \notin {AnyOne, t[s.ti]} /\ p[s.pi] # Star
        BY Zenon, <2>1, <4>1 DEF AtLetter, AtStar
      <4> QED BY Zenon, <3>1, <4>1, <4>2, FitsLetter
    <3> QED BY <3>2, <3>3
  <2> QED BY Zenon, <2>1, <2>2, <2>3 DEF Hope
<1> QED BY <1>3, <1>4

LEMMA HopeStays ==
    ASSUME NEW p \in Seq(Nat), NEW t \in Seq(Nat), Star \notin ToSet(t),
           NEW s \in Places(p, t) \ Ends(p, t), Steady(p, s)
    PROVE  Steady(p, Step(p, t, s)) /\ (Hope(p, t, Step(p, t, s)) <=> Hope(p, t, s))
<1> DEFINE u == Step(p, t, s)
<1>1. /\ s.pi \in Nat /\ s.ti \in Nat /\ s.star \in Nat /\ s.mark \in Nat
      /\ 1 <= s.pi /\ s.pi <= Len(p) + 1 /\ 1 <= s.mark /\ s.mark <= s.ti /\ s.ti <= Len(t)
      /\ s.star < s.pi /\ Len(p) \in Nat /\ Len(t) \in Nat
  BY PlaceFields, StepCases DEF Standing
<1>2. s.ti \in 1..(Len(t) + 1) /\ s.ti \in DOMAIN t
  BY <1>1
<1>3. t[s.ti] # Star
  BY Zenon, <1>2 DEF ToSet
<1> SUFFICES Steady(p, u) /\ (Hope(p, t, u) <=> Hope(p, t, s))
  OBVIOUS
<1> HIDE DEF u
<1>4. CASE /\ s.pi <= Len(p) /\ p[s.pi] \in {AnyOne, t[s.ti]}
           /\ u = Place(s.pi + 1, s.ti + 1, s.star, s.mark)
  <2>1. u.pi = s.pi + 1 /\ u.ti = s.ti + 1 /\ u.star = s.star /\ u.mark = s.mark
    BY <1>4, PlaceParts
  <2>2. s.pi \in 1..Len(p)
    BY <1>1, <1>4
  <2>3. p[s.pi] # Star
    BY <1>3, <1>4 DEF AnyOne, Star
  <2>4. Fits(p, t, s.pi, s.ti) <=> Fits(p, t, s.pi + 1, s.ti + 1)
    BY Zenon, <1>1, <1>2, <1>4, <2>2, <2>3, FitsLetter
  <2>5. Hope(p, t, u) <=> Hope(p, t, s)
    BY Zenon, <2>1, <2>4 DEF Hope
  <2>6. Steady(p, u)
    BY Zenon, <1>1, <2>1, <2>3, SteadyOn DEF Steady
  <2> QED BY <2>5, <2>6
<1>5. CASE /\ s.pi <= Len(p) /\ p[s.pi] = Star /\ p[s.pi] \notin {AnyOne, t[s.ti]}
           /\ u = Place(s.pi + 1, s.ti, s.pi, s.ti)
  <2>1. u.pi = s.pi + 1 /\ u.ti = s.ti /\ u.star = s.pi /\ u.mark = s.ti
    BY <1>5, PlaceParts
  <2>2. s.pi \in 1..Len(p)
    BY <1>1, <1>5
  <2>3. Fits(p, t, s.pi, s.ti) <=> \E m \in 1..(Len(t) + 1) : s.ti <= m /\ Fits(p, t, s.pi + 1, m)
    BY Zenon, <1>2, <1>5, <2>2, FitsStar
  <2>4. Hope(p, t, u) <=>
            Fits(p, t, s.pi + 1, s.ti) \/ \E m \in 1..(Len(t) + 1) : s.ti < m /\ Fits(p, t, s.pi + 1, m)
    <3>1. s.pi # 0
      BY <1>1
    <3> QED BY Zenon, <2>1, <3>1 DEF Hope, Recoverable
  <2>5. \A m \in 1..(Len(t) + 1) : s.ti <= m <=> m = s.ti \/ s.ti < m
    BY <1>1
  <2>6. Hope(p, t, u) <=> Fits(p, t, s.pi, s.ti)
    BY Zenon, <1>2, <2>3, <2>4, <2>5
  <2>7. s.star # 0 /\ Recoverable(p, t, s.star, s.mark) => Fits(p, t, s.pi, s.ti)
    <3> SUFFICES ASSUME s.star # 0, Recoverable(p, t, s.star, s.mark) PROVE Fits(p, t, s.pi, s.ti)
      OBVIOUS
    <3>1. PICK m \in 1..(Len(t) + 1) : s.ti < m /\ Fits(p, t, s.pi, m)
      BY LaterStart
    <3>2. PICK l \in 1..(Len(t) + 1) : m <= l /\ Fits(p, t, s.pi + 1, l)
      BY Zenon, <1>5, <2>2, <3>1, FitsStar
    <3>3. s.ti <= l
      BY <1>1, <3>1, <3>2
    <3> QED BY Zenon, <2>3, <3>2, <3>3
  <2>8. Steady(p, u)
    BY Zenon, <1>1, <2>1, SteadyOn DEF Steady
  <2> QED BY Zenon, <2>6, <2>7, <2>8 DEF Hope
<1>6. CASE /\ s.star # 0 /\ ~(s.pi <= Len(p) /\ p[s.pi] \in {AnyOne, Star, t[s.ti]})
           /\ u = Place(s.star + 1, s.mark + 1, s.star, s.mark + 1)
  <2>1. u.pi = s.star + 1 /\ u.ti = s.mark + 1 /\ u.star = s.star /\ u.mark = s.mark + 1
    BY <1>6, PlaceParts
  <2>2. ~Fits(p, t, s.pi, s.ti)
    <3>1. CASE s.pi = Len(p) + 1
      <4>1. s.ti # Len(t) + 1
        BY <1>1
      <4> QED BY <3>1, <4>1, FitsEnd
    <3>2. CASE s.pi # Len(p) + 1
      <4>1. s.pi \in 1..Len(p) /\ s.pi <= Len(p)
        BY Zenon, <1>1, <3>2, Numbers
      <4>2. p[s.pi] \notin {AnyOne, t[s.ti]} /\ p[s.pi] # Star
        BY <1>6, <4>1
      <4> QED BY Zenon, <1>2, <4>1, <4>2, FitsLetter
    <3> QED BY <3>1, <3>2
  <2>3. Hope(p, t, u) <=>
            Fits(p, t, s.star + 1, s.mark + 1)
            \/ \E m \in 1..(Len(t) + 1) : s.mark + 1 < m /\ Fits(p, t, s.star + 1, m)
    BY Zenon, <1>6, <2>1 DEF Hope, Recoverable
  <2>4. s.mark + 1 \in 1..(Len(t) + 1)
    BY Zenon, <1>1, Numbers
  <2>5. \A m \in 1..(Len(t) + 1) : s.mark < m <=> m = s.mark + 1 \/ s.mark + 1 < m
    BY Zenon, <1>1, Numbers
  <2>6. Hope(p, t, u) <=> Recoverable(p, t, s.star, s.mark)
    BY Zenon, <2>3, <2>4, <2>5 DEF Recoverable
  <2>7. Steady(p, u)
    <3>1. s.mark + 1 \in Nat
      BY <1>1
    <3> QED BY Zenon, <1>1, <2>1, <3>1, SteadyOn DEF Steady
  <2> QED BY Zenon, <1>6, <2>2, <2>6, <2>7 DEF Hope
<1>7. \/ /\ s.pi <= Len(p) /\ p[s.pi] \in {AnyOne, t[s.ti]}
         /\ u = Place(s.pi + 1, s.ti + 1, s.star, s.mark)
      \/ /\ s.pi <= Len(p) /\ p[s.pi] = Star /\ p[s.pi] \notin {AnyOne, t[s.ti]}
         /\ u = Place(s.pi + 1, s.ti, s.pi, s.ti)
      \/ /\ s.star # 0 /\ ~(s.pi <= Len(p) /\ p[s.pi] \in {AnyOne, Star, t[s.ti]})
         /\ u = Place(s.star + 1, s.mark + 1, s.star, s.mark + 1)
  BY StepCases DEF u
<1> QED BY <1>4, <1>5, <1>6, <1>7

LEMMA LoopIsFits ==
    ASSUME NEW p \in Seq(Nat), NEW t \in Seq(Nat), Star \notin ToSet(t)
    PROVE  Loop(p, t) <=> Fits(p, t, 1, 1)
<1>1. PICK run : /\ Follows(run, Places(p, t), Ends(p, t), Says(p, t), Steps(p, t))
                 /\ Loop(p, t) = run[Outset]
  BY LoopRuns
<1> DEFINE Answers(s) == (run[s] = TRUE /\ Hope(p, t, s)) \/ (run[s] = FALSE /\ ~Hope(p, t, s))
           S == {n \in Nat : \A s \in Places(p, t) : ToDo(p, t)[s] < n /\ Steady(p, s) => Answers(s)}
<1>2. \A s \in Places(p, t) : ToDo(p, t)[s] \in Nat
  BY ToDoFalls
<1>3. 0 \in S
  BY <1>2
<1>4. ASSUME NEW n \in S PROVE n + 1 \in S
  <2> SUFFICES ASSUME NEW s \in Places(p, t), ToDo(p, t)[s] < n + 1, Steady(p, s)
               PROVE  Answers(s)
    <3> HIDE DEF Answers
    <3> QED OBVIOUS
  <2>1. CASE s \in Ends(p, t)
    <3>1. run[s] = (s \in Says(p, t))
      BY Zenon, <1>1, <2>1 DEF Follows
    <3>2. s \in Says(p, t) <=> Hope(p, t, s)
      BY <2>1, HopeAtTheEnd
    <3>3. CASE s \in Says(p, t)
      BY Zenon, <3>1, <3>2, <3>3
    <3>4. CASE s \notin Says(p, t)
      <4>1. (s \in Says(p, t)) = FALSE
        BY <3>4
      <4> QED BY Zenon, <3>1, <3>2, <3>4, <4>1
    <3> QED BY <3>3, <3>4
  <2>2. CASE s \notin Ends(p, t)
    <3> DEFINE u == Step(p, t, s)
    <3>1. u \in Places(p, t) /\ ToDo(p, t)[u] < ToDo(p, t)[s]
      BY <2>2, ToDoFalls
    <3>2. Steady(p, u) /\ (Hope(p, t, u) <=> Hope(p, t, s))
      BY <2>2, HopeStays
    <3>3. run[s] = run[u]
      BY Zenon, <1>1, <2>2 DEF Follows, Steps
    <3> HIDE DEF u
    <3>4. ToDo(p, t)[u] < n
      BY <1>2, <3>1
    <3>5. Answers(u)
      <4> HIDE DEF Answers
      <4> QED BY <3>1, <3>2, <3>4
    <3> QED BY Zenon, <3>2, <3>3, <3>5
  <2> QED BY <2>1, <2>2
<1>5. S = Nat
  <2> HIDE DEF S
  <2> QED BY <1>3, <1>4, Induction DEF S
<1>6. Outset \in Places(p, t)
  <2>1. Standing(Len(p), Len(t), 1, 1, 0, 1)
    BY DEF Standing
  <2> QED BY <2>1, PlaceMade DEF Outset
<1>7. Outset.pi = 1 /\ Outset.ti = 1 /\ Outset.star = 0 /\ Outset.mark = 1
  BY PlaceParts DEF Outset
<1>8. Steady(p, Outset) /\ (Hope(p, t, Outset) <=> Fits(p, t, 1, 1))
  BY <1>7 DEF Steady, SteadyAt, Hope
<1>9. Answers(Outset)
  <2>1. ToDo(p, t)[Outset] + 1 \in S /\ ToDo(p, t)[Outset] < ToDo(p, t)[Outset] + 1
    <3>1. ToDo(p, t)[Outset] + 1 \in Nat /\ ToDo(p, t)[Outset] < ToDo(p, t)[Outset] + 1
      BY <1>2, <1>6
    <3> QED BY Zenon, <1>5, <3>1
  <2> HIDE DEF Answers
  <2> QED BY <1>6, <1>8, <2>1
<1> QED BY Zenon, <1>1, <1>8, <1>9

\* Folding the letters' case leaves the meaning of a pattern alone.
LEMMA LowerKeepsStars ==
    ASSUME NEW c \in Nat
    PROVE  Lower(c) \in Nat /\ (Lower(c) = Star <=> c = Star) /\ (Lower(c) = AnyOne <=> c = AnyOne)
BY DEF Lower, Star, AnyOne

LEMMA FoldedIs ==
    ASSUME NEW s \in Seq(Nat)
    PROVE  /\ Folded(s) \in Seq(Nat) /\ Len(Folded(s)) = Len(s)
           /\ \A i \in 1..Len(s) : Folded(s)[i] = Lower(s[i]) /\ s[i] \in Nat
<1>1. \A i \in 1..Len(s) : s[i] \in Nat /\ Lower(s[i]) \in Nat
  <2>1. \A i \in 1..Len(s) : s[i] \in Nat
    OBVIOUS
  <2> QED BY <2>1, LowerKeepsStars
<1>2. Folded(s) \in [1..Len(s) -> Nat]
  BY <1>1 DEF Folded
<1> QED BY <1>1, <1>2, IsASeq DEF Folded

LEMMA MatchesIsFits ==
    ASSUME NEW pattern \in Seq(Nat), NEW text \in Seq(Nat)
    PROVE  Matches(pattern, text) <=> Fits(Folded(pattern), Folded(text), 1, 1)
<1> DEFINE p == Folded(pattern)
           t == Folded(text)
           Whole == [1..(Len(pattern) + 1) -> 1..(Len(text) + 1)]
           Good(cut, i) ==
                /\ cut[i] <= cut[i + 1]
                /\ pattern[i] # Star =>
                    /\ cut[i + 1] = cut[i] + 1
                    /\ pattern[i] # AnyOne => Lower(pattern[i]) = Lower(text[cut[i]])
<1>1. Len(p) = Len(pattern) /\ Len(t) = Len(text)
  BY FoldedIs
<1>2. ASSUME NEW cut \in Whole, NEW i \in 1..Len(pattern)
      PROVE  Good(cut, i) <=> Piece(p, t, i, cut[i], cut[i + 1])
  <2>1. p[i] = Lower(pattern[i]) /\ pattern[i] \in Nat
    BY FoldedIs
  <2>2. (p[i] = Star <=> pattern[i] = Star) /\ (p[i] = AnyOne <=> pattern[i] = AnyOne)
    BY <2>1, LowerKeepsStars
  <2>3. cut[i + 1] = cut[i] + 1 => cut[i] \in 1..Len(text)
    <3>1. i \in 1..(Len(pattern) + 1) /\ i + 1 \in 1..(Len(pattern) + 1)
      OBVIOUS
    <3>2. cut[i] \in 1..(Len(text) + 1) /\ cut[i + 1] \in 1..(Len(text) + 1)
      BY <3>1
    <3> QED BY <3>2
  <2>4. cut[i + 1] = cut[i] + 1 => t[cut[i]] = Lower(text[cut[i]])
    BY <2>3, FoldedIs
  <2> HIDE DEF p, t
  <2> QED BY Zenon, <2>1, <2>2, <2>4 DEF Piece
<1>3. ASSUME NEW cut
      PROVE  Cuts(p, t, 1, cut) <=>
                /\ cut \in Whole /\ cut[Len(pattern) + 1] = Len(text) + 1
                /\ \A i \in 1..Len(pattern) : Piece(p, t, i, cut[i], cut[i + 1])
  <2> HIDE DEF p, t
  <2> QED BY Zenon, <1>1 DEF Cuts
<1>4. Matches(pattern, text) <=>
            \E cut \in Whole : /\ cut[1] = 1 /\ cut[Len(pattern) + 1] = Len(text) + 1
                               /\ \A i \in 1..Len(pattern) : Good(cut, i)
  BY Zenon DEF Matches
<1> HIDE DEF Good, p, t
<1> SUFFICES Matches(pattern, text) <=> Fits(p, t, 1, 1)
  BY DEF p, t
<1> QED BY Zenon, <1>2, <1>3, <1>4 DEF Fits

\* The loop of glob_match accepts a name exactly when the pattern, whatever it
\* is, means it; only names with a star of their own, which Windows has not, are
\* excepted.
THEOREM PatternsMean ==
    ASSUME NEW pattern \in Seq(Nat), NEW text \in Seq(Nat), Star \notin ToSet(text)
    PROVE  Globs(pattern, text) <=> Matches(pattern, text)
<1>1. Folded(pattern) \in Seq(Nat) /\ Folded(text) \in Seq(Nat)
  BY FoldedIs
<1>2. Star \notin ToSet(Folded(text))
  <2>1. SUFFICES ASSUME NEW i \in DOMAIN Folded(text), Folded(text)[i] = Star PROVE FALSE
    BY DEF ToSet
  <2>2. i \in 1..Len(text)
    BY <1>1, FoldedIs
  <2>3. Folded(text)[i] = Lower(text[i]) /\ text[i] \in Nat
    BY <2>2, FoldedIs
  <2>4. text[i] = Star
    BY <2>1, <2>3, LowerKeepsStars
  <2>5. i \in DOMAIN text
    BY <2>2
  <2> QED BY Zenon, <2>4, <2>5 DEF ToSet
<1>3. Globs(pattern, text) <=> Fits(Folded(pattern), Folded(text), 1, 1)
  BY Zenon, <1>1, <1>2, LoopIsFits DEF Globs
<1> QED BY Zenon, <1>3, MatchesIsFits

-------------------------------------------------------------------------------
(* The sizes of a set of tasks add up, in whatever order they are taken.      *)

Sum(f, s) ==
    IF s = {} THEN 0 ELSE LET x == CHOOSE x \in s : TRUE IN x.size + f[s \ {x}]
Sums(f, S) == f = [s \in SUBSET S |-> Sum(f, s)]

LEMMA SizesIsSum ==
    ASSUME NEW S
    PROVE  Sizes(S) = (CHOOSE f : Sums(f, S))[S]
BY Zenon DEF Sizes, MapThenSumSet, MapThenFoldSet, Sums, Sum

LEMMA SmallerSet ==
    ASSUME NEW S, IsFiniteSet(S), NEW s \in SUBSET S, NEW x \in s
    PROVE  /\ s \ {x} \in SUBSET S /\ IsFiniteSet(s) /\ IsFiniteSet(s \ {x})
           /\ Cardinality(s) \in Nat /\ Cardinality(s \ {x}) \in Nat
           /\ Cardinality(s \ {x}) = Cardinality(s) - 1
<1>1. IsFiniteSet(s)
  BY FS_Subset
<1> QED BY <1>1, FS_RemoveElement, FS_CardinalityType

LEMMA SumsDefined ==
    ASSUME NEW S, IsFiniteSet(S), \A x \in S : x.size \in Nat
    PROVE  \E f \in [SUBSET S -> Nat] : Sums(f, S)
<1> DEFINE Card == [s \in SUBSET S |-> Cardinality(s)]
           Low(n) == {s \in SUBSET S : Card[s] < n}
           Holds(f, n) == \A s \in Low(n) : f[s] = Sum(f, s)
           Small == {n \in Nat : \E f \in [SUBSET S -> Nat] : Holds(f, n)}
<1>1. \A s \in SUBSET S : Card[s] \in Nat
  BY FS_Subset, FS_CardinalityType
<1>2. ASSUME NEW s \in SUBSET S, s # {}, NEW f \in [SUBSET S -> Nat]
      PROVE  LET x == CHOOSE x \in s : TRUE
             IN  /\ x \in s /\ s \ {x} \in SUBSET S /\ Card[s \ {x}] = Card[s] - 1
                 /\ Sum(f, s) = x.size + f[s \ {x}] /\ Sum(f, s) \in Nat
  <2> DEFINE x == CHOOSE x \in s : TRUE
  <2>1. x \in s
    BY <1>2
  <2>2. Sum(f, s) = x.size + f[s \ {x}]
    BY Zenon, <1>2 DEF Sum
  <2> HIDE DEF x
  <2>3. s \ {x} \in SUBSET S /\ Card[s \ {x}] = Card[s] - 1
    BY <2>1, SmallerSet
  <2>4. x.size \in Nat /\ f[s \ {x}] \in Nat
    BY <2>1, <2>3
  <2>5. Sum(f, s) \in Nat
    BY <2>2, <2>4
  <2> QED BY Zenon, <2>1, <2>2, <2>3, <2>5 DEF x
<1> HIDE DEF Card
<1>3. 0 \in Small
  <2>1. [s \in SUBSET S |-> 0] \in [SUBSET S -> Nat] /\ Low(0) = {}
    BY <1>1
  <2> QED BY <2>1
<1>4. ASSUME NEW n \in Small PROVE n + 1 \in Small
  <2>1. PICK f \in [SUBSET S -> Nat] : Holds(f, n)
    <3> HIDE DEF Holds
    <3> QED OBVIOUS
  <2> DEFINE g == [s \in SUBSET S |-> Sum(f, s)]
  <2>2. g \in [SUBSET S -> Nat]
    <3>1. ASSUME NEW s \in SUBSET S PROVE Sum(f, s) \in Nat
      <4>1. CASE s = {}
        BY <4>1 DEF Sum
      <4>2. CASE s # {}
        BY Zenon, <1>2, <4>2
      <4> QED BY <4>1, <4>2
    <3> QED BY <3>1
  <2>3. ASSUME NEW s \in Low(n + 1) PROVE g[s] = Sum(g, s)
    <3>1. CASE s = {}
      BY <3>1 DEF Sum
    <3>2. CASE s # {}
      <4> DEFINE x == CHOOSE x \in s : TRUE
      <4>1. Sum(f, s) = x.size + f[s \ {x}] /\ Sum(g, s) = x.size + g[s \ {x}]
        BY Zenon, <1>2, <2>2, <3>2
      <4>2. s \ {x} \in SUBSET S /\ Card[s \ {x}] = Card[s] - 1
        BY Zenon, <1>2, <3>2, <2>2
      <4> HIDE DEF x
      <4>3. s \ {x} \in Low(n)
        BY <1>1, <4>2
      <4>4. g[s \ {x}] = f[s \ {x}]
        BY Zenon, <2>1, <4>2, <4>3
      <4>5. g[s] = Sum(f, s)
        BY Zenon
      <4> QED BY Zenon, <4>1, <4>4, <4>5
    <3> QED BY <3>1, <3>2
  <2> HIDE DEF g
  <2>4. Holds(g, n + 1)
    BY <2>3
  <2>5. n + 1 \in Nat
    OBVIOUS
  <2> HIDE DEF Holds
  <2> QED BY Zenon, <2>2, <2>4, <2>5
<1>5. Small = Nat
  <2> HIDE DEF Small
  <2> QED BY <1>3, <1>4, Induction DEF Small
<1>6. Card[S] + 1 \in Small
  <2>1. Card[S] + 1 \in Nat
    BY <1>1
  <2> QED BY Zenon, <1>5, <2>1
<1>7. PICK f \in [SUBSET S -> Nat] : Holds(f, Card[S] + 1)
  <2> HIDE DEF Holds
  <2> QED BY <1>6
<1>8. \A s \in SUBSET S : Card[s] < Card[S] + 1
  <2>1. ASSUME NEW s \in SUBSET S PROVE Card[s] <= Card[S]
    BY FS_Subset DEF Card
  <2> QED BY <1>1, <2>1
<1>9. Sums(f, S)
  BY <1>7, <1>8 DEF Sums
<1> QED BY <1>9

\* One size and the sum of the rest, whichever comes first.
LEMMA SumsExchange ==
    ASSUME NEW S, IsFiniteSet(S), \A x \in S : x.size \in Nat, NEW f, Sums(f, S)
    PROVE  \A s \in SUBSET S : f[s] \in Nat /\ \A x \in s : f[s] = x.size + f[s \ {x}]
<1> DEFINE Card == [s \in SUBSET S |-> Cardinality(s)]
           Right(s) == f[s] \in Nat /\ \A x \in s : f[s] = x.size + f[s \ {x}]
           Small == {n \in Nat : \A s \in SUBSET S : Card[s] < n => Right(s)}
<1>1. \A s \in SUBSET S : Card[s] \in Nat
  BY FS_Subset, FS_CardinalityType
<1>2. \A s \in SUBSET S : f[s] = Sum(f, s)
  BY Zenon DEF Sums
<1>3. ASSUME NEW n \in Nat, NEW s \in SUBSET S, NEW x \in s, Card[s] < n + 1
      PROVE  s \ {x} \in SUBSET S /\ Card[s \ {x}] < n
  <2>1. s \ {x} \in SUBSET S /\ Card[s \ {x}] = Card[s] - 1
    BY SmallerSet
  <2>2. Card[s] \in Nat
    BY Zenon, <1>1
  <2> HIDE DEF Card
  <2> QED BY <1>3, <2>1, <2>2
<1> HIDE DEF Card
<1>4. 0 \in Small
  BY <1>1
<1>5. ASSUME NEW n \in Small PROVE n + 1 \in Small
  <2>0. n \in Nat
    OBVIOUS
  <2>1. \A s \in SUBSET S : Card[s] < n => Right(s)
    <3> HIDE DEF Right
    <3> QED OBVIOUS
  <2>2. ASSUME NEW s \in SUBSET S, Card[s] < n + 1 PROVE Right(s)
    <3>1. CASE s = {}
      <4>1. f[s] = 0
        BY <1>2, <3>1 DEF Sum
      <4> QED BY <3>1, <4>1
    <3>2. CASE s # {}
      <4> DEFINE c == CHOOSE c \in s : TRUE
      <4>1. c \in s /\ f[s] = c.size + f[s \ {c}]
        BY Zenon, <1>2, <3>2 DEF Sum
      <4> HIDE DEF c
      <4>2. \A x \in s : s \ {x} \in SUBSET S /\ Card[s \ {x}] < n
        BY Zenon, <1>3, <2>0, <2>2
      <4>3. \A x \in s : Right(s \ {x})
        <5> HIDE DEF Right
        <5> QED BY <2>1, <4>2
      <4>4. f[s \ {c}] \in Nat /\ c.size \in Nat
        BY <4>1, <4>3
      <4>5. ASSUME NEW x \in s PROVE f[s] = x.size + f[s \ {x}]
        <5>1. CASE x = c
          BY <4>1, <5>1
        <5>2. CASE x # c
          <6>1. x \in s \ {c} /\ c \in s \ {x} /\ (s \ {c}) \ {x} = (s \ {x}) \ {c}
            BY <4>1, <5>2
          <6>2. f[s \ {c}] = x.size + f[(s \ {c}) \ {x}]
            BY Zenon, <4>1, <4>3, <6>1
          <6>3. f[s \ {x}] = c.size + f[(s \ {x}) \ {c}]
            BY Zenon, <4>3, <6>1
          <6>4. x.size \in Nat /\ c.size \in Nat /\ f[(s \ {x}) \ {c}] \in Nat
            <7>1. s \ {x} \in SUBSET S /\ Card[s \ {x}] < n + 1
              <8>1. s \ {x} \in SUBSET S /\ Card[s \ {x}] < n /\ Card[s \ {x}] \in Nat
                BY Zenon, <1>1, <4>2
              <8> QED BY <2>0, <8>1
            <7>2. (s \ {x}) \ {c} \in SUBSET S /\ Card[(s \ {x}) \ {c}] < n
              BY Zenon, <1>3, <2>0, <6>1, <7>1
            <7>3. Right((s \ {x}) \ {c})
              <8> HIDE DEF Right
              <8> QED BY Zenon, <2>1, <7>2
            <7>4. x \in S /\ c \in S
              BY <4>1
            <7>5. f[(s \ {x}) \ {c}] \in Nat
              BY Zenon, <7>3
            <7>6. x.size \in Nat /\ c.size \in Nat
              BY <7>4
            <7> QED BY <7>5, <7>6
          <6> DEFINE rest == f[(s \ {x}) \ {c}]
          <6>5. f[s] = c.size + (x.size + rest) /\ f[s \ {x}] = c.size + rest
            BY Zenon, <4>1, <6>1, <6>2, <6>3
          <6>6. rest \in Nat /\ x.size \in Nat /\ c.size \in Nat
            BY <6>4
          <6> HIDE DEF rest
          <6> QED BY <6>5, <6>6
        <5> QED BY <5>1, <5>2
      <4>6. f[s] \in Nat
        BY <4>1, <4>4
      <4> QED BY Zenon, <4>5, <4>6
    <3> QED BY <3>1, <3>2
  <2> HIDE DEF Right
  <2> QED BY <2>2
<1>6. Small = Nat
  <2> HIDE DEF Small
  <2> QED BY <1>4, <1>5, Induction DEF Small
<1>7. ASSUME NEW s \in SUBSET S PROVE Right(s)
  <2>1. Card[s] + 1 \in Nat /\ Card[s] < Card[s] + 1
    BY <1>1
  <2>2. Card[s] + 1 \in Small
    BY Zenon, <1>6, <2>1
  <2> HIDE DEF Right
  <2> QED BY <2>1, <2>2
<1> QED BY <1>7

\* The sum of a set depends on nothing but the set.
LEMMA SumsAgree ==
    ASSUME NEW T, IsFiniteSet(T), \A x \in T : x.size \in Nat, NEW S \in SUBSET T,
           NEW f, Sums(f, S), NEW g, Sums(g, T)
    PROVE  f[S] = g[S]
<1> DEFINE Card == [s \in SUBSET S |-> Cardinality(s)]
           Small == {n \in Nat : \A s \in SUBSET S : Card[s] < n => f[s] = g[s]}
<1>0. IsFiniteSet(S)
  BY FS_Subset
<1>1. \A s \in SUBSET S : Card[s] \in Nat
  BY <1>0, FS_Subset, FS_CardinalityType
<1>2. \A s \in SUBSET S : f[s] = Sum(f, s) /\ g[s] = Sum(g, s)
  BY Zenon DEF Sums
<1>3. ASSUME NEW n \in Nat, NEW s \in SUBSET S, NEW x \in s, Card[s] < n + 1
      PROVE  s \ {x} \in SUBSET S /\ Card[s \ {x}] < n
  <2>1. s \ {x} \in SUBSET S /\ Card[s \ {x}] = Card[s] - 1
    BY <1>0, SmallerSet
  <2>2. Card[s] \in Nat
    BY Zenon, <1>1
  <2> HIDE DEF Card
  <2> QED BY <1>3, <2>1, <2>2
<1> HIDE DEF Card
<1>4. 0 \in Small
  BY <1>1
<1>5. ASSUME NEW n \in Small PROVE n + 1 \in Small
  <2>0. n \in Nat
    OBVIOUS
  <2>1. ASSUME NEW s \in SUBSET S, Card[s] < n + 1 PROVE f[s] = g[s]
    <3>1. CASE s = {}
      BY Zenon, <1>2, <3>1 DEF Sum
    <3>2. CASE s # {}
      <4> DEFINE c == CHOOSE c \in s : TRUE
      <4>1. c \in s /\ f[s] = c.size + f[s \ {c}] /\ g[s] = c.size + g[s \ {c}]
        BY Zenon, <1>2, <3>2 DEF Sum
      <4> HIDE DEF c
      <4>2. s \ {c} \in SUBSET S /\ Card[s \ {c}] < n
        BY Zenon, <1>3, <2>0, <2>1, <4>1
      <4> QED BY <4>1, <4>2
    <3> QED BY <3>1, <3>2
  <2> QED BY <2>1
<1>6. Small = Nat
  <2> HIDE DEF Small
  <2> QED BY <1>4, <1>5, Induction DEF Small
<1>7. Card[S] + 1 \in Nat /\ Card[S] < Card[S] + 1 /\ S \in SUBSET S
  BY <1>1
<1>8. Card[S] + 1 \in Small
  BY Zenon, <1>6, <1>7
<1> QED BY <1>7, <1>8

LEMMA SizesAdd ==
    ASSUME NEW S, IsFiniteSet(S), NEW x, x \notin S, \A y \in S \cup {x} : y.size \in Nat
    PROVE  Sizes(S \cup {x}) = Sizes(S) + x.size
<1> DEFINE T == S \cup {x}
           f == CHOOSE f : Sums(f, S)
           g == CHOOSE g : Sums(g, T)
<1>1. IsFiniteSet(T)
  BY FS_AddElement
<1>2. (\E h : Sums(h, S)) /\ (\E h : Sums(h, T))
  BY <1>1, SumsDefined
<1>3. Sums(f, S) /\ Sums(g, T)
  BY Zenon, <1>2
<1>4. Sizes(S) = f[S] /\ Sizes(T) = g[T]
  BY Zenon, SizesIsSum
<1> HIDE DEF f, g
<1>5. T \in SUBSET T /\ S \in SUBSET T /\ x \in T /\ T \ {x} = S /\ S \in SUBSET S
  OBVIOUS
<1>6. f[S] = g[S]
  <2>1. \A y \in T : y.size \in Nat
    OBVIOUS
  <2> HIDE DEF T
  <2> QED BY Zenon, <1>1, <1>3, <1>5, <2>1, SumsAgree
<1>7. f[S] \in Nat
  BY <1>3, SumsExchange
<1>8. g[T] = x.size + g[T \ {x}]
  <2>1. \A y \in T : y.size \in Nat
    OBVIOUS
  <2> HIDE DEF T
  <2> QED BY <1>1, <1>3, <1>5, <2>1, SumsExchange
<1>9. x.size \in Nat
  OBVIOUS
<1>10. Sizes(T) = x.size + Sizes(S)
  BY Zenon, <1>4, <1>5, <1>6, <1>8
<1>11. Sizes(S) \in Nat
  BY Zenon, <1>4, <1>7
<1> QED BY <1>9, <1>10, <1>11

LEMMA SizesOfNone == Sizes({}) = 0
<1>1. IsFiniteSet({}) /\ \A x \in {} : x.size \in Nat
  BY FS_EmptySet
<1>2. \E f : Sums(f, {})
  BY <1>1, SumsDefined
<1>3. Sums(CHOOSE f : Sums(f, {}), {})
  BY Zenon, <1>2
<1>4. (CHOOSE f : Sums(f, {}))[{}] = Sum(CHOOSE f : Sums(f, {}), {})
  BY Zenon, <1>3 DEF Sums
<1> QED BY Zenon, <1>4, SizesIsSum DEF Sum

-------------------------------------------------------------------------------
(* The invariants of the specification.                                       *)

\* The command line is what the run was given, for good.
InputsTyped ==
    /\ source \in Sources /\ dst \in Dsts /\ dstIsDir \in BOOLEAN
    /\ excludes \in ExcludeLists /\ threshold \in Thresholds

LEMMA InputsStay ==
    ASSUME InputsTyped, [Next]_vars
    PROVE  UNCHANGED inputs /\ InputsTyped'
<1>1. UNCHANGED inputs
  BY Zenon DEF Next, vars, Refuse, PlanFile, StartWalk, OpenDir, OpenFails, Visit,
               EntryFails, Exclude, SkipLink, PushDir, PushFile, Finish, Scanned
<1> QED BY Zenon, <1>1 DEF InputsTyped, inputs

LEMMA InputsKept == Spec => []InputsTyped
<1>1. Init => InputsTyped
  BY Zenon DEF Init, InputsTyped
<1>2. InputsTyped /\ [Next]_vars => InputsTyped'
  BY Zenon, InputsStay
<1> QED BY <1>1, <1>2, PTL DEF Spec

\* "Case-insensitive glob supporting `*` and `?`": for every list of patterns
\* and every text without a star, the loop of glob_match, which goes back to
\* the last star only, accepts exactly what the patterns mean.
THEOREM GlobRight == Spec => []GlobIsRight
<1>1. InputsTyped => GlobIsRight
  <2> SUFFICES ASSUME InputsTyped, NEW i \in 1..Len(excludes), NEW t \in Texts
               PROVE  Globs(excludes[i], t) <=> Matches(excludes[i], t)
    BY Zenon DEF GlobIsRight
  <2>1. excludes \in Seq(Seq(Nat)) /\ t \in Seq(Nat) /\ Star \notin ToSet(t)
    BY TreeAssumption DEF InputsTyped
  <2>2. excludes[i] \in Seq(Nat)
    BY <2>1
  <2> QED BY Zenon, <2>1, <2>2, PatternsMean
<1> QED BY <1>1, InputsKept, PTL

-------------------------------------------------------------------------------
(* What the walk has done and still has to do, at every step of it.           *)

\* The sources of a list of tasks, and that each is there once.
SourcesIn(q) == {q[i].src : i \in DOMAIN q}
NoRepeat(q) == IsInjective([i \in DOMAIN q |-> q[i].src])

Below(n) == n \in Nodes /\ IsPrefix(source, n)
Planned == {t.src : t \in Tasks}
Met == {n \in Nodes : Below(n) /\ PathTo(n) \in ToSet(dirs)}
Waiting == {stack[i].from : i \in DOMAIN stack}
Opened == Met \ Waiting
Found == (Met \ {source}) \cup Planned

\* The directories planned mirror directories of the source, each once.
DirsMirror ==
    /\ Kind[source] = "dir"
    /\ IsInjective(dirs) /\ dst \in ToSet(dirs)
    /\ \A p \in ToSet(dirs) : \E n \in Directories : Below(n) /\ p = PathTo(n)

\* The stack holds directories already planned, each once, with their targets.
StackMirrors ==
    /\ IsInjective([i \in DOMAIN stack |-> stack[i].from])
    /\ \A i \in DOMAIN stack : stack[i].from \in Met /\ stack[i].to = PathTo(stack[i].from)

\* What is left of the open directory is in it, and it is off the stack.
HereIsOpen ==
    \A n \in entries :
        here.from \in Opened /\ here.to = PathTo(here.from) /\ Front(n) = here.from

\* The tasks mirror files of the source, each once, in the list for their size.
TasksMirror ==
    /\ NoRepeat(bulk)
    /\ NoRepeat(small)
    /\ SourcesIn(bulk) \cap SourcesIn(small) = {}
    /\ \A t \in Tasks :
        /\ Below(t.src) /\ Kind[t.src] = "file" /\ t.dst = PathTo(t.src)
        /\ t.src \notin unsized => t.size = Size[t.src]
    /\ \A t \in ToSet(bulk) : t.size >= threshold
    /\ \A t \in ToSet(small) : t.size < threshold
    /\ totalBytes = Sizes(Tasks)

\* What is planned or lost was in a directory that was opened, and the entry was
\* taken; what is planned was neither lost nor hidden.
FoundIsOpen ==
    /\ \A n \in Found \cup lost : Front(n) \in Opened /\ n \notin entries
    /\ \A n \in Found : n \notin lost /\ ~Hidden(n)

\* Nothing else of the directories that were opened is left out.
OpenIsFound ==
    \A n \in Nodes :
        Front(n) \in Opened /\ n \notin entries \cup lost /\ ~Hidden(n) /\ Kind[n] # "link"
            => n \in Found

WalkInv == DirsMirror /\ StackMirrors /\ HereIsOpen /\ TasksMirror /\ FoundIsOpen /\ OpenIsFound

Empty ==
    /\ stack = <<>> /\ entries = {} /\ dirs = <<>> /\ bulk = <<>> /\ small = <<>>
    /\ totalBytes = 0 /\ lost = {} /\ unsized = {}

-------------------------------------------------------------------------------
(* Paths. *)

LEMMA PathParts ==
    ASSUME NEW p \in Paths
    PROVE  /\ Len(p) \in Nat /\ DOMAIN p = 1..Len(p) /\ \A i \in 1..Len(p) : p[i] \in Seq(Nat)
           /\ p # <<>> => Len(p) >= 1
BY LenProperties, EmptySeq, ElementOfSeq DEF Paths

LEMMA SamePath ==
    ASSUME NEW p \in Paths, NEW q \in Paths, Len(p) = Len(q), \A i \in 1..Len(p) : p[i] = q[i]
    PROVE  p = q
BY SeqEqual DEF Paths

LEMMA PartOfPath ==
    ASSUME NEW p \in Paths, NEW a \in Nat, NEW b \in Nat, 1 <= a, a <= b + 1, b <= Len(p)
    PROVE  /\ SubSeq(p, a, b) \in Paths /\ Len(SubSeq(p, a, b)) = b - a + 1
           /\ \A i \in 1..(b - a + 1) : SubSeq(p, a, b)[i] = p[a + i - 1]
<1>1. \A i \in a..b : p[i] \in Seq(Nat)
  BY PathParts
<1>2. a \in Int /\ b \in Int
  OBVIOUS
<1>3. /\ SubSeq(p, a, b) \in Paths
      /\ Len(SubSeq(p, a, b)) = IF a <= b THEN b - a + 1 ELSE 0
      /\ \A i \in 1..(b - a + 1) : SubSeq(p, a, b)[i] = p[a + i - 1]
  <2>1. SubSeq(p, a, b) \in Seq(Seq(Nat))
    BY <1>1, <1>2, SubSeqProperties
  <2>2. Len(SubSeq(p, a, b)) = IF a <= b THEN b - a + 1 ELSE 0
    BY <1>1, <1>2, SubSeqProperties
  <2>3. \A i \in 1..(b - a + 1) : SubSeq(p, a, b)[i] = p[a + i - 1]
    BY <1>1, <1>2, SubSeqProperties
  <2> QED BY Zenon, <2>1, <2>2, <2>3 DEF Paths
<1> QED BY <1>3

\* A path without its last name, and put together again.
LEMMA FrontOfPath ==
    ASSUME NEW p \in Paths, Len(p) >= 1
    PROVE  /\ Front(p) \in Paths /\ Len(Front(p)) = Len(p) - 1
           /\ \A i \in 1..(Len(p) - 1) : Front(p)[i] = p[i]
           /\ Last(p) = p[Len(p)] /\ Last(p) \in Seq(Nat)
           /\ p = Append(Front(p), Last(p))
<1>1. Len(p) \in Nat
  BY PathParts
<1>2. /\ Front(p) \in Paths /\ Len(Front(p)) = Len(p) - 1
      /\ \A i \in 1..(Len(p) - 1) : Front(p)[i] = p[i]
  <2>1. 1 \in Nat /\ Len(p) - 1 \in Nat /\ 1 <= 1 /\ 1 <= Len(p) - 1 + 1 /\ Len(p) - 1 <= Len(p)
    BY <1>1
  <2>2. /\ SubSeq(p, 1, Len(p) - 1) \in Paths
        /\ Len(SubSeq(p, 1, Len(p) - 1)) = (Len(p) - 1) - 1 + 1
        /\ \A i \in 1..((Len(p) - 1) - 1 + 1) : SubSeq(p, 1, Len(p) - 1)[i] = p[1 + i - 1]
    BY Zenon, <2>1, PartOfPath
  <2>3. (Len(p) - 1) - 1 + 1 = Len(p) - 1 /\ \A i \in 1..(Len(p) - 1) : 1 + i - 1 = i
    BY <1>1
  <2>4. /\ Front(p) \in Paths /\ Len(Front(p)) = (Len(p) - 1) - 1 + 1
        /\ \A i \in 1..((Len(p) - 1) - 1 + 1) : Front(p)[i] = p[1 + i - 1]
    BY Zenon, <2>2 DEF Front
  <2> QED BY <2>3, <2>4
<1>3. Last(p) = p[Len(p)] /\ Last(p) \in Seq(Nat)
  BY <1>1, PathParts DEF Last
<1>4. /\ Append(Front(p), Last(p)) \in Paths
      /\ Len(Append(Front(p), Last(p))) = Len(Front(p)) + 1
      /\ \A i \in 1..Len(Front(p)) : Append(Front(p), Last(p))[i] = Front(p)[i]
      /\ Append(Front(p), Last(p))[Len(Front(p)) + 1] = Last(p)
  BY <1>2, <1>3, AppendProperties DEF Paths
<1>5. p = Append(Front(p), Last(p))
  <2> DEFINE q == Append(Front(p), Last(p))
  <2>1. q \in Paths /\ Len(q) = Len(p)
    BY <1>1, <1>2, <1>4
  <2>2. \A i \in 1..Len(p) : p[i] = q[i]
    <3>1. q[Len(p)] = p[Len(p)]
      BY <1>1, <1>2, <1>3, <1>4
    <3>2. \A i \in 1..(Len(p) - 1) : q[i] = p[i]
      BY Zenon, <1>2, <1>4
    <3> HIDE DEF q
    <3> QED BY <1>1, <3>1, <3>2
  <2> HIDE DEF q
  <2> QED BY Zenon, <2>1, <2>2, SamePath DEF q
<1> QED BY Zenon, <1>2, <1>3, <1>5

LEMMA AppendToPath ==
    ASSUME NEW p \in Paths, NEW name \in Seq(Nat)
    PROVE  /\ Append(p, name) \in Paths /\ Len(Append(p, name)) = Len(p) + 1
           /\ Append(p, name) # <<>>
           /\ Last(Append(p, name)) = name /\ Front(Append(p, name)) = p
<1> DEFINE q == Append(p, name)
<1>1. Len(p) \in Nat
  BY PathParts
<1>2. /\ q \in Paths /\ q # <<>> /\ Len(q) = Len(p) + 1
      /\ \A i \in 1..Len(p) : q[i] = p[i]
      /\ q[Len(p) + 1] = name
  <2>1. p \in Seq(Seq(Nat))
    BY DEF Paths
  <2> QED BY <2>1, AppendProperties DEF Paths
<1> HIDE DEF q
<1>3. /\ Front(q) \in Paths /\ Len(Front(q)) = Len(q) - 1 /\ Last(q) = q[Len(q)]
      /\ \A i \in 1..(Len(q) - 1) : Front(q)[i] = q[i]
  <2>1. Len(q) >= 1
    BY <1>1, <1>2
  <2> QED BY Zenon, <1>2, <2>1, FrontOfPath
<1>4. Len(Front(q)) = Len(p) /\ \A i \in 1..Len(p) : Front(q)[i] = p[i]
  <2>1. Len(q) - 1 = Len(p)
    BY <1>1, <1>2
  <2> QED BY Zenon, <1>2, <1>3, <2>1
<1>5. Front(q) = p
  BY Zenon, <1>3, <1>4, SamePath
<1>6. Last(q) = name
  BY Zenon, <1>2, <1>3
<1> QED BY Zenon, <1>2, <1>5, <1>6 DEF q

LEMMA PrefixIs ==
    ASSUME NEW p \in Paths, NEW q \in Paths
    PROVE  IsPrefix(p, q) <=> Len(p) <= Len(q) /\ \A i \in 1..Len(p) : p[i] = q[i]
<1>1. Len(p) \in Nat /\ Len(q) \in Nat
  BY PathParts
<1>2. ASSUME Len(p) <= Len(q)
      PROVE  SubSeq(p, 1, Len(p)) = SubSeq(q, 1, Len(p)) <=> \A i \in 1..Len(p) : p[i] = q[i]
  <2> DEFINE a == SubSeq(p, 1, Len(p))
             b == SubSeq(q, 1, Len(p))
  <2>1. 1 \in Nat /\ 1 <= 1 /\ 1 <= Len(p) + 1 /\ Len(p) <= Len(p) /\ Len(p) - 1 + 1 = Len(p)
    BY <1>1
  <2>2. \A i \in 1..Len(p) : 1 + i - 1 = i
    BY <1>1
  <2>3. a \in Paths /\ Len(a) = Len(p) /\ \A i \in 1..Len(p) : a[i] = p[i]
    <3>1. /\ a \in Paths /\ Len(a) = Len(p) - 1 + 1
          /\ \A i \in 1..(Len(p) - 1 + 1) : a[i] = p[1 + i - 1]
      BY Zenon, <1>1, <2>1, PartOfPath
    <3> QED BY Zenon, <2>1, <2>2, <3>1
  <2>4. b \in Paths /\ Len(b) = Len(p) /\ \A i \in 1..Len(p) : b[i] = q[i]
    <3>1. /\ b \in Paths /\ Len(b) = Len(p) - 1 + 1
          /\ \A i \in 1..(Len(p) - 1 + 1) : b[i] = q[1 + i - 1]
      BY Zenon, <1>1, <1>2, <2>1, PartOfPath
    <3> QED BY Zenon, <2>1, <2>2, <3>1
  <2> HIDE DEF a, b
  <2>5. a = b <=> \A i \in 1..Len(p) : p[i] = q[i]
    <3>1. ASSUME \A i \in 1..Len(p) : p[i] = q[i] PROVE a = b
      <4>1. \A i \in 1..Len(a) : a[i] = b[i]
        BY Zenon, <2>3, <2>4, <3>1
      <4> QED BY Zenon, <2>3, <2>4, <4>1, SamePath
    <3>2. ASSUME a = b PROVE \A i \in 1..Len(p) : p[i] = q[i]
      BY Zenon, <2>3, <2>4, <3>2
    <3> QED BY <3>1, <3>2
  <2> QED BY Zenon, <2>5 DEF a, b
<1> QED BY Zenon, <1>2 DEF IsPrefix

\* What follows s in n, put after d.
Mirror(s, d, n) == d \o SubSeq(n, Len(s) + 1, Len(n))

\* m is d, followed by what follows s in n.
Laid(m, s, d, n) ==
    /\ m \in Paths /\ Len(m) = Len(d) + (Len(n) - Len(s))
    /\ \A i \in 1..Len(d) : m[i] = d[i]
    /\ \A i \in 1..(Len(n) - Len(s)) : m[Len(d) + i] = n[Len(s) + i]

LEMMA MirrorParts ==
    ASSUME NEW s \in Paths, NEW d \in Paths, NEW n \in Paths, Len(s) <= Len(n)
    PROVE  Laid(Mirror(s, d, n), s, d, n)
<1>1. Len(s) \in Nat /\ Len(d) \in Nat /\ Len(n) \in Nat
  BY PathParts
<1> DEFINE rest == SubSeq(n, Len(s) + 1, Len(n))
<1>2. /\ rest \in Paths /\ Len(rest) = Len(n) - Len(s)
      /\ \A i \in 1..(Len(n) - Len(s)) : rest[i] = n[Len(s) + i]
  <2>1. /\ Len(s) + 1 \in Nat /\ 1 <= Len(s) + 1 /\ Len(s) + 1 <= Len(n) + 1 /\ Len(n) <= Len(n)
        /\ Len(n) - (Len(s) + 1) + 1 = Len(n) - Len(s)
        /\ \A i \in Nat : Len(s) + 1 + i - 1 = Len(s) + i
    BY <1>1
  <2>2. /\ rest \in Paths /\ Len(rest) = Len(n) - (Len(s) + 1) + 1
        /\ \A i \in 1..(Len(n) - (Len(s) + 1) + 1) : rest[i] = n[Len(s) + 1 + i - 1]
    BY Zenon, <1>1, <2>1, PartOfPath
  <2>3. \A i \in 1..(Len(n) - Len(s)) : i \in Nat
    BY <1>1
  <2> QED BY Zenon, <2>1, <2>2, <2>3
<1> HIDE DEF rest
<1>3. /\ d \o rest \in Paths /\ Len(d \o rest) = Len(d) + Len(rest)
      /\ \A i \in 1..(Len(d) + Len(rest)) :
            (d \o rest)[i] = IF i <= Len(d) THEN d[i] ELSE rest[i - Len(d)]
  <2>1. d \in Seq(Seq(Nat)) /\ rest \in Seq(Seq(Nat))
    BY <1>2 DEF Paths
  <2> QED BY <2>1, ConcatProperties DEF Paths
<1> DEFINE m == d \o rest
<1>4. m \in Paths /\ Len(m) = Len(d) + (Len(n) - Len(s))
  BY <1>2, <1>3
<1>5. \A i \in 1..Len(d) : m[i] = d[i]
  BY <1>1, <1>2, <1>3
<1>6. ASSUME NEW i \in 1..(Len(n) - Len(s)) PROVE m[Len(d) + i] = n[Len(s) + i]
  <2>1. Len(d) + i \in 1..(Len(d) + Len(rest)) /\ ~ (Len(d) + i <= Len(d)) /\ (Len(d) + i) - Len(d) = i
    BY <1>1, <1>2
  <2>2. m[Len(d) + i] = rest[i]
    BY Zenon, <1>3, <2>1
  <2> QED BY Zenon, <1>2, <2>2
<1> QED BY Zenon, <1>4, <1>5, <1>6 DEF Mirror, rest, Laid

LEMMA MirrorOfSource ==
    ASSUME NEW s \in Paths, NEW d \in Paths
    PROVE  Mirror(s, d, s) = d
<1>1. Len(s) \in Nat /\ Len(d) \in Nat
  BY PathParts
<1>2. Len(s) <= Len(s) /\ Len(d) + (Len(s) - Len(s)) = Len(d)
  BY <1>1
<1>3. Mirror(s, d, s) \in Paths /\ Len(d) = Len(Mirror(s, d, s)) /\ \A i \in 1..Len(d) : d[i] = Mirror(s, d, s)[i]
  <2>1. /\ Mirror(s, d, s) \in Paths /\ Len(Mirror(s, d, s)) = Len(d) + (Len(s) - Len(s))
        /\ \A i \in 1..Len(d) : Mirror(s, d, s)[i] = d[i]
    BY Zenon, <1>2, MirrorParts DEF Laid
  <2> QED BY <1>2, <2>1
<1> QED BY Zenon, <1>3, SamePath

\* An entry of a directory below s mirrors to an entry of the directory's mirror.
LEMMA MirrorOfEntry ==
    ASSUME NEW s \in Paths, NEW d \in Paths, NEW n \in Paths, Len(s) < Len(n)
    PROVE  /\ Mirror(s, d, n) = Append(Mirror(s, d, Front(n)), Last(n))
           /\ Front(Mirror(s, d, n)) = Mirror(s, d, Front(n))
<1>1. Len(s) \in Nat /\ Len(d) \in Nat /\ Len(n) \in Nat
  BY PathParts
<1> DEFINE m == Mirror(s, d, n)
           f == Mirror(s, d, Front(n))
<1>2. /\ m \in Paths /\ Len(m) = Len(d) + (Len(n) - Len(s))
      /\ \A i \in 1..Len(d) : m[i] = d[i]
      /\ \A i \in 1..(Len(n) - Len(s)) : m[Len(d) + i] = n[Len(s) + i]
  <2>1. Len(s) <= Len(n)
    BY <1>1
  <2>2. Laid(m, s, d, n)
    BY Zenon, <2>1, MirrorParts
  <2> QED BY Zenon, <2>2 DEF Laid
<1>3. Front(n) \in Paths /\ Len(Front(n)) = Len(n) - 1 /\ Last(n) = n[Len(n)]
      /\ \A i \in 1..(Len(n) - 1) : Front(n)[i] = n[i]
  <2>1. Len(n) >= 1
    BY <1>1
  <2> QED BY Zenon, <2>1, FrontOfPath
<1>4. /\ f \in Paths /\ Len(f) = Len(d) + (Len(Front(n)) - Len(s))
      /\ \A i \in 1..Len(d) : f[i] = d[i]
      /\ \A i \in 1..(Len(Front(n)) - Len(s)) : f[Len(d) + i] = Front(n)[Len(s) + i]
  <2>1. Len(s) <= Len(Front(n))
    BY <1>1, <1>3
  <2>2. Laid(f, s, d, Front(n))
    BY Zenon, <1>3, <2>1, MirrorParts
  <2> QED BY Zenon, <2>2 DEF Laid
<1> HIDE DEF m, f
<1>5. /\ Len(m) >= 1 /\ Len(f) = Len(m) - 1
      /\ Front(m) \in Paths /\ Len(Front(m)) = Len(m) - 1
      /\ \A i \in 1..(Len(m) - 1) : Front(m)[i] = m[i]
      /\ Last(m) = m[Len(m)] /\ m = Append(Front(m), Last(m))
  <2>1. Len(m) >= 1 /\ Len(f) = Len(m) - 1
    BY <1>1, <1>2, <1>3, <1>4
  <2> QED BY Zenon, <1>2, <2>1, FrontOfPath
<1>6. ASSUME NEW i \in 1..Len(f) PROVE Front(m)[i] = f[i]
  <2>1. Front(m)[i] = m[i]
    BY Zenon, <1>5
  <2>2. CASE i <= Len(d)
    <3>1. i \in 1..Len(d)
      BY <2>2, <1>1
    <3> QED BY Zenon, <1>2, <1>4, <2>1, <3>1
  <2>3. CASE i > Len(d)
    <3> DEFINE k == i - Len(d)
    <3>1. /\ k \in 1..(Len(Front(n)) - Len(s)) /\ k \in 1..(Len(n) - Len(s))
          /\ Len(s) + k \in 1..(Len(n) - 1) /\ i = Len(d) + k
      BY <1>1, <1>3, <1>4, <2>3
    <3> HIDE DEF k
    <3> QED BY Zenon, <1>2, <1>3, <1>4, <2>1, <3>1
  <2> QED BY <1>1, <2>2, <2>3
<1>7. Front(m) = f
  <2>1. Len(Front(m)) = Len(f)
    BY Zenon, <1>5
  <2>2. \A i \in 1..Len(Front(m)) : Front(m)[i] = f[i]
    BY Zenon, <1>6, <2>1
  <2> QED BY Zenon, <1>4, <1>5, <2>1, <2>2, SamePath
<1>8. Last(m) = Last(n)
  <2> DEFINE k == Len(n) - Len(s)
  <2>1. k \in 1..(Len(n) - Len(s)) /\ Len(d) + k = Len(m) /\ Len(s) + k = Len(n)
    BY <1>1, <1>2
  <2> HIDE DEF k
  <2> QED BY Zenon, <1>2, <1>3, <1>5, <2>1
<1> QED BY Zenon, <1>5, <1>7, <1>8 DEF m, f

\* Two paths below s with the same mirror are the same.
LEMMA MirrorTellsApart ==
    ASSUME NEW s \in Paths, NEW d \in Paths, NEW a \in Paths, NEW b \in Paths,
           IsPrefix(s, a), IsPrefix(s, b), Mirror(s, d, a) = Mirror(s, d, b)
    PROVE  a = b
<1>1. Len(s) \in Nat /\ Len(d) \in Nat /\ Len(a) \in Nat /\ Len(b) \in Nat
  BY PathParts
<1>2. /\ Len(s) <= Len(a) /\ \A i \in 1..Len(s) : s[i] = a[i]
      /\ Len(s) <= Len(b) /\ \A i \in 1..Len(s) : s[i] = b[i]
  BY Zenon, PrefixIs
<1>3. /\ Len(Mirror(s, d, a)) = Len(d) + (Len(a) - Len(s))
      /\ \A i \in 1..(Len(a) - Len(s)) : Mirror(s, d, a)[Len(d) + i] = a[Len(s) + i]
      /\ Len(Mirror(s, d, b)) = Len(d) + (Len(b) - Len(s))
      /\ \A i \in 1..(Len(b) - Len(s)) : Mirror(s, d, b)[Len(d) + i] = b[Len(s) + i]
  <2>1. Laid(Mirror(s, d, a), s, d, a) /\ Laid(Mirror(s, d, b), s, d, b)
    BY Zenon, <1>2, MirrorParts
  <2> QED BY Zenon, <2>1 DEF Laid
<1>4. Len(a) = Len(b)
  BY <1>1, <1>3
<1>5. ASSUME NEW i \in 1..Len(a) PROVE a[i] = b[i]
  <2>1. CASE i <= Len(s)
    <3>1. i \in 1..Len(s)
      BY <1>1, <2>1
    <3> QED BY Zenon, <1>2, <3>1
  <2>2. CASE i > Len(s)
    <3> DEFINE k == i - Len(s)
    <3>1. k \in 1..(Len(a) - Len(s)) /\ k \in 1..(Len(b) - Len(s)) /\ i = Len(s) + k
      BY <1>1, <1>4, <2>2
    <3> HIDE DEF k
    <3> QED BY Zenon, <1>3, <3>1
  <2> QED BY <1>1, <2>1, <2>2
<1> QED BY Zenon, <1>4, <1>5, SamePath

LEMMA MirrorKeepsPrefix ==
    ASSUME NEW s \in Paths, NEW d \in Paths, NEW a \in Paths, NEW b \in Paths,
           IsPrefix(s, a), IsPrefix(s, b), IsPrefix(Mirror(s, d, a), Mirror(s, d, b))
    PROVE  IsPrefix(a, b)
<1>1. Len(s) \in Nat /\ Len(d) \in Nat /\ Len(a) \in Nat /\ Len(b) \in Nat
  BY PathParts
<1>2. /\ Len(s) <= Len(a) /\ \A i \in 1..Len(s) : s[i] = a[i]
      /\ Len(s) <= Len(b) /\ \A i \in 1..Len(s) : s[i] = b[i]
  BY Zenon, PrefixIs
<1>3. /\ Mirror(s, d, a) \in Paths /\ Mirror(s, d, b) \in Paths
      /\ Len(Mirror(s, d, a)) = Len(d) + (Len(a) - Len(s))
      /\ \A i \in 1..(Len(a) - Len(s)) : Mirror(s, d, a)[Len(d) + i] = a[Len(s) + i]
      /\ Len(Mirror(s, d, b)) = Len(d) + (Len(b) - Len(s))
      /\ \A i \in 1..(Len(b) - Len(s)) : Mirror(s, d, b)[Len(d) + i] = b[Len(s) + i]
  <2>1. Laid(Mirror(s, d, a), s, d, a) /\ Laid(Mirror(s, d, b), s, d, b)
    BY Zenon, <1>2, MirrorParts
  <2> QED BY Zenon, <2>1 DEF Laid
<1>4. /\ Len(Mirror(s, d, a)) <= Len(Mirror(s, d, b))
      /\ \A i \in 1..Len(Mirror(s, d, a)) : Mirror(s, d, a)[i] = Mirror(s, d, b)[i]
  BY Zenon, <1>3, PrefixIs
<1>5. Len(a) <= Len(b)
  BY <1>1, <1>3, <1>4
<1>6. ASSUME NEW i \in 1..Len(a) PROVE a[i] = b[i]
  <2>1. CASE i <= Len(s)
    <3>1. i \in 1..Len(s)
      BY <1>1, <2>1
    <3> QED BY Zenon, <1>2, <3>1
  <2>2. CASE i > Len(s)
    <3> DEFINE k == i - Len(s)
    <3>1. /\ k \in 1..(Len(a) - Len(s)) /\ k \in 1..(Len(b) - Len(s)) /\ i = Len(s) + k
          /\ Len(d) + k \in 1..(Len(d) + (Len(a) - Len(s)))
      BY <1>1, <1>5, <2>2
    <3> HIDE DEF k
    <3>2. Mirror(s, d, a)[Len(d) + k] = Mirror(s, d, b)[Len(d) + k]
      BY Zenon, <1>3, <1>4, <3>1
    <3> QED BY Zenon, <1>3, <3>1, <3>2
  <2> QED BY <1>1, <2>1, <2>2
<1> QED BY Zenon, <1>5, <1>6, PrefixIs

-------------------------------------------------------------------------------
(* The tree below the source. *)

LEMMA NodeFacts ==
    ASSUME NEW n \in Nodes
    PROVE  /\ n \in Paths /\ Len(n) \in Nat /\ Len(n) >= 1
           /\ Kind[n] \in {"dir", "file", "link"} /\ Size[n] \in Nat
           /\ Last(n) \in Seq(Nat) /\ Star \notin ToSet(Last(n))
<1>1. n \in Paths /\ n # <<>> /\ Kind[n] \in {"dir", "file", "link"} /\ Size[n] \in Nat /\ Star \notin ToSet(Last(n))
  BY TreeAssumption DEF Paths
<1>2. Len(n) \in Nat /\ Len(n) >= 1
  BY <1>1, PathParts
<1> QED BY Zenon, <1>1, <1>2, FrontOfPath

LEMMA SourceFacts ==
    ASSUME InputsTyped
    PROVE  /\ source \in Nodes /\ dst \in Paths /\ dst # <<>> /\ Kind[source] # "link"
           /\ threshold \in Nat /\ Below(source) /\ PathTo(source) = dst
<1>1. source \in Nodes /\ dst \in Paths /\ dst # <<>> /\ Kind[source] # "link" /\ threshold \in Nat
  BY TreeAssumption DEF InputsTyped, Paths
<1>2. source \in Paths
  BY Zenon, <1>1, NodeFacts
<1>3. Len(source) \in Nat
  BY Zenon, <1>1, NodeFacts
<1>4. Len(source) <= Len(source)
  BY <1>3
<1>5. IsPrefix(source, source)
  BY Zenon, <1>2, <1>4, PrefixIs
<1>6. PathTo(source) = dst
  BY Zenon, <1>1, <1>2, MirrorOfSource DEF PathTo, Mirror
<1> QED BY Zenon, <1>1, <1>5, <1>6 DEF Below

LEMMA EntryFacts ==
    ASSUME InputsTyped, NEW d, Below(d), NEW n \in Nodes, Front(n) = d
    PROVE  /\ Below(n) /\ n # source /\ Len(n) = Len(d) + 1 /\ Len(n) > Len(source)
           /\ PathTo(n) = Append(PathTo(d), Last(n)) /\ Front(PathTo(n)) = PathTo(d)
<1>1. source \in Nodes /\ dst \in Paths /\ d \in Nodes /\ IsPrefix(source, d)
  BY Zenon, SourceFacts DEF Below
<1>2. source \in Paths /\ d \in Paths /\ n \in Paths /\ Len(n) >= 1
  BY Zenon, <1>1, NodeFacts
<1>3. Len(source) \in Nat /\ Len(d) \in Nat /\ Len(n) \in Nat
  BY Zenon, <1>2, PathParts
<1>4. Len(source) <= Len(d) /\ \A i \in 1..Len(source) : source[i] = d[i]
  BY Zenon, <1>1, <1>2, PrefixIs
<1>5. Len(d) = Len(n) - 1 /\ \A i \in 1..(Len(n) - 1) : d[i] = n[i]
  BY Zenon, <1>2, FrontOfPath
<1>6. Len(n) = Len(d) + 1 /\ Len(source) < Len(n) /\ Len(n) > Len(source) /\ Len(source) <= Len(n)
  BY <1>3, <1>4, <1>5
<1>7. \A i \in 1..Len(source) : source[i] = n[i]
  <2>1. \A i \in 1..Len(source) : i \in 1..(Len(n) - 1)
    BY <1>3, <1>6
  <2> QED BY Zenon, <1>4, <1>5, <2>1
<1>8. IsPrefix(source, n)
  BY Zenon, <1>2, <1>6, <1>7, PrefixIs
<1>9. PathTo(n) = Append(PathTo(d), Last(n)) /\ Front(PathTo(n)) = PathTo(d)
  <2>1. /\ Mirror(source, dst, n) = Append(Mirror(source, dst, Front(n)), Last(n))
        /\ Front(Mirror(source, dst, n)) = Mirror(source, dst, Front(n))
    BY Zenon, <1>1, <1>2, <1>6, MirrorOfEntry
  <2>2. Mirror(source, dst, Front(n)) = Mirror(source, dst, d)
    BY Zenon
  <2>3. PathTo(n) = Mirror(source, dst, n) /\ PathTo(d) = Mirror(source, dst, d)
    BY Zenon DEF PathTo, Mirror
  <2> QED BY Zenon, <2>1, <2>2, <2>3
<1>10. n # source
  BY <1>3, <1>6
<1> QED BY Zenon, <1>6, <1>8, <1>9, <1>10 DEF Below

LEMMA ParentFacts ==
    ASSUME InputsTyped, NEW n, Below(n), n # source
    PROVE  /\ Below(Front(n)) /\ Kind[Front(n)] = "dir"
           /\ Len(n) = Len(Front(n)) + 1 /\ Len(n) > Len(source)
<1>1. source \in Nodes /\ n \in Nodes /\ IsPrefix(source, n)
  BY Zenon, SourceFacts DEF Below
<1>2. source \in Paths /\ n \in Paths /\ Len(n) >= 1 /\ Len(source) >= 1
  BY Zenon, <1>1, NodeFacts
<1>3. Len(source) \in Nat /\ Len(n) \in Nat
  BY Zenon, <1>2, PathParts
<1>4. Len(source) <= Len(n) /\ \A i \in 1..Len(source) : source[i] = n[i]
  BY Zenon, <1>1, <1>2, PrefixIs
<1>5. Len(source) # Len(n)
  <2>1. SUFFICES ASSUME Len(source) = Len(n) PROVE FALSE
    OBVIOUS
  <2>2. source = n
    BY Zenon, <1>2, <1>4, <2>1, SamePath
  <2> QED BY Zenon, <2>2
<1>6. Len(n) > Len(source) /\ Len(n) > 1
  BY <1>2, <1>3, <1>4, <1>5
<1>7. Front(n) \in Nodes /\ Kind[Front(n)] = "dir"
  BY Zenon, <1>1, <1>6, TreeAssumption
<1>8. Front(n) \in Paths /\ Len(Front(n)) = Len(n) - 1 /\ \A i \in 1..(Len(n) - 1) : Front(n)[i] = n[i]
  BY Zenon, <1>2, FrontOfPath
<1>9. Len(source) <= Len(Front(n)) /\ Len(n) = Len(Front(n)) + 1
  BY <1>3, <1>6, <1>8
<1>10. \A i \in 1..Len(source) : source[i] = Front(n)[i]
  <2>1. \A i \in 1..Len(source) : i \in 1..(Len(n) - 1)
    BY <1>3, <1>6
  <2> QED BY Zenon, <1>4, <1>8, <2>1
<1>11. IsPrefix(source, Front(n))
  BY Zenon, <1>2, <1>8, <1>9, <1>10, PrefixIs
<1> QED BY Zenon, <1>6, <1>7, <1>9, <1>11 DEF Below

LEMMA PlacesFacts ==
    ASSUME InputsTyped, NEW a, Below(a)
    PROVE  /\ PathTo(a) \in Paths /\ IsPrefix(dst, PathTo(a))
           /\ \A b : Below(b) /\ PathTo(a) = PathTo(b) => a = b
           /\ \A b : Below(b) /\ IsPrefix(PathTo(a), PathTo(b)) => IsPrefix(a, b)
<1>1. /\ source \in Paths /\ dst \in Paths /\ a \in Paths /\ IsPrefix(source, a)
      /\ \A b : Below(b) => b \in Paths /\ IsPrefix(source, b)
  BY Zenon, SourceFacts, NodeFacts DEF Below
<1>2. Len(source) <= Len(a)
  BY Zenon, <1>1, PrefixIs
<1>3. /\ Mirror(source, dst, a) \in Paths
      /\ Len(Mirror(source, dst, a)) = Len(dst) + (Len(a) - Len(source))
      /\ \A i \in 1..Len(dst) : Mirror(source, dst, a)[i] = dst[i]
  BY Zenon, <1>1, <1>2, MirrorParts DEF Laid
<1>4. Len(dst) <= Len(Mirror(source, dst, a))
  <2>1. Len(dst) \in Nat /\ Len(a) \in Nat /\ Len(source) \in Nat
    BY Zenon, <1>1, PathParts
  <2> QED BY <1>2, <1>3, <2>1
<1>5. IsPrefix(dst, Mirror(source, dst, a))
  BY Zenon, <1>1, <1>3, <1>4, PrefixIs
<1>6. \A b : Below(b) /\ Mirror(source, dst, a) = Mirror(source, dst, b) => a = b
  BY Zenon, <1>1, MirrorTellsApart
<1>7. \A b : Below(b) /\ IsPrefix(Mirror(source, dst, a), Mirror(source, dst, b)) => IsPrefix(a, b)
  BY Zenon, <1>1, MirrorKeepsPrefix
<1> QED BY Zenon, <1>3, <1>5, <1>6, <1>7 DEF PathTo, Mirror

\* The lossy copy of a name of the tree is a text without a star, too.
LEMMA LossyIs ==
    ASSUME NEW name \in Seq(Nat), Star \notin ToSet(name)
    PROVE  Lossy(name) \in Seq(Nat) /\ Star \notin ToSet(Lossy(name))
<1> DEFINE code(i) == IF name[i] \in Surrogates THEN Replacement ELSE name[i]
<1>1. Len(name) \in Nat /\ DOMAIN name = 1..Len(name) /\ \A i \in 1..Len(name) : name[i] \in Nat
  BY LenProperties, ElementOfSeq
<1>2. Replacement \in Nat /\ Replacement # Star
  BY DEF Star, Replacement
<1>3. ASSUME NEW i \in 1..Len(name) PROVE code(i) \in Nat /\ code(i) # Star
  <2>1. name[i] \in Nat /\ name[i] # Star
    BY Zenon, <1>1 DEF ToSet
  <2>2. code(i) = name[i] \/ code(i) = Replacement
    BY Zenon
  <2> QED BY Zenon, <1>2, <2>1, <2>2
<1>4. Lossy(name) = [i \in 1..Len(name) |-> code(i)]
  BY Zenon, <1>1 DEF Lossy
<1> HIDE DEF code
<1>5. Lossy(name) \in Seq(Nat) /\ DOMAIN Lossy(name) = 1..Len(name)
  <2>1. \A i \in 1..Len(name) : code(i) \in Nat
    BY Zenon, <1>3
  <2> QED BY <1>1, <1>4, <2>1
<1>6. \A i \in 1..Len(name) : Lossy(name)[i] # Star
  BY Zenon, <1>3, <1>4
<1>7. Star \notin ToSet(Lossy(name))
  BY Zenon, <1>5, <1>6 DEF ToSet
<1> QED BY Zenon, <1>5, <1>7

LEMMA ExcludedIs ==
    ASSUME InputsTyped, NEW n \in Nodes
    PROVE  Excluded(n) <=> Hidden(n)
<1>1. excludes \in Seq(Seq(Nat))
  BY TreeAssumption DEF InputsTyped
<1>2. \A i \in 1..Len(excludes) : excludes[i] \in Seq(Nat)
  BY <1>1
<1>3. Lossy(Last(n)) \in Seq(Nat) /\ Star \notin ToSet(Lossy(Last(n)))
  BY Zenon, NodeFacts, LossyIs
<1> QED BY Zenon, <1>2, <1>3, PatternsMean DEF Excluded, Hidden

LEMMA SeenOfEntry ==
    ASSUME InputsTyped, NEW n, Below(n), n # source
    PROVE  Seen(n) <=> Seen(Front(n)) /\ n \notin lost /\ ~Hidden(n)
<1>1. /\ n \in Paths /\ Front(n) \in Paths /\ IsPrefix(source, n) /\ IsPrefix(source, Front(n))
      /\ Len(n) >= 1 /\ source \in Paths
  BY Zenon, ParentFacts, SourceFacts, NodeFacts DEF Below
<1>2. Len(n) \in Nat /\ Len(source) \in Nat /\ Len(Front(n)) = Len(n) - 1 /\ Len(n) > Len(source)
  <2>1. Len(n) \in Nat /\ Len(source) \in Nat
    BY Zenon, <1>1, PathParts
  <2> QED BY Zenon, <1>1, <2>1, ParentFacts, FrontOfPath
<1>3. \A i \in 1..(Len(n) - 1) : Front(n)[i] = n[i]
  BY Zenon, <1>1, FrontOfPath
<1>4. SubSeq(n, 1, Len(n)) = n
  BY <1>1, SubSeqFull DEF Paths
<1>5. ASSUME NEW k \in Nat, k >= 1, k <= Len(n) - 1 PROVE SubSeq(Front(n), 1, k) = SubSeq(n, 1, k)
  <2>1. 1 \in Nat /\ 1 <= 1 /\ 1 <= k + 1 /\ k <= Len(Front(n)) /\ k <= Len(n) /\ k - 1 + 1 = k
        /\ \A i \in 1..k : 1 + i - 1 = i /\ i \in 1..(Len(n) - 1)
    BY <1>2, <1>5
  <2>2. /\ SubSeq(n, 1, k) \in Paths /\ Len(SubSeq(n, 1, k)) = k - 1 + 1
        /\ \A i \in 1..(k - 1 + 1) : SubSeq(n, 1, k)[i] = n[1 + i - 1]
    BY Zenon, <1>1, <2>1, PartOfPath
  <2>3. /\ SubSeq(Front(n), 1, k) \in Paths /\ Len(SubSeq(Front(n), 1, k)) = k - 1 + 1
        /\ \A i \in 1..(k - 1 + 1) : SubSeq(Front(n), 1, k)[i] = Front(n)[1 + i - 1]
    BY Zenon, <1>1, <2>1, PartOfPath
  <2>4. \A i \in 1..Len(SubSeq(Front(n), 1, k)) : SubSeq(Front(n), 1, k)[i] = SubSeq(n, 1, k)[i]
    BY Zenon, <1>3, <2>1, <2>2, <2>3
  <2>5. Len(SubSeq(Front(n), 1, k)) = Len(SubSeq(n, 1, k))
    BY Zenon, <2>2, <2>3
  <2> QED BY Zenon, <2>2, <2>3, <2>4, <2>5, SamePath
<1> DEFINE Open(p) == p \notin lost /\ ~Hidden(p)
<1> HIDE DEF Open
<1>6. Seen(n) <=> \A k \in (Len(source) + 1)..Len(n) : Open(SubSeq(n, 1, k))
  BY Zenon, <1>1 DEF Seen, Open
<1>7. Seen(Front(n)) <=> \A k \in (Len(source) + 1)..(Len(n) - 1) : Open(SubSeq(Front(n), 1, k))
  BY Zenon, <1>1, <1>2 DEF Seen, Open
<1>8. /\ \A k \in (Len(source) + 1)..(Len(n) - 1) :
            k \in (Len(source) + 1)..Len(n) /\ k \in Nat /\ k >= 1 /\ k <= Len(n) - 1
      /\ Len(n) \in (Len(source) + 1)..Len(n)
      /\ \A k \in (Len(source) + 1)..Len(n) : k = Len(n) \/ k \in (Len(source) + 1)..(Len(n) - 1)
  BY <1>2
<1>9. Seen(n) <=> Seen(Front(n)) /\ Open(n)
  BY Zenon, <1>4, <1>5, <1>6, <1>7, <1>8
<1> QED BY Zenon, <1>9 DEF Open

LEMMA SeenOfSource ==
    ASSUME InputsTyped
    PROVE  Seen(source)
<1>1. IsPrefix(source, source) /\ Len(source) \in Nat
  BY Zenon, SourceFacts, NodeFacts DEF Below
<1>2. (Len(source) + 1)..Len(source) = {}
  BY <1>1
<1> QED BY Zenon, <1>1, <1>2 DEF Seen

\* A path never comes after one that extends it.
LEMMA PrefixComesFirst ==
    ASSUME NEW p \in Paths, NEW q \in Paths, IsPrefix(q, p), Len(q) < Len(p)
    PROVE  ~PathBefore(p, q)
<1>1. Len(p) \in Nat /\ Len(q) \in Nat /\ \A i \in 1..Len(p) : p[i] \in Seq(Nat)
  BY Zenon, PathParts
<1>2. \A i \in 1..Len(q) : q[i] = p[i]
  BY Zenon, PrefixIs
<1>3. ~IsPrefix(p, q)
  <2>1. ~ (Len(p) <= Len(q))
    BY <1>1
  <2> QED BY Zenon, <2>1, PrefixIs
<1>4. ASSUME NEW a \in Seq(Nat) PROVE ~NameBefore(a, a)
  <2>1. \A i \in 1..Len(a) : ~ (a[i] < a[i])
    OBVIOUS
  <2> QED BY Zenon, <2>1 DEF NameBefore, IsStrictPrefix
<1>5. ASSUME NEW i \in 1..Len(p), i <= Len(q), NameBefore(p[i], q[i]) PROVE FALSE
  <2>1. i \in 1..Len(q)
    BY <1>1, <1>5
  <2>2. q[i] = p[i]
    BY Zenon, <1>2, <2>1
  <2>3. NameBefore(p[i], p[i])
    BY Zenon, <1>5, <2>2
  <2> QED BY Zenon, <1>1, <1>4, <2>3
<1> QED BY Zenon, <1>3, <1>5 DEF PathBefore, IsStrictPrefix

-------------------------------------------------------------------------------
(* The lists of the plan and the stack. *)

LEMMA ToSetIs ==
    ASSUME NEW S, NEW q \in Seq(S)
    PROVE  /\ Len(q) \in Nat /\ DOMAIN q = 1..Len(q) /\ ToSet(q) \subseteq S
           /\ \A i \in DOMAIN q : q[i] \in ToSet(q) /\ q[i] \in S
           /\ \A x \in ToSet(q) : \E i \in DOMAIN q : x = q[i]
           /\ IsFiniteSet(ToSet(q))
<1>1. Len(q) \in Nat /\ DOMAIN q = 1..Len(q) /\ \A i \in DOMAIN q : q[i] \in S
  BY LenProperties, ElementOfSeq
<1>2. ToSet(q) \subseteq S /\ \A i \in DOMAIN q : q[i] \in ToSet(q)
  BY Zenon, <1>1 DEF ToSet
<1>3. \A x \in ToSet(q) : \E i \in DOMAIN q : x = q[i]
  BY Zenon DEF ToSet
<1>4. \E f : f \in Surjection(1..Len(q), ToSet(q))
  <2>1. [i \in 1..Len(q) |-> q[i]] \in Surjection(1..Len(q), ToSet(q))
    BY <1>1, <1>2, <1>3 DEF Surjection
  <2> QED BY Zenon, <2>1
<1>5. IsFiniteSet(ToSet(q))
  BY Zenon, <1>1, <1>4, FS_NatSurjection DEF ExistsSurjection
<1> QED BY Zenon, <1>1, <1>2, <1>3, <1>5

LEMMA ToSetOfNone == ToSet(<<>>) = {} /\ DOMAIN <<>> = {}
BY DEF ToSet

LEMMA Appended ==
    ASSUME NEW S, NEW q \in Seq(S), NEW x \in S
    PROVE  /\ Append(q, x) \in Seq(S) /\ DOMAIN Append(q, x) = DOMAIN q \cup {Len(q) + 1}
           /\ Len(q) + 1 \notin DOMAIN q
           /\ \A i \in DOMAIN q : Append(q, x)[i] = q[i]
           /\ Append(q, x)[Len(q) + 1] = x
           /\ ToSet(Append(q, x)) = ToSet(q) \cup {x}
<1> DEFINE r == Append(q, x)
<1>1. /\ r \in Seq(S) /\ Len(r) = Len(q) + 1 /\ r[Len(q) + 1] = x
      /\ \A i \in 1..Len(q) : r[i] = q[i]
  BY AppendProperties
<1> HIDE DEF r
<1>2. Len(q) \in Nat /\ DOMAIN q = 1..Len(q) /\ DOMAIN r = 1..Len(r)
  BY Zenon, <1>1, ToSetIs
<1>3. DOMAIN r = DOMAIN q \cup {Len(q) + 1} /\ Len(q) + 1 \notin DOMAIN q
  BY <1>1, <1>2
<1>4. \A i \in DOMAIN q : r[i] = q[i]
  BY Zenon, <1>1, <1>2
<1>5. ToSet(r) = ToSet(q) \cup {x}
  <2>1. ASSUME NEW y \in ToSet(r) PROVE y \in ToSet(q) \cup {x}
    <3>1. PICK i \in DOMAIN r : y = r[i]
      BY Zenon DEF ToSet
    <3>2. CASE i \in DOMAIN q
      BY Zenon, <1>4, <3>1, <3>2 DEF ToSet
    <3>3. CASE i = Len(q) + 1
      BY Zenon, <1>1, <3>1, <3>3
    <3> QED BY Zenon, <1>3, <3>1, <3>2, <3>3
  <2>2. ASSUME NEW y \in ToSet(q) PROVE y \in ToSet(r)
    <3>1. PICK i \in DOMAIN q : y = q[i]
      BY Zenon DEF ToSet
    <3> QED BY Zenon, <1>3, <1>4, <3>1 DEF ToSet
  <2>3. x \in ToSet(r)
    BY Zenon, <1>1, <1>3 DEF ToSet
  <2> QED BY Zenon, <2>1, <2>2, <2>3
<1> QED BY Zenon, <1>1, <1>3, <1>4, <1>5 DEF r

LEMMA Taken ==
    ASSUME NEW S, NEW q \in Seq(S), q # <<>>
    PROVE  /\ Front(q) \in Seq(S) /\ DOMAIN Front(q) = DOMAIN q \ {Len(q)}
           /\ Len(q) \in DOMAIN q /\ Last(q) = q[Len(q)] /\ Last(q) \in S
           /\ \A i \in DOMAIN Front(q) : Front(q)[i] = q[i]
<1>1. Len(q) \in Nat /\ DOMAIN q = 1..Len(q) /\ \A i \in DOMAIN q : q[i] \in S
  BY Zenon, ToSetIs
<1>2. Len(q) >= 1
  BY <1>1, EmptySeq
<1>3. /\ Front(q) \in Seq(S) /\ Len(Front(q)) = Len(q) - 1
      /\ \A i \in 1..(Len(q) - 1) : Front(q)[i] = q[i]
  <2>1. 1 \in Int /\ Len(q) - 1 \in Int /\ \A i \in 1..(Len(q) - 1) : q[i] \in S
    BY <1>1, <1>2
  <2>2. /\ SubSeq(q, 1, Len(q) - 1) \in Seq(S)
        /\ Len(SubSeq(q, 1, Len(q) - 1)) = IF 1 <= Len(q) - 1 THEN (Len(q) - 1) - 1 + 1 ELSE 0
        /\ \A i \in 1..((Len(q) - 1) - 1 + 1) : SubSeq(q, 1, Len(q) - 1)[i] = q[1 + i - 1]
    BY <2>1, SubSeqProperties
  <2>3. (IF 1 <= Len(q) - 1 THEN (Len(q) - 1) - 1 + 1 ELSE 0) = Len(q) - 1
    BY <1>1, <1>2
  <2>4. (Len(q) - 1) - 1 + 1 = Len(q) - 1 /\ \A i \in 1..(Len(q) - 1) : 1 + i - 1 = i
    BY <1>1
  <2> QED BY Zenon, <2>2, <2>3, <2>4 DEF Front
<1>4. DOMAIN Front(q) = 1..(Len(q) - 1)
  BY Zenon, <1>3, ToSetIs
<1>5. DOMAIN Front(q) = DOMAIN q \ {Len(q)} /\ Len(q) \in DOMAIN q
  BY <1>1, <1>2, <1>4
<1>6. Last(q) = q[Len(q)] /\ Last(q) \in S
  BY Zenon, <1>1, <1>5 DEF Last
<1> QED BY Zenon, <1>3, <1>4, <1>5, <1>6

LEMMA InjectiveAppended ==
    ASSUME NEW S, NEW q \in Seq(S), NEW x \in S, IsInjective(q), x \notin ToSet(q)
    PROVE  IsInjective(Append(q, x))
<1> DEFINE r == Append(q, x)
           m == Len(q) + 1
<1>1. /\ DOMAIN r = DOMAIN q \cup {m} /\ m \notin DOMAIN q
      /\ \A i \in DOMAIN q : r[i] = q[i]
      /\ r[m] = x
  BY Appended
<1>3. \A i, j \in DOMAIN q : q[i] = q[j] => i = j
  BY Zenon DEF IsInjective
<1>4. \A i \in DOMAIN q : q[i] # x
  BY Zenon DEF ToSet
<1> HIDE DEF r, m
<1>5. ASSUME NEW i \in DOMAIN r, NEW j \in DOMAIN r, r[i] = r[j] PROVE i = j
  BY Zenon, <1>1, <1>3, <1>4, <1>5
<1> QED BY Zenon, <1>5 DEF IsInjective, r

LEMMA SourcesInIs ==
    ASSUME NEW q
    PROVE  /\ \A a : a \in SourcesIn(q) <=> \E i \in DOMAIN q : a = q[i].src
           /\ \A a : a \in SourcesIn(q) <=> \E t \in ToSet(q) : a = t.src
           /\ SourcesIn(q) = {t.src : t \in ToSet(q)}
BY Zenon DEF ToSet, SourcesIn

LEMMA NoRepeatIs ==
    ASSUME NEW q
    PROVE  NoRepeat(q) <=> \A i, j \in DOMAIN q : q[i].src = q[j].src => i = j
BY DEF NoRepeat, IsInjective

-------------------------------------------------------------------------------
(* Types. *)

StackItem == [from : Directories, to : Paths]
TaskRecord == [src : Nodes, dst : Paths, size : Nat]

PlanTyped ==
    /\ phase \in {"start", "walk", "done", "refused"}
    /\ stack \in Seq(StackItem) /\ here \in [from : Nodes, to : Paths] /\ entries \subseteq Nodes
    /\ dirs \in Seq(Paths) /\ bulk \in Seq(TaskRecord) /\ small \in Seq(TaskRecord)
    /\ totalBytes \in Nat /\ skippedLinks \in Nat /\ lost \subseteq Nodes /\ unsized \subseteq Nodes

LEMMA TypeParts == TypeOK <=> InputsTyped /\ PlanTyped
BY Zenon DEF TypeOK, InputsTyped, PlanTyped, StackItem, TaskRecord

LEMMA TypePartsNext == TypeOK' <=> InputsTyped' /\ PlanTyped'
BY Zenon DEF TypeOK, InputsTyped, PlanTyped, StackItem, TaskRecord

LEMMA NewTask ==
    ASSUME NEW src \in Nodes, NEW to \in Paths, NEW size \in Nat
    PROVE  Task(src, to, size) \in TaskRecord
BY DEF Task, TaskRecord

LEMMA Pushed ==
    ASSUME NEW task \in TaskRecord, bulk \in Seq(TaskRecord), small \in Seq(TaskRecord), Push(task)
    PROVE  /\ bulk' \in Seq(TaskRecord) /\ small' \in Seq(TaskRecord)
           /\ \/ task.size >= threshold /\ bulk' = Append(bulk, task) /\ small' = small
              \/ ~ (task.size >= threshold) /\ small' = Append(small, task) /\ bulk' = bulk
<1>1. Append(bulk, task) \in Seq(TaskRecord) /\ Append(small, task) \in Seq(TaskRecord)
  BY Zenon, Appended
<1> QED BY Zenon, <1>1 DEF Push

\* What `sort`, `dedup` and the sort by size leave: the same members, reordered.
LEMMA Sorted ==
    ASSUME PlanTyped, Finish
    PROVE  /\ dirs' \in Seq(Paths) /\ IsInjective(dirs') /\ ToSet(dirs') = ToSet(dirs)
           /\ Ordered(dirs')
           /\ bulk' \in Seq(TaskRecord) /\ ToSet(bulk') = ToSet(bulk)
           /\ NoRepeat(bulk) =>
                NoRepeat(bulk')
           /\ SourcesIn(bulk') = SourcesIn(bulk)
<1>1. dirs \in Seq(Paths) /\ bulk \in Seq(TaskRecord)
  BY Zenon DEF PlanTyped
<1>2. Cardinality(ToSet(dirs)) \in Nat
  BY Zenon, <1>1, ToSetIs, FS_CardinalityType
<1>3. dirs' \in Bijection(1..Cardinality(ToSet(dirs)), ToSet(dirs)) /\ Ordered(dirs')
  BY Zenon DEF Finish
<1>4. dirs' \in [1..Cardinality(ToSet(dirs)) -> ToSet(dirs)] /\ IsInjective(dirs')
      /\ \A t \in ToSet(dirs) : \E i \in 1..Cardinality(ToSet(dirs)) : dirs'[i] = t
  BY Zenon, <1>3 DEF Bijection, Injection, Surjection
<1>5. DOMAIN dirs' = 1..Cardinality(ToSet(dirs)) /\ \A i \in DOMAIN dirs' : dirs'[i] \in ToSet(dirs)
  BY <1>4
<1>6. dirs' \in Seq(Paths)
  <2>1. ToSet(dirs) \subseteq Paths
    BY Zenon, <1>1, ToSetIs
  <2>2. dirs' \in [1..Cardinality(ToSet(dirs)) -> Paths]
    BY <1>4, <2>1
  <2> HIDE DEF Paths
  <2> QED BY <1>2, <2>2
<1>7. ToSet(dirs') = ToSet(dirs)
  BY Zenon, <1>4, <1>5 DEF ToSet
<1>8. PICK order \in Bijection(DOMAIN bulk, DOMAIN bulk) : bulk' = [i \in DOMAIN bulk |-> bulk[order[i]]]
  BY Zenon DEF Finish
<1>9. /\ order \in [DOMAIN bulk -> DOMAIN bulk] /\ IsInjective(order)
      /\ \A j \in DOMAIN bulk : \E i \in DOMAIN bulk : order[i] = j
  BY Zenon, <1>8 DEF Bijection, Injection, Surjection
<1>10. /\ DOMAIN bulk' = DOMAIN bulk
       /\ \A i \in DOMAIN bulk : order[i] \in DOMAIN bulk /\ bulk'[i] = bulk[order[i]]
       /\ \A i, j \in DOMAIN bulk : order[i] = order[j] => i = j
  BY <1>8, <1>9 DEF IsInjective
<1>11. bulk' \in Seq(TaskRecord)
  <2>1. Len(bulk) \in Nat /\ DOMAIN bulk = 1..Len(bulk) /\ \A i \in DOMAIN bulk : bulk[i] \in TaskRecord
    BY Zenon, <1>1, ToSetIs
  <2>2. bulk' \in [1..Len(bulk) -> TaskRecord]
    <3> HIDE DEF TaskRecord
    <3> QED BY <1>8, <1>10, <2>1
  <2> HIDE DEF TaskRecord
  <2> QED BY <2>1, <2>2
<1>12. ToSet(bulk') = ToSet(bulk)
  <2>1. ASSUME NEW t \in ToSet(bulk') PROVE t \in ToSet(bulk)
    <3>1. PICK i \in DOMAIN bulk' : t = bulk'[i]
      BY Zenon DEF ToSet
    <3>2. i \in DOMAIN bulk
      BY Zenon, <1>10
    <3>3. order[i] \in DOMAIN bulk /\ t = bulk[order[i]]
      BY Zenon, <1>10, <3>1, <3>2
    <3> QED BY Zenon, <3>3 DEF ToSet
  <2>2. ASSUME NEW t \in ToSet(bulk) PROVE t \in ToSet(bulk')
    <3>1. PICK j \in DOMAIN bulk : t = bulk[j]
      BY Zenon DEF ToSet
    <3>2. PICK i \in DOMAIN bulk : order[i] = j
      BY Zenon, <1>9
    <3>3. i \in DOMAIN bulk' /\ t = bulk'[i]
      BY Zenon, <1>10, <3>1, <3>2
    <3> QED BY Zenon, <3>3 DEF ToSet
  <2> QED BY Zenon, <2>1, <2>2
<1>13. ASSUME NoRepeat(bulk)
       PROVE  NoRepeat(bulk')
  <2>1. \A i, j \in DOMAIN bulk : bulk[i].src = bulk[j].src => i = j
    BY Zenon, <1>13, NoRepeatIs
  <2>2. ASSUME NEW i \in DOMAIN bulk', NEW j \in DOMAIN bulk', bulk'[i].src = bulk'[j].src
        PROVE  i = j
    <3>1. i \in DOMAIN bulk /\ j \in DOMAIN bulk
      BY Zenon, <1>10
    <3>2. bulk[order[i]].src = bulk[order[j]].src
      BY Zenon, <1>10, <2>2, <3>1
    <3> QED BY Zenon, <1>10, <2>1, <3>1, <3>2
  <2> QED BY Zenon, <2>2, NoRepeatIs
<1>14. SourcesIn(bulk') = SourcesIn(bulk)
  <2>1. \A q : SourcesIn(q) = {t.src : t \in ToSet(q)}
    BY Zenon, SourcesInIs
  <2> QED BY Zenon, <1>12, <2>1
<1> QED BY Zenon, <1>3, <1>4, <1>6, <1>7, <1>11, <1>12, <1>13, <1>14

LEMMA PlanTypedStep ==
    ASSUME InputsTyped, PlanTyped, Next
    PROVE  PlanTyped'
<1> USE Zenon DEF PlanTyped, inputs, planVars
<1>0. /\ source \in Nodes /\ dst \in Paths /\ dst # <<>>
      /\ \A n \in Nodes : Last(n) \in Seq(Nat) /\ Size[n] \in Nat
  BY SourceFacts, NodeFacts
<1>1. CASE Refuse
  BY <1>1 DEF Refuse
<1>2. CASE PlanFile
  <2> DEFINE target == IF dstIsDir THEN Append(dst, Last(source)) ELSE dst
  <2>1. target \in Paths /\ Len(target) >= 1
    <3>1. Append(dst, Last(source)) \in Paths /\ Append(dst, Last(source)) # <<>>
      BY <1>0, AppendToPath
    <3>2. target \in Paths /\ target # <<>>
      BY <1>0, <3>1
    <3> HIDE DEF target
    <3> QED BY <3>2, PathParts
  <2>2. /\ dirs' = <<Front(target)>> /\ Push(Task(source, target, Size[source])) /\ phase' = "done"
        /\ UNCHANGED <<inputs, stack, here, entries, totalBytes, skippedLinks, lost, unsized>>
    BY <1>2 DEF PlanFile
  <2> HIDE DEF target
  <2>3. Front(target) \in Paths /\ Task(source, target, Size[source]) \in TaskRecord
    BY <1>0, <2>1, FrontOfPath, NewTask
  <2>4. dirs' \in Seq(Paths)
    BY SMT, <2>2, <2>3
  <2>5. bulk' \in Seq(TaskRecord) /\ small' \in Seq(TaskRecord)
    BY <2>2, <2>3, Pushed
  <2> QED BY <2>2, <2>4, <2>5
<1>3. CASE StartWalk
  <2>1. dirs' = <<dst>> /\ stack' = <<[from |-> source, to |-> dst]>> /\ source \in Directories
    BY <1>0, <1>3 DEF StartWalk, Directories
  <2>2. dirs' \in Seq(Paths) /\ stack' \in Seq(StackItem)
    BY SMT, <1>0, <2>1 DEF StackItem
  <2> QED BY <1>3, <2>2 DEF StartWalk
<1>4. CASE OpenDir
  <2>1. Front(stack) \in Seq(StackItem) /\ Last(stack) \in StackItem
    BY <1>4, Taken DEF OpenDir
  <2>2. here' \in [from : Nodes, to : Paths]
    <3>1. here' \in StackItem
      BY <1>4, <2>1 DEF OpenDir
    <3> QED BY SMT, <3>1 DEF StackItem, Directories
  <2>3. entries' \subseteq Nodes
    BY <1>4 DEF OpenDir, Listing
  <2> QED BY <1>4, <2>1, <2>2, <2>3 DEF OpenDir
<1>5. CASE OpenFails
  <2>1. Front(stack) \in Seq(StackItem)
    BY <1>5, Taken DEF OpenFails
  <2>2. lost' \subseteq Nodes
    BY <1>5 DEF OpenFails, Listing
  <2> QED BY <1>5, <2>1, <2>2 DEF OpenFails
<1>6. ASSUME NEW n \in Nodes, Visit(n) PROVE PlanTyped'
  <2>0. Append(here.to, Last(n)) \in Paths
    <3>1. here.to \in Paths
      BY SMT
    <3> QED BY <1>0, <3>1, AppendToPath
  <2>1. CASE EntryFails(n)
    <3>1. entries' \subseteq Nodes /\ lost' \subseteq Nodes
      BY <2>1 DEF EntryFails, Consume
    <3> QED BY <2>1, <3>1 DEF EntryFails, Consume
  <2>2. CASE Exclude(n)
    <3>1. entries' \subseteq Nodes
      BY <2>2 DEF Exclude, Consume
    <3> QED BY <2>2, <3>1 DEF Exclude, Consume
  <2>3. CASE SkipLink(n)
    <3>1. entries' \subseteq Nodes
      BY <2>3 DEF SkipLink, Consume
    <3>2. skippedLinks' \in Nat
      BY SMT, <2>3 DEF SkipLink
    <3> QED BY <2>3, <3>1, <3>2 DEF SkipLink, Consume
  <2>4. CASE PushDir(n)
    <3> DEFINE child == [from |-> n, to |-> Append(here.to, Last(n))]
    <3>1. child \in StackItem /\ child.to = Append(here.to, Last(n))
      BY SMT, <2>0, <2>4 DEF PushDir, StackItem, Directories
    <3>2. dirs' = Append(dirs, child.to) /\ stack' = Append(stack, child) /\ entries' \subseteq Nodes
      BY <2>4 DEF PushDir, Consume
    <3> HIDE DEF child
    <3>3. child.to \in Paths
      BY <2>0, <3>1
    <3>4. dirs' \in Seq(Paths) /\ stack' \in Seq(StackItem)
      BY <3>1, <3>2, <3>3, Appended
    <3> QED BY <2>4, <3>2, <3>4 DEF PushDir, Consume
  <2>5. CASE PushFile(n)
    <3>1. PICK size \in {Size[n]} \cup (IF "metadata" \in Faults THEN {0} ELSE {}) :
              /\ totalBytes' = totalBytes + size
              /\ Push(Task(n, Append(here.to, Last(n)), size))
              /\ unsized' = IF size = Size[n] THEN unsized ELSE unsized \cup {n}
      BY <2>5 DEF PushFile
    <3>2. size \in Nat /\ totalBytes' \in Nat
      BY SMT, <1>0, <3>1
    <3>3. Task(n, Append(here.to, Last(n)), size) \in TaskRecord
      BY <2>0, <3>2, NewTask
    <3>4. bulk' \in Seq(TaskRecord) /\ small' \in Seq(TaskRecord)
      BY <3>1, <3>3, Pushed
    <3>5. unsized' \subseteq Nodes
      BY SMT, <3>1
    <3>6. entries' \subseteq Nodes
      BY <2>5 DEF PushFile, Consume
    <3> QED BY <2>5, <3>2, <3>4, <3>5, <3>6 DEF PushFile, Consume
  <2> QED BY <1>6, <2>1, <2>2, <2>3, <2>4, <2>5 DEF Visit
<1>7. CASE Finish
  <2>1. dirs' \in Seq(Paths) /\ bulk' \in Seq(TaskRecord)
    BY <1>7, Sorted
  <2> QED BY <1>7, <2>1 DEF Finish
<1>8. CASE Scanned
  BY <1>8 DEF Scanned, vars
<1> QED BY <1>1, <1>2, <1>3, <1>4, <1>5, <1>6, <1>7, <1>8 DEF Next

LEMMA PlanTypedStays ==
    ASSUME InputsTyped, PlanTyped, [Next]_vars
    PROVE  PlanTyped'
<1>1. CASE Next
  BY Zenon, <1>1, PlanTypedStep
<1>2. CASE UNCHANGED vars
  BY Zenon, <1>2 DEF PlanTyped, vars, planVars
<1> QED BY <1>1, <1>2

LEMMA InitTyped == Init => TypeOK
<1> SUFFICES ASSUME Init PROVE TypeOK
  OBVIOUS
<1>1. InputsTyped
  BY Zenon DEF Init, InputsTyped
<1>2. source \in Nodes
  BY Zenon, <1>1, SourceFacts
<1>3. <<>> \in Paths /\ <<>> \in Seq(StackItem) /\ <<>> \in Seq(Paths) /\ <<>> \in Seq(TaskRecord)
  BY DEF Paths
<1>4. here \in [from : Nodes, to : Paths]
  BY <1>2, <1>3 DEF Init, NoDirectory
<1> QED BY <1>1, <1>3, <1>4, TypeParts DEF Init, PlanTyped

\* Every variable of the scan keeps to its type, the lists reordered at its end
\* included.
THEOREM ScanTyped == Spec => []TypeOK
<1>1. TypeOK /\ [Next]_vars => TypeOK'
  BY Zenon, TypeParts, TypePartsNext, InputsStay, PlanTypedStays
<1> QED BY <1>1, InitTyped, PTL DEF Spec

-------------------------------------------------------------------------------
(* The walk keeps WalkInv, step by step. *)

LEMMA SameView ==
    ASSUME UNCHANGED inputs
    PROVE  /\ \A n : (Below(n)' <=> Below(n)) /\ PathTo(n)' = PathTo(n) /\ (Hidden(n)' <=> Hidden(n))
           /\ Met' = {n \in Nodes : Below(n) /\ PathTo(n) \in ToSet(dirs')}
           /\ dirs' = dirs => Met' = Met
           /\ stack' = stack => Waiting' = Waiting
           /\ bulk' = bulk /\ small' = small => Tasks' = Tasks /\ Planned' = Planned
<1>1. \A n : (Below(n)' <=> Below(n)) /\ PathTo(n)' = PathTo(n) /\ (Hidden(n)' <=> Hidden(n))
  BY Zenon DEF inputs, Below, PathTo, Hidden
<1>2. Met' = {n \in Nodes : Below(n) /\ PathTo(n) \in ToSet(dirs')}
  BY Zenon, <1>1 DEF Met
<1>3. dirs' = dirs => Met' = Met
  BY Zenon, <1>2 DEF Met
<1>4. stack' = stack => Waiting' = Waiting
  BY Zenon DEF Waiting
<1>5. bulk' = bulk /\ small' = small => Tasks' = Tasks /\ Planned' = Planned
  BY Zenon DEF Tasks, Planned
<1> QED BY Zenon, <1>1, <1>2, <1>3, <1>4, <1>5

LEMMA DirsMirrorStays ==
    ASSUME UNCHANGED <<inputs, dirs>>, DirsMirror
    PROVE  DirsMirror'
BY Zenon, SameView DEF DirsMirror, inputs

LEMMA StackMirrorsStays ==
    ASSUME UNCHANGED <<inputs, stack, dirs>>, StackMirrors
    PROVE  StackMirrors'
BY Zenon, SameView DEF StackMirrors

LEMMA TasksMirrorStays ==
    ASSUME UNCHANGED <<inputs, bulk, small, totalBytes, unsized>>, TasksMirror
    PROVE  TasksMirror'
BY Zenon, SameView DEF TasksMirror, inputs

LEMMA WalkParts ==
    WalkInv <=> /\ DirsMirror /\ StackMirrors /\ HereIsOpen
                /\ TasksMirror /\ FoundIsOpen /\ OpenIsFound
BY Zenon DEF WalkInv

LEMMA WalkPartsNext ==
    WalkInv' <=> /\ DirsMirror' /\ StackMirrors' /\ HereIsOpen'
                 /\ TasksMirror' /\ FoundIsOpen' /\ OpenIsFound'
BY Zenon DEF WalkInv

\* Where an entry of the open directory stands.
LEMMA EntryPlace ==
    ASSUME InputsTyped, PlanTyped, WalkInv, NEW n \in entries
    PROVE  /\ n \in Nodes /\ Below(n) /\ n # source /\ n \notin Found \cup lost /\ n \notin Met
           /\ Front(n) \in Opened /\ PathTo(n) = Append(here.to, Last(n))
           /\ PathTo(n) \notin ToSet(dirs)
<1>1. n \in Nodes
  BY Zenon DEF PlanTyped
<1>2. here.from \in Opened /\ here.to = PathTo(here.from) /\ Front(n) = here.from
  BY Zenon DEF WalkInv, HereIsOpen
<1>3. Below(here.from)
  BY Zenon, <1>2 DEF Opened, Met
<1>4. Below(n) /\ n # source /\ PathTo(n) = Append(PathTo(here.from), Last(n))
  BY Zenon, <1>1, <1>2, <1>3, EntryFacts
<1>5. n \notin Found \cup lost
  BY Zenon DEF WalkInv, FoundIsOpen
<1>6. n \notin Met
  BY Zenon, <1>4, <1>5 DEF Found
<1>7. PathTo(n) \notin ToSet(dirs)
  BY Zenon, <1>1, <1>4, <1>6 DEF Met
<1> QED BY Zenon, <1>1, <1>2, <1>4, <1>5, <1>6, <1>7

LEMMA WalkStarts ==
    ASSUME InputsTyped, PlanTyped, Empty, StartWalk
    PROVE  WalkInv'
<1>1. /\ UNCHANGED inputs /\ UNCHANGED <<here, entries, bulk, small, totalBytes, lost, unsized>>
      /\ dirs' = <<dst>> /\ stack' = <<[from |-> source, to |-> dst]>> /\ Kind[source] = "dir"
  BY Zenon DEF StartWalk
<1>2. /\ entries' = {} /\ bulk' = <<>> /\ small' = <<>> /\ totalBytes' = 0 /\ lost' = {}
      /\ source' = source /\ dst' = dst /\ threshold' = threshold
  BY Zenon, <1>1 DEF Empty, inputs
<1>3. source \in Nodes /\ Below(source) /\ PathTo(source) = dst
  BY Zenon, SourceFacts
<1>4. DOMAIN dirs' = {1} /\ dirs'[1] = dst /\ DOMAIN stack' = {1} /\ stack'[1] = [from |-> source, to |-> dst]
  BY <1>1
<1>5. stack'[1].from = source /\ stack'[1].to = dst
  BY <1>4
<1>6. ToSet(dirs') = {dst}
  BY Zenon, <1>4 DEF ToSet
<1>7. Met' = {source}
  <2>1. Met' = {n \in Nodes : Below(n) /\ PathTo(n) = dst}
    BY <1>1, <1>6, SameView
  <2>2. \A n : Below(n) /\ PathTo(n) = dst => n = source
    BY Zenon, <1>3, PlacesFacts
  <2> QED BY Zenon, <1>3, <2>1, <2>2
<1>8. Waiting' = {source}
  BY Zenon, <1>4, <1>5 DEF Waiting
<1>9. Opened' = {}
  BY Zenon, <1>7, <1>8 DEF Opened
<1>10. Tasks' = {} /\ Planned' = {}
  BY Zenon, <1>2, ToSetOfNone DEF Tasks, Planned
<1>11. Found' = {}
  BY Zenon, <1>2, <1>7, <1>10 DEF Found
<1>12. DirsMirror'
  <2>1. IsInjective(dirs')
    BY Zenon, <1>4 DEF IsInjective
  <2>2. source \in Directories
    BY Zenon, <1>1, <1>3 DEF Directories
  <2> QED BY Zenon, <1>1, <1>2, <1>3, <1>6, <2>1, <2>2, SameView DEF DirsMirror
<1>13. StackMirrors'
  <2>1. IsInjective([i \in DOMAIN stack' |-> stack'[i].from])
    BY <1>4 DEF IsInjective
  <2>2. \A i \in DOMAIN stack' : stack'[i].from \in Met' /\ stack'[i].to = PathTo(stack'[i].from)
    BY Zenon, <1>3, <1>4, <1>5, <1>7
  <2>3. \A n : PathTo(n)' = PathTo(n)
    BY Zenon, <1>1, SameView
  <2> QED BY Zenon, <2>1, <2>2, <2>3 DEF StackMirrors
<1>14. HereIsOpen'
  BY Zenon, <1>2 DEF HereIsOpen
<1>15. TasksMirror'
  <2>1. /\ ToSet(bulk') = {} /\ ToSet(small') = {} /\ DOMAIN bulk' = {} /\ DOMAIN small' = {}
    BY Zenon, <1>2, ToSetOfNone
  <2>2. totalBytes' = Sizes(Tasks')
    BY Zenon, <1>2, <1>10, SizesOfNone
  <2>3. /\ NoRepeat(bulk')
        /\ NoRepeat(small')
    BY Zenon, <2>1, NoRepeatIs
  <2>4. SourcesIn(bulk') \cap SourcesIn(small') = {}
    BY Zenon, <2>1, SourcesInIs
  <2> QED BY Zenon, <1>10, <2>1, <2>2, <2>3, <2>4 DEF TasksMirror
<1>16. FoundIsOpen'
  BY Zenon, <1>2, <1>11 DEF FoundIsOpen
<1>17. OpenIsFound'
  BY Zenon, <1>9 DEF OpenIsFound
<1> QED BY Zenon, <1>12, <1>13, <1>14, <1>15, <1>16, <1>17, WalkPartsNext

\* What the two actions that take a directory off the stack have in common: it
\* counts as opened from then on.
LEMMA OffTheStack ==
    ASSUME InputsTyped, PlanTyped, WalkInv, UNCHANGED inputs, UNCHANGED planVars,
           stack # <<>>, stack' = Front(stack)
    PROVE  /\ DirsMirror' /\ StackMirrors'
           /\ Last(stack).from \in Met /\ Last(stack).from \notin Opened
           /\ Opened' = Opened \cup {Last(stack).from}
           /\ Last(stack).to = PathTo(Last(stack).from) /\ Kind[Last(stack).from] = "dir"
           /\ Found' = Found
<1> DEFINE m == Len(stack)
           d == stack[m].from
<1>1. stack \in Seq(StackItem)
  BY Zenon DEF PlanTyped
<1>2. /\ DOMAIN stack' = DOMAIN stack \ {m} /\ m \in DOMAIN stack /\ Last(stack) = stack[m]
      /\ Last(stack) \in StackItem
      /\ \A i \in DOMAIN stack' : stack'[i] = stack[i]
  BY Zenon, <1>1, Taken
<1>3. /\ \A i, j \in DOMAIN stack : stack[i].from = stack[j].from => i = j
      /\ \A i \in DOMAIN stack : stack[i].from \in Met /\ stack[i].to = PathTo(stack[i].from)
  <2>1. IsInjective([i \in DOMAIN stack |-> stack[i].from])
    BY Zenon DEF WalkInv, StackMirrors
  <2>2. \A i, j \in DOMAIN stack : stack[i].from = stack[j].from => i = j
    BY <2>1 DEF IsInjective
  <2> QED BY Zenon, <2>2 DEF WalkInv, StackMirrors
<1>4. UNCHANGED dirs /\ UNCHANGED bulk /\ UNCHANGED small
  BY Zenon DEF planVars
<1> HIDE DEF m
<1>5. Met' = Met /\ Planned' = Planned
  BY Zenon, <1>4, SameView
<1>6. Waiting' = Waiting \ {d} /\ d \in Waiting
  <2>1. ASSUME NEW n \in Waiting' PROVE n \in Waiting \ {d}
    <3>1. PICK i \in DOMAIN stack' : n = stack'[i].from
      BY Zenon DEF Waiting
    <3>2. i \in DOMAIN stack /\ i # m /\ n = stack[i].from
      BY Zenon, <1>2, <3>1
    <3>3. n # d
      BY Zenon, <1>2, <1>3, <3>2
    <3> QED BY Zenon, <3>2, <3>3 DEF Waiting
  <2>2. ASSUME NEW n \in Waiting \ {d} PROVE n \in Waiting'
    <3>1. PICK i \in DOMAIN stack : n = stack[i].from
      BY Zenon DEF Waiting
    <3>2. i # m
      BY Zenon, <3>1
    <3>3. i \in DOMAIN stack' /\ n = stack'[i].from
      BY Zenon, <1>2, <3>1, <3>2
    <3> QED BY Zenon, <3>3 DEF Waiting
  <2>3. d \in Waiting
    BY Zenon, <1>2 DEF Waiting
  <2> QED BY Zenon, <2>1, <2>2, <2>3
<1>7. d \in Met /\ Last(stack).from = d /\ Last(stack).to = PathTo(d)
  BY Zenon, <1>2, <1>3
<1>8. Opened' = Opened \cup {d} /\ d \notin Opened
  BY Zenon, <1>5, <1>6, <1>7 DEF Opened
<1>9. Kind[Last(stack).from] = "dir"
  BY <1>2 DEF StackItem, Directories
<1>10. Found' = Found
  BY Zenon, <1>5 DEF Found, inputs
<1>11. DirsMirror'
  BY Zenon, <1>4, DirsMirrorStays DEF WalkInv
<1>12. StackMirrors'
  <2>1. \A i, j \in DOMAIN stack' : stack'[i].from = stack'[j].from => i = j
    BY Zenon, <1>2, <1>3
  <2>2. IsInjective([i \in DOMAIN stack' |-> stack'[i].from])
    BY <2>1 DEF IsInjective
  <2>3. \A i \in DOMAIN stack' : stack'[i].from \in Met' /\ stack'[i].to = PathTo(stack'[i].from)
    <3>1. ASSUME NEW i \in DOMAIN stack' PROVE stack'[i].from \in Met' /\ stack'[i].to = PathTo(stack'[i].from)
      <4>1. i \in DOMAIN stack /\ stack'[i] = stack[i]
        BY Zenon, <1>2
      <4>2. stack[i].from \in Met /\ stack[i].to = PathTo(stack[i].from)
        BY Zenon, <1>3, <4>1
      <4> QED BY Zenon, <1>5, <4>1, <4>2
    <3> QED BY Zenon, <3>1
  <2>4. \A n : PathTo(n)' = PathTo(n)
    BY Zenon, SameView
  <2> QED BY Zenon, <2>2, <2>3, <2>4 DEF StackMirrors
<1> QED BY Zenon, <1>7, <1>8, <1>9, <1>10, <1>11, <1>12

LEMMA OpenDirWalks ==
    ASSUME InputsTyped, PlanTyped, WalkInv, OpenDir
    PROVE  WalkInv'
<1> DEFINE d == Last(stack).from
<1>1. /\ entries = {} /\ stack # <<>> /\ here' = Last(stack) /\ stack' = Front(stack)
      /\ entries' = Listing(d) /\ UNCHANGED inputs /\ UNCHANGED planVars
      /\ UNCHANGED lost /\ UNCHANGED unsized
  BY Zenon DEF OpenDir
<1>2. /\ DirsMirror' /\ StackMirrors' /\ d \in Met /\ d \notin Opened /\ Opened' = Opened \cup {d}
      /\ Last(stack).to = PathTo(d) /\ Kind[d] = "dir" /\ Found' = Found
  BY Zenon, <1>1, OffTheStack
<1>3. here'.from = d /\ here'.to = PathTo(d)
  BY Zenon, <1>1, <1>2
<1> HIDE DEF d
<1>4. entries' = {c \in Nodes : Front(c) = d}
  BY <1>1, <1>2 DEF Listing
<1>5. /\ \A n \in Found \cup lost : Front(n) \in Opened
      /\ \A n \in Found : n \notin lost /\ ~Hidden(n)
      /\ \A n \in Nodes : Front(n) \in Opened /\ n \notin lost /\ ~Hidden(n) /\ Kind[n] # "link" => n \in Found
  BY Zenon, <1>1 DEF WalkInv, FoundIsOpen, OpenIsFound
<1>6. \A n : (Hidden(n)' <=> Hidden(n)) /\ PathTo(n)' = PathTo(n)
  BY Zenon, <1>1, SameView
<1>7. HereIsOpen'
  <2>1. \A n \in entries' : here'.from \in Opened' /\ here'.to = PathTo(here'.from) /\ Front(n) = here'.from
    BY Zenon, <1>2, <1>3, <1>4
  <2> QED BY Zenon, <1>6, <2>1 DEF HereIsOpen
<1>8. TasksMirror'
  BY Zenon, <1>1, TasksMirrorStays DEF WalkInv, planVars
<1>9. FoundIsOpen'
  <2>1. \A n \in Found' \cup lost' : Front(n) \in Opened' /\ n \notin entries'
    BY Zenon, <1>1, <1>2, <1>4, <1>5
  <2>2. \A n \in Found' : n \notin lost' /\ ~Hidden(n)
    BY Zenon, <1>1, <1>2, <1>5
  <2> QED BY Zenon, <1>6, <2>1, <2>2 DEF FoundIsOpen
<1>10. OpenIsFound'
  <2>1. ASSUME NEW n \in Nodes, Front(n) \in Opened', n \notin entries' \cup lost', ~Hidden(n), Kind[n] # "link"
        PROVE  n \in Found'
    BY Zenon, <1>1, <1>2, <1>4, <1>5, <2>1
  <2> QED BY Zenon, <1>6, <2>1 DEF OpenIsFound
<1> QED BY Zenon, <1>2, <1>7, <1>8, <1>9, <1>10, WalkPartsNext

LEMMA OpenFailsWalks ==
    ASSUME InputsTyped, PlanTyped, WalkInv, OpenFails
    PROVE  WalkInv'
<1> DEFINE d == Last(stack).from
<1>1. /\ entries = {} /\ stack # <<>> /\ stack' = Front(stack) /\ lost' = lost \cup Listing(d)
      /\ UNCHANGED inputs /\ UNCHANGED planVars /\ UNCHANGED entries /\ UNCHANGED unsized
  BY Zenon DEF OpenFails
<1>2. /\ DirsMirror' /\ StackMirrors' /\ d \in Met /\ d \notin Opened /\ Opened' = Opened \cup {d}
      /\ Kind[d] = "dir" /\ Found' = Found
  BY Zenon, <1>1, OffTheStack
<1> HIDE DEF d
<1>3. lost' = lost \cup {c \in Nodes : Front(c) = d}
  BY <1>1, <1>2 DEF Listing
<1>4. entries' = {}
  BY Zenon, <1>1
<1>5. /\ \A n \in Found \cup lost : Front(n) \in Opened
      /\ \A n \in Found : n \notin lost /\ ~Hidden(n)
      /\ \A n \in Nodes : Front(n) \in Opened /\ n \notin lost /\ ~Hidden(n) /\ Kind[n] # "link" => n \in Found
  BY Zenon, <1>1 DEF WalkInv, FoundIsOpen, OpenIsFound
<1>6. \A n : (Hidden(n)' <=> Hidden(n)) /\ PathTo(n)' = PathTo(n)
  BY Zenon, <1>1, SameView
<1>7. HereIsOpen'
  BY Zenon, <1>4 DEF HereIsOpen
<1>8. TasksMirror'
  BY Zenon, <1>1, TasksMirrorStays DEF WalkInv, planVars
<1>9. FoundIsOpen'
  <2>1. \A n \in Found' \cup lost' : Front(n) \in Opened' /\ n \notin entries'
    BY Zenon, <1>2, <1>3, <1>4, <1>5
  <2>2. \A n \in Found' : n \notin lost' /\ ~Hidden(n)
    BY Zenon, <1>2, <1>3, <1>5
  <2> QED BY Zenon, <1>6, <2>1, <2>2 DEF FoundIsOpen
<1>10. OpenIsFound'
  <2>1. ASSUME NEW n \in Nodes, Front(n) \in Opened', n \notin entries' \cup lost', ~Hidden(n), Kind[n] # "link"
        PROVE  n \in Found'
    BY Zenon, <1>2, <1>3, <1>5, <2>1
  <2> QED BY Zenon, <1>6, <2>1 DEF OpenIsFound
<1> QED BY Zenon, <1>2, <1>7, <1>8, <1>9, <1>10, WalkPartsNext

\* What the actions that only drop an entry have in common.
LEMMA EntryDropped ==
    ASSUME InputsTyped, PlanTyped, WalkInv, NEW n, Consume(n),
           UNCHANGED inputs, UNCHANGED stack, UNCHANGED here,
           UNCHANGED <<dirs, bulk, small, totalBytes, unsized>>,
           lost' \in {lost, lost \cup {n}},
           lost' = lost => Hidden(n) \/ Kind[n] = "link"
    PROVE  WalkInv'
<1>1. n \in entries /\ entries' = entries \ {n}
  BY Zenon DEF Consume
<1>2. n \in Nodes /\ n \notin Found \cup lost /\ Front(n) \in Opened
  BY Zenon, <1>1, EntryPlace
<1>3. Met' = Met /\ Waiting' = Waiting /\ Planned' = Planned
  BY Zenon, SameView
<1>4. Opened' = Opened /\ Found' = Found
  BY Zenon, <1>3 DEF Opened, Found, inputs
<1>5. lost \subseteq lost' /\ lost' \subseteq lost \cup {n}
  BY Zenon
<1>6. \A m : (Hidden(m)' <=> Hidden(m)) /\ PathTo(m)' = PathTo(m)
  BY Zenon, SameView
<1>7. DirsMirror' /\ StackMirrors' /\ TasksMirror'
  BY Zenon, DirsMirrorStays, StackMirrorsStays, TasksMirrorStays DEF WalkInv
<1>8. HereIsOpen'
  <2>1. \A m \in entries' : here'.from \in Opened' /\ here'.to = PathTo(here'.from) /\ Front(m) = here'.from
    BY Zenon, <1>1, <1>4 DEF WalkInv, HereIsOpen
  <2> QED BY Zenon, <1>6, <2>1 DEF HereIsOpen
<1>9. FoundIsOpen'
  <2>1. ASSUME NEW m \in Found' \cup lost' PROVE Front(m) \in Opened' /\ m \notin entries'
    <3>1. CASE m \in Found \cup lost
      BY Zenon, <1>1, <1>4, <3>1 DEF WalkInv, FoundIsOpen
    <3>2. CASE m = n
      BY Zenon, <1>1, <1>2, <1>4, <3>2
    <3> QED BY Zenon, <1>4, <1>5, <3>1, <3>2
  <2>2. \A m \in Found' : m \notin lost' /\ ~Hidden(m)
    BY Zenon, <1>2, <1>4, <1>5 DEF WalkInv, FoundIsOpen
  <2> QED BY Zenon, <1>6, <2>1, <2>2 DEF FoundIsOpen
<1>10. OpenIsFound'
  <2>1. ASSUME NEW m \in Nodes, Front(m) \in Opened', m \notin entries' \cup lost', ~Hidden(m), Kind[m] # "link"
        PROVE  m \in Found'
    <3>1. m # n
      BY Zenon, <2>1
    <3> QED BY Zenon, <1>1, <1>4, <1>5, <2>1, <3>1 DEF WalkInv, OpenIsFound
  <2> QED BY Zenon, <1>6, <2>1 DEF OpenIsFound
<1> QED BY Zenon, <1>7, <1>8, <1>9, <1>10, WalkPartsNext

\* What the actions that plan an entry have in common.
LEMMA EntryPlanned ==
    ASSUME InputsTyped, PlanTyped, WalkInv, NEW n, Consume(n), ~Excluded(n),
           UNCHANGED inputs, UNCHANGED here, UNCHANGED lost,
           Opened' = Opened, Found' = Found \cup {n}
    PROVE  HereIsOpen' /\ FoundIsOpen' /\ OpenIsFound'
<1>1. n \in entries /\ entries' = entries \ {n}
  BY Zenon DEF Consume
<1>2. n \in Nodes /\ n \notin Found \cup lost /\ Front(n) \in Opened /\ ~Hidden(n)
  BY Zenon, <1>1, EntryPlace, ExcludedIs
<1>3. \A m : (Hidden(m)' <=> Hidden(m)) /\ PathTo(m)' = PathTo(m)
  BY Zenon, SameView
<1>4. HereIsOpen'
  <2>1. \A m \in entries' : here'.from \in Opened' /\ here'.to = PathTo(here'.from) /\ Front(m) = here'.from
    BY Zenon, <1>1 DEF WalkInv, HereIsOpen
  <2> QED BY Zenon, <1>3, <2>1 DEF HereIsOpen
<1>5. FoundIsOpen'
  <2>1. ASSUME NEW m \in Found' \cup lost' PROVE Front(m) \in Opened' /\ m \notin entries'
    <3>1. CASE m \in Found \cup lost
      BY Zenon, <1>1, <3>1 DEF WalkInv, FoundIsOpen
    <3>2. CASE m = n
      BY Zenon, <1>1, <1>2, <3>2
    <3> QED BY Zenon, <3>1, <3>2
  <2>2. \A m \in Found' : m \notin lost' /\ ~Hidden(m)
    BY Zenon, <1>2 DEF WalkInv, FoundIsOpen
  <2> QED BY Zenon, <1>3, <2>1, <2>2 DEF FoundIsOpen
<1>6. OpenIsFound'
  <2>1. ASSUME NEW m \in Nodes, Front(m) \in Opened', m \notin entries' \cup lost', ~Hidden(m), Kind[m] # "link"
        PROVE  m \in Found'
    <3>1. CASE m = n
      BY Zenon, <3>1
    <3>2. CASE m # n
      BY Zenon, <1>1, <2>1, <3>2 DEF WalkInv, OpenIsFound
    <3> QED BY <3>1, <3>2
  <2> QED BY Zenon, <1>3, <2>1 DEF OpenIsFound
<1> QED BY Zenon, <1>4, <1>5, <1>6

LEMMA PushDirWalks ==
    ASSUME InputsTyped, PlanTyped, WalkInv, NEW n, PushDir(n)
    PROVE  WalkInv'
<1> DEFINE child == [from |-> n, to |-> Append(here.to, Last(n))]
           m == Len(stack) + 1
<1>1. /\ Consume(n) /\ ~Excluded(n) /\ Kind[n] = "dir" /\ n \in entries
      /\ dirs' = Append(dirs, child.to) /\ stack' = Append(stack, child)
      /\ UNCHANGED inputs /\ UNCHANGED <<here, bulk, small, totalBytes, lost, unsized>>
  BY Zenon DEF PushDir, Consume
<1>2. /\ n \in Nodes /\ Below(n) /\ n # source /\ n \notin Found \cup lost /\ n \notin Met
      /\ Front(n) \in Opened /\ PathTo(n) = Append(here.to, Last(n)) /\ PathTo(n) \notin ToSet(dirs)
  BY Zenon, <1>1, EntryPlace
<1>3. child.from = n /\ child.to = PathTo(n) /\ PathTo(n) \in Paths
  <2>1. child.from = n /\ child.to = Append(here.to, Last(n))
    OBVIOUS
  <2> HIDE DEF child
  <2> QED BY Zenon, <1>2, <2>1, PlacesFacts
<1>4. child \in StackItem /\ n \in Directories
  <2>1. n \in Directories
    BY Zenon, <1>1, <1>2 DEF Directories
  <2>2. child.to \in Paths
    BY Zenon, <1>3
  <2> QED BY <2>1, <2>2 DEF StackItem
<1> HIDE DEF child
<1>5. /\ dirs \in Seq(Paths) /\ ToSet(dirs') = ToSet(dirs) \cup {PathTo(n)}
      /\ dirs' = Append(dirs, PathTo(n))
  <2>1. dirs' = Append(dirs, PathTo(n)) /\ dirs \in Seq(Paths)
    BY Zenon, <1>1, <1>3 DEF PlanTyped
  <2>2. ToSet(Append(dirs, PathTo(n))) = ToSet(dirs) \cup {PathTo(n)}
    BY <1>3, <2>1, Appended
  <2> QED BY Zenon, <2>1, <2>2
<1>6. stack \in Seq(StackItem)
  BY Zenon DEF PlanTyped
<1>7. /\ DOMAIN stack' = DOMAIN stack \cup {m} /\ m \notin DOMAIN stack /\ stack'[m] = child
      /\ \A i \in DOMAIN stack : stack'[i] = stack[i]
  BY <1>1, <1>4, <1>6, Appended
<1> HIDE DEF m
<1>8. \A a : Below(a) /\ PathTo(a) = PathTo(n) => a = n
  BY Zenon, <1>2, PlacesFacts
<1>9. Met' = Met \cup {n}
  <2>1. Met' = {a \in Nodes : Below(a) /\ PathTo(a) \in ToSet(dirs')}
    BY Zenon, <1>1, SameView
  <2>2. ASSUME NEW a PROVE a \in Met' <=> a \in Met \cup {n}
    BY Zenon, <1>2, <1>5, <1>8, <2>1 DEF Met
  <2> QED BY Zenon, <2>2
<1>10. Waiting' = Waiting \cup {n}
  <2>1. ASSUME NEW a \in Waiting' PROVE a \in Waiting \cup {n}
    <3>1. PICK i \in DOMAIN stack' : a = stack'[i].from
      BY Zenon DEF Waiting
    <3>2. CASE i \in DOMAIN stack
      BY Zenon, <1>7, <3>1, <3>2 DEF Waiting
    <3>3. CASE i = m
      BY Zenon, <1>3, <1>7, <3>1, <3>3
    <3> QED BY Zenon, <1>7, <3>2, <3>3
  <2>2. ASSUME NEW a \in Waiting PROVE a \in Waiting'
    <3>1. PICK i \in DOMAIN stack : a = stack[i].from
      BY Zenon DEF Waiting
    <3>2. i \in DOMAIN stack' /\ a = stack'[i].from
      BY Zenon, <1>7, <3>1
    <3> QED BY Zenon, <3>2 DEF Waiting
  <2>3. n \in Waiting'
    <3>1. m \in DOMAIN stack' /\ n = stack'[m].from
      BY Zenon, <1>3, <1>7
    <3> QED BY Zenon, <3>1 DEF Waiting
  <2> QED BY Zenon, <2>1, <2>2, <2>3
<1>11. Opened' = Opened
  BY Zenon, <1>2, <1>9, <1>10 DEF Opened
<1>12. Found' = Found \cup {n}
  <2>1. Planned' = Planned /\ source' = source
    BY Zenon, <1>1, SameView DEF inputs
  <2> QED BY Zenon, <1>2, <1>9, <2>1 DEF Found
<1>13. HereIsOpen' /\ FoundIsOpen' /\ OpenIsFound'
  BY Zenon, <1>1, <1>11, <1>12, EntryPlanned
<1>14. DirsMirror'
  <2>1. IsInjective(dirs')
    BY Zenon, <1>2, <1>3, <1>5, InjectiveAppended DEF WalkInv, DirsMirror
  <2>2. dst \in ToSet(dirs') /\ Kind[source] = "dir"
    BY Zenon, <1>5 DEF WalkInv, DirsMirror
  <2>3. ASSUME NEW p \in ToSet(dirs') PROVE \E a \in Directories : Below(a) /\ p = PathTo(a)
    <3>1. CASE p \in ToSet(dirs)
      BY Zenon, <3>1 DEF WalkInv, DirsMirror
    <3>2. CASE p = PathTo(n)
      BY Zenon, <1>2, <1>4, <3>2
    <3> QED BY Zenon, <1>5, <3>1, <3>2
  <2>4. \A a : (Below(a)' <=> Below(a)) /\ PathTo(a)' = PathTo(a)
    BY Zenon, <1>1, SameView
  <2>5. source' = source /\ dst' = dst
    BY Zenon, <1>1 DEF inputs
  <2> QED BY Zenon, <2>1, <2>2, <2>3, <2>4, <2>5 DEF DirsMirror
<1>15. StackMirrors'
  <2>1. /\ \A i, j \in DOMAIN stack : stack[i].from = stack[j].from => i = j
        /\ \A i \in DOMAIN stack : stack[i].from \in Met /\ stack[i].to = PathTo(stack[i].from)
    <3>1. IsInjective([i \in DOMAIN stack |-> stack[i].from])
      BY Zenon DEF WalkInv, StackMirrors
    <3>2. \A i, j \in DOMAIN stack : stack[i].from = stack[j].from => i = j
      BY <3>1 DEF IsInjective
    <3> QED BY Zenon, <3>2 DEF WalkInv, StackMirrors
  <2>2. \A i \in DOMAIN stack : stack[i].from # n
    BY Zenon, <1>2, <2>1
  <2>3. ASSUME NEW i \in DOMAIN stack', NEW j \in DOMAIN stack', stack'[i].from = stack'[j].from
        PROVE  i = j
    <3>1. CASE i \in DOMAIN stack /\ j \in DOMAIN stack
      BY Zenon, <1>7, <2>1, <2>3, <3>1
    <3>2. CASE i = m /\ j \in DOMAIN stack
      BY Zenon, <1>3, <1>7, <2>2, <2>3, <3>2
    <3>3. CASE i \in DOMAIN stack /\ j = m
      BY Zenon, <1>3, <1>7, <2>2, <2>3, <3>3
    <3> QED BY Zenon, <1>7, <3>1, <3>2, <3>3
  <2>4. IsInjective([i \in DOMAIN stack' |-> stack'[i].from])
    BY <2>3 DEF IsInjective
  <2>5. ASSUME NEW i \in DOMAIN stack' PROVE stack'[i].from \in Met' /\ stack'[i].to = PathTo(stack'[i].from)
    <3>1. CASE i \in DOMAIN stack
      <4>1. stack'[i] = stack[i] /\ stack[i].from \in Met /\ stack[i].to = PathTo(stack[i].from)
        BY Zenon, <1>7, <2>1, <3>1
      <4> QED BY Zenon, <1>9, <4>1
    <3>2. CASE i = m
      <4>1. stack'[i] = child
        BY Zenon, <1>7, <3>2
      <4>2. stack'[i].from = n /\ stack'[i].to = PathTo(n)
        BY Zenon, <1>3, <4>1
      <4> QED BY Zenon, <1>9, <4>2
    <3> QED BY Zenon, <1>7, <3>1, <3>2
  <2>6. \A a : PathTo(a)' = PathTo(a)
    BY Zenon, <1>1, SameView
  <2> QED BY Zenon, <2>4, <2>5, <2>6 DEF StackMirrors
<1>16. TasksMirror'
  BY Zenon, <1>1, TasksMirrorStays DEF WalkInv
<1> QED BY Zenon, <1>13, <1>14, <1>15, <1>16, WalkPartsNext

\* A list of tasks with one more, for a file that is in none of them yet.
LEMMA SourcesAppended ==
    ASSUME NEW q \in Seq(TaskRecord), NEW t \in TaskRecord, t.src \notin SourcesIn(q),
           NoRepeat(q),
           NEW r, r = Append(q, t)
    PROVE  /\ NoRepeat(r)
           /\ SourcesIn(r) = SourcesIn(q) \cup {t.src}
<1> DEFINE m == Len(q) + 1
<1>1. /\ DOMAIN r = DOMAIN q \cup {m} /\ m \notin DOMAIN q /\ r[m] = t
      /\ \A i \in DOMAIN q : r[i] = q[i]
  BY Appended
<1>2. \A i, j \in DOMAIN q : q[i].src = q[j].src => i = j
  BY Zenon, NoRepeatIs
<1>3. \A i \in DOMAIN q : q[i].src # t.src
  BY Zenon, SourcesInIs
<1> HIDE DEF m
<1>4. ASSUME NEW i \in DOMAIN r, NEW j \in DOMAIN r, r[i].src = r[j].src PROVE i = j
  <2>1. CASE i \in DOMAIN q /\ j \in DOMAIN q
    BY Zenon, <1>1, <1>2, <1>4, <2>1
  <2>2. CASE i = m /\ j \in DOMAIN q
    BY Zenon, <1>1, <1>3, <1>4, <2>2
  <2>3. CASE i \in DOMAIN q /\ j = m
    BY Zenon, <1>1, <1>3, <1>4, <2>3
  <2> QED BY Zenon, <1>1, <2>1, <2>2, <2>3
<1>5. NoRepeat(r)
  BY Zenon, <1>4, NoRepeatIs
<1>6. ASSUME NEW a PROVE a \in SourcesIn(r) <=> a \in SourcesIn(q) \cup {t.src}
  <2>1. ToSet(r) = ToSet(q) \cup {t}
    BY Appended
  <2>2. t \in ToSet(r) /\ \A u \in ToSet(q) : u \in ToSet(r)
    BY Zenon, <2>1
  <2>3. t.src \in SourcesIn(r) /\ \A u \in ToSet(q) : u.src \in SourcesIn(r)
    BY Zenon, <2>2, SourcesInIs
  <2>4. \A u \in ToSet(r) : u.src = t.src \/ u.src \in SourcesIn(q)
    <3>1. \A u \in ToSet(q) : u.src \in SourcesIn(q)
      BY Zenon, SourcesInIs
    <3> QED BY Zenon, <2>1, <3>1
  <2>5. CASE a \in SourcesIn(r)
    <3>1. PICK u \in ToSet(r) : a = u.src
      BY <2>5, SourcesInIs
    <3> QED BY <2>4, <2>5, <3>1
  <2>6. CASE a \in SourcesIn(q)
    <3>1. PICK u \in ToSet(q) : a = u.src
      BY Zenon, <2>6, SourcesInIs
    <3> QED BY Zenon, <2>3, <2>6, <3>1
  <2> QED BY Zenon, <2>3, <2>5, <2>6
<1>7. SourcesIn(r) = SourcesIn(q) \cup {t.src}
  BY Zenon, <1>6
<1> QED BY Zenon, <1>5, <1>7

\* One more task of a new source in one of two lists.
LEMMA OneMoreTask ==
    ASSUME NEW a \in Seq(TaskRecord), NEW b \in Seq(TaskRecord), NEW t \in TaskRecord,
           NoRepeat(a),
           SourcesIn(a) \cap SourcesIn(b) = {},
           t.src \notin SourcesIn(a), t.src \notin SourcesIn(b),
           NEW r, r = Append(a, t)
    PROVE  /\ NoRepeat(r)
           /\ SourcesIn(r) \cap SourcesIn(b) = {}
           /\ ToSet(r) = ToSet(a) \cup {t}
<1>3. /\ NoRepeat(r)
      /\ SourcesIn(r) = SourcesIn(a) \cup {t.src}
  BY SourcesAppended
<1>4. ToSet(r) = ToSet(a) \cup {t}
  BY Appended
<1>5. SourcesIn(r) \cap SourcesIn(b) = {}
  BY Zenon, <1>3
<1> QED BY Zenon, <1>3, <1>4, <1>5

LEMMA TasksFinite ==
    ASSUME PlanTyped
    PROVE  IsFiniteSet(Tasks) /\ \A t \in Tasks : t \in TaskRecord /\ t.size \in Nat /\ t.src \in Nodes
<1>1. bulk \in Seq(TaskRecord) /\ small \in Seq(TaskRecord)
  BY Zenon DEF PlanTyped
<1>2. /\ IsFiniteSet(ToSet(bulk)) /\ ToSet(bulk) \subseteq TaskRecord
      /\ IsFiniteSet(ToSet(small)) /\ ToSet(small) \subseteq TaskRecord
  BY Zenon, <1>1, ToSetIs
<1>3. IsFiniteSet(ToSet(bulk) \cup ToSet(small))
  BY <1>2, FS_Union
<1>4. \A t \in TaskRecord : t.size \in Nat /\ t.src \in Nodes
  BY DEF TaskRecord
<1> QED BY Zenon, <1>2, <1>3, <1>4 DEF Tasks

LEMMA PushFileWalks ==
    ASSUME InputsTyped, PlanTyped, WalkInv, NEW n, PushFile(n)
    PROVE  WalkInv'
<1>1. /\ Consume(n) /\ ~Excluded(n) /\ Kind[n] = "file" /\ n \in entries
      /\ UNCHANGED inputs /\ UNCHANGED <<stack, here, dirs, lost>>
  BY Zenon DEF PushFile, Consume
<1>2. PICK size \in {Size[n]} \cup (IF "metadata" \in Faults THEN {0} ELSE {}) :
          /\ totalBytes' = totalBytes + size
          /\ Push(Task(n, Append(here.to, Last(n)), size))
          /\ unsized' = IF size = Size[n] THEN unsized ELSE unsized \cup {n}
  BY Zenon DEF PushFile
<1>3. /\ n \in Nodes /\ Below(n) /\ n # source /\ n \notin Found \cup lost
      /\ Front(n) \in Opened /\ PathTo(n) = Append(here.to, Last(n)) /\ PathTo(n) \in Paths
  BY Zenon, <1>1, EntryPlace, PlacesFacts
<1>4. size \in Nat
  <2>1. Size[n] \in Nat
    BY Zenon, <1>3, NodeFacts
  <2> QED BY <2>1
<1> DEFINE t == Task(n, PathTo(n), size)
<1>5. t \in TaskRecord
  BY Zenon, <1>3, <1>4, NewTask
<1>6. t.src = n /\ t.dst = PathTo(n) /\ t.size = size
  BY DEF Task
<1>7. /\ totalBytes' = totalBytes + size /\ Push(t)
      /\ unsized' = IF size = Size[n] THEN unsized ELSE unsized \cup {n}
  BY Zenon, <1>2, <1>3
<1> HIDE DEF t
<1>8. bulk \in Seq(TaskRecord) /\ small \in Seq(TaskRecord) /\ totalBytes \in Nat
  BY Zenon DEF PlanTyped
<1>9. \/ size >= threshold /\ bulk' = Append(bulk, t) /\ small' = small
      \/ ~ (size >= threshold) /\ small' = Append(small, t) /\ bulk' = bulk
  BY Zenon, <1>5, <1>6, <1>7, <1>8, Pushed
<1>10. \A u \in Tasks : u.src # n
  BY Zenon, <1>3 DEF Found, Planned
<1>11. /\ NoRepeat(bulk)
       /\ NoRepeat(small)
       /\ SourcesIn(bulk) \cap SourcesIn(small) = {}
  BY Zenon DEF WalkInv, TasksMirror
<1>12. /\ Tasks' = Tasks \cup {t}
       /\ NoRepeat(bulk')
       /\ NoRepeat(small')
       /\ SourcesIn(bulk') \cap SourcesIn(small') = {}
       /\ ToSet(bulk') \subseteq ToSet(bulk) \cup {t} /\ ToSet(small') \subseteq ToSet(small) \cup {t}
  <2>1. t.src \notin SourcesIn(bulk) /\ t.src \notin SourcesIn(small)
    <3>1. \A u \in ToSet(bulk) : u.src # n
      BY Zenon, <1>10 DEF Tasks
    <3>2. \A u \in ToSet(small) : u.src # n
      BY Zenon, <1>10 DEF Tasks
    <3> QED BY <1>6, <3>1, <3>2, SourcesInIs
  <2>2. CASE bulk' = Append(bulk, t) /\ small' = small
    <3>1. /\ NoRepeat(bulk')
          /\ SourcesIn(bulk') \cap SourcesIn(small) = {}
          /\ ToSet(bulk') = ToSet(bulk) \cup {t}
      BY <1>5, <1>8, <1>11, <2>1, <2>2, OneMoreTask
    <3>2. Tasks' = Tasks \cup {t}
      BY Zenon, <2>2, <3>1 DEF Tasks
    <3> QED BY Zenon, <1>11, <2>2, <3>1, <3>2
  <2>3. CASE small' = Append(small, t) /\ bulk' = bulk
    <3>1. SourcesIn(small) \cap SourcesIn(bulk) = {}
      BY Zenon, <1>11
    <3>3. /\ NoRepeat(small')
          /\ SourcesIn(small') \cap SourcesIn(bulk) = {}
          /\ ToSet(small') = ToSet(small) \cup {t}
      BY <1>5, <1>8, <1>11, <2>1, <2>3, <3>1, OneMoreTask
    <3>4. Tasks' = Tasks \cup {t}
      BY Zenon, <2>3, <3>3 DEF Tasks
    <3> QED BY Zenon, <1>11, <2>3, <3>3, <3>4
  <2> QED BY Zenon, <1>9, <2>2, <2>3
<1>13. Planned' = Planned \cup {n}
  BY Zenon, <1>6, <1>12 DEF Planned
<1>14. Met' = Met /\ Waiting' = Waiting
  BY Zenon, <1>1, SameView
<1>15. Opened' = Opened /\ Found' = Found \cup {n}
  BY Zenon, <1>1, <1>13, <1>14 DEF Opened, Found, inputs
<1>16. HereIsOpen' /\ FoundIsOpen' /\ OpenIsFound'
  BY Zenon, <1>1, <1>15, EntryPlanned
<1>17. DirsMirror' /\ StackMirrors'
  BY Zenon, <1>1, DirsMirrorStays, StackMirrorsStays DEF WalkInv
<1>18. TasksMirror'
  <2>1. ASSUME NEW u \in Tasks'
        PROVE  /\ Below(u.src) /\ Kind[u.src] = "file" /\ u.dst = PathTo(u.src)
               /\ u.src \notin unsized' => u.size = Size[u.src]
    <3>1. CASE u \in Tasks
      BY Zenon, <1>7, <3>1 DEF WalkInv, TasksMirror
    <3>2. CASE u = t
      BY Zenon, <1>1, <1>3, <1>6, <1>7, <3>2
    <3> QED BY Zenon, <1>12, <3>1, <3>2
  <2>2. threshold' = threshold
    BY Zenon, <1>1 DEF inputs
  <2>3. \A u \in ToSet(bulk') : u.size >= threshold
    <3>1. \A u \in ToSet(bulk) : u.size >= threshold
      BY Zenon DEF WalkInv, TasksMirror
    <3> QED BY Zenon, <1>6, <1>9, <1>12, <3>1
  <2>4. \A u \in ToSet(small') : u.size < threshold
    <3>1. \A u \in ToSet(small) : u.size < threshold
      BY Zenon DEF WalkInv, TasksMirror
    <3>2. CASE size >= threshold
      <4>1. small' = small
        BY Zenon, <1>9, <3>2
      <4> QED BY Zenon, <3>1, <4>1
    <3>3. CASE ~ (size >= threshold)
      <4>1. threshold \in Nat
        BY Zenon, SourceFacts
      <4>2. size < threshold
        BY <1>4, <3>3, <4>1
      <4> QED BY Zenon, <1>6, <1>12, <3>1, <4>2
    <3> QED BY Zenon, <3>2, <3>3
  <2>5. totalBytes' = Sizes(Tasks')
    <3>1. IsFiniteSet(Tasks) /\ \A u \in Tasks : u.size \in Nat
      BY Zenon, TasksFinite
    <3>2. t \notin Tasks
      BY Zenon, <1>6, <1>10
    <3>3. \A u \in Tasks \cup {t} : u.size \in Nat
      BY Zenon, <1>4, <1>6, <3>1
    <3>4. Sizes(Tasks \cup {t}) = Sizes(Tasks) + t.size
      BY Zenon, <3>1, <3>2, <3>3, SizesAdd
    <3>5. totalBytes = Sizes(Tasks)
      BY Zenon DEF WalkInv, TasksMirror
    <3> QED BY Zenon, <1>6, <1>7, <1>12, <3>4, <3>5
  <2>6. \A a : (Below(a)' <=> Below(a)) /\ PathTo(a)' = PathTo(a)
    BY Zenon, <1>1, SameView
  <2> QED BY Zenon, <1>12, <2>1, <2>2, <2>3, <2>4, <2>5, <2>6 DEF TasksMirror
<1> QED BY Zenon, <1>16, <1>17, <1>18, WalkPartsNext

-------------------------------------------------------------------------------
(* What the plan is worth when the scan is over, and on the way. *)

\* What stands at the end of the walk: every directory met was opened, and all
\* that was found is what can be got to.
LEMMA FoundIsSeen ==
    ASSUME InputsTyped, PlanTyped, WalkInv, entries = {}, stack = <<>>
    PROVE  /\ Met = {n \in Directories : Seen(n)}
           /\ Planned = {n \in Nodes : Kind[n] = "file" /\ Seen(n)}
<1>1. Waiting = {} /\ Opened = Met
  BY Zenon, ToSetOfNone DEF Waiting, Opened
<1>2. /\ \A n \in Found : Front(n) \in Met /\ n \notin lost /\ ~Hidden(n)
      /\ \A n \in Nodes : Front(n) \in Met /\ n \notin lost /\ ~Hidden(n) /\ Kind[n] # "link" => n \in Found
  BY Zenon, <1>1 DEF WalkInv, FoundIsOpen, OpenIsFound
<1>3. source \in Met
  <2>1. Below(source) /\ PathTo(source) = dst
    BY Zenon, SourceFacts
  <2>2. dst \in ToSet(dirs)
    BY Zenon DEF WalkInv, DirsMirror
  <2> QED BY Zenon, <2>1, <2>2 DEF Met, Below
<1>4. \A n \in Met : Below(n) /\ Kind[n] = "dir" /\ n \in Directories
  <2>1. ASSUME NEW n \in Met PROVE Below(n) /\ n \in Directories
    <3>1. Below(n) /\ PathTo(n) \in ToSet(dirs)
      BY Zenon DEF Met
    <3>2. PICK d \in Directories : Below(d) /\ PathTo(n) = PathTo(d)
      BY Zenon, <3>1 DEF WalkInv, DirsMirror
    <3>3. n = d
      BY Zenon, <3>1, <3>2, PlacesFacts
    <3> QED BY Zenon, <3>1, <3>2, <3>3
  <2>2. \A n \in Directories : Kind[n] = "dir"
    BY Zenon DEF Directories
  <2> QED BY Zenon, <2>1, <2>2
<1>5. \A n \in Planned : Below(n) /\ Kind[n] = "file"
  BY Zenon DEF WalkInv, TasksMirror, Planned
<1>6. \A n : Below(n) => n \in Nodes /\ Len(n) \in Nat
  BY Zenon, NodeFacts DEF Below
<1>7. Kind[source] = "dir" /\ Seen(source)
  BY Zenon, SeenOfSource DEF WalkInv, DirsMirror
\* By induction over the length of the paths.
<1> DEFINE Right(n) == Seen(n) <=> n \in Found \cup {source}
           Good == {k \in Nat : \A n : Below(n) /\ Kind[n] # "link" /\ Len(n) < k => Right(n)}
<1>8. 0 \in Good
  BY <1>6
<1>9. ASSUME NEW k \in Good PROVE k + 1 \in Good
  <2>1. k \in Nat /\ \A n : Below(n) /\ Kind[n] # "link" /\ Len(n) < k => Right(n)
    <3> HIDE DEF Right
    <3> QED OBVIOUS
  <2>2. ASSUME NEW n, Below(n), Kind[n] # "link", Len(n) < k + 1 PROVE Right(n)
    <3>1. CASE n = source
      BY Zenon, <1>7, <3>1
    <3>2. CASE n # source
      <4>1. Below(Front(n)) /\ Kind[Front(n)] = "dir" /\ Len(n) = Len(Front(n)) + 1
        BY Zenon, <2>2, <3>2, ParentFacts
      <4>2. Len(Front(n)) < k
        <5>1. Len(n) \in Nat /\ Len(Front(n)) \in Nat
          BY Zenon, <1>6, <2>2, <4>1
        <5> QED BY <2>1, <2>2, <4>1, <5>1
      <4>3. Seen(Front(n)) <=> Front(n) \in Found \cup {source}
        BY Zenon, <2>1, <4>1, <4>2
      <4>4. Front(n) \in Found \cup {source} <=> Front(n) \in Met
        <5>1. Front(n) \notin Planned
          BY Zenon, <1>5, <4>1
        <5> QED BY Zenon, <1>3, <5>1 DEF Found
      <4>5. Seen(n) <=> Front(n) \in Met /\ n \notin lost /\ ~Hidden(n)
        BY Zenon, <2>2, <3>2, <4>3, <4>4, SeenOfEntry
      <4>6. n \in Found \cup {source} <=> Front(n) \in Met /\ n \notin lost /\ ~Hidden(n)
        BY Zenon, <1>2, <1>6, <2>2, <3>2
      <4> QED BY Zenon, <4>5, <4>6
    <3> QED BY Zenon, <3>1, <3>2
  <2> HIDE DEF Right
  <2> QED BY <2>1, <2>2
<1>10. Good = Nat
  <2> HIDE DEF Good
  <2> QED BY <1>8, <1>9, Induction DEF Good
<1>11. ASSUME NEW n, Below(n), Kind[n] # "link" PROVE Seen(n) <=> n \in Found \cup {source}
  <2>1. Len(n) + 1 \in Nat /\ Len(n) < Len(n) + 1
    BY <1>6, <1>11
  <2>2. Len(n) + 1 \in Good
    BY Zenon, <1>10, <2>1
  <2> HIDE DEF Right
  <2>3. Right(n)
    BY <1>11, <2>1, <2>2
  <2> QED BY Zenon, <2>3 DEF Right
<1>12. \A n \in Nodes : Seen(n) => Below(n)
  BY Zenon DEF Seen, Below
<1>13. Met = {n \in Directories : Seen(n)}
  <2>1. ASSUME NEW n \in Met PROVE n \in Directories /\ Seen(n)
    <3>1. n \in Found \cup {source}
      BY Zenon DEF Found
    <3>2. Kind[n] # "link"
      BY <1>4
    <3> QED BY Zenon, <1>4, <1>11, <3>1, <3>2
  <2>2. ASSUME NEW n \in Directories, Seen(n) PROVE n \in Met
    <3>1. n \in Nodes /\ Kind[n] = "dir"
      BY Zenon DEF Directories
    <3>2. Below(n) /\ Kind[n] # "link" /\ Kind[n] # "file"
      BY Zenon, <1>12, <2>2, <3>1
    <3>3. n \in Found \cup {source} /\ n \notin Planned
      BY Zenon, <1>5, <1>11, <2>2, <3>2
    <3> QED BY Zenon, <1>3, <3>3 DEF Found
  <2> QED BY Zenon, <2>1, <2>2
<1>14. Planned = {n \in Nodes : Kind[n] = "file" /\ Seen(n)}
  <2>1. ASSUME NEW n \in Planned PROVE n \in Nodes /\ Kind[n] = "file" /\ Seen(n)
    <3>1. Below(n) /\ Kind[n] = "file" /\ n \in Nodes
      BY Zenon, <1>5, <1>6
    <3>2. Kind[n] # "link" /\ n \in Found \cup {source}
      BY Zenon, <3>1 DEF Found
    <3> QED BY Zenon, <1>11, <3>1, <3>2
  <2>2. ASSUME NEW n \in Nodes, Kind[n] = "file", Seen(n) PROVE n \in Planned
    <3>1. Below(n) /\ Kind[n] # "link" /\ Kind[n] # "dir"
      BY Zenon, <1>12, <2>2
    <3>2. n \in Found \cup {source} /\ n \notin Met
      BY Zenon, <1>4, <1>11, <2>2, <3>1
    <3> QED BY Zenon, <1>3, <3>2 DEF Found
  <2> QED BY Zenon, <2>1, <2>2
<1> QED BY Zenon, <1>13, <1>14

LEMMA PrefixOfFront ==
    ASSUME NEW p \in Paths, NEW q \in Paths, IsPrefix(p, q), p # q
    PROVE  Len(q) >= 1 /\ IsPrefix(p, Front(q))
<1>1. Len(p) \in Nat /\ Len(q) \in Nat
  BY Zenon, PathParts
<1>2. Len(p) <= Len(q) /\ \A i \in 1..Len(p) : p[i] = q[i]
  BY Zenon, PrefixIs
<1>3. Len(p) # Len(q)
  <2>1. SUFFICES ASSUME Len(p) = Len(q) PROVE FALSE
    OBVIOUS
  <2>2. p = q
    BY Zenon, <1>2, <2>1, SamePath
  <2> QED BY Zenon, <2>2
<1>4. Len(q) >= 1
  BY <1>1, <1>2, <1>3
<1>5. Front(q) \in Paths /\ Len(Front(q)) = Len(q) - 1 /\ \A i \in 1..(Len(q) - 1) : Front(q)[i] = q[i]
  BY Zenon, <1>4, FrontOfPath
<1>6. Len(p) <= Len(Front(q)) /\ \A i \in 1..Len(p) : i \in 1..(Len(q) - 1)
  BY <1>1, <1>2, <1>3, <1>5
<1>7. \A i \in 1..Len(p) : p[i] = Front(q)[i]
  BY Zenon, <1>2, <1>5, <1>6
<1> QED BY Zenon, <1>4, <1>5, <1>6, <1>7, PrefixIs

\* The directories on the way to one that was met were all opened.
LEMMA AncestorsOpened ==
    ASSUME InputsTyped, PlanTyped, WalkInv
    PROVE  \A b \in Met : \A a : Below(a) /\ IsPrefix(a, b) /\ a # b => a \in Opened
<1>1. \A n : Below(n) => n \in Nodes /\ n \in Paths /\ Len(n) \in Nat
  BY Zenon, NodeFacts DEF Below
<1>2. \A n \in Met : Below(n)
  BY Zenon DEF Met
<1> DEFINE Right(b) == \A a : Below(a) /\ IsPrefix(a, b) /\ a # b => a \in Opened
           Good == {k \in Nat : \A b \in Met : Len(b) < k => Right(b)}
<1>3. 0 \in Good
  BY <1>1, <1>2
<1>4. ASSUME NEW k \in Good PROVE k + 1 \in Good
  <2>1. k \in Nat /\ \A b \in Met : Len(b) < k => Right(b)
    <3> HIDE DEF Right
    <3> QED OBVIOUS
  <2>2. ASSUME NEW b \in Met, Len(b) < k + 1, NEW a, Below(a), IsPrefix(a, b), a # b PROVE a \in Opened
    <3>1. b \in Paths /\ a \in Paths /\ Below(b)
      BY Zenon, <1>1, <1>2, <2>2
    <3>2. b # source
      <4>1. SUFFICES ASSUME b = source PROVE FALSE
        OBVIOUS
      <4>2. IsPrefix(b, a)
        BY Zenon, <2>2, <4>1 DEF Below
      <4>3. Len(a) <= Len(b) /\ Len(b) <= Len(a) /\ \A i \in 1..Len(a) : a[i] = b[i]
        BY Zenon, <2>2, <3>1, <4>2, PrefixIs
      <4>4. Len(a) = Len(b)
        <5>1. Len(a) \in Nat /\ Len(b) \in Nat
          BY Zenon, <3>1, PathParts
        <5> QED BY <4>3, <5>1
      <4>5. a = b
        BY Zenon, <3>1, <4>3, <4>4, SamePath
      <4> QED BY Zenon, <2>2, <4>5
    <3>3. Front(b) \in Opened
      BY Zenon, <3>2 DEF WalkInv, FoundIsOpen, Found
    <3>4. Len(b) = Len(Front(b)) + 1 /\ Below(Front(b))
      BY Zenon, <3>1, <3>2, ParentFacts
    <3>5. Len(Front(b)) < k
      <4>1. Len(Front(b)) \in Nat
        BY Zenon, <1>1, <3>4
      <4> QED BY <2>1, <2>2, <3>4, <4>1
    <3>6. IsPrefix(a, Front(b))
      BY Zenon, <2>2, <3>1, PrefixOfFront
    <3>7. CASE a = Front(b)
      BY Zenon, <3>3, <3>7
    <3>8. CASE a # Front(b)
      <4>1. Front(b) \in Met
        BY Zenon, <3>3 DEF Opened
      <4> QED BY Zenon, <2>1, <2>2, <3>5, <3>6, <3>8, <4>1
    <3> QED BY Zenon, <3>7, <3>8
  <2>3. \A b \in Met : Len(b) < k + 1 => Right(b)
    BY Zenon, <2>2
  <2> HIDE DEF Right
  <2> QED BY <2>1, <2>3
<1>5. Good = Nat
  <2> HIDE DEF Good
  <2> QED BY <1>3, <1>4, Induction DEF Good
<1>6. ASSUME NEW b \in Met PROVE Right(b)
  <2>1. Len(b) + 1 \in Nat /\ Len(b) < Len(b) + 1
    BY <1>1, <1>2
  <2>2. Len(b) + 1 \in Good
    BY Zenon, <1>5, <2>1
  <2> HIDE DEF Right
  <2> QED BY <2>1, <2>2
<1> QED BY Zenon, <1>6

LEMMA WalksOnce ==
    ASSUME InputsTyped, PlanTyped, WalkInv
    PROVE  WalkedOnce
<1>1. NoRepeat(bulk) /\ NoRepeat(small) /\ SourcesIn(bulk) \cap SourcesIn(small) = {} /\ IsInjective(dirs)
  BY Zenon DEF WalkInv, TasksMirror, DirsMirror
<1>2. \A t \in Tasks : t.src \notin entries
  BY Zenon DEF WalkInv, FoundIsOpen, Found, Planned
<1>3. /\ \A i, j \in DOMAIN stack : stack[i].from = stack[j].from => i = j
      /\ \A i \in DOMAIN stack : stack[i].from \in Met /\ stack[i].to = PathTo(stack[i].from)
  <2>1. IsInjective([i \in DOMAIN stack |-> stack[i].from])
    BY Zenon DEF WalkInv, StackMirrors
  <2>2. \A i, j \in DOMAIN stack : stack[i].from = stack[j].from => i = j
    BY <2>1 DEF IsInjective
  <2> QED BY Zenon, <2>2 DEF WalkInv, StackMirrors
<1>4. ASSUME NEW i \in DOMAIN stack, NEW j \in DOMAIN stack, i # j, IsPrefix(stack[i].to, stack[j].to)
      PROVE  FALSE
  <2> DEFINE a == stack[i].from
             b == stack[j].from
  <2>1. a # b /\ a \in Met /\ b \in Met
    BY Zenon, <1>3, <1>4
  <2>2. IsPrefix(PathTo(a), PathTo(b))
    <3>1. stack[i].to = PathTo(a) /\ stack[j].to = PathTo(b)
      BY Zenon, <1>3
    <3> QED BY Zenon, <1>4, <3>1
  <2>3. a \in Waiting
    BY Zenon DEF Waiting
  <2> HIDE DEF a, b
  <2>4. Below(a) /\ Below(b)
    BY Zenon, <2>1 DEF Met
  <2>5. IsPrefix(a, b)
    BY Zenon, <2>2, <2>4, PlacesFacts
  <2>6. a \in Opened
    BY Zenon, <2>1, <2>4, <2>5, AncestorsOpened
  <2> QED BY Zenon, <2>3, <2>6 DEF Opened
<1> QED BY Zenon, <1>1, <1>2, <1>4 DEF WalkedOnce, NoRepeat, SourcesIn

\* Every file goes to the destination, or below it; a source that is a file goes
\* there under its own name, or as it.
StaysInside ==
    /\ \A t \in Tasks : IsPrefix(dst, t.dst)
    /\ Kind[source] # "dir" =>
          \A t \in Tasks : t.src = source /\ t.dst \in {dst, Append(dst, Last(source))}

Done ==
    /\ stack = <<>> /\ entries = {}
    /\ PlanIsExact /\ WalkedOnce /\ DirectoriesReady /\ StaysInside

LEMMA WalkEnds ==
    ASSUME InputsTyped, PlanTyped, WalkInv, Finish
    PROVE  Done'
<1>1. /\ entries = {} /\ stack = <<>> /\ entries' = {} /\ stack' = <<>> /\ lost' = lost /\ unsized' = unsized
      /\ UNCHANGED inputs /\ small' = small /\ totalBytes' = totalBytes
  BY Zenon DEF Finish
<1>2. /\ dirs' \in Seq(Paths) /\ IsInjective(dirs') /\ ToSet(dirs') = ToSet(dirs) /\ Ordered(dirs')
      /\ ToSet(bulk') = ToSet(bulk) /\ (NoRepeat(bulk) => NoRepeat(bulk'))
      /\ SourcesIn(bulk') = SourcesIn(bulk)
  BY Zenon, Sorted
<1>3. Tasks' = Tasks /\ Planned' = Planned
  BY Zenon, <1>1, <1>2 DEF Tasks, Planned
<1>4. /\ Met = {n \in Directories : Seen(n)}
      /\ Planned = {n \in Nodes : Kind[n] = "file" /\ Seen(n)}
  BY Zenon, <1>1, FoundIsSeen
<1>5. \A n : (Seen(n)' <=> Seen(n)) /\ PathTo(n)' = PathTo(n)
  <2>1. \A n : PathTo(n)' = PathTo(n) /\ (Hidden(n)' <=> Hidden(n))
    BY Zenon, <1>1, SameView
  <2> QED BY Zenon, <1>1, <2>1 DEF Seen, inputs
<1>6. ToSet(dirs) = {PathTo(n) : n \in Met}
  <2>1. ASSUME NEW p \in ToSet(dirs) PROVE p \in {PathTo(n) : n \in Met}
    <3>1. PICK n \in Directories : Below(n) /\ p = PathTo(n)
      BY Zenon DEF WalkInv, DirsMirror
    <3> QED BY Zenon, <3>1 DEF Met, Below
  <2>2. \A n \in Met : PathTo(n) \in ToSet(dirs)
    BY Zenon DEF Met
  <2> QED BY Zenon, <2>1, <2>2
<1>7. /\ \A t \in Tasks : t.dst = PathTo(t.src) /\ Below(t.src) /\ t.src \in Planned
      /\ \A t \in Tasks : t.src \notin unsized => t.size = Size[t.src]
      /\ \A t \in ToSet(bulk) : t.size >= threshold
      /\ \A t \in ToSet(small) : t.size < threshold
      /\ totalBytes = Sizes(Tasks)
  BY Zenon DEF WalkInv, TasksMirror, Planned
<1>8. source' = source /\ dst' = dst /\ threshold' = threshold
  BY Zenon, <1>1 DEF inputs
<1>9. PlanIsExact'
  <2>1. ASSUME NEW t \in Tasks, t.src \notin unsized
        PROVE  t.size = Size[t.src] /\ (t \in ToSet(bulk) <=> Size[t.src] >= threshold)
    <3>1. t.size = Size[t.src] /\ t.size \in Nat /\ threshold \in Nat
      BY Zenon, <1>7, <2>1, TasksFinite, SourceFacts
    <3>2. CASE t \in ToSet(bulk)
      BY Zenon, <1>7, <3>1, <3>2
    <3>3. CASE t \notin ToSet(bulk)
      <4>1. t.size < threshold
        BY Zenon, <1>7, <3>3 DEF Tasks
      <4>2. ~ (t.size >= threshold)
        BY <3>1, <4>1
      <4> QED BY Zenon, <3>1, <3>3, <4>2
    <3> QED BY Zenon, <3>2, <3>3
  <2>2. ({t.src : t \in Tasks} = {n \in Nodes : Kind[n] = "file" /\ Seen(n)})'
    BY Zenon, <1>3, <1>4, <1>5 DEF Planned
  <2>3. (\A t \in Tasks : t.dst = PathTo(t.src))'
    BY Zenon, <1>3, <1>5, <1>7
  <2>4. (\A t \in Tasks : t.src \notin unsized =>
            t.size = Size[t.src] /\ (t \in ToSet(bulk) <=> Size[t.src] >= threshold))'
    BY Zenon, <1>1, <1>2, <1>3, <1>8, <2>1
  <2>5. (ToSet(dirs) = {PathTo(n) : n \in {d \in Directories : Seen(d)}})'
    BY Zenon, <1>2, <1>4, <1>5, <1>6
  <2>6. (totalBytes = Sizes(Tasks))'
    BY Zenon, <1>1, <1>3, <1>7
  <2> QED BY Zenon, <2>2, <2>3, <2>4, <2>5, <2>6 DEF PlanIsExact
<1>10. WalkedOnce'
  <2>1. NoRepeat(bulk') /\ NoRepeat(small') /\ SourcesIn(bulk') \cap SourcesIn(small') = {}
    BY Zenon, <1>1, <1>2 DEF WalkInv, TasksMirror
  <2>2. \A i \in DOMAIN stack' : FALSE
    BY Zenon, <1>1, ToSetOfNone
  <2> QED BY Zenon, <1>1, <1>2, <2>1, <2>2 DEF WalkedOnce, NoRepeat, SourcesIn
<1>11. DirectoriesReady'
  <2>1. /\ Len(dirs') \in Nat /\ DOMAIN dirs' = 1..Len(dirs')
        /\ \A i \in DOMAIN dirs' : dirs'[i] \in ToSet(dirs') /\ dirs'[i] \in Paths
        /\ \A p \in ToSet(dirs') : \E i \in DOMAIN dirs' : p = dirs'[i]
    BY Zenon, <1>2, ToSetIs
  <2>2. \A n \in Met : Below(n) /\ PathTo(n) \in Paths
    BY Zenon, PlacesFacts DEF Met
  <2>3. \A i \in DOMAIN dirs' : \E n \in Met : dirs'[i] = PathTo(n)
    BY Zenon, <1>2, <1>6, <2>1
  <2>4. PICK k \in DOMAIN dirs' : dst = dirs'[k]
    <3>1. dst \in ToSet(dirs')
      BY Zenon, <1>2 DEF WalkInv, DirsMirror
    <3> QED BY Zenon, <2>1, <3>1
  <2>5. \A i, j \in DOMAIN dirs' : i < j => PathBefore(dirs'[i], dirs'[j])
    BY Zenon, <1>2 DEF Ordered
  <2>6. \A i, j \in DOMAIN dirs' : dirs'[i] = dirs'[j] => i = j
    BY Zenon, <1>2 DEF IsInjective
  <2>7. dst \in Paths /\ Len(dst) \in Nat
    BY Zenon, SourceFacts, PathParts
  <2>8. k = 1
    <3>1. SUFFICES ASSUME k # 1 PROVE FALSE
      OBVIOUS
    <3>2. k \in Nat /\ 1 \in DOMAIN dirs' /\ 1 < k
      BY <2>1, <3>1
    <3>3. PICK n \in Met : dirs'[1] = PathTo(n)
      BY Zenon, <2>3, <3>2
    <3>4. PathBefore(PathTo(n), dst)
      BY Zenon, <2>4, <2>5, <3>2, <3>3
    <3>5. PathTo(n) # dst
      BY Zenon, <2>4, <2>6, <3>1, <3>2, <3>3
    <3>6. PathTo(n) \in Paths /\ IsPrefix(dst, PathTo(n))
      BY Zenon, <2>2, PlacesFacts
    <3>7. Len(dst) < Len(PathTo(n))
      <4>1. Len(PathTo(n)) \in Nat
        BY Zenon, <3>6, PathParts
      <4>2. Len(dst) <= Len(PathTo(n)) /\ \A i \in 1..Len(dst) : dst[i] = PathTo(n)[i]
        BY Zenon, <2>7, <3>6, PrefixIs
      <4>3. Len(dst) # Len(PathTo(n))
        BY Zenon, <2>7, <3>5, <3>6, <4>2, SamePath
      <4> QED BY <2>7, <4>1, <4>2, <4>3
    <3> QED BY Zenon, <2>7, <3>4, <3>6, <3>7, PrefixComesFirst
  <2>9. ASSUME NEW i \in 2..Len(dirs') PROVE \E j \in 1..(i - 1) : dirs'[j] = Front(dirs'[i])
    <3>1. i \in DOMAIN dirs' /\ i \in Nat /\ i # 1
      BY <2>1
    <3>2. PICK n \in Met : dirs'[i] = PathTo(n)
      BY Zenon, <2>3, <3>1
    <3>3. n # source
      <4>1. SUFFICES ASSUME n = source PROVE FALSE
        OBVIOUS
      <4>2. dirs'[i] = dst
        BY Zenon, <3>2, <4>1, SourceFacts
      <4> QED BY Zenon, <2>4, <2>6, <2>8, <3>1, <4>2
    <3>4. Front(n) \in Met
      BY Zenon, <3>3 DEF WalkInv, FoundIsOpen, Found, Opened
    <3>5. Below(n) /\ Below(Front(n)) /\ n \in Nodes
      BY Zenon, <2>2, <3>4 DEF Below
    <3>6. PathTo(n) = Append(PathTo(Front(n)), Last(n)) /\ Front(PathTo(n)) = PathTo(Front(n))
      BY Zenon, <3>5, EntryFacts
    <3>7. PICK j \in DOMAIN dirs' : PathTo(Front(n)) = dirs'[j]
      <4>1. PathTo(Front(n)) \in ToSet(dirs')
        BY Zenon, <1>2, <1>6, <3>4
      <4> QED BY Zenon, <2>1, <4>1
    <3>8. IsPrefix(PathTo(Front(n)), PathTo(n)) /\ Len(PathTo(Front(n))) < Len(PathTo(n))
      <4>1. Last(n) \in Seq(Nat) /\ PathTo(Front(n)) \in Paths /\ PathTo(n) \in Paths
        BY Zenon, <2>2, <3>4, <3>5, NodeFacts
      <4>2. /\ Len(PathTo(n)) = Len(PathTo(Front(n))) + 1
            /\ \A l \in 1..Len(PathTo(Front(n))) : PathTo(n)[l] = PathTo(Front(n))[l]
        <5>1. \A p \in Paths, name \in Seq(Nat) :
                  Len(Append(p, name)) = Len(p) + 1 /\ \A l \in 1..Len(p) : Append(p, name)[l] = p[l]
          BY AppendProperties DEF Paths
        <5> QED BY Zenon, <3>6, <4>1, <5>1
      <4>3. Len(PathTo(Front(n))) \in Nat
        BY Zenon, <4>1, PathParts
      <4>4. Len(PathTo(Front(n))) <= Len(PathTo(n)) /\ Len(PathTo(Front(n))) < Len(PathTo(n))
        BY <4>2, <4>3
      <4> QED BY Zenon, <4>1, <4>2, <4>4, PrefixIs
    <3>9. ~PathBefore(PathTo(n), PathTo(Front(n)))
      BY Zenon, <2>2, <3>4, <3>8, PrefixComesFirst
    <3>10. ~ (i < j)
      BY Zenon, <2>5, <3>1, <3>2, <3>7, <3>9
    <3>11. i # j
      <4>1. SUFFICES ASSUME i = j PROVE FALSE
        OBVIOUS
      <4>2. PathTo(n) = PathTo(Front(n))
        BY Zenon, <3>2, <3>7, <4>1
      <4>3. Len(PathTo(n)) \in Nat
        BY Zenon, <2>2, PathParts
      <4> QED BY <3>8, <4>2, <4>3
    <3>12. j \in 1..(i - 1)
      BY <2>1, <3>1, <3>10, <3>11
    <3> QED BY Zenon, <3>2, <3>6, <3>7, <3>12
  <2>10. ASSUME NEW t \in Tasks' PROVE Front(t.dst) \in ToSet(dirs')
    <3>1. t.dst = PathTo(t.src) /\ Below(t.src) /\ t.src \in Planned
      BY Zenon, <1>3, <1>7
    <3>2. Front(t.src) \in Met
      BY Zenon, <3>1 DEF WalkInv, FoundIsOpen, Found, Opened
    <3>3. Front(PathTo(t.src)) = PathTo(Front(t.src))
      BY Zenon, <2>2, <3>1, <3>2, EntryFacts DEF Below
    <3> QED BY Zenon, <1>2, <1>6, <3>1, <3>2, <3>3
  <2> QED BY Zenon, <1>8, <2>4, <2>8, <2>9, <2>10 DEF DirectoriesReady
<1>12. StaysInside'
  <2>1. \A t \in Tasks : IsPrefix(dst, t.dst)
    <3>1. \A a : Below(a) => IsPrefix(dst, PathTo(a))
      BY Zenon, PlacesFacts
    <3> QED BY Zenon, <1>7, <3>1
  <2>2. Tasks' = Tasks /\ dst' = dst /\ source' = source /\ Kind[source] = "dir"
    BY Zenon, <1>3, <1>8 DEF WalkInv, DirsMirror
  <2> QED BY Zenon, <2>1, <2>2 DEF StaysInside
<1> QED BY Zenon, <1>1, <1>9, <1>10, <1>11, <1>12 DEF Done

LEMMA FilePlanned ==
    ASSUME InputsTyped, PlanTyped, Empty, PlanFile
    PROVE  Done'
<1> DEFINE target == IF dstIsDir THEN Append(dst, Last(source)) ELSE dst
           t == Task(source, target, Size[source])
<1>1. /\ dirs' = <<Front(target)>> /\ Push(t) /\ Kind[source] = "file" /\ UNCHANGED inputs
      /\ UNCHANGED <<stack, here, entries, totalBytes, skippedLinks, lost, unsized>>
  BY Zenon DEF PlanFile
<1>2. t.dst = target /\ t.src = source /\ target \in {dst, Append(dst, Last(source))}
  BY DEF Task
<1> HIDE DEF t, target
<1>3. /\ bulk = <<>> /\ small = <<>> /\ stack' = <<>> /\ entries' = {}
  BY Zenon, <1>1 DEF Empty
<1>4. source' = source /\ Kind[source] # "dir"
  BY Zenon, <1>1 DEF inputs
<1>5. (bulk' = <<t>> /\ small' = <<>>) \/ (bulk' = <<>> /\ small' = <<t>>)
  BY <1>1, <1>3 DEF Push
<1>6. DOMAIN <<t>> = {1} /\ <<t>>[1] = t /\ DOMAIN <<Front(target)>> = {1} /\ <<Front(target)>>[1] = Front(target)
      /\ Len(<<Front(target)>>) = 1
  OBVIOUS
<1>7. ToSet(<<t>>) = {t} /\ ToSet(dirs') = {Front(target)} /\ ToSet(<<>>) = {} /\ DOMAIN <<>> = {}
  BY Zenon, <1>1, <1>6, ToSetOfNone DEF ToSet
<1>8. Tasks' = {t}
  BY Zenon, <1>5, <1>7 DEF Tasks
<1>9. /\ NoRepeat(<<t>>) /\ NoRepeat(<<>>)
      /\ \A q : SourcesIn(q) \cap SourcesIn(<<>>) = {} /\ SourcesIn(<<>>) \cap SourcesIn(q) = {}
  <2>1. NoRepeat(<<t>>) /\ NoRepeat(<<>>)
    BY Zenon, <1>6, <1>7, NoRepeatIs
  <2>2. SourcesIn(<<>>) = {}
    BY Zenon, <1>7 DEF SourcesIn
  <2> QED BY Zenon, <2>1, <2>2
<1>10. PlanIsExact'
  BY Zenon, <1>4 DEF PlanIsExact
<1>11. WalkedOnce'
  <2>1. NoRepeat(bulk') /\ NoRepeat(small') /\ SourcesIn(bulk') \cap SourcesIn(small') = {}
    BY Zenon, <1>5, <1>9
  <2>2. IsInjective(dirs')
    BY Zenon, <1>1, <1>6 DEF IsInjective
  <2>3. DOMAIN stack' = {}
    BY Zenon, <1>3, <1>7
  <2> QED BY Zenon, <1>3, <2>1, <2>2, <2>3 DEF WalkedOnce, NoRepeat, SourcesIn
<1>12. DirectoriesReady'
  <2>1. 2..Len(dirs') = {}
    BY <1>1, <1>6
  <2>2. \A u \in Tasks' : Front(u.dst) \in ToSet(dirs')
    BY Zenon, <1>2, <1>7, <1>8
  <2> QED BY Zenon, <1>4, <2>1, <2>2 DEF DirectoriesReady
<1>13. StaysInside'
  <2>1. dst \in Paths /\ Last(source) \in Seq(Nat)
    BY Zenon, SourceFacts, NodeFacts
  <2>2. IsPrefix(dst, dst)
    <3>1. Len(dst) \in Nat
      BY Zenon, <2>1, PathParts
    <3>2. Len(dst) <= Len(dst)
      BY <3>1
    <3> QED BY Zenon, <2>1, <3>2, PrefixIs
  <2>3. IsPrefix(dst, Append(dst, Last(source)))
    <3>1. /\ Append(dst, Last(source)) \in Paths
          /\ Len(Append(dst, Last(source))) = Len(dst) + 1 /\ Len(dst) \in Nat
      BY Zenon, <2>1, AppendToPath, PathParts
    <3>2. \A i \in 1..Len(dst) : Append(dst, Last(source))[i] = dst[i]
      BY <2>1, AppendProperties DEF Paths
    <3>3. Len(dst) <= Len(Append(dst, Last(source)))
      BY <3>1
    <3> QED BY Zenon, <2>1, <3>1, <3>2, <3>3, PrefixIs
  <2>4. dst' = dst /\ IsPrefix(dst, target)
    BY Zenon, <1>1, <2>2, <2>3 DEF inputs, target
  <2> QED BY Zenon, <1>2, <1>4, <1>8, <2>4 DEF StaysInside
<1> QED BY Zenon, <1>3, <1>10, <1>11, <1>12, <1>13 DEF Done

\* The inductive invariant: nothing before the walk, WalkInv during it, what the
\* plan promises after it.
ScanInv ==
    /\ InputsTyped /\ PlanTyped
    /\ phase \in {"start", "refused"} => Empty
    /\ phase = "walk" => WalkInv
    /\ phase = "done" => Done

LEMMA ScanInvNext ==
    ScanInv' <=> /\ InputsTyped' /\ PlanTyped'
                 /\ phase' \in {"start", "refused"} => Empty'
                 /\ phase' = "walk" => WalkInv'
                 /\ phase' = "done" => Done'
BY Zenon DEF ScanInv

LEMMA StillThere ==
    ASSUME UNCHANGED vars
    PROVE  /\ Empty' <=> Empty
           /\ WalkInv' <=> WalkInv
           /\ Done' <=> Done
<1>0. /\ UNCHANGED inputs /\ UNCHANGED planVars
      /\ phase' = phase /\ stack' = stack /\ here' = here /\ entries' = entries
      /\ lost' = lost /\ unsized' = unsized
  BY Zenon DEF vars
<1>1. /\ source' = source /\ dst' = dst /\ threshold' = threshold /\ dirs' = dirs /\ bulk' = bulk
      /\ small' = small /\ totalBytes' = totalBytes
  BY Zenon, <1>0 DEF inputs, planVars
<1>2. Empty' <=> Empty
  BY Zenon, <1>0, <1>1 DEF Empty
<1>3. /\ Met' = Met /\ Waiting' = Waiting /\ Tasks' = Tasks /\ Planned' = Planned
      /\ \A n : (Below(n)' <=> Below(n)) /\ PathTo(n)' = PathTo(n) /\ (Hidden(n)' <=> Hidden(n))
  BY Zenon, <1>0, <1>1, SameView
<1>4. Opened' = Opened /\ Found' = Found
  BY Zenon, <1>1, <1>3 DEF Opened, Found
<1>5. DirsMirror' <=> DirsMirror
  BY Zenon, <1>1, <1>3 DEF DirsMirror
<1>6. StackMirrors' <=> StackMirrors
  BY Zenon, <1>0, <1>3 DEF StackMirrors
<1>7. HereIsOpen' <=> HereIsOpen
  BY Zenon, <1>0, <1>3, <1>4 DEF HereIsOpen
<1>8. TasksMirror' <=> TasksMirror
  BY Zenon, <1>0, <1>1, <1>3 DEF TasksMirror
<1>9. FoundIsOpen' <=> FoundIsOpen
  BY Zenon, <1>0, <1>3, <1>4 DEF FoundIsOpen
<1>10. OpenIsFound' <=> OpenIsFound
  BY Zenon, <1>0, <1>3, <1>4 DEF OpenIsFound
<1>11. WalkInv' <=> WalkInv
  BY Zenon, <1>5, <1>6, <1>7, <1>8, <1>9, <1>10, WalkParts, WalkPartsNext
<1>12. \A n : Seen(n)' <=> Seen(n)
  BY Zenon, <1>0, <1>1, <1>3 DEF Seen
<1>13. PlanIsExact' <=> PlanIsExact
  BY Zenon, <1>0, <1>1, <1>3, <1>12 DEF PlanIsExact
<1>14. WalkedOnce' <=> WalkedOnce
  <2>1. (NoRepeat(bulk) /\ NoRepeat(small) /\ SourcesIn(bulk) \cap SourcesIn(small) = {})'
            <=> NoRepeat(bulk) /\ NoRepeat(small) /\ SourcesIn(bulk) \cap SourcesIn(small) = {}
    BY Zenon, <1>1
  <2>2. (IsInjective(dirs) /\ \A i, j \in DOMAIN stack : i # j => ~IsPrefix(stack[i].to, stack[j].to))'
            <=> IsInjective(dirs) /\ \A i, j \in DOMAIN stack : i # j => ~IsPrefix(stack[i].to, stack[j].to)
    BY Zenon, <1>0, <1>1
  <2>3. (\A t \in Tasks : t.src \notin entries)' <=> \A t \in Tasks : t.src \notin entries
    BY Zenon, <1>0, <1>3
  <2> QED BY Zenon, <2>1, <2>2, <2>3 DEF WalkedOnce, NoRepeat, SourcesIn
<1>15. DirectoriesReady' <=> DirectoriesReady
  BY Zenon, <1>0, <1>1, <1>3 DEF DirectoriesReady
<1>16. StaysInside' <=> StaysInside
  BY Zenon, <1>1, <1>3 DEF StaysInside
<1>17. Done' <=> Done
  BY Zenon, <1>0, <1>13, <1>14, <1>15, <1>16 DEF Done
<1> QED BY Zenon, <1>2, <1>11, <1>17

LEMMA VisitWalks ==
    ASSUME InputsTyped, PlanTyped, WalkInv, NEW n \in Nodes, Visit(n)
    PROVE  WalkInv'
<1>1. CASE EntryFails(n)
  <2>1. n \in entries /\ lost' = lost \cup {n}
    BY Zenon, <1>1 DEF EntryFails, Consume
  <2>2. lost' # lost
    BY Zenon, <2>1, EntryPlace
  <2> QED BY Zenon, <1>1, <2>1, <2>2, EntryDropped DEF EntryFails, planVars
<1>2. CASE Exclude(n)
  <2>1. Hidden(n)
    BY Zenon, <1>2, ExcludedIs DEF Exclude
  <2> QED BY Zenon, <1>2, <2>1, EntryDropped DEF Exclude, planVars
<1>3. CASE SkipLink(n)
  BY Zenon, <1>3, EntryDropped DEF SkipLink
<1>4. CASE PushDir(n)
  BY Zenon, <1>4, PushDirWalks
<1>5. CASE PushFile(n)
  BY Zenon, <1>5, PushFileWalks
<1> QED BY Zenon, <1>1, <1>2, <1>3, <1>4, <1>5 DEF Visit

LEMMA ScanKeepsInv == Spec => []ScanInv
<1>1. Init => ScanInv
  <2> SUFFICES ASSUME Init PROVE ScanInv
    OBVIOUS
  <2>1. TypeOK
    BY Zenon, InitTyped
  <2>2. phase = "start" /\ Empty
    BY Zenon DEF Init, Empty
  <2> QED BY <2>1, <2>2, TypeParts DEF ScanInv
<1>2. ScanInv /\ [Next]_vars => ScanInv'
  <2> SUFFICES ASSUME ScanInv, [Next]_vars PROVE ScanInv'
    OBVIOUS
  <2>1. InputsTyped /\ PlanTyped /\ InputsTyped' /\ PlanTyped'
    BY Zenon, InputsStay, PlanTypedStays DEF ScanInv
  <2>2. /\ phase \in {"start", "refused"} => Empty
        /\ phase = "walk" => WalkInv
        /\ phase = "done" => Done
    BY Zenon DEF ScanInv
  <2>3. CASE Refuse
    <3>1. phase' = "refused" /\ Empty
      BY Zenon, <2>2, <2>3 DEF Refuse
    <3>2. Empty'
      BY Zenon, <2>3, <3>1 DEF Refuse, Empty, planVars
    <3> QED BY <2>1, <3>1, <3>2, ScanInvNext
  <2>4. CASE PlanFile
    <3>1. phase' = "done" /\ Empty
      BY Zenon, <2>2, <2>4 DEF PlanFile
    <3>2. Done'
      BY Zenon, <2>1, <2>4, <3>1, FilePlanned
    <3> QED BY <2>1, <3>1, <3>2, ScanInvNext
  <2>5. CASE StartWalk
    <3>1. phase' = "walk" /\ Empty
      BY Zenon, <2>2, <2>5 DEF StartWalk
    <3>2. WalkInv'
      BY Zenon, <2>1, <2>5, <3>1, WalkStarts
    <3> QED BY <2>1, <3>1, <3>2, ScanInvNext
  <2>6. CASE OpenDir \/ OpenFails \/ \E n \in Nodes : Visit(n)
    <3>1. phase = "walk" /\ phase' = "walk"
      BY Zenon, <2>6 DEF OpenDir, OpenFails, Visit, EntryFails, Exclude, SkipLink, PushDir, PushFile, Consume
    <3>2. WalkInv
      BY Zenon, <2>2, <3>1
    <3>3. WalkInv'
      BY Zenon, <2>1, <2>6, <3>2, OpenDirWalks, OpenFailsWalks, VisitWalks
    <3> QED BY <2>1, <3>1, <3>3, ScanInvNext
  <2>7. CASE Finish
    <3>1. phase' = "done" /\ WalkInv
      BY Zenon, <2>2, <2>7 DEF Finish
    <3>2. Done'
      BY Zenon, <2>1, <2>7, <3>1, WalkEnds
    <3> QED BY <2>1, <3>1, <3>2, ScanInvNext
  <2>8. CASE Scanned \/ UNCHANGED vars
    <3>1. UNCHANGED vars
      BY Zenon, <2>8 DEF Scanned
    <3>2. phase' = phase
      BY Zenon, <3>1 DEF vars
    <3> QED BY Zenon, <2>1, <2>2, <3>1, <3>2, ScanInvNext, StillThere
  <2> QED BY Zenon, <2>3, <2>4, <2>5, <2>6, <2>7, <2>8 DEF Next
<1> QED BY <1>1, <1>2, PTL DEF Spec

\* "Directory sources copy their contents into dst": for every tree, every list
\* of patterns and every failure on the way, the finished plan holds exactly what
\* the walk can get to, mirrored and sorted out by size, and the total it is
\* weighed by is its own.
THEOREM PlanExact == Spec => []PlanIsExact
<1>1. ScanInv => PlanIsExact
  BY Zenon DEF ScanInv, Done, PlanIsExact
<1> QED BY <1>1, ScanKeepsInv, PTL

\* "Never followed: following a junction can walk the same tree forever": no
\* directory is on the stack below another, or planned twice, and no file either.
THEOREM WalksEachOnce == Spec => []WalkedOnce
<1>1. ScanInv => WalkedOnce
  <2> SUFFICES ASSUME ScanInv PROVE WalkedOnce
    OBVIOUS
  <2>1. InputsTyped /\ PlanTyped /\ phase \in {"start", "walk", "done", "refused"}
    BY Zenon DEF ScanInv, PlanTyped
  <2>2. CASE phase \in {"start", "refused"}
    <3>1. dirs = <<>> /\ bulk = <<>> /\ small = <<>> /\ stack = <<>>
      BY Zenon, <2>2 DEF ScanInv, Empty
    <3>2. DOMAIN <<>> = {} /\ ToSet(<<>>) = {}
      BY Zenon, ToSetOfNone
    <3>3. NoRepeat(<<>>) /\ SourcesIn(<<>>) = {} /\ IsInjective(<<>>)
      BY Zenon, <3>2, NoRepeatIs DEF SourcesIn, IsInjective
    <3>4. Tasks = {}
      BY Zenon, <3>1, <3>2 DEF Tasks
    <3>5. NoRepeat(bulk) /\ NoRepeat(small) /\ SourcesIn(bulk) \cap SourcesIn(small) = {} /\ IsInjective(dirs)
      BY Zenon, <3>1, <3>3
    <3> QED BY Zenon, <3>1, <3>2, <3>4, <3>5 DEF WalkedOnce, NoRepeat, SourcesIn
  <2>3. CASE phase = "walk"
    BY Zenon, <2>1, <2>3, WalksOnce DEF ScanInv
  <2>4. CASE phase = "done"
    BY Zenon, <2>4 DEF ScanInv, Done
  <2> QED BY <2>1, <2>2, <2>3, <2>4
<1> QED BY <1>1, ScanKeepsInv, PTL

\* "Parents before children, so directory creation never races": the list of
\* directories starts at the destination, every other entry comes after its
\* parent, and the directory of every file is there.
THEOREM DirsReady == Spec => []DirectoriesReady
<1>1. ScanInv => DirectoriesReady
  BY Zenon DEF ScanInv, Done, DirectoriesReady
<1> QED BY <1>1, ScanKeepsInv, PTL

\* Of two paths on one way the longer passes through the shorter.
LEMMA OnOneWay ==
    ASSUME NEW p \in Paths, NEW a \in Paths, NEW b \in Paths, IsPrefix(a, p), IsPrefix(b, p)
    PROVE  IsPrefix(a, b) \/ IsPrefix(b, a)
<1>1. /\ \A i \in 1..Len(a) : a[i] = p[i]
      /\ \A i \in 1..Len(b) : b[i] = p[i]
  BY Zenon, PrefixIs
<1>2. Len(a) \in Nat /\ Len(b) \in Nat
  BY Zenon, PathParts
<1>3. CASE Len(a) <= Len(b)
  <2>1. \A i \in 1..Len(a) : a[i] = b[i]
    BY <1>1, <1>2, <1>3
  <2> QED BY Zenon, <1>3, <2>1, PrefixIs
<1>4. CASE Len(b) <= Len(a)
  <2>1. \A i \in 1..Len(b) : b[i] = a[i]
    BY <1>1, <1>2, <1>4
  <2> QED BY Zenon, <1>4, <2>1, PrefixIs
<1>5. Len(a) <= Len(b) \/ Len(b) <= Len(a)
  BY <1>2
<1> QED BY Zenon, <1>3, <1>4, <1>5

\* "Walk `src`, planning a copy into `dst`": where the comparison that the code
\* does not make would go well, the plan creates no file over one it reads.  A
\* directory must lie beside its destination, neither inside the other; a file
\* must go neither onto itself nor into the directory it lies in.
THEOREM SourceSpared ==
    ASSUME \A s \in Sources, d \in Dsts :
             IF Kind[s] = "dir" THEN ~IsPrefix(s, d) /\ ~IsPrefix(d, s)
             ELSE d # s /\ d # Front(s)
    PROVE  Spec => []SourceKept
<1>1. ScanInv => SourceKept
  <2> SUFFICES ASSUME ScanInv, phase = "done", NEW t \in ToSet(bulk), NEW u \in Tasks, t.dst = u.src
               PROVE  FALSE
    BY Zenon DEF SourceKept
  <2>0. InputsTyped /\ PlanIsExact /\ StaysInside /\ t \in Tasks
    BY Zenon DEF ScanInv, Done, Tasks
  <2>1. source \in Sources /\ dst \in Dsts /\ source \in Nodes /\ source \in Paths /\ dst \in Paths
    BY Zenon, <2>0, SourceFacts, NodeFacts DEF InputsTyped
  <2>2. CASE Kind[source] = "dir"
    <3>1. u.src \in Nodes /\ IsPrefix(source, u.src)
      BY Zenon, <2>0, <2>2 DEF PlanIsExact, Seen
    <3>2. u.src \in Paths
      BY Zenon, <3>1, NodeFacts
    <3>3. IsPrefix(dst, u.src)
      BY Zenon, <2>0 DEF StaysInside
    <3>4. IsPrefix(source, dst) \/ IsPrefix(dst, source)
      BY Zenon, <2>1, <3>1, <3>2, <3>3, OnOneWay
    <3> QED BY Zenon, <2>1, <2>2, <3>4
  <2>3. CASE Kind[source] # "dir"
    <3>1. source \in {dst, Append(dst, Last(source))}
      BY Zenon, <2>0, <2>3 DEF StaysInside
    <3>2. source = Append(dst, Last(source)) => Front(source) = dst
      BY Zenon, <2>1, AppendToPath, NodeFacts
    <3> QED BY Zenon, <2>1, <2>3, <3>1, <3>2
  <2> QED BY Zenon, <2>2, <2>3
<1> QED BY <1>1, ScanKeepsInv, PTL

-------------------------------------------------------------------------------
(* Paths: what a walk over the parts yields, by induction over their number. *)

\* A walk over 1..N that starts from base and takes one step per number.
Walks(f, N, base, step) == f[0] = base /\ \A n \in 1..N : f[n] = step[<<f[n - 1], n>>]

LEMMA WalksAreDefined ==
    ASSUME NEW S, NEW base \in S, NEW step \in [S \X Nat -> S]
    PROVE  \A N \in Nat : \E f \in [0..N -> S] : Walks(f, N, base, step)
<1> DEFINE D == {N \in Nat : \E f \in [0..N -> S] : Walks(f, N, base, step)}
<1>1. 0 \in D
  <2>1. [n \in 0..0 |-> base] \in [0..0 -> S]
    OBVIOUS
  <2>2. Walks([n \in 0..0 |-> base], 0, base, step)
    BY DEF Walks
  <2> QED BY <2>1, <2>2
<1>2. ASSUME NEW N \in D PROVE N + 1 \in D
  <2>1. PICK f \in [0..N -> S] : Walks(f, N, base, step)
    OBVIOUS
  <2> DEFINE g == [n \in 0..(N + 1) |-> IF n <= N THEN f[n] ELSE step[<<f[N], N + 1>>]]
  <2>2. g \in [0..(N + 1) -> S]
    OBVIOUS
  <2>3. g[0] = base
    BY <2>1 DEF Walks
  <2>4. ASSUME NEW n \in 1..(N + 1) PROVE g[n] = step[<<g[n - 1], n>>]
    <3>1. CASE n <= N
      BY <2>1, <3>1 DEF Walks
    <3>2. CASE n = N + 1
      <4>1. n - 1 = N /\ N \in 0..(N + 1) /\ n \in 0..(N + 1) /\ ~(n <= N) /\ N <= N
        BY <3>2
      <4>2. g[n] = step[<<f[N], N + 1>>] /\ g[N] = f[N]
        BY Zenon, <4>1
      <4> QED BY Zenon, <3>2, <4>1, <4>2
    <3> QED BY <3>1, <3>2
  <2> HIDE DEF g
  <2>5. Walks(g, N + 1, base, step)
    BY <2>3, <2>4 DEF Walks
  <2>6. N + 1 \in Nat
    OBVIOUS
  <2> QED BY Zenon, <2>2, <2>5, <2>6
<1>3. D = Nat
  <2> HIDE DEF D
  <2> QED BY <1>1, <1>2, Induction DEF D
<1> QED BY Zenon, <1>3

\* Two functions that start alike and take every step alike end alike.
Alike(f, g, N) == f[0] = g[0] /\ \A n \in 1..N : f[n - 1] = g[n - 1] => f[n] = g[n]

LEMMA AlikeToTheEnd ==
    ASSUME NEW N \in Nat, NEW f, NEW g, Alike(f, g, N)
    PROVE  f[N] = g[N]
<1> DEFINE D == {n \in Nat : n <= N => f[n] = g[n]}
<1>1. 0 \in D
  BY DEF Alike
<1>2. ASSUME NEW n \in D PROVE n + 1 \in D
  <2>1. n + 1 <= N => n + 1 \in 1..N /\ (n + 1) - 1 = n
    OBVIOUS
  <2> QED BY <2>1 DEF Alike
<1>3. D = Nat
  <2> HIDE DEF D
  <2> QED BY <1>1, <1>2, Induction DEF D
<1> QED BY <1>3

\* Names, and parts of a path that are none.
Part == Seq(Nat)
Name == Part \ NotNames

LEMMA NoNamesAreParts == NotNames \subseteq Part
<1>1. <<>> \in Part /\ Dot \in Part /\ DotDot \in Part
  BY DEF Part, Dot, DotDot
<1> QED BY <1>1 DEF NotNames

LEMMA AfterIsNames ==
    ASSUME NEW names \in Seq(Name), NEW part \in Part
    PROVE  After(names, part) \in Seq(Name)
<1>1. CASE part \in {<<>>, Dot}
  BY <1>1 DEF After
<1>2. CASE part \notin {<<>>, Dot} /\ part # DotDot
  <2>1. part \in Name
    BY <1>2 DEF Name, NotNames
  <2>2. Append(names, part) \in Seq(Name)
    BY Zenon, <2>1, AppendProperties
  <2> QED BY <1>2, <2>2 DEF After
<1>3. CASE part \notin {<<>>, Dot} /\ part = DotDot
  <2>1. Front(names) \in Seq(Name)
    <3>1. \A i \in 1..(Len(names) - 1) : names[i] \in Name
      BY ElementOfSeq
    <3>2. Len(names) - 1 \in Int
      BY LenProperties
    <3>3. SubSeq(names, 1, Len(names) - 1) \in Seq(Name)
      BY <3>1, <3>2, SubSeqProperties
    <3> QED BY Zenon, <3>3 DEF Front
  <2>2. <<>> \in Seq(Name)
    OBVIOUS
  <2> QED BY Zenon, <1>3, <2>1, <2>2 DEF After
<1> QED BY Zenon, <1>1, <1>2, <1>3

\* Resolved is defined for all parts, and yields names.
LEMMA ResolvedIsNames ==
    ASSUME NEW parts \in Seq(Part)
    PROVE  Resolved(parts) \in Seq(Name)
<1> DEFINE N == Len(parts)
           step == [x \in Seq(Name) \X Nat |-> IF x[2] \in 1..N THEN After(x[1], parts[x[2]]) ELSE <<>>]
           Body(g) == [n \in 0..N |-> IF n = 0 THEN <<>> ELSE After(g[n - 1], parts[n])]
           upTo == CHOOSE g : g = Body(g)
<1>1. N \in Nat /\ <<>> \in Seq(Name)
  BY LenProperties
<1>2. step \in [Seq(Name) \X Nat -> Seq(Name)]
  <2>1. ASSUME NEW x \in Seq(Name) \X Nat
        PROVE  (IF x[2] \in 1..N THEN After(x[1], parts[x[2]]) ELSE <<>>) \in Seq(Name)
    <3>1. x[1] \in Seq(Name)
      OBVIOUS
    <3>2. CASE x[2] \in 1..N
      <4>1. parts[x[2]] \in Part
        BY Zenon, <3>2, ElementOfSeq
      <4> QED BY Zenon, <3>1, <3>2, <4>1, AfterIsNames
    <3> QED BY Zenon, <1>1, <3>2
  <2> QED BY Zenon, <2>1
<1>3. PICK f \in [0..N -> Seq(Name)] : Walks(f, N, <<>>, step)
  <2> HIDE DEF step, N
  <2> QED BY Zenon, <1>1, <1>2, WalksAreDefined
<1>4. ASSUME NEW n \in 1..N PROVE f[n] = After(f[n - 1], parts[n])
  <2>1. n - 1 \in 0..N /\ n \in Nat
    BY <1>1
  <2>2. f[n - 1] \in Seq(Name)
    BY Zenon, <2>1
  <2>3. step[<<f[n - 1], n>>] = After(f[n - 1], parts[n])
    BY <2>1, <2>2
  <2>4. f[n] = step[<<f[n - 1], n>>]
    <3> HIDE DEF step
    <3> QED BY Zenon, <1>3 DEF Walks
  <2> QED BY Zenon, <2>3, <2>4
<1>5. f[0] = <<>>
  BY Zenon, <1>3 DEF Walks
<1>6. f = Body(f)
  <2>1. \A n \in 0..N : f[n] = Body(f)[n]
    <3> SUFFICES ASSUME NEW n \in 0..N PROVE f[n] = IF n = 0 THEN <<>> ELSE After(f[n - 1], parts[n])
      OBVIOUS
    <3>1. n = 0 \/ n \in 1..N
      BY <1>1
    <3>2. n \in 1..N => n # 0
      OBVIOUS
    <3> QED BY Zenon, <1>4, <1>5, <3>1, <3>2
  <2> QED BY <2>1
<1>7. upTo = Body(upTo)
  <2> HIDE DEF Body
  <2> QED BY Zenon, <1>6
<1>8. Alike(upTo, f, N)
  <2> HIDE DEF upTo
  <2>1. upTo[0] = <<>>
    BY <1>1, <1>7
  <2>2. ASSUME NEW n \in 1..N PROVE upTo[n] = After(upTo[n - 1], parts[n])
    <3>1. n \in 0..N /\ n # 0
      OBVIOUS
    <3> QED BY Zenon, <1>7, <3>1
  <2> QED BY Zenon, <1>4, <1>5, <2>1, <2>2 DEF Alike
<1>9. upTo[N] = f[N]
  <2> HIDE DEF upTo, N
  <2> QED BY Zenon, <1>1, <1>8, AlikeToTheEnd
<1>10. Resolved(parts) = upTo[N]
  BY Zenon DEF Resolved
<1>11. f[N] \in Seq(Name)
  BY <1>1
<1> QED BY Zenon, <1>9, <1>10, <1>11

\* The parts of a path below a root: names, with at most one trailing separator.
Trails == {<<>>, << <<>> >>}
Parts == Seq(Part)

LEMMA PrefixGrows ==
    ASSUME NEW S, NEW b \in Seq(S), NEW s \in Seq(S), NEW n \in 1..Len(s)
    PROVE  /\ b \o SubSeq(s, 1, n) = Append(b \o SubSeq(s, 1, n - 1), s[n])
           /\ b \o SubSeq(s, 1, n) \in Seq(S) /\ b \o SubSeq(s, 1, n - 1) \in Seq(S)
           /\ SubSeq(s, 1, 0) = <<>>
<1>1. Len(s) \in Nat /\ 1 \in 1..Len(s) /\ n \in 1..Len(s) /\ n \in Int /\ n - 1 \in Int
  BY LenProperties
<1>2. \A i \in 1..n : s[i] \in S
  BY <1>1, ElementOfSeq
<1>3. SubSeq(s, 1, n) \in Seq(S) /\ SubSeq(s, 1, n - 1) \in Seq(S) /\ s[n] \in S
  BY <1>1, <1>2, SubSeqProperties
<1> DEFINE all == b \o SubSeq(s, 1, n)
           most == b \o SubSeq(s, 1, n - 1)
<1>4. /\ all \in Seq(S) /\ Len(all) = Len(b) + n
      /\ \A i \in 1..(Len(b) + n) : all[i] = IF i <= Len(b) THEN b[i] ELSE s[i - Len(b)]
  <2>1. Len(SubSeq(s, 1, n)) = n /\ \A i \in 1..n : SubSeq(s, 1, n)[i] = s[i]
    BY <1>1, <1>2, SubSeqProperties
  <2> QED BY <1>3, <2>1, ConcatProperties, LenProperties
<1>5. /\ most \in Seq(S) /\ Len(most) = Len(b) + n - 1
      /\ \A i \in 1..(Len(b) + n - 1) : most[i] = IF i <= Len(b) THEN b[i] ELSE s[i - Len(b)]
  <2>1. Len(SubSeq(s, 1, n - 1)) = n - 1 /\ \A i \in 1..(n - 1) : SubSeq(s, 1, n - 1)[i] = s[i]
    BY <1>1, <1>2, SubSeqProperties
  <2> QED BY <1>3, <2>1, ConcatProperties, LenProperties
<1>6. Append(most, s[n]) = all
  <2> HIDE DEF all, most
  <2>1. Append(most, s[n]) \in Seq(S) /\ Len(Append(most, s[n])) = Len(b) + n
    BY <1>1, <1>3, <1>5, AppendProperties, LenProperties
  <2>2. \A i \in 1..(Len(b) + n) : Append(most, s[n])[i] = all[i]
    <3> SUFFICES ASSUME NEW i \in 1..(Len(b) + n) PROVE Append(most, s[n])[i] = all[i]
      OBVIOUS
    <3>1. Len(b) \in Nat /\ n \in Nat /\ Len(most) = Len(b) + n - 1 /\ Len(most) + 1 = Len(b) + n
      BY <1>1, <1>5, LenProperties
    <3>2. CASE i \in 1..Len(most)
      <4>1. Append(most, s[n])[i] = most[i]
        BY <1>3, <1>5, <3>2, AppendProperties
      <4>2. i \in 1..(Len(b) + n - 1)
        BY <3>1, <3>2
      <4> QED BY Zenon, <1>4, <1>5, <4>1, <4>2
    <3>3. CASE i = Len(most) + 1
      <4>1. Append(most, s[n])[i] = s[n]
        BY <1>3, <1>5, <3>3, AppendProperties
      <4>2. i - Len(b) = n /\ ~(i <= Len(b))
        BY <1>1, <3>1, <3>3
      <4> QED BY Zenon, <1>4, <4>1, <4>2
    <3> QED BY <3>1, <3>2, <3>3
  <2> QED BY Zenon, <1>4, <2>1, <2>2, SeqEqual
<1>7. SubSeq(s, 1, 0) = <<>>
  BY SubSeqEmpty
<1> QED BY Zenon, <1>4, <1>5, <1>6, <1>7

LEMMA NamesAreParts ==
    ASSUME NEW names \in Seq(Name)
    PROVE  /\ names \in Parts
           /\ names # <<>> => Last(names) \in Name /\ Last(names) # <<>>
<1>1. Name \subseteq Part /\ <<>> \notin Name
  BY DEF Name, NotNames
<1>2. names \in Parts
  BY Zenon, <1>1, SeqMonotonic DEF Parts
<1>3. names # <<>> => Len(names) \in 1..Len(names)
  BY EmptySeq, LenProperties
<1> QED BY Zenon, <1>1, <1>2, <1>3, ElementOfSeq DEF Last

\* A trailing separator is taken off, a name is not.
LEMMA WithoutTrail ==
    ASSUME NEW names \in Seq(Name), NEW trail \in Trails
    PROVE  LET q == names \o trail
           IN  IF q # <<>> /\ Last(q) = <<>> THEN Front(q) = names ELSE q = names
<1> DEFINE q == names \o trail
<1>1. names \in Parts /\ <<>> \in Parts /\ << <<>> >> \in Parts /\ <<>> \in Part
  BY NamesAreParts, NoNamesAreParts DEF Parts, Part
<1>2. IF q # <<>> /\ Last(q) = <<>> THEN Front(q) = names ELSE q = names
  <2>1. CASE trail = <<>>
    <3>1. q = names
      BY Zenon, <1>1, <2>1, ConcatEmptySeq DEF Parts
    <3> QED BY Zenon, <3>1, NamesAreParts
  <2>2. CASE trail = << <<>> >>
    <3>1. q = Append(names, <<>>)
      BY Zenon, <1>1, <2>2, AppendIsConcat DEF Parts
    <3> HIDE DEF q
    <3>2. q \in Parts /\ q # <<>> /\ Len(q) = Len(names) + 1 /\ q[Len(names) + 1] = <<>>
          /\ \A i \in 1..Len(names) : q[i] = names[i]
      BY <1>1, <3>1, AppendProperties DEF Parts
    <3>3. Last(q) = <<>>
      BY Zenon, <3>2 DEF Last
    <3>4. Front(q) = SubSeq(q, 1, Len(names))
      <4>1. Len(q) - 1 = Len(names)
        BY <1>1, <3>2, LenProperties DEF Parts
      <4> QED BY Zenon, <4>1 DEF Front
    <3>5. Front(q) = names
      <4>1. Len(names) \in Nat
        BY LenProperties
      <4>2. \A i \in 1..Len(names) : q[i] \in Part
        BY <1>1, <3>2, ElementOfSeq DEF Parts
      <4>3. /\ SubSeq(q, 1, Len(names)) \in Parts /\ Len(SubSeq(q, 1, Len(names))) = Len(names)
            /\ \A i \in 1..Len(names) : SubSeq(q, 1, Len(names))[i] = q[i]
        BY <4>1, <4>2, SubSeqProperties DEF Parts
      <4>4. SubSeq(q, 1, Len(names)) = names
        BY <1>1, <3>2, <4>3, SeqEqual DEF Parts
      <4> QED BY Zenon, <3>4, <4>4
    <3> QED BY Zenon, <3>2, <3>3, <3>5
  <2> QED BY Zenon, <2>1, <2>2 DEF Trails
<1> QED BY Zenon, <1>2

\* What join does to a path that ends in names, or in a trailing separator.
LEMMA JoinedIs ==
    ASSUME NEW p, NEW names \in Seq(Name), NEW trail \in Trails, NEW name \in Name,
           p.parts = names \o trail, p = Path(p.root, p.slashed, p.parts)
    PROVE  Joined(p, name) = Path(p.root, p.slashed, Append(names, name))
<1> DEFINE q == names \o trail
<1>2. IF q # <<>> /\ Last(q) = <<>> THEN Front(q) = names ELSE q = names
  BY Zenon, WithoutTrail
<1> DEFINE joined(u) == IF u # <<>> /\ Last(u) = <<>> THEN Append(Front(u), name) ELSE Append(u, name)
<1>3. joined(q) = Append(names, name)
  <2> HIDE DEF q
  <2> QED BY Zenon, <1>2
<1>4. Joined(p, name) = Path(p.root, p.slashed, joined(p.parts))
  <2> HIDE DEF joined
  <2>1. Joined(p, name) = [p EXCEPT !.parts = joined(p.parts)]
    BY Zenon DEF Joined, joined
  <2> QED BY <2>1 DEF Path
<1> QED BY Zenon, <1>3, <1>4

\* A path as a record, with parts.
Shaped(p) == p = Path(p.root, p.slashed, p.parts) /\ p.parts \in Parts
Like(p) == [root : {p.root}, slashed : {p.slashed}, parts : Parts]

LEMMA JoinedIsShaped ==
    ASSUME NEW p, Shaped(p), NEW name \in Part
    PROVE  /\ Shaped(Joined(p, name))
           /\ Joined(p, name).root = p.root /\ Joined(p, name).slashed = p.slashed
<1> DEFINE joined(u) == IF u # <<>> /\ Last(u) = <<>> THEN Append(Front(u), name) ELSE Append(u, name)
<1>1. ASSUME NEW u \in Parts PROVE joined(u) \in Parts
  <2>1. Front(u) \in Seq(Part)
    <3>1. \A i \in 1..(Len(u) - 1) : u[i] \in Part
      BY ElementOfSeq DEF Parts
    <3>2. Len(u) - 1 \in Int
      BY LenProperties DEF Parts
    <3> QED BY <3>1, <3>2, SubSeqProperties DEF Front
  <2> QED BY <2>1, AppendProperties DEF Parts
<1>2. Joined(p, name) = Path(p.root, p.slashed, joined(p.parts))
  <2> HIDE DEF joined
  <2>1. Joined(p, name) = [p EXCEPT !.parts = joined(p.parts)]
    BY Zenon DEF Joined, joined
  <2> QED BY <2>1 DEF Path, Shaped
<1>3. joined(p.parts) \in Parts
  BY Zenon, <1>1 DEF Shaped
<1> HIDE DEF joined
<1> QED BY <1>2, <1>3 DEF Path, Shaped

\* EntryPath is defined for all names, and is the join of the path to the
\* directory with the last of them.
LEMMA EntryPathRuns ==
    ASSUME NEW p, Shaped(p), NEW names \in Parts
    PROVE  \E at \in [0..Len(names) -> Like(p)] :
                /\ at[0] = p /\ \A n \in 1..Len(names) : at[n] = Joined(at[n - 1], names[n])
                /\ EntryPath(p, names) = at[Len(names)]
<1> DEFINE N == Len(names)
           S == Like(p)
           step == [x \in S \X Nat |-> IF x[2] \in 1..N THEN Joined(x[1], names[x[2]]) ELSE p]
           Body(g) == [n \in 0..N |-> IF n = 0 THEN p ELSE Joined(g[n - 1], names[n])]
           at == CHOOSE g : g = Body(g)
<1>1. N \in Nat /\ p \in S
  BY LenProperties DEF Parts, Shaped, Path, Like
<1>2. \A q \in S : Shaped(q) /\ q.root = p.root /\ q.slashed = p.slashed
  BY DEF Shaped, Path, Like
<1>3. \A q : Shaped(q) /\ q.root = p.root /\ q.slashed = p.slashed => q \in S
  BY DEF Shaped, Path, Like
<1>4. step \in [S \X Nat -> S]
  <2> HIDE DEF S
  <2>1. ASSUME NEW x \in S \X Nat
        PROVE  (IF x[2] \in 1..N THEN Joined(x[1], names[x[2]]) ELSE p) \in S
    <3>1. x[1] \in S
      OBVIOUS
    <3>2. CASE x[2] \in 1..N
      <4>1. names[x[2]] \in Part
        BY Zenon, <3>2, ElementOfSeq DEF Parts
      <4>2. Shaped(x[1]) /\ x[1].root = p.root /\ x[1].slashed = p.slashed
        BY Zenon, <1>2, <3>1
      <4>3. /\ Shaped(Joined(x[1], names[x[2]]))
            /\ Joined(x[1], names[x[2]]).root = x[1].root
            /\ Joined(x[1], names[x[2]]).slashed = x[1].slashed
        BY Zenon, <4>1, <4>2, JoinedIsShaped
      <4>4. Joined(x[1], names[x[2]]) \in S
        BY Zenon, <1>3, <4>2, <4>3
      <4> QED BY Zenon, <3>2, <4>4
    <3> QED BY Zenon, <1>1, <3>2
  <2> QED BY Zenon, <2>1
<1> HIDE DEF S
<1>5. PICK f \in [0..N -> S] : Walks(f, N, p, step)
  <2> HIDE DEF step, N
  <2> QED BY Zenon, <1>1, <1>4, WalksAreDefined
<1>6. ASSUME NEW n \in 1..N PROVE f[n] = Joined(f[n - 1], names[n])
  <2>1. n - 1 \in 0..N /\ n \in Nat
    BY <1>1
  <2>2. f[n - 1] \in S
    BY Zenon, <2>1
  <2>3. step[<<f[n - 1], n>>] = Joined(f[n - 1], names[n])
    BY <2>1, <2>2
  <2>4. f[n] = step[<<f[n - 1], n>>]
    <3> HIDE DEF step
    <3> QED BY Zenon, <1>5 DEF Walks
  <2> QED BY Zenon, <2>3, <2>4
<1>7. f[0] = p
  BY Zenon, <1>5 DEF Walks
<1>8. f = Body(f)
  <2>1. \A n \in 0..N : f[n] = Body(f)[n]
    <3> SUFFICES ASSUME NEW n \in 0..N PROVE f[n] = IF n = 0 THEN p ELSE Joined(f[n - 1], names[n])
      OBVIOUS
    <3>1. n = 0 \/ n \in 1..N
      BY <1>1
    <3>2. n \in 1..N => n # 0
      OBVIOUS
    <3> QED BY Zenon, <1>6, <1>7, <3>1, <3>2
  <2> QED BY <2>1
<1>9. at = Body(at)
  <2> HIDE DEF Body
  <2> QED BY Zenon, <1>8
<1>10. Alike(at, f, N)
  <2> HIDE DEF at
  <2>1. at[0] = p
    BY <1>1, <1>9
  <2>2. ASSUME NEW n \in 1..N PROVE at[n] = Joined(at[n - 1], names[n])
    <3>1. n \in 0..N /\ n # 0
      OBVIOUS
    <3> QED BY Zenon, <1>9, <3>1
  <2> QED BY Zenon, <1>6, <1>7, <2>1, <2>2 DEF Alike
<1>11. at[N] = f[N]
  <2> HIDE DEF at, N
  <2> QED BY Zenon, <1>1, <1>10, AlikeToTheEnd
<1>12. EntryPath(p, names) = at[N]
  BY Zenon DEF EntryPath
<1> QED BY Zenon, <1>6, <1>7, <1>11, <1>12 DEF S

LEMMA EntryPathIs ==
    ASSUME NEW p, Shaped(p), NEW base \in Seq(Name), NEW trail \in Trails,
           p.parts = base \o trail, NEW names \in Seq(Name)
    PROVE  EntryPath(p, names) = IF names = <<>> THEN p ELSE Path(p.root, p.slashed, base \o names)
<1> DEFINE N == Len(names)
           Reached(n) == Path(p.root, p.slashed, base \o SubSeq(names, 1, n))
<1>1. N \in Nat /\ names \in Parts /\ \A n \in 1..N : names[n] \in Name
  BY LenProperties, NamesAreParts, ElementOfSeq
<1>2. PICK at : /\ at[0] = p /\ \A n \in 1..N : at[n] = Joined(at[n - 1], names[n])
                /\ EntryPath(p, names) = at[N]
  BY <1>1, EntryPathRuns
<1> DEFINE D == {n \in Nat : n \in 1..N => at[n] = Reached(n)}
<1>3. ASSUME 1 \in 1..N PROVE at[1] = Reached(1)
  <2>1. at[1] = Joined(p, names[1])
    <3>1. at[1] = Joined(at[1 - 1], names[1])
      BY Zenon, <1>2, <1>3
    <3> QED BY <1>2, <3>1
  <2>2. p = Path(p.root, p.slashed, p.parts)
    BY Zenon DEF Shaped
  <2>3. Joined(p, names[1]) = Path(p.root, p.slashed, Append(base, names[1]))
    BY Zenon, <1>1, <1>3, <2>2, JoinedIs
  <2>4. base \o SubSeq(names, 1, 1) = Append(base, names[1])
    <3>1. base \o SubSeq(names, 1, 1) = Append(base \o SubSeq(names, 1, 1 - 1), names[1])
      BY <1>3, PrefixGrows
    <3>2. SubSeq(names, 1, 1 - 1) = <<>> /\ base \o <<>> = base
      BY SubSeqEmpty, ConcatEmptySeq
    <3> QED BY Zenon, <3>1, <3>2
  <2> QED BY Zenon, <2>1, <2>3, <2>4
<1>4. 0 \in D
  OBVIOUS
<1>5. ASSUME NEW n \in D PROVE n + 1 \in D
  <2> SUFFICES ASSUME n + 1 \in 1..N PROVE at[n + 1] = Reached(n + 1)
    OBVIOUS
  <2>1. CASE n = 0
    <3>1. n + 1 = 1
      BY <2>1
    <3> HIDE DEF Reached
    <3> QED BY Zenon, <1>3, <3>1
  <2>2. CASE n # 0
    <3> DEFINE dir == base \o SubSeq(names, 1, n)
    <3>1. n \in 1..N /\ (n + 1) - 1 = n
      BY <2>2
    <3>2. at[n] = Path(p.root, p.slashed, dir)
      BY <3>1
    <3>3. at[n + 1] = Joined(at[n], names[n + 1])
      <4>1. at[n + 1] = Joined(at[(n + 1) - 1], names[n + 1])
        BY Zenon, <1>2
      <4> QED BY <3>1, <4>1
    <3>4. dir \in Seq(Name) /\ base \o SubSeq(names, 1, n + 1) = Append(dir, names[n + 1])
      <4>1. /\ base \o SubSeq(names, 1, n + 1) = Append(base \o SubSeq(names, 1, (n + 1) - 1), names[n + 1])
            /\ base \o SubSeq(names, 1, (n + 1) - 1) \in Seq(Name)
        BY Zenon, PrefixGrows
      <4> QED BY <3>1, <4>1
    <3> HIDE DEF dir
    <3>5. dir \o <<>> = dir /\ <<>> \in Trails
      BY <3>4, ConcatEmptySeq DEF Trails
    <3>6. at[n].root = p.root /\ at[n].slashed = p.slashed /\ at[n].parts = dir
      BY <3>2 DEF Path
    <3>7. at[n].parts = dir \o <<>> /\ at[n] = Path(at[n].root, at[n].slashed, at[n].parts)
      BY Zenon, <3>2, <3>5, <3>6
    <3>8. Joined(at[n], names[n + 1]) = Path(p.root, p.slashed, Append(dir, names[n + 1]))
      <4> DEFINE q == at[n]
                 name == names[n + 1]
      <4>1. name \in Name /\ q.parts = dir \o <<>> /\ q = Path(q.root, q.slashed, q.parts)
        BY Zenon, <1>1, <3>7
      <4> HIDE DEF q, name
      <4>2. Joined(q, name) = Path(q.root, q.slashed, Append(dir, name))
        BY Zenon, <3>4, <3>5, <4>1, JoinedIs
      <4> QED BY Zenon, <3>6, <4>2 DEF q, name
    <3> QED BY Zenon, <3>3, <3>4, <3>8
  <2> QED BY <2>1, <2>2
<1>6. D = Nat
  <2> HIDE DEF D
  <2> QED BY <1>4, <1>5, Induction DEF D
<1>7. CASE names = <<>>
  <2>1. N = 0
    BY <1>7
  <2> QED BY <1>2, <1>7, <2>1
<1>8. CASE names # <<>>
  <2>1. N \in 1..N
    BY <1>1, <1>8, EmptySeq
  <2>2. at[N] = Reached(N)
    BY Zenon, <1>1, <1>6, <2>1
  <2>3. SubSeq(names, 1, N) = names
    BY Zenon, SubSeqFull
  <2> QED BY Zenon, <1>2, <1>8, <2>2, <2>3
<1> QED BY <1>7, <1>8

\* GetFullPathNameW keeps what is meant, and leaves nothing to resolve.
LEMMA FullPathIs ==
    ASSUME NEW root \in TypedRoots
    PROVE  LET p == FullPath(root)
               m == Meant(root)
           IN  /\ Shaped(p) /\ p.root = m.root /\ p.root \in {"drive", "share"} /\ p.slashed = FALSE
               /\ m.parts \in Seq(Name) /\ m = [root |-> m.root, parts |-> m.parts]
               /\ \E trail \in Trails : p.parts = m.parts \o trail
<1> DEFINE all == IF root.root = "none" THEN WorkingDirectory \o root.parts ELSE root.parts
           disk == IF root.root = "none" THEN "drive" ELSE root.root
           base == Resolved(all)
           rest == IF base = <<>> THEN <<>> ELSE Trailing(all)
<1>1. root.root \in {"drive", "share", "none"} /\ root.parts \in Parts /\ WorkingDirectory \in Parts
  BY PathAssumption DEF Parts, Part
<1>2. all \in Parts
  BY Zenon, <1>1, ConcatProperties DEF Parts
<1>3. base \in Seq(Name)
  BY Zenon, <1>2, ResolvedIsNames DEF Parts
<1>4. rest \in Trails
  BY Zenon DEF Trailing, Trails
<1>5. disk \in {"drive", "share"}
  BY <1>1
<1>6. base \in Parts /\ << <<>> >> \in Parts /\ <<>> \in Parts
  BY <1>3, NamesAreParts, NoNamesAreParts DEF Parts, Part
<1>7. base \o rest \in Parts
  BY Zenon, <1>4, <1>6, ConcatProperties DEF Parts, Trails
<1>8. FullPath(root) = Path(disk, FALSE, base \o rest)
  <2>1. base = <<>> => base \o <<>> = <<>>
    BY Zenon, <1>6, ConcatEmptySeq DEF Parts
  <2>2. (IF base = <<>> THEN <<>> ELSE base \o Trailing(all)) = base \o rest
    <3> HIDE DEF base, all
    <3> QED BY Zenon, <2>1
  <2> QED BY Zenon, <2>2 DEF FullPath
<1>9. Meant(root) = [root |-> disk, parts |-> base]
  BY Zenon DEF Meant
<1> HIDE DEF all, disk, base, rest
<1>10. /\ FullPath(root).root = disk /\ FullPath(root).slashed = FALSE
       /\ FullPath(root).parts = base \o rest
       /\ Meant(root).root = disk /\ Meant(root).parts = base
  BY <1>8, <1>9 DEF Path
<1> QED BY Zenon, <1>3, <1>4, <1>5, <1>7, <1>8, <1>9, <1>10 DEF Shaped

\* Names, and at most one trailing separator, are canonical.
LEMMA CleanPath ==
    ASSUME NEW p, NEW names \in Seq(Name), NEW trail \in Trails,
           p.parts = names \o trail, p.slashed = FALSE
    PROVE  IsCanonical(p)
<1> DEFINE q == names \o trail
<1>1. names \in Parts /\ Len(names) \in Nat /\ \A i \in 1..Len(names) : names[i] \in Name
  BY NamesAreParts, ElementOfSeq, LenProperties
<1>2. trail \in Parts /\ Len(trail) \in {0, 1} /\ (Len(trail) = 1 => trail[1] = <<>>)
  <2>1. <<>> \in Part
    BY DEF Part
  <2>2. CASE trail = <<>>
    BY <2>2 DEF Parts
  <2>3. CASE trail = << <<>> >>
    BY <2>1, <2>3 DEF Parts
  <2> QED BY Zenon, <2>2, <2>3 DEF Trails
<1>3. /\ q \in Parts /\ Len(q) = Len(names) + Len(trail) /\ DOMAIN q = 1..Len(q)
      /\ \A i \in 1..Len(q) : q[i] = IF i <= Len(names) THEN names[i] ELSE trail[i - Len(names)]
  BY <1>1, <1>2, ConcatProperties, LenProperties DEF Parts
<1> HIDE DEF q
<1>4. ASSUME NEW i \in 1..Len(q)
      PROVE  /\ q[i] \in Name \/ (i = Len(q) /\ q[i] = <<>>)
  <2>1. CASE i <= Len(names)
    BY <1>1, <1>3, <2>1
  <2>2. CASE ~(i <= Len(names))
    <3>1. i = Len(names) + 1 /\ Len(trail) = 1 /\ i = Len(q) /\ i - Len(names) = 1
      BY <1>1, <1>2, <1>3, <2>2
    <3>2. q[i] = trail[i - Len(names)]
      BY Zenon, <1>3, <2>2
    <3> QED BY <1>2, <3>1, <3>2
  <2> QED BY <2>1, <2>2
<1>5. Name \cap {<<>>, Dot, DotDot} = {}
  BY DEF Name, NotNames
<1>6. <<>> \notin {Dot, DotDot}
  BY DEF Dot, DotDot
<1>7. {Dot, DotDot} \cap ToSet(q) = {}
  BY Zenon, <1>3, <1>4, <1>5, <1>6 DEF ToSet
<1>8. \A i \in 1..(Len(q) - 1) : q[i] # <<>>
  <2>1. \A i \in 1..(Len(q) - 1) : i \in 1..Len(q) /\ i # Len(q)
    BY <1>1, <1>2, <1>3
  <2> QED BY Zenon, <1>4, <1>5, <2>1
<1>9. p.parts = q
  BY Zenon DEF q
<1> QED BY Zenon, <1>7, <1>8, <1>9 DEF IsCanonical

\* to_string_lossy changes no name that is Unicode.
LEMMA LossyKeeps ==
    ASSUME NEW parts \in Parts, \A i \in DOMAIN parts : ~IllFormed(parts[i])
    PROVE  [i \in DOMAIN parts |-> Lossy(parts[i])] = parts
<1>1. ASSUME NEW i \in DOMAIN parts PROVE Lossy(parts[i]) = parts[i]
  <2>1. parts[i] \in Part
    BY ElementOfSeq, LenProperties DEF Parts
  <2>2. \A k \in DOMAIN parts[i] : parts[i][k] \notin Surrogates
    BY DEF IllFormed, ToSet
  <2>3. Lossy(parts[i]) = [k \in DOMAIN parts[i] |-> parts[i][k]]
    BY <2>2 DEF Lossy
  <2> QED BY <2>1, <2>3 DEF Part
<1>2. parts = [i \in DOMAIN parts |-> parts[i]]
  BY DEF Parts
<1> QED BY <1>1, <1>2

\* README: "Roots go through GetFullPathNameW before any prefix is applied": for
\* every root, however it was typed, and every way down from it, the path that
\* CreateFileW is given carries the prefix and is the one that was meant; but for
\* a share with a name on the way that is not Unicode.
THEOREM FilesOpenRight ==
    \A root \in TypedRoots, names \in Seq(Name) : OpensWhatWasMeant(root, names)
<1> SUFFICES ASSUME NEW root \in TypedRoots, NEW names \in Seq(Name)
             PROVE  OpensWhatWasMeant(root, names)
  OBVIOUS
<1> DEFINE full == FullPath(root)
           meant == Meant(root)
           p == EntryPath(full, names)
           wide == WidePath(p)
           base == meant.parts
<1>1. /\ Shaped(full) /\ full.root = meant.root /\ full.root \in {"drive", "share"}
      /\ full.slashed = FALSE
      /\ base \in Seq(Name) /\ meant = [root |-> meant.root, parts |-> base]
  BY Zenon, FullPathIs
<1>2. PICK trail \in Trails : full.parts = base \o trail
  BY Zenon, FullPathIs
<1> HIDE DEF full, meant
<1>3. p = IF names = <<>> THEN full ELSE Path(full.root, full.slashed, base \o names)
  BY Zenon, <1>1, <1>2, EntryPathIs
<1>4. base \in Parts /\ names \in Parts /\ base \o names \in Seq(Name) /\ base \o names \in Parts
  BY <1>1, NamesAreParts, ConcatProperties DEF Parts
<1>5. \E last \in Trails : p.parts = (base \o names) \o last
  <2>1. CASE names = <<>>
    <3>1. base \o names = base
      BY Zenon, <1>1, <2>1, ConcatEmptySeq
    <3> QED BY Zenon, <1>2, <1>3, <2>1, <3>1
  <2>2. CASE names # <<>>
    <3>1. (base \o names) \o <<>> = base \o names
      BY Zenon, <1>4, ConcatEmptySeq
    <3>2. p.parts = base \o names
      BY <1>3, <2>2 DEF Path
    <3> QED BY <3>1, <3>2 DEF Trails
  <2> QED BY <2>1, <2>2
<1>6. /\ p = Path(p.root, p.slashed, p.parts) /\ p.root = meant.root /\ p.slashed = FALSE
      /\ p.root \in {"drive", "share"} /\ p.parts \in Parts
  <2>1. CASE names = <<>>
    BY Zenon, <1>1, <1>3, <2>1 DEF Shaped
  <2>2. CASE names # <<>>
    BY <1>1, <1>3, <1>4, <2>2 DEF Path
  <2> QED BY <2>1, <2>2
<1> HIDE DEF p, base
<1>7. PICK last \in Trails : p.parts = (base \o names) \o last
  BY <1>5
<1>8. IF p.parts # <<>> /\ Last(p.parts) = <<>> THEN Front(p.parts) = base \o names
      ELSE p.parts = base \o names
  <2> DEFINE all == (base \o names) \o last
  <2>1. IF all # <<>> /\ Last(all) = <<>> THEN Front(all) = base \o names ELSE all = base \o names
    BY Zenon, <1>4, WithoutTrail
  <2> HIDE DEF all
  <2>2. p.parts = all
    BY Zenon, <1>7 DEF all
  <2> QED BY Zenon, <2>1, <2>2
<1>9. SUFFICES ASSUME ~(p.root = "share" /\ \E i \in DOMAIN p.parts : IllFormed(p.parts[i]))
               PROVE  wide.prefixed /\ CreateFile(wide) = [meant EXCEPT !.parts = @ \o names]
  BY Zenon DEF OpensWhatWasMeant, full, meant, p
<1>10. wide.prefixed /\ wide.path = p
  <2>1. CASE p.root = "share"
    <3>1. \A i \in DOMAIN p.parts : ~IllFormed(p.parts[i])
      BY Zenon, <1>9, <2>1
    <3>2. [i \in DOMAIN p.parts |-> Lossy(p.parts[i])] = p.parts
      BY Zenon, <1>6, <3>1, LossyKeeps
    <3>3. [p EXCEPT !.parts = p.parts] = p
      BY <1>6 DEF Path
    <3>4. [p EXCEPT !.parts = [i \in DOMAIN p.parts |-> Lossy(p.parts[i])]] = p
      BY Zenon, <3>2, <3>3
    <3> QED BY <2>1, <3>4 DEF WidePath
  <2>2. CASE p.root = "drive"
    <3>1. IsCanonical(p)
      BY Zenon, <1>4, <1>6, <1>7, CleanPath
    <3> QED BY <2>2, <3>1 DEF WidePath
  <2> QED BY <1>6, <2>1, <2>2
<1> HIDE DEF wide
<1>11. CreateFile(wide) = [root |-> meant.root, parts |-> base \o names]
  BY Zenon, <1>6, <1>8, <1>10 DEF CreateFile
<1>12. [meant EXCEPT !.parts = @ \o names] = [root |-> meant.root, parts |-> base \o names]
  <2>1. [meant EXCEPT !.parts = base \o names] = [root |-> meant.root, parts |-> base \o names]
    <3> DEFINE r == meant.root
               y == base \o names
    <3>1. meant = [root |-> r, parts |-> base]
      BY Zenon, <1>1
    <3> HIDE DEF r, y
    <3>2. [meant EXCEPT !.parts = y] = [root |-> r, parts |-> y]
      BY <3>1
    <3> QED BY Zenon, <3>2 DEF r, y
  <2>2. [meant EXCEPT !.parts = @ \o names] = [meant EXCEPT !.parts = base \o names]
    BY Zenon DEF base
  <2> QED BY Zenon, <2>1, <2>2
<1> QED BY Zenon, <1>10, <1>11, <1>12

\* A way down the tree is a sequence of names, so it leads to what was meant.
LEMMA WayIsRight ==
    ASSUME NEW way \in Ways
    PROVE  way \in RightWays
<1>1. PICK n \in Nodes : way \in Suffixes(n)
  BY Zenon DEF Ways
<1>2. n \in Paths /\ Len(n) \in Nat /\ DOMAIN n = 1..Len(n)
  BY Zenon, NodeFacts, PathParts
<1>3. ASSUME NEW i \in 1..Len(n) PROVE n[i] \in Name
  <2>1. n[i] \in Seq(Nat)
    BY Zenon, <1>2, PathParts
  <2>2. n[i] \in ToSet(n)
    BY Zenon, <1>2 DEF ToSet
  <2> QED BY Zenon, <2>1, <2>2, NameAssumption DEF Name, Part
<1>4. way \in Seq(Name)
  <2>1. ASSUME NEW l \in 1..Len(n) PROVE SubSeq(n, l, Len(n)) \in Seq(Name)
    <3>1. l \in Int /\ Len(n) \in Int /\ \A i \in l..Len(n) : i \in 1..Len(n)
      BY <1>2
    <3>2. \A i \in l..Len(n) : n[i] \in Name
      BY Zenon, <1>3, <3>1
    <3> QED BY <3>1, <3>2, SubSeqProperties
  <2>2. <<>> \in Seq(Name)
    OBVIOUS
  <2> QED BY Zenon, <1>1, <2>1, <2>2 DEF Suffixes
<1> QED BY Zenon, <1>4, FilesOpenRight DEF RightWays

\* What follows a path in the path of a node is a way down the tree.
LEMMA WayDown ==
    ASSUME NEW n \in Nodes, NEW s \in Paths, Len(s) <= Len(n)
    PROVE  WayBelow(n, s) \in Ways
<1>1. Len(s) \in Nat /\ Len(n) \in Nat /\ n \in Paths
  BY Zenon, NodeFacts, PathParts
<1>2. CASE Len(s) < Len(n)
  <2>1. Len(s) + 1 \in 1..Len(n)
    BY <1>1, <1>2
  <2>2. \A l \in 1..Len(n) : SubSeq(n, l, Len(n)) \in Suffixes(n)
    BY DEF Suffixes
  <2>3. WayBelow(n, s) \in Suffixes(n)
    BY Zenon, <2>1, <2>2 DEF WayBelow
  <2> QED BY Zenon, <2>3 DEF Ways
<1>3. CASE Len(s) = Len(n)
  <2>1. WayBelow(n, s) = <<>>
    <3>1. Len(s) + 1 > Len(n)
      BY <1>1, <1>3
    <3> QED BY <1>1, <3>1, SubSeqEmpty DEF WayBelow
  <2>2. WayBelow(n, s) \in Suffixes(n)
    BY <2>1 DEF Suffixes
  <2> QED BY Zenon, <2>2 DEF Ways
<1> QED BY <1>1, <1>2, <1>3

\* The way below the destination is the way below the source.
LEMMA MirrorWay ==
    ASSUME NEW s \in Paths, NEW d \in Paths, NEW n \in Paths, Len(s) <= Len(n)
    PROVE  WayBelow(Mirror(s, d, n), d) = WayBelow(n, s)
<1> DEFINE m == Mirror(s, d, n)
           a == SubSeq(m, Len(d) + 1, Len(m))
           b == SubSeq(n, Len(s) + 1, Len(n))
           k == Len(n) - Len(s)
<1>1. Len(s) \in Nat /\ Len(d) \in Nat /\ Len(n) \in Nat
  BY PathParts
<1>2. /\ m \in Paths /\ Len(m) = Len(d) + k
      /\ \A i \in 1..k : m[Len(d) + i] = n[Len(s) + i]
  BY Zenon, MirrorParts DEF Laid
<1> HIDE DEF m
<1>3. a \in Paths /\ Len(a) = k /\ \A i \in 1..k : a[i] = m[Len(d) + i]
  <2>1. /\ Len(d) + 1 \in Nat /\ Len(m) \in Nat /\ 1 <= Len(d) + 1 /\ Len(d) + 1 <= Len(m) + 1
        /\ Len(m) <= Len(m) /\ Len(m) - (Len(d) + 1) + 1 = k
        /\ \A i \in 1..k : Len(d) + 1 + i - 1 = Len(d) + i
    BY <1>1, <1>2
  <2>2. /\ a \in Paths /\ Len(a) = Len(m) - (Len(d) + 1) + 1
        /\ \A i \in 1..(Len(m) - (Len(d) + 1) + 1) : a[i] = m[Len(d) + 1 + i - 1]
    BY Zenon, <1>2, <2>1, PartOfPath
  <2> QED BY Zenon, <2>1, <2>2
<1>4. b \in Paths /\ Len(b) = k /\ \A i \in 1..k : b[i] = n[Len(s) + i]
  <2>1. /\ Len(s) + 1 \in Nat /\ 1 <= Len(s) + 1 /\ Len(s) + 1 <= Len(n) + 1
        /\ Len(n) <= Len(n) /\ Len(n) - (Len(s) + 1) + 1 = k
        /\ \A i \in 1..k : Len(s) + 1 + i - 1 = Len(s) + i
    BY <1>1
  <2>2. /\ b \in Paths /\ Len(b) = Len(n) - (Len(s) + 1) + 1
        /\ \A i \in 1..(Len(n) - (Len(s) + 1) + 1) : b[i] = n[Len(s) + 1 + i - 1]
    BY Zenon, <1>1, <2>1, PartOfPath
  <2> QED BY Zenon, <2>1, <2>2
<1> HIDE DEF a, b, k
<1>5. a = b
  <2>1. \A i \in 1..Len(a) : a[i] = b[i]
    BY Zenon, <1>2, <1>3, <1>4
  <2> QED BY Zenon, <1>3, <1>4, <2>1, SamePath
<1> QED BY Zenon, <1>5 DEF a, b, m, WayBelow

\* A task whose target mirrors its source is opened right at both ends.
LEMMA MirroredOpensRight ==
    ASSUME InputsTyped, NEW n, Below(n)
    PROVE  WayBelow(n, source) \in RightWays /\ WayBelow(PathTo(n), dst) \in RightWays
<1>1. n \in Nodes /\ n \in Paths /\ source \in Paths /\ dst \in Paths /\ IsPrefix(source, n)
  BY Zenon, SourceFacts, NodeFacts DEF Below
<1>2. Len(source) <= Len(n)
  BY Zenon, <1>1, PrefixIs
<1>3. WayBelow(n, source) \in RightWays
  <2>1. WayBelow(n, source) \in Ways
    BY Zenon, <1>1, <1>2, WayDown
  <2> QED BY Zenon, <2>1, WayIsRight
<1>4. WayBelow(PathTo(n), dst) = WayBelow(n, source)
  <2>1. PathTo(n) = Mirror(source, dst, n)
    BY Zenon DEF PathTo, Mirror
  <2>2. WayBelow(Mirror(source, dst, n), dst) = WayBelow(n, source)
    BY Zenon, <1>1, <1>2, MirrorWay
  <2> QED BY Zenon, <2>1, <2>2
<1> QED BY Zenon, <1>3, <1>4

\* So is a source that is a file, under its own name or as the destination.
LEMMA FileOpensRight ==
    ASSUME InputsTyped, NEW to \in {dst, Append(dst, Last(source))}
    PROVE  WayBelow(source, source) \in RightWays /\ WayBelow(to, dst) \in RightWays
<1>1. Below(source) /\ PathTo(source) = dst
  BY Zenon, SourceFacts
<1>2. WayBelow(source, source) \in RightWays /\ WayBelow(dst, dst) \in RightWays
  BY Zenon, <1>1, MirroredOpensRight
<1>3. WayBelow(Append(dst, Last(source)), dst) \in RightWays
  <2> DEFINE top == Front(source)
  <2>1. source \in Nodes /\ source \in Paths /\ dst \in Paths /\ Len(source) >= 1 /\ Len(source) \in Nat
    BY Zenon, SourceFacts, NodeFacts
  <2>2. top \in Paths /\ Len(top) = Len(source) - 1
    BY Zenon, <2>1, FrontOfPath
  <2>3. Len(top) < Len(source) /\ Len(top) <= Len(source)
    BY <2>1, <2>2
  <2>4. Mirror(top, dst, source) = Append(Mirror(top, dst, top), Last(source))
    BY Zenon, <2>1, <2>2, <2>3, MirrorOfEntry
  <2>5. Mirror(top, dst, source) = Append(dst, Last(source))
    BY Zenon, <2>1, <2>2, <2>4, MirrorOfSource
  <2>6. WayBelow(Mirror(top, dst, source), dst) = WayBelow(source, top)
    BY Zenon, <2>1, <2>2, <2>3, MirrorWay
  <2>7. WayBelow(source, top) \in RightWays
    <3>1. WayBelow(source, top) \in Ways
      BY Zenon, <2>1, <2>2, <2>3, WayDown
    <3> QED BY Zenon, <3>1, WayIsRight
  <2> QED BY Zenon, <2>5, <2>6, <2>7
<1> QED BY Zenon, <1>2, <1>3

\* README: "Roots go through GetFullPathNameW before any prefix is applied".
\* However the two roots were typed, `run` makes them absolute, and scan joins
\* names to them: at every moment of the walk, and in the plan, both ends of a
\* bulk file are opened below the roots that were meant, with the prefix that
\* lets their paths be long.
THEOREM OpensRight == Spec => []PathsOpenRight
<1>1. ScanInv => PathsOpenRight
  <2> SUFFICES ASSUME ScanInv, NEW t \in ToSet(bulk)
               PROVE  WayBelow(t.src, source) \in RightWays /\ WayBelow(t.dst, dst) \in RightWays
    BY Zenon DEF PathsOpenRight
  <2>1. InputsTyped /\ phase \in {"start", "walk", "done", "refused"} /\ t \in Tasks
    BY Zenon DEF ScanInv, PlanTyped, Tasks
  <2>2. CASE phase \in {"start", "refused"}
    <3>1. bulk = <<>>
      BY Zenon, <2>2 DEF ScanInv, Empty
    <3> QED BY Zenon, <3>1, ToSetOfNone
  <2>3. CASE phase = "walk"
    <3>1. Below(t.src) /\ t.dst = PathTo(t.src)
      BY Zenon, <2>1, <2>3 DEF ScanInv, WalkInv, TasksMirror
    <3> QED BY Zenon, <2>1, <3>1, MirroredOpensRight
  <2>4. CASE phase = "done" /\ Kind[source] = "dir"
    <3>1. t.dst = PathTo(t.src) /\ t.src \in Nodes /\ Seen(t.src)
      BY Zenon, <2>1, <2>4 DEF ScanInv, Done, PlanIsExact
    <3>2. Below(t.src)
      BY Zenon, <3>1 DEF Seen, Below
    <3> QED BY Zenon, <2>1, <3>1, <3>2, MirroredOpensRight
  <2>5. CASE phase = "done" /\ Kind[source] # "dir"
    <3>1. t.src = source /\ t.dst \in {dst, Append(dst, Last(source))}
      BY Zenon, <2>1, <2>5 DEF ScanInv, Done, StaysInside
    <3> QED BY Zenon, <2>1, <3>1, FileOpensRight
  <2> QED BY Zenon, <2>1, <2>2, <2>3, <2>4, <2>5
<1> QED BY <1>1, ScanKeepsInv, PTL

=============================================================================
