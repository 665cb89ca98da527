-------------------------------- MODULE MCScan --------------------------------
(* Instances of Scan for TLC. *)
EXTENDS Scan, TLC

\*   root            character codes: A = 65, a = 97, b = 98, c = 99
\*   |-- sub "ab"
\*   |   |-- deep "a" (empty)
\*   |   `-- f "aab", 5
\*   |-- g "B", 9
\*   |-- side "b"
\*   |   `-- h "b", an unpaired surrogate, "b", 2
\*   `-- link "a" -> root
root == <<<<99>>>>
sub == Append(root, <<97, 98>>)
deep == Append(sub, <<97>>)
f == Append(sub, <<97, 97, 98>>)
g == Append(root, <<66>>)
side == Append(root, <<98>>)
h == Append(side, <<98, 55296, 98>>)
link == Append(root, <<97>>)

MCNodes == {root, sub, deep, side, f, g, h, link}
MCKind ==
    [n \in MCNodes |-> IF n = link THEN "link" ELSE IF n \in {f, g, h} THEN "file" ELSE "dir"]
MCLinkTo == link :> root
MCSize == [n \in MCNodes |-> IF n = f THEN 5 ELSE IF n = g THEN 9 ELSE IF n = h THEN 2 ELSE 0]
MCSources == {root, g}
MCSourcesInside == {f}
\* Beside the tree, and the directory of f.
MCDsts == {<<<<100>>>>}
MCDstsInside == {sub}
MCWorkingDirectory == <<<<119>>, <<118>>>>

Letters == {97, 98}
Patterns ==
    BoundedSeq(Letters \cup {Star, AnyOne}, 3)
        \cup {<<Star, 97, 98, Star>>, <<Star, 97, Star, 98>>, <<Star, 97, 98, 97>>}
MCExcludeLists == {<<>>, <<<<Star, 97>>, <<66>>>>} \cup {<<p>> : p \in Patterns}
MCTexts == BoundedSeq({65, 98}, 4)

\* Roots as they may be typed: "a", another surrogate, `.`, `..`, nothing.
MCTypedRoots ==
    {Path(form, slashed, parts) :
        form \in {"drive", "share", "none"}, slashed \in BOOLEAN,
        parts \in BoundedSeq({<<97>>, <<55297>>, Dot, DotDot, <<>>}, 3)}
===============================================================================
