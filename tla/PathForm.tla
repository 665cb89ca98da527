------------------------------- MODULE PathForm -------------------------------
(***************************************************************************)
(* The two forms of a path, win/mod.rs.  Win32 resolves `.`, `..`, slashes *)
(* and doubled separators of an ordinary path; the extended-length prefix  *)
(* lifts the limit of 260 characters and switches all that off.  A path is *)
(* its root and its parts, as they stand between separators; an empty part *)
(* is a doubled separator or, at the end, a trailing one.                  *)
(***************************************************************************)
EXTENDS Integers, SequencesExt

CONSTANTS
    WorkingDirectory,  \* the parts of the process's directory
    TypedRoots         \* source and destination, as they may be typed

\* Parts, like names, are sequences of character codes, an unpaired surrogate
\* one of them.  What Win32 takes for something else is not a name.
Dot == <<46>>
DotDot == <<46, 46>>
NotNames == {<<>>, Dot, DotDot}
Surrogates == 55296..57343
Replacement == 255 * 256 + 253   \* U+FFFD

ASSUME PathAssumption ==
    /\ WorkingDirectory \in Seq(Seq(Nat))
    /\ TypedRoots \subseteq
          [root : {"drive", "share", "none"}, slashed : BOOLEAN, parts : Seq(Seq(Nat))]

\* Names that are not valid Unicode, and what to_string_lossy makes of a name.
IllFormed(name) == ToSet(name) \cap Surrogates # {}
Lossy(name) == [i \in DOMAIN name |-> IF name[i] \in Surrogates THEN Replacement ELSE name[i]]

\* root is "drive", "share" or "none"; slashed paths use `/` somewhere.
Path(root, slashed, parts) == [root |-> root, slashed |-> slashed, parts |-> parts]

\* What one more part makes of the names so far: `..` stops at the root, and the
\* server and share of a UNC path belong to the root.
After(names, part) ==
    IF part \in {<<>>, Dot} THEN names
    ELSE IF part # DotDot THEN Append(names, part)
    ELSE IF names = <<>> THEN <<>> ELSE Front(names)

\* What Win32 makes of the parts, a trailing separator apart.
Resolved(parts) ==
    LET upTo[n \in 0..Len(parts)] == IF n = 0 THEN <<>> ELSE After(upTo[n - 1], parts[n])
    IN  upTo[Len(parts)]

\* A last `.` leaves its separator behind, as `C:\Windows\.` does.
Trailing(parts) == IF parts # <<>> /\ Last(parts) \in {<<>>, Dot} THEN << <<>> >> ELSE <<>>

\* Mutant: an absolute path is taken as it was typed.
FullPath_AsTyped(p) ==
    IF p.root # "none" THEN p ELSE Path("drive", FALSE, WorkingDirectory \o p.parts)

\* GetFullPathNameW.
FullPath(p) ==
    LET all == IF p.root = "none" THEN WorkingDirectory \o p.parts ELSE p.parts
        base == Resolved(all)
    IN  Path(IF p.root = "none" THEN "drive" ELSE p.root, FALSE,
             IF base = <<>> THEN <<>> ELSE base \o Trailing(all))

\* PathBuf::join adds a separator only where there is none.
Joined(p, name) ==
    [p EXCEPT !.parts = IF @ # <<>> /\ Last(@) = <<>> THEN Append(Front(@), name) ELSE Append(@, name)]

\* The path of an entry: the root joined with every name on the way to it.
EntryPath(p, names) ==
    LET at[n \in 0..Len(names)] == IF n = 0 THEN p ELSE Joined(at[n - 1], names[n])
    IN  at[Len(names)]

IsCanonical(p) ==
    /\ ~p.slashed
    /\ {Dot, DotDot} \cap ToSet(p.parts) = {}
    /\ \A i \in 1..(Len(p.parts) - 1) : p.parts[i] # <<>>

\* A UNC path is prefixed as it is, and by way of to_string_lossy.
WidePath(p) ==
    [path |-> IF p.root = "share" THEN [p EXCEPT !.parts = [i \in DOMAIN @ |-> Lossy(@[i])]] ELSE p,
     prefixed |-> p.root = "share" \/ (p.root = "drive" /\ IsCanonical(p))]

\* What CreateFileW opens: behind a prefix the parts are names as they stand.
CreateFile(wide) ==
    LET p == wide.path
    IN  [root |-> p.root,
         parts |-> IF ~wide.prefixed THEN Resolved(p.parts)
                   ELSE IF p.parts # <<>> /\ Last(p.parts) = <<>> THEN Front(p.parts) ELSE p.parts]

\* What a path means to whoever typed it: what Win32 makes of it by itself.
Meant(p) ==
    IF p.root = "none" THEN [root |-> "drive", parts |-> Resolved(WorkingDirectory \o p.parts)]
    ELSE [root |-> p.root, parts |-> Resolved(p.parts)]

\* Whether the entry that names lead to is opened below the root that was meant,
\* with the prefix that lets its path be long.  A share's names are excepted
\* when they are not Unicode: the lossy copy names another file.
OpensWhatWasMeant(root, names) ==
    LET p == EntryPath(FullPath(root), names)
        wide == WidePath(p)
    IN  \/ p.root = "share" /\ \E i \in DOMAIN p.parts : IllFormed(p.parts[i])
        \/ /\ wide.prefixed
           /\ CreateFile(wide) = [Meant(root) EXCEPT !.parts = @ \o names]
===============================================================================
