--------------------------------- MODULE Scan ---------------------------------
(***************************************************************************)
(* `scan` of scanner.rs: the walk of the source tree, one directory entry  *)
(* per step, in any order, that yields the directories to create and the   *)
(* bulk and small files to copy.  The tree is given; reading a directory,  *)
(* an entry or its metadata may fail.                                      *)
(***************************************************************************)
EXTENDS GlobMatch, PathForm, FiniteSetsExt

CONSTANTS
    Nodes,        \* the entries of the source volume, by their paths
    Sources,      \* those a run may be given
    Kind,         \* "dir", "file" or "link"
    LinkTo,       \* what a link leads to
    Size,
    Dsts,         \* destinations a run may be given, as paths
    ExcludeLists, \* values of --exclude
    Texts,        \* names the patterns are tried on, besides those of the tree
    Thresholds,   \* values of --small
    Faults        \* what may fail: "read_dir", "entry", "metadata"

\* A path is a sequence of names, a name one of character codes.  Only
\* directories hold entries, and no name of Windows holds a star.
ASSUME TreeAssumption ==
    /\ Nodes \subseteq Seq(Seq(Nat)) \ {<<>>} /\ Sources \subseteq Nodes
    /\ Dsts \subseteq Seq(Seq(Nat)) \ {<<>>}
    /\ Kind \in [Nodes -> {"dir", "file", "link"}]
    /\ LinkTo \in [{n \in Nodes : Kind[n] = "link"} -> Nodes]
    /\ \A n \in Nodes : Len(n) > 1 => Front(n) \in Nodes /\ Kind[Front(n)] = "dir"
    /\ \A n \in Sources : Kind[n] # "link"
    /\ Size \in [Nodes -> Nat] /\ Thresholds \subseteq Nat
    /\ ExcludeLists \subseteq Seq(Seq(Nat)) /\ Texts \subseteq Seq(Nat)
    /\ \A n \in Nodes : Star \notin ToSet(Last(n))
    /\ \A t \in Texts : Star \notin ToSet(t)

\* read_dir hands out neither `.` nor `..`.
ASSUME NameAssumption == \A n \in Nodes : ToSet(n) \cap NotNames = {}

VARIABLES
    source, dst, dstIsDir, excludes, threshold,   \* fixed by the command line
    phase,                                   \* "start", "walk", "done" or "refused"
    stack,                                   \* directories left, with their targets
    here, entries,                           \* the directory open and what is left of it
    dirs, bulk, small, totalBytes, skippedLinks,   \* the Plan
    lost, unsized                            \* entries a failure hid, or left without size

inputs == <<source, dst, dstIsDir, excludes, threshold>>
planVars == <<dirs, bulk, small, totalBytes, skippedLinks>>
vars == <<inputs, phase, stack, here, entries, planVars, lost, unsized>>

NoDirectory == [from |-> source, to |-> <<>>]

\* read_dir follows a link it is given.
Listing(n) ==
    LET d == IF Kind[n] = "link" THEN LinkTo[n] ELSE n
    IN  {c \in Nodes : Front(c) = d}

Init ==
    /\ source \in Sources /\ dst \in Dsts /\ dstIsDir \in BOOLEAN
    /\ excludes \in ExcludeLists /\ threshold \in Thresholds
    /\ phase = "start"
    /\ stack = <<>> /\ here = NoDirectory /\ entries = {}
    /\ dirs = <<>> /\ bulk = <<>> /\ small = <<>>
    /\ totalBytes = 0 /\ skippedLinks = 0
    /\ lost = {} /\ unsized = {}

Refuse ==
    /\ phase = "start" /\ "metadata" \in Faults
    /\ phase' = "refused"
    /\ UNCHANGED <<inputs, stack, here, entries, planVars, lost, unsized>>

Task(src, to, size) == [src |-> src, dst |-> to, size |-> size]
Push(task) ==
    IF task.size >= threshold
    THEN bulk' = Append(bulk, task) /\ UNCHANGED small
    ELSE small' = Append(small, task) /\ UNCHANGED bulk

\* A file source goes into the destination directory, or is its new name.  The
\* total is left at 0.
PlanFile ==
    /\ phase = "start" /\ Kind[source] = "file"
    /\ LET target == IF dstIsDir THEN Append(dst, Last(source)) ELSE dst
       IN  /\ dirs' = <<Front(target)>>
           /\ Push(Task(source, target, Size[source]))
    /\ phase' = "done"
    /\ UNCHANGED <<inputs, stack, here, entries, totalBytes, skippedLinks, lost, unsized>>

StartWalk ==
    /\ phase = "start" /\ Kind[source] = "dir"
    /\ dirs' = <<dst>>
    /\ stack' = <<[from |-> source, to |-> dst]>>
    /\ phase' = "walk"
    /\ UNCHANGED <<inputs, here, entries, bulk, small, totalBytes, skippedLinks, lost, unsized>>

\* Mutant: the top of the stack is looked at and not taken.
OpenDir_Peeks ==
    /\ phase = "walk" /\ entries = {} /\ stack # <<>>
    /\ here' = Last(stack) /\ UNCHANGED stack
    /\ entries' = Listing(Last(stack).from)
    /\ UNCHANGED <<inputs, phase, planVars, lost, unsized>>

OpenDir ==
    /\ phase = "walk" /\ entries = {} /\ stack # <<>>
    /\ here' = Last(stack) /\ stack' = Front(stack)
    /\ entries' = Listing(Last(stack).from)
    /\ UNCHANGED <<inputs, phase, planVars, lost, unsized>>

\* Mutant: a directory that cannot be read ends the walk.
OpenFails_Breaks ==
    /\ phase = "walk" /\ entries = {} /\ stack # <<>> /\ "read_dir" \in Faults
    /\ stack' = <<>>
    /\ lost' = lost \cup Listing(Last(stack).from)
    /\ UNCHANGED <<inputs, phase, here, entries, planVars, unsized>>

\* A directory that cannot be read is noted and skipped; the walk goes on.
OpenFails ==
    /\ phase = "walk" /\ entries = {} /\ stack # <<>> /\ "read_dir" \in Faults
    /\ stack' = Front(stack)
    /\ lost' = lost \cup Listing(Last(stack).from)
    /\ UNCHANGED <<inputs, phase, here, entries, planVars, unsized>>

\* The patterns are tried on the lossy copy of a name.
Excluded(n) == \E i \in 1..Len(excludes) : Globs(excludes[i], Lossy(Last(n)))
Consume(n) == phase = "walk" /\ n \in entries /\ entries' = entries \ {n}

\* An entry that cannot be read, or whose type cannot, is dropped.
EntryFails(n) ==
    /\ Consume(n) /\ "entry" \in Faults
    /\ lost' = lost \cup {n}
    /\ UNCHANGED <<inputs, phase, stack, here, planVars, unsized>>

Exclude(n) ==
    /\ Consume(n) /\ Excluded(n)
    /\ UNCHANGED <<inputs, phase, stack, here, planVars, lost, unsized>>

\* Mutant: a link to a directory is walked like one.
SkipLink_Followed(n) ==
    /\ Consume(n) /\ ~Excluded(n) /\ Kind[n] = "link"
    /\ dirs' = Append(dirs, Append(here.to, Last(n)))
    /\ stack' = Append(stack, [from |-> n, to |-> Append(here.to, Last(n))])
    /\ UNCHANGED <<inputs, phase, here, bulk, small, totalBytes, skippedLinks, lost, unsized>>

\* Reparse points are never followed.
SkipLink(n) ==
    /\ Consume(n) /\ ~Excluded(n) /\ Kind[n] = "link"
    /\ skippedLinks' = skippedLinks + 1
    /\ UNCHANGED <<inputs, phase, stack, here, dirs, bulk, small, totalBytes, lost, unsized>>

PushDir(n) ==
    /\ Consume(n) /\ ~Excluded(n) /\ Kind[n] = "dir"
    /\ LET child == [from |-> n, to |-> Append(here.to, Last(n))]
       IN  dirs' = Append(dirs, child.to) /\ stack' = Append(stack, child)
    /\ UNCHANGED <<inputs, phase, here, bulk, small, totalBytes, skippedLinks, lost, unsized>>

\* A file whose metadata cannot be read is planned with size 0.
PushFile(n) ==
    /\ Consume(n) /\ ~Excluded(n) /\ Kind[n] = "file"
    /\ \E size \in {Size[n]} \cup (IF "metadata" \in Faults THEN {0} ELSE {}) :
        /\ totalBytes' = totalBytes + size
        /\ Push(Task(n, Append(here.to, Last(n)), size))
        /\ unsized' = IF size = Size[n] THEN unsized ELSE unsized \cup {n}
    /\ UNCHANGED <<inputs, phase, stack, here, dirs, skippedLinks, lost>>

\* Paths are ordered by their components, names by their characters.
NameBefore(a, b) ==
    \/ IsStrictPrefix(a, b)
    \/ \E i \in 1..Len(a) :
        /\ i <= Len(b) /\ a[i] < b[i]
        /\ SubSeq(a, 1, i - 1) = SubSeq(b, 1, i - 1)
PathBefore(a, b) ==
    \/ IsStrictPrefix(a, b)
    \/ \E i \in 1..Len(a) :
        /\ i <= Len(b) /\ NameBefore(a[i], b[i])
        /\ SubSeq(a, 1, i - 1) = SubSeq(b, 1, i - 1)

\* Mutant: the directories are left in the order the walk met them, backwards.
Finish_Backwards ==
    /\ phase = "walk" /\ entries = {} /\ stack = <<>>
    /\ dirs' = Reverse(dirs)
    /\ UNCHANGED bulk
    /\ phase' = "done"
    /\ UNCHANGED <<inputs, stack, here, entries, small, totalBytes, skippedLinks, lost, unsized>>

\* `sort` and `dedup`, and a stable sort by decreasing size.
Ordered(seq) == \A i, j \in DOMAIN seq : i < j => PathBefore(seq[i], seq[j])
Largest(order) ==
    \A i, j \in DOMAIN order :
        i < j => \/ bulk[order[i]].size > bulk[order[j]].size
                 \/ bulk[order[i]].size = bulk[order[j]].size /\ order[i] < order[j]
Finish ==
    /\ phase = "walk" /\ entries = {} /\ stack = <<>>
    /\ dirs' \in {seq \in Bijection(1..Cardinality(ToSet(dirs)), ToSet(dirs)) : Ordered(seq)}
    /\ \E order \in Bijection(DOMAIN bulk, DOMAIN bulk) :
        Largest(order) /\ bulk' = [i \in DOMAIN bulk |-> bulk[order[i]]]
    /\ phase' = "done"
    /\ UNCHANGED <<inputs, stack, here, entries, small, totalBytes, skippedLinks, lost, unsized>>

Scanned == phase \in {"done", "refused"} /\ UNCHANGED vars

Visit(n) == EntryFails(n) \/ Exclude(n) \/ SkipLink(n) \/ PushDir(n) \/ PushFile(n)
Next ==
    \/ Refuse \/ PlanFile \/ StartWalk \/ OpenDir \/ OpenFails
    \/ \E n \in Nodes : Visit(n)
    \/ Finish \/ Scanned

Spec == Init /\ [][Next]_vars

-------------------------------------------------------------------------------
Directories == {n \in Nodes : Kind[n] = "dir"}
Tasks == ToSet(bulk) \cup ToSet(small)
Sizes(tasks) == MapThenSumSet(LAMBDA t : t.size, tasks)
Paths == Seq(Seq(Nat))
TypeOK ==
    /\ source \in Sources /\ dst \in Dsts /\ dstIsDir \in BOOLEAN
    /\ excludes \in ExcludeLists /\ threshold \in Thresholds
    /\ phase \in {"start", "walk", "done", "refused"}
    /\ stack \in Seq([from : Directories, to : Paths])
    /\ here \in [from : Nodes, to : Paths]
    /\ entries \subseteq Nodes
    /\ dirs \in Seq(Paths)
    /\ bulk \in Seq([src : Nodes, dst : Paths, size : Nat])
    /\ small \in Seq([src : Nodes, dst : Paths, size : Nat])
    /\ totalBytes \in Nat /\ skippedLinks \in Nat
    /\ lost \subseteq Nodes /\ unsized \subseteq Nodes

\* Whether the walk gets to n, from what the patterns mean: n lies below the
\* source, and neither it nor a directory on the way is excluded or was lost.
Hidden(n) == \E i \in 1..Len(excludes) : Matches(excludes[i], Lossy(Last(n)))
Seen(n) ==
    /\ IsPrefix(source, n)
    /\ \A k \in (Len(source) + 1)..Len(n) : SubSeq(n, 1, k) \notin lost /\ ~Hidden(SubSeq(n, 1, k))

\* What follows the source in n follows dst.
PathTo(n) == dst \o SubSeq(n, Len(source) + 1, Len(n))

\* "Directory sources copy their contents into dst": the plan holds every file
\* the walk can get to, under the path that mirrors its own, in the list its
\* size puts it in, and every directory, the empty ones included - and no more;
\* and the total the free-space check trusts is the size of what is planned.
PlanIsExact ==
    phase = "done" /\ Kind[source] = "dir" =>
        /\ {t.src : t \in Tasks} = {n \in Nodes : Kind[n] = "file" /\ Seen(n)}
        /\ \A t \in Tasks : t.dst = PathTo(t.src)
        /\ \A t \in Tasks : t.src \notin unsized =>
            t.size = Size[t.src] /\ (t \in ToSet(bulk) <=> Size[t.src] >= threshold)
        /\ ToSet(dirs) = {PathTo(n) : n \in {d \in Directories : Seen(d)}}
        /\ totalBytes = Sizes(Tasks)

\* "Never followed: following a junction can walk the same tree forever".  No
\* directory is walked twice and no file planned twice, at any time, though a
\* link leads back to the source.
WalkedOnce ==
    /\ IsInjective([i \in DOMAIN bulk |-> bulk[i].src])
    /\ IsInjective([i \in DOMAIN small |-> small[i].src])
    /\ {bulk[i].src : i \in DOMAIN bulk} \cap {small[i].src : i \in DOMAIN small} = {}
    /\ IsInjective(dirs)
    /\ \A i, j \in DOMAIN stack : i # j => ~IsPrefix(stack[i].to, stack[j].to)
    /\ \A t \in Tasks : t.src \notin entries

\* "Parents before children, so directory creation never races", and no file
\* without its directory: `run` creates the list in order, probes its first
\* directory, and then opens the files.
DirectoriesReady ==
    phase = "done" =>
        /\ Kind[source] = "dir" => dirs[1] = dst
        /\ \A i \in 2..Len(dirs) : \E j \in 1..(i - 1) : dirs[j] = Front(dirs[i])
        /\ \A t \in Tasks : Front(t.dst) \in ToSet(dirs)

\* "Case-insensitive glob supporting `*` and `?`": the loop of glob_match, which
\* goes back to the last star only, accepts exactly what the patterns mean.
GlobIsRight ==
    phase = "start" =>
        \A i \in 1..Len(excludes), t \in Texts :
            Globs(excludes[i], t) <=> Matches(excludes[i], t)

\* The ways down the tree that lead, whatever root is typed, to what was meant.
Ways == UNION {Suffixes(n) : n \in Nodes}
RightWays == {way \in Ways : \A root \in TypedRoots : OpensWhatWasMeant(root, way)}
WayBelow(path, top) == SubSeq(path, Len(top) + 1, Len(path))

\* README: "Roots go through GetFullPathNameW before any prefix is applied".
\* Both ends of every bulk file of the plan are opened where the two roots were
\* meant, with the prefix that lets a path be long, however they were typed.
PathsOpenRight ==
    \A t \in ToSet(bulk) :
        {WayBelow(t.src, source), WayBelow(t.dst, dst)} \subseteq RightWays

\* "Walk `src`, planning a copy into `dst`": no bulk file of the plan, which the
\* pipeline creates anew whatever is there, takes the place of a file the plan
\* reads.  That file would be emptied before it is read, or, copied onto itself,
\* while it is: unless it is a single chunk, which is in memory by then.
SourceKept ==
    phase = "done" =>
        \A t \in ToSet(bulk), u \in Tasks : t.dst # u.src
=============================================================================
