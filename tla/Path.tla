---------------------------------- MODULE Path ----------------------------------
(***************************************************************************)
(* The functions on paths of os/path.h.  A path is a sequence of           *)
(* characters, each a string of one; positions count from 0 as in the code *)
(* and -1 says that nothing was found.  Both / and \ separate.  Past the   *)
(* end the NUL of a string literal is read (a build with bounds checks     *)
(* stops there instead).                                                   *)
(***************************************************************************)
EXTENDS Integers, Sequences, FiniteSets, SequencesExt

CONSTANT LowerOf(_)      \* a character in lower case

Seps == {"\\", "/"}
path_is_sep(ch) == ch \in Seps

At(path, i) == IF i < Len(path) THEN path[i + 1] ELSE "NUL"
slice(path, begin, end) == SubSeq(path, begin + 1, end)
NotFound == -1

(* search for one of some characters, from Start on and Reversed from the  *)
(* end.                                                                    *)
SearchFrom(path, start, chars) ==
    LET those == {i \in start..(Len(path) - 1) : At(path, i) \in chars}
    IN  IF those = {} THEN NotFound ELSE CHOOSE i \in those : \A j \in those : i <= j
SearchLast(path, chars) ==
    LET those == {i \in 0..(Len(path) - 1) : At(path, i) \in chars}
    IN  IF those = {} THEN NotFound ELSE CHOOSE i \in those : \A j \in those : i >= j
NotSeps(path) == ToSet(path) \ Seps

-----------------------------------------------------------------------------
(* A network share \\machine\mount or a drive letter, and the rest.        *)
SplitAt(path, i) == [DriveOrUNC |-> slice(path, 0, i), Path |-> slice(path, i, Len(path))]
ShareEnd(path, index, index2) ==
    CASE index = NotFound \/ index2 = index + 1 -> 0
      [] index2 = NotFound -> Len(path)
      [] OTHER -> index2
Share(path, index) == ShareEnd(path, index, SearchFrom(path, index + 1, Seps))
path_split_drive(path) ==
    SplitAt(path, CASE Len(path) < 2 -> 0
                    [] slice(path, 0, 2) = <<"\\", "\\">> /\ At(path, 2) # "\\" -> Share(path, SearchFrom(path, 2, Seps))
                    [] At(path, 1) = ":" -> 2
                    [] OTHER -> 0)

StartsAtRoot(rest) == rest # <<>> /\ path_is_sep(rest[1])
path_is_absolute(path) == StartsAtRoot(path_split_drive(path).Path)

(* What was joined so far, and of which drive.                             *)
strings_match_ignore_case(a, b) ==
    Len(a) = Len(b) /\ \A i \in DOMAIN a : LowerOf(a[i]) = LowerOf(b[i])
Separated(result) == IF result # <<>> /\ ~path_is_sep(Last(result)) THEN Append(result, "/") ELSE result
Extended(st, q) ==
    [drive |-> IF q.DriveOrUNC # <<>> THEN q.DriveOrUNC ELSE st.drive,
     result |-> IF \/ StartsAtRoot(q.Path)
                   \/ q.DriveOrUNC # <<>> /\ ~strings_match_ignore_case(q.DriveOrUNC, st.drive)
                THEN q.Path ELSE Separated(st.result) \o q.Path]
Joined(st, p) == Extended(st, path_split_drive(p))
(* A separator after a share when one is missing, or else the drive.       *)
Missing(st) == /\ st.result # <<>> /\ ~path_is_sep(st.result[1])
               /\ st.drive # <<>> /\ Last(st.drive) # ":"
Whole(st) == (IF Missing(st) THEN <<"\\">> ELSE st.drive) \o st.result
JoinedTo(first, paths) == FoldLeft(Joined, [drive |-> first.DriveOrUNC, result |-> first.Path], paths)
path_join(paths) == Whole(JoinedTo(path_split_drive(paths[1]), Tail(paths)))
-----------------------------------------------------------------------------
(* The pieces between separators; one at the very start is not seen.       *)
ComponentsFrom[path \in Seq(STRING), at \in Int, prev \in Int] ==
    LET start == SearchFrom(path, at + 1, Seps)
    IN  IF start # NotFound THEN <<slice(path, prev, start)>> \o ComponentsFrom[path, start, start + 1]
        ELSE IF prev < Len(path) THEN <<slice(path, prev, Len(path))>> ELSE <<>>
path_split_into_components(path) == ComponentsFrom[path, 0, 0]

Here == <<".">>
Up == <<".", ".">>

(* The loop over the components, with what was written before it.          *)
Collapsed[components \in Seq(Seq(STRING)), i \in Int, rooted \in BOOLEAN] ==
    IF i > Len(components) THEN components
    ELSE LET it == components[i]
             Without(a, b) == SubSeq(components, 1, a - 1) \o SubSeq(components, b + 1, Len(components))
         IN  CASE it \in {<<>>, Here} -> Collapsed[Without(i, i), i, rooted]
               [] it = Up /\ i > 1 /\ components[i - 1] # Up -> Collapsed[Without(i - 1, i), i - 1, rooted]
               [] it = Up /\ i = 1 /\ rooted -> Collapsed[Without(i, i), i, rooted]
               [] OTHER -> Collapsed[components, i + 1, rooted]

Behind(path, i) == IF i = NotFound THEN <<>> ELSE slice(path, i, Len(path))
WithoutSeps(path) == Behind(path, SearchFrom(path, 0, NotSeps(path)))
Literal(path) == \E c \in {".", "?"} : IsPrefix(<<"\\", "\\", c, "\\">>, path)

(* The last character written is taken off, which is the / after the last  *)
(* component if there was one.                                             *)
Written(result, components) ==
    IF result = <<>> /\ components = <<>> THEN Here
    ELSE Front(result \o FlattenSeq([i \in DOMAIN components |-> Append(components[i], "/")]))
Root(split) == split.DriveOrUNC \o (IF path_is_sep(At(split.Path, 0)) THEN <<"\\">> ELSE <<>>)
Under(result, rest) ==
    Written(result, Collapsed[path_split_into_components(WithoutSeps(rest)), 1,
                              result # <<>> /\ path_is_sep(Last(result))])
Normalized(split) == Under(Root(split), split.Path)
path_normalize(path) == IF Literal(path) THEN path ELSE Normalized(path_split_drive(path))
-----------------------------------------------------------------------------
KeptOf(head, trimmed) == IF trimmed # 0 THEN trimmed ELSE Len(head)
Kept(head) == KeptOf(head, SearchLast(head, NotSeps(head)) + 1)
SplitBehind(path, split, i) ==
    [Head |-> slice(path, 0, Kept(slice(split.Path, 0, i)) + Len(split.DriveOrUNC)),
     Tail |-> slice(split.Path, i, Len(split.Path))]
SplitRest(path, split) == SplitBehind(path, split, SearchLast(split.Path, Seps) + 1)
path_split(path) == SplitRest(path, path_split_drive(path))
path_base_name(path) == path_split(path).Tail
path_directory(path) == path_split(path).Head

(* Dots the last component begins with are part of its name.               *)
path_split_extensionAtDot(path) ==           \* mutant: leading dots are not skipped
    LET dotIndex == SearchLast(path, {"."})
    IN  IF dotIndex > SearchLast(path, Seps)
        THEN [Root |-> slice(path, 0, dotIndex), Extension |-> slice(path, dotIndex, Len(path))]
        ELSE [Root |-> path, Extension |-> <<>>]
path_split_extension(path) ==
    LET sepIndex == SearchLast(path, Seps)
        dotIndex == SearchLast(path, {"."})
    IN  IF \E i \in (sepIndex + 1)..(dotIndex - 1) : At(path, i) # "."
        THEN [Root |-> slice(path, 0, dotIndex), Extension |-> slice(path, dotIndex, Len(path))]
        ELSE [Root |-> path, Extension |-> <<>>]

(* there is looked for in here.                                            *)
Within(here, there) == there # <<>> /\ \E i \in 0..(Len(here) - Len(there)) : slice(here, i, i + Len(there)) = there
get_path_from_here_to(here, there) ==
    IF ~Within(here, there) THEN there
    ELSE IF Len(here) = Len(there) THEN here ELSE slice(there, Len(here), Len(there))
-----------------------------------------------------------------------------
(* Walking a directory: tree gives the entries of each directory in the    *)
(* system's order, "." and ".." among them.  A walker's Handle is the      *)
(* place of its entry, or 0 before the first and after the last.           *)
path_walker(path) == [Handle |-> 0, Path |-> path, CurrentFileName |-> <<>>]
path_read_next_entry(walker, tree) ==
    LET entries == tree[walker.Path]
        left == {k \in (walker.Handle + 1)..Len(entries) : entries[k] \notin {Here, Up}}
        next == CHOOSE k \in left : \A j \in left : k <= j
    IN  IF left = {} THEN [walker EXCEPT !.Handle = 0]
        ELSE [walker EXCEPT !.Handle = next, !.CurrentFileName = entries[next]]

RECURSIVE WalkFrom(_, _, _, _)
WalkFrom(walker, first, tree, recursively) ==
    LET here(w) == IF recursively THEN get_path_from_here_to(first, w.Path) ELSE w.Path
        Visit(p) == <<p>> \o (IF recursively /\ p \in DOMAIN tree THEN WalkFrom(path_walker(p), first, tree, recursively)
                              ELSE <<>>)
        From(w) == IF w.Handle = 0 THEN <<>>
                   ELSE Visit(path_join(<<here(w), w.CurrentFileName>>)) \o WalkFrom(w, first, tree, recursively)
    IN  From(path_read_next_entry(walker, tree))
path_walk(path, tree, recursively) == WalkFrom(path_walker(path), path, tree, recursively)
-----------------------------------------------------------------------------
(* What a path means: the place one gets to, component by component, from  *)
(* a place far below the root or from the root.                            *)
Steps(path) == {i \in 1..Len(path) : ~path_is_sep(path[i])}
Words(path) ==
    LET Start(i) == i \in Steps(path) /\ i - 1 \notin Steps(path)
        End(i) == CHOOSE j \in i..Len(path) : /\ \A k \in i..j : k \in Steps(path)
                                              /\ j + 1 \notin Steps(path)
        starts == SetToSortSeq({i \in Steps(path) : Start(i)}, LAMBDA a, b : a < b)
    IN  [n \in DOMAIN starts |-> SubSeq(path, starts[n], End(starts[n]))]
Below == <<"w", "x", "y", "z">>
Go(place, word) == CASE word = Here -> place
                     [] word = Up -> IF place = <<>> THEN place ELSE Front(place)
                     [] OTHER -> Append(place, word)
Place(path) ==
    [drive |-> path_split_drive(path).DriveOrUNC, absolute |-> path_is_absolute(path),
     at |-> FoldLeft(Go, IF path_is_absolute(path) THEN <<>> ELSE Below, Words(path_split_drive(path).Path))]

(* What is said of a path's drive.                                         *)
IsShare(path) == At(path_split_drive(path).DriveOrUNC, 0) = "\\"
NoDrive(path) == path_split_drive(path).DriveOrUNC = <<>>

(* A path that leads to its own start, or to a root, from somewhere: the   *)
(* last character of what was written is no separator there.               *)
LeadsNowhere(path) ==
    /\ ~NoDrive(path) \/ path_is_absolute(path)
    /\ Collapsed[path_split_into_components(WithoutSeps(path_split_drive(path).Path)), 1, path_is_absolute(path)] = <<>>

(* A normalized path leads where the path led, holds neither "." nor "..", *)
(* save leading ones of a relative path, and is normal: normalizing it     *)
(* again changes nothing (os/path.h, path_normalize).                      *)
NormalizesAgree(path) ==
    /\ ~Literal(path) /\ ~LeadsNowhere(path)
    /\ \A i \in DOMAIN path_split_drive(path).Path : path_split_drive(path).Path[i] # ":"
    =>
        \A p \in {path_normalize(path)} : \A words \in {Words(path_split_drive(p).Path)} :
            /\ Place(p) = Place(path)
            /\ path_normalize(p) = p
            /\ p # Here => \A i \in DOMAIN words :
                    /\ words[i] # Here
                    /\ words[i] = Up => ~path_is_absolute(p) /\ \A j \in 1..i : words[j] = Up
            /\ p # Here => Len(p) <= Len(path)

(* Splitting loses only separators: the head and the tail joined lead      *)
(* where the path led, the tail is one component or none, the extension    *)
(* belongs to it, and what has only leading dots has none (os/path.h,      *)
(* path_split, path_split_extension).                                      *)
SplitsAgree(path) ==
    \A s \in {path_split(path)}, e \in {path_split_extension(path)}, drive \in {path_split_drive(path)} :
        /\ \E gap \in 0..Len(path) :
              /\ s.Head \o slice(path, Len(s.Head), Len(s.Head) + gap) \o s.Tail = path
              /\ \A i \in 1..gap : path_is_sep(path[Len(s.Head) + i])
        /\ \A i \in DOMAIN s.Tail : ~path_is_sep(s.Tail[i])
        /\ Len(s.Head) > Len(drive.DriveOrUNC) + 1 /\ path_is_sep(Last(s.Head))
              => \A i \in (Len(drive.DriveOrUNC) + 1)..Len(s.Head) : path_is_sep(s.Head[i])
        /\ drive.DriveOrUNC \o drive.Path = path
        /\ path_split_drive(s.Tail).DriveOrUNC = <<>> /\ ~IsPrefix(<<"\\", "\\">>, path)
              => Place(path_join(<<path_directory(path), path_base_name(path)>>)) = Place(path)
        /\ e.Root \o e.Extension = path
        /\ e.Extension # <<>> =>
              /\ e.Extension[1] = "." /\ \A i \in 2..Len(e.Extension) : e.Extension[i] \notin Seps \union {"."}
              /\ drive.DriveOrUNC # <<>> \/ ToSet(path_base_name(e.Root)) \ {"."} # {}
        /\ FlattenSeq(Words(path)) = FlattenSeq(path_split_into_components(WithoutSeps(path)))

(* Joining three paths is joining two and then the third, the last         *)
(* absolute one decides, and the result leads where going along each in    *)
(* turn leads (os/path.h, path_join).  Shares are left out of the last two *)
(* clauses: before a relative path the separator is put in and the share   *)
(* is not.                                                                 *)
JoinsAgree(a, b, c) ==
    (\A p \in {a, b, c} : ~IsShare(p)) => \A joined \in {path_join(<<a, b, c>>)} :
        /\ path_join(<<path_join(<<a, b>>), c>>) = joined
        /\ \A u, v \in {a, b, c} : NoDrive(u) /\ NoDrive(v) /\ ~path_is_absolute(v) =>
              /\ Place(path_join(<<u, v>>)).at = FoldLeft(Go, Place(u).at, Words(v))
              /\ path_is_absolute(path_join(<<u, v>>)) = path_is_absolute(u)
        /\ path_is_absolute(c) => Place(joined).at = Place(c).at

(* Walking finds each entry of a directory once, and recursively each of   *)
(* every directory below, under the path that leads to it (path_walk,      *)
(* path_read_next_entry, get_path_from_here_to).                           *)
WalkFindsAll(path, tree) ==
    \A In \in {[d \in DOMAIN tree |-> {path_join(<<d, name>>) : name \in ToSet(tree[d]) \ {Here, Up}}]},
       all \in {path_walk(path, tree, TRUE)} :
        /\ IsInjective(all) /\ Range(all) = UNION {In[d] : d \in DOMAIN tree \cap ({path} \cup Range(all))}
        /\ path_walk(path, tree, FALSE) = SelectSeq(all, LAMBDA p : p \in In[path])
=============================================================================
