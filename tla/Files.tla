---------------------------------- MODULE Files ----------------------------------
(***************************************************************************)
(* Files as the library handles them: copying, moving, renaming, linking,  *)
(* deleting, reading and writing whole files, on the system's names and    *)
(* the bytes of its files.  On POSIX copying goes piece by piece and       *)
(* moving is copying and then unlinking; on Windows the system does each   *)
(* in one call, after the library's own checks.  Callers interleave        *)
(* between system calls, and every call of the system may fail.            *)
(*                                                                         *)
(* A byte 0 continues the character before it.  Sources:                   *)
(* os/posix/path.h, os/windows/path.h, os/posix/common.h,                  *)
(* os/windows/common.h.                                                    *)
(***************************************************************************)
EXTENDS Integers, Sequences, FiniteSets

CONSTANTS Callers,
          Names,          \* of files and directories
          Inside(_, _),   \* the name in directory d of what is called n elsewhere
          Inodes, Contents, Systems,
          FirstDirs,      \* what there may be when it begins
          MaxCalls        \* bounds the calls of a behaviour

VARIABLES system,         \* "posix" or "windows"
          dir,            \* what each name stands for
          data,           \* the bytes of each file
          call,           \* each caller's call under way, or the last one
          calls           \* how many there were

vars == <<system, dir, data, call, calls>>

Nothing == [kind |-> "nothing"]
File(i) == [kind |-> "file", inode |-> i]
Directory == [kind |-> "directory"]
Link(name) == [kind |-> "link", to |-> name]

(* What a name leads to, links followed (one link to another at most).     *)
Follow(name) == IF dir[name].kind = "link" THEN dir[name].to ELSE name
Resolved(name) == Follow(Follow(name))
Stat(name) == LET e == dir[Resolved(name)] IN IF e.kind = "link" THEN Nothing ELSE e

(* Windows: one writer has the file for itself.                            *)
Exclusive(i) == system = "windows" /\ \E c \in Callers : call[c].at = "write" /\ call[c].to = i
MayOpen(name) == Stat(name).kind = "file" => ~Exclusive(Stat(name).inode)

path_exists(name) == Stat(name) # Nothing /\ MayOpen(name)
path_is_file(name) == Stat(name).kind = "file"
path_is_directory(name) == Stat(name).kind = "directory"

Free == {i \in Inodes : \A n \in Names : dir[n] # File(i)}
             \ UNION {{call[c].from, call[c].to} : c \in {d \in Callers : call[d].at # "done"}}
NoInode == 0

Entries == {Nothing, Directory} \union {File(i) : i \in Inodes} \union {Link(n) : n \in Names}

FilesAssumption ==
    /\ NoInode \notin Inodes /\ MaxCalls \in Nat
    /\ \A d, n \in Names : Inside(d, n) \in Names
    /\ FirstDirs \subseteq [Names -> Entries]
    /\ Contents \subseteq Seq(0 .. 2)

-----------------------------------------------------------------------------
Idle == [op |-> "none", path |-> "", dest |-> "", overwrite |-> FALSE, contents |-> <<>>, at |-> "done",
         from |-> NoInode, to |-> NoInode, pos |-> 0, made |-> FALSE, ok |-> FALSE,
         text |-> <<>>, alone |-> FALSE]
Init == /\ system \in Systems
        /\ call = [c \in Callers |-> Idle]
        /\ dir \in FirstDirs
        /\ data = [i \in Inodes |-> IF i \in Free THEN <<>> ELSE <<1, 2>>]
        /\ calls = 0

(* A step of c; whoever else is under way is no longer alone.              *)
Goes(c, new) == call' = [d \in Callers |-> IF d = c THEN new ELSE [call[d] EXCEPT !.alone = FALSE]]
At_(c, at) == call[c].at = at /\ UNCHANGED <<system, calls>>
To(c, at) == Goes(c, [call[c] EXCEPT !.at = at])
Done(k) == IF k.op = "move" THEN [k EXCEPT !.at = "done", !.overwrite = FALSE, !.from = NoInode, !.pos = 0]
           ELSE [Idle EXCEPT !.op = k.op, !.to = k.to, !.made = k.made]
Ends(c, ok) == Goes(c, [Done(call[c]) EXCEPT !.ok = ok])
Kept == UNCHANGED <<dir, data>>

(* path_copy, path_move, os_read_entire_file and os_write_to_file begin.   *)
FirstPlace(op) ==
    CASE op \in {"copy", "move"} -> op [] op = "read" -> "open_read" [] OTHER -> "open_write"
Begun(c, op, p, d, o, t) ==
    [Idle EXCEPT !.op = op, !.path = p, !.dest = d, !.overwrite = o, !.contents = t, !.at = FirstPlace(op),
        !.text = IF op = "move" /\ path_is_file(p) THEN data[Stat(p).inode] ELSE <<>>,
        !.alone = /\ op = "move" /\ path_is_file(p) /\ Stat(p) # Stat(d)
                  /\ \A e \in Callers \ {c} : call[e].at = "done"]
Begin(c) ==
    /\ call[c].at = "done" /\ calls < MaxCalls
    /\ \E op \in {"copy", "move", "read", "append", "overwrite", "overwrite_entire"}, p, d \in Names,
          o \in BOOLEAN, t \in Contents \union {<<>>} :
        /\ op \notin {"copy", "move"} => d = p /\ ~o
        /\ op \in {"copy", "move", "read"} <=> t = <<>>
        /\ Goes(c, Begun(c, op, p, d, o, t))
    /\ calls' = calls + 1
    /\ UNCHANGED <<system, dir, data>>

-----------------------------------------------------------------------------
(* POSIX.  path_move checks and then path_copy checks again.               *)
posix(c, at) == system = "posix" /\ At_(c, at)

CheckMove(c) ==
    /\ posix(c, "move") /\ Kept
    /\ IF ~path_exists(call[c].path) \/ (path_exists(call[c].dest) /\ ~call[c].overwrite) THEN Ends(c, FALSE)
       ELSE To(c, "copy")
CheckCopy(c) ==
    /\ posix(c, "copy") /\ Kept
    /\ IF ~path_exists(call[c].path) \/ (path_exists(call[c].dest) /\ ~call[c].overwrite) THEN Ends(c, FALSE)
       ELSE To(c, "open_from")

(* copy_file opens the source, which may be a directory, ...               *)
OpenSource(c) ==
    /\ posix(c, "open_from") /\ Kept
    /\ \/ Ends(c, FALSE)
       \/ /\ Stat(call[c].path) # Nothing
          /\ Goes(c, [call[c] EXCEPT !.at = "open_to",
                         !.from = IF path_is_file(call[c].path) THEN Stat(call[c].path).inode ELSE NoInode])

(* ... and the destination, which is emptied, or must not be there.        *)
ExclusivelyNever(c) == FALSE            \* mutant: "wb" whatever overwrite says
Exclusively(c) == ~call[c].overwrite
OpenDest(c) ==
    LET name == Resolved(call[c].dest) IN
    /\ posix(c, "open_to")
    /\ \/ Ends(c, FALSE) /\ Kept
       \/ /\ dir[name] = Nothing /\ (Exclusively(c) => name = call[c].dest)
          /\ \E i \in Free : /\ dir' = [dir EXCEPT ![name] = File(i)]
                             /\ data' = [data EXCEPT ![i] = <<>>]
                             /\ Goes(c, [call[c] EXCEPT !.at = "pieces", !.to = i, !.made = TRUE])
       \/ /\ dir[name].kind = "file" /\ ~Exclusively(c)
          /\ data' = [data EXCEPT ![dir[name].inode] = IF call[c].overwrite THEN <<>> ELSE @]
          /\ Goes(c, [call[c] EXCEPT !.at = "pieces", !.to = dir[name].inode])
          /\ UNCHANGED dir

(* Writing at a position of one's own: what is not there yet is zero.      *)
Written(bytes, pos, b) ==
    [i \in 1..(IF Len(bytes) > pos THEN Len(bytes) ELSE pos + 1) |->
        IF i = pos + 1 THEN b ELSE IF i <= Len(bytes) THEN bytes[i] ELSE 0]
CopiedButLast(k) == k.pos + 1 >= Len(data[k.from])    \* mutant: one byte short
Copied(k) == k.pos >= Len(data[k.from])
CopyPiece(c) ==
    LET k == call[c] IN
    /\ posix(c, "pieces")
    /\ \/ Ends(c, FALSE) /\ Kept
       \/ /\ k.from # NoInode /\ ~Copied(k)
          /\ data' = [data EXCEPT ![k.to] = Written(@, k.pos, data[k.from][k.pos + 1])]
          /\ Goes(c, [k EXCEPT !.pos = @ + 1]) /\ UNCHANGED dir
       \/ /\ k.from # NoInode /\ Copied(k)
          /\ IF k.op = "move" THEN To(c, "unlink") ELSE Ends(c, TRUE)
          /\ Kept
Unlink(c) ==
    /\ posix(c, "unlink")
    /\ \/ Ends(c, FALSE) /\ Kept
       \/ /\ dir[call[c].path].kind \in {"file", "link"}
          /\ dir' = [dir EXCEPT ![call[c].path] = Nothing]
          /\ Ends(c, TRUE) /\ UNCHANGED data
-----------------------------------------------------------------------------
(* Windows.  The library's checks, and then the system's one call.         *)
windows(c, at) == system = "windows" /\ At_(c, at)

Check(c) ==
    LET k == call[c]
        dest == IF path_is_directory(k.dest) THEN Inside(k.dest, k.path) ELSE k.dest
    IN
    /\ \/ windows(c, "copy") \/ windows(c, "move")
    /\ Kept
    /\ IF ~path_is_file(k.path) THEN Ends(c, FALSE)
       ELSE Goes(c, [k EXCEPT !.at = "system_call",
                        !.dest = dest, !.alone = @ /\ Stat(dest) # Stat(k.path)])
CopyFileW(c) ==
    LET k == call[c]
        name == Resolved(k.dest)
    IN
    /\ windows(c, "system_call") /\ k.op = "copy"
    /\ \/ Ends(c, FALSE) /\ Kept
       \/ /\ path_is_file(k.path) /\ MayOpen(k.path)
          /\ \/ /\ dir[name] = Nothing
                /\ \E i \in Free : /\ dir' = [dir EXCEPT ![name] = File(i)]
                                   /\ data' = [data EXCEPT ![i] = data[Stat(k.path).inode]]
                                   /\ Goes(c, [Done([k EXCEPT !.to = i, !.made = TRUE]) EXCEPT !.ok = TRUE])
             \/ /\ dir[name].kind = "file" /\ k.overwrite /\ MayOpen(k.dest) /\ dir[name] # Stat(k.path)
                /\ data' = [data EXCEPT ![dir[name].inode] = data[Stat(k.path).inode]]
                /\ Ends(c, TRUE) /\ UNCHANGED dir
MoveFileExW(c) ==
    LET k == call[c] IN
    /\ windows(c, "system_call") /\ k.op = "move" /\ UNCHANGED data
    /\ \/ Ends(c, FALSE) /\ UNCHANGED dir
       \/ /\ dir[k.path] # Nothing /\ dir[k.path] # Directory /\ MayOpen(k.path) /\ MayOpen(k.dest)
          /\ \/ dir[k.dest] = Nothing
             \/ k.overwrite /\ dir[k.dest] # Directory
          /\ dir' = [n \in Names |-> CASE n = k.dest -> dir[k.path] [] n = k.path -> Nothing [] OTHER -> dir[n]]
          /\ Ends(c, TRUE)
-----------------------------------------------------------------------------
(* os_read_entire_file: the size is asked for and then as much read.       *)
OpenRead(c) ==
    LET k == call[c] IN
    /\ At_(c, "open_read") /\ Kept
    /\ \/ Ends(c, FALSE)
       \/ /\ path_is_file(k.path) /\ MayOpen(k.path)
          /\ Goes(c, [k EXCEPT !.at = "read", !.from = Stat(k.path).inode, !.pos = Len(data[Stat(k.path).inode])])
Read(c) ==
    LET k == call[c] IN
    /\ At_(c, "read") /\ Kept
    /\ IF k.pos <= Len(data[k.from]) THEN Goes(c, [Done(k) EXCEPT !.ok = TRUE, !.contents = SubSeq(data[k.from], 1, k.pos)])
       ELSE Ends(c, FALSE)

(* os_write_to_file: POSIX empties the file unless it appends, and counts  *)
(* characters where bytes are meant; Windows has the file for itself.      *)
Empties(k) == k.op = "overwrite_entire" \/ (system = "posix" /\ k.op = "overwrite")
length(contents) == Cardinality({i \in DOMAIN contents : contents[i] # 0})
ToWrite(contents) == IF system = "posix" THEN SubSeq(contents, 1, length(contents)) ELSE contents
OpenWrite(c) ==
    LET k == call[c]
        name == Resolved(k.path)
    IN
    /\ At_(c, "open_write")
    /\ \/ Ends(c, FALSE) /\ Kept
       \/ /\ dir[name].kind = "file" /\ MayOpen(name)
          /\ data' = [data EXCEPT ![dir[name].inode] = IF Empties(k) THEN <<>> ELSE @]
          /\ Goes(c, [k EXCEPT !.at = "write", !.to = dir[name].inode]) /\ UNCHANGED dir
       \/ /\ dir[name] = Nothing
          /\ \E i \in Free : /\ dir' = [dir EXCEPT ![name] = File(i)]
                             /\ data' = [data EXCEPT ![i] = <<>>]
                             /\ Goes(c, [k EXCEPT !.at = "write", !.to = i, !.made = TRUE])
Write(c) ==
    LET k == call[c]
        place == IF k.op = "append" THEN Len(data[k.to]) ELSE 0
        all == ToWrite(k.contents)
        Put(bytes, written) == SubSeq(bytes, 1, place) \o written \o SubSeq(bytes, place + Len(written) + 1, Len(bytes))
    IN
    /\ At_(c, "write") /\ UNCHANGED dir
    /\ \E n \in 0..Len(all) :
        /\ data' = [data EXCEPT ![k.to] = Put(@, SubSeq(all, 1, n))]
        /\ Ends(c, n = Len(all))
-----------------------------------------------------------------------------
(* What is one call of the system, after at most the library's checks.     *)
May(c) == call[c].at = "done" /\ calls < MaxCalls
Once(c) == calls' = calls + 1 /\ UNCHANGED <<system, data>> /\ Goes(c, [Idle EXCEPT !.op = "other"])

path_create_directory(c, n) ==
    /\ May(c)
    /\ \/ dir' = dir
       \/ dir[n] = Nothing /\ dir' = [dir EXCEPT ![n] = Directory]
    /\ Once(c)
path_delete_file(c, n) ==
    /\ May(c)
    /\ \/ dir' = dir
       \/ /\ dir[n].kind \in {"file", "link"} /\ (system = "windows" => path_is_file(n) /\ MayOpen(n))
          /\ dir' = [dir EXCEPT ![n] = Nothing]
    /\ Once(c)
path_delete_directory(c, n) ==
    /\ May(c)
    /\ \/ dir' = dir
       \/ /\ dir[n] = Directory /\ \A m \in Names : (\E f \in Names : Inside(n, f) = m) => dir[m] = Nothing \/ m = n
          /\ dir' = [dir EXCEPT ![n] = Nothing]
    /\ Once(c)
(* POSIX replaces what is called newName, Windows does not.                *)
path_rename(c, n, newName) ==
    /\ May(c)
    /\ \/ dir' = dir
       \/ /\ dir[n].kind \in {"file", "link"} /\ dir[newName].kind \in (IF system = "posix" THEN {"nothing", "file", "link"} ELSE {"nothing"})
          /\ system = "windows" => path_exists(n)
          /\ dir' = [m \in Names |-> CASE m = newName -> dir[n] [] m = n -> Nothing [] OTHER -> dir[m]]
    /\ Once(c)
(* On Windows both must be directories, of which the system links none.    *)
path_create_hard_link(c, n, dest) ==
    /\ May(c)
    /\ \/ dir' = dir
       \/ system = "posix" /\ dir[n].kind = "file" /\ dir[dest] = Nothing /\ dir' = [dir EXCEPT ![dest] = dir[n]]
    /\ Once(c)
(* On Windows both must be there, and then the system does not make one.   *)
path_create_symbolic_link(c, n, dest) ==
    /\ May(c)
    /\ \/ dir' = dir
       \/ system = "posix" /\ n # dest /\ dir[dest] = Nothing /\ dir' = [dir EXCEPT ![dest] = Link(n)]
    /\ Once(c)

Next == \E c \in Callers :
    \/ Begin(c) \/ CheckMove(c) \/ CheckCopy(c) \/ OpenSource(c) \/ OpenDest(c) \/ CopyPiece(c) \/ Unlink(c)
    \/ Check(c) \/ CopyFileW(c) \/ MoveFileExW(c)
    \/ OpenRead(c) \/ Read(c) \/ OpenWrite(c) \/ Write(c)
    \/ \E n \in Names : path_create_directory(c, n) \/ path_delete_file(c, n) \/ path_delete_directory(c, n)
    \/ \E n, m \in Names : path_rename(c, n, m) \/ path_create_hard_link(c, n, m) \/ path_create_symbolic_link(c, n, m)
Spec == Init /\ [][Next]_vars
-----------------------------------------------------------------------------
TypeOK ==
    /\ dir \in [Names -> Entries] /\ data \in [Inodes -> Seq(0 .. 2)]
    /\ \A c \in Callers : call[c].from \in Inodes \union {NoInode} /\ call[c].to \in Inodes \union {NoInode}
    /\ system \in Systems /\ calls \in 0..MaxCalls

(* A move nobody else interferes with, to another file, never loses what   *)
(* it moves: at every step, and however it fails, the bytes are whole      *)
(* under the old name or under the new one; one that succeeds has taken    *)
(* the old name away (os/posix/path.h path_move, os/windows/path.h         *)
(* path_move).                                                             *)
Holds(name, text) == path_is_file(name) /\ data[Stat(name).inode] = text
MoveLosesNothing ==
    \A c \in Callers :
        LET k == call[c] IN
        (k.op = "move" /\ k.alone) =>
            /\ Holds(k.path, k.text) \/ Holds(k.dest, k.text)
            /\ (k.at = "done" /\ k.ok) => Holds(k.dest, k.text) /\ dir[k.path] = Nothing

(* A copy or a move told not to overwrite writes only into a file it made  *)
(* itself, whatever others do between its check and its open               *)
(* (os/posix/path.h copy_file, os/windows/path.h path_copy).               *)
OverwritesNothing ==
    [][\A c \in Callers : (call[c].op \in {"copy", "move"} /\ ~call[c].overwrite /\ call[c].at # "done" /\ call'[c] # [call[c] EXCEPT !.alone = FALSE])
          => \A i \in Inodes : data'[i] # data[i] => i = call'[c].to /\ call'[c].made]_vars
=============================================================================
