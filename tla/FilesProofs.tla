----------------------------- MODULE FilesProofs -----------------------------
(***************************************************************************)
(* For any names, directories, files and callers, and however the calls of *)
(* the system fail: what a move that nobody interferes with has to keep is *)
(* kept at each of its steps, and a copy that must not overwrite writes    *)
(* only where it created.                                                  *)
(***************************************************************************)
EXTENDS Files, SequenceTheorems, FiniteSetTheorems, TLAPS

Places == {"done", "move", "copy", "open_from", "open_to", "pieces", "unlink", "system_call",
           "open_read", "read", "open_write", "write"}
Ops == {"none", "other", "copy", "move", "read", "append", "overwrite", "overwrite_entire"}
Bytes == Seq(0 .. 2)

(* What a caller remembers of its call, wherever it is in it.              *)
Calls ==
    [op : Ops, path : Names \union {""}, dest : Names \union {""}, overwrite : BOOLEAN,
     contents : Bytes, at : Places, from : Inodes \union {NoInode}, to : Inodes \union {NoInode},
     pos : Nat, made : BOOLEAN, ok : BOOLEAN, text : Bytes, alone : BOOLEAN]

(* Where a call is tells which call it is, and what it has open.           *)
Sensible(k) ==
    /\ k.at # "done" \/ k.op = "move" => k.path \in Names /\ k.dest \in Names
    /\ k.at \in {"move", "unlink"} => k.op = "move"
    /\ k.at \in {"copy", "open_from", "open_to", "pieces", "system_call"} => k.op \in {"copy", "move"}
    /\ k.at \in {"open_read", "read"} => k.op = "read"
    /\ k.at \in {"open_write", "write"} => k.op \in {"append", "overwrite", "overwrite_entire"}
    /\ k.at = "pieces" => k.to \in Inodes /\ (~k.overwrite => k.made)
    /\ k.at = "write" => k.to \in Inodes
    /\ k.at = "read" => k.from \in Inodes

Typed == /\ dir \in [Names -> Entries] /\ data \in [Inodes -> Bytes]
         /\ call \in [Callers -> Calls] /\ \A c \in Callers : Sensible(call[c])
         /\ system \in Systems /\ calls \in 0 .. MaxCalls

(* A move on its own: up to the unlink the source holds the text, the      *)
(* destination is another file that holds as much as was copied, and at    *)
(* the end one of the two holds it all.                                    *)
Lossless(k) ==
    /\ k.op = "move"
    /\ k.at \in {"move", "copy", "open_from", "open_to", "system_call"} =>
          Holds(k.path, k.text) /\ Stat(k.path) # Stat(k.dest) /\ k.pos = 0
    /\ k.at = "open_to" => Stat(k.path) = File(k.from)
    /\ k.at \in {"pieces", "unlink"} =>
          /\ Holds(k.path, k.text) /\ Stat(k.path) = File(k.from)
          /\ Stat(k.dest) = File(k.to) /\ k.to # k.from
    /\ k.at = "pieces" =>
          /\ Len(data[k.to]) = k.pos /\ k.pos <= Len(k.text)
          /\ \A j \in 1 .. k.pos : data[k.to][j] = k.text[j]
    /\ k.at = "unlink" => data[k.to] = k.text
    /\ k.at = "done" => /\ Holds(k.path, k.text) \/ Holds(k.dest, k.text)
                        /\ k.ok => Holds(k.dest, k.text) /\ dir[k.path] = Nothing

IInv == Typed /\ \A c \in Callers : call[c].alone => Lossless(call[c])

-----------------------------------------------------------------------------
(* A step of c touches no other call, but that it is no longer alone.      *)
LEMMA Going ==
    ASSUME call \in [Callers -> Calls], NEW c \in Callers, NEW new \in Calls, Goes(c, new)
    PROVE  /\ call' \in [Callers -> Calls] /\ call'[c] = new
           /\ \A d \in Callers \ {c} : call'[d] = [call[d] EXCEPT !.alone = FALSE]
<1>1. \A d \in Callers : [call[d] EXCEPT !.alone = FALSE] \in Calls
  BY DEF Calls
<1> QED BY <1>1 DEF Goes

LEMMA Concludes ==
    ASSUME IInv, NEW c \in Callers, NEW new \in Calls, Goes(c, new), Sensible(new),
           dir' \in [Names -> Entries], data' \in [Inodes -> Bytes],
           system' = system, calls' \in 0 .. MaxCalls,
           call'[c].alone => Lossless(call[c])'
    PROVE  IInv'
<1>1. /\ call' \in [Callers -> Calls] /\ call'[c] = new
      /\ \A d \in Callers \ {c} : call'[d] = [call[d] EXCEPT !.alone = FALSE]
  BY Going DEF IInv, Typed
<1>2. \A d \in Callers \ {c} : Sensible(call'[d]) /\ ~call'[d].alone
  <2> SUFFICES ASSUME NEW d \in Callers \ {c} PROVE Sensible(call'[d]) /\ ~call'[d].alone
    OBVIOUS
  <2>1. call[d] \in Calls /\ Sensible(call[d]) /\ call'[d] = [call[d] EXCEPT !.alone = FALSE]
    BY <1>1 DEF IInv, Typed
  <2> QED BY <2>1 DEF Sensible, Calls
<1>3. \A d \in Callers : Sensible(call'[d])
  BY <1>1, <1>2
<1>4. Typed'
  BY <1>1, <1>3 DEF IInv, Typed, Sensible
<1> QED BY <1>1, <1>2, <1>4 DEF IInv

-----------------------------------------------------------------------------
(* What there is under a name.                                             *)
LEMMA EntryKinds ==
    /\ Nothing \in Entries
    /\ \A i \in Inodes : File(i) \in Entries
    /\ \A n \in Names : Link(n) \in Entries
    /\ \A e \in Entries : e.kind = "file" => e.inode \in Inodes /\ e = File(e.inode)
    /\ \A e \in Entries : e.kind = "link" => e.to \in Names
    /\ \A e \in Entries : e.kind = "nothing" => e = Nothing
    /\ \A i, j : File(i) = File(j) => i = j
    /\ \A i : File(i).kind = "file" /\ File(i).inode = i /\ File(i) # Nothing /\ File(i) # Directory
    /\ Nothing.kind = "nothing" /\ Directory.kind = "directory"
<1> USE DEF Nothing, Directory, File, Link
<1>1. \A i, j : File(i) = File(j) => i = j
  <2> SUFFICES ASSUME NEW i, NEW j, File(i) = File(j) PROVE i = j
    OBVIOUS
  <2>1. File(i).inode = i /\ File(j).inode = j
    OBVIOUS
  <2> QED BY <2>1
<1>2. \A e \in Entries : e = Nothing \/ e = Directory \/ (\E i \in Inodes : e = File(i))
                        \/ (\E n \in Names : e = Link(n))
  BY Zenon DEF Entries
<1>3. \A e \in Entries : e.kind = "file" => e.inode \in Inodes /\ e = File(e.inode)
  BY <1>2
<1>4. \A e \in Entries : e.kind = "link" => e.to \in Names
  BY <1>2
<1>5. \A e \in Entries : e.kind = "nothing" => e = Nothing
  BY <1>2
<1>6. Nothing \in Entries /\ (\A i \in Inodes : File(i) \in Entries) /\ \A n \in Names : Link(n) \in Entries
  BY Zenon DEF Entries
<1>7. \A i : File(i).kind = "file" /\ File(i).inode = i /\ File(i) # Nothing /\ File(i) # Directory
  OBVIOUS
<1>8. Nothing.kind = "nothing" /\ Directory.kind = "directory"
  OBVIOUS
<1> QED BY <1>1, <1>3, <1>4, <1>5, <1>6, <1>7, <1>8

LEMMA SameFile == ASSUME NEW i, NEW j, File(i) = File(j) PROVE i = j
  BY EntryKinds, Zenon

LEMMA Leads ==
    ASSUME dir \in [Names -> Entries], NEW n \in Names
    PROVE  /\ Follow(n) \in Names /\ Resolved(n) \in Names /\ Stat(n) \in Entries
           /\ dir[n].kind # "link" => Follow(n) = n /\ Resolved(n) = n
  BY EntryKinds DEF Follow, Resolved, Stat

(* A file made under a free name leaves the other files where they are.    *)
LEMMA Created ==
    ASSUME dir \in [Names -> Entries], NEW name \in Names, dir[name] = Nothing,
           NEW i \in Inodes, dir' = [dir EXCEPT ![name] = File(i)], NEW n \in Names
    PROVE  /\ Stat(n).kind = "file" => Stat(n)' = Stat(n)
           /\ Resolved(n) = name => Stat(n)' = File(i)
<1>1. dir[n] \in Entries /\ dir[Follow(n)] \in Entries /\ Follow(n) \in Names /\ Resolved(n) \in Names
  BY Leads
<1>2. \A m \in Names : dir'[m] = IF m = name THEN File(i) ELSE dir[m]
  OBVIOUS
<1>3. \A m \in Names : m # name => Follow(m)' = Follow(m)
  BY <1>2 DEF Follow
<1>4. Follow(name) = name /\ Follow(name)' = name
  BY <1>2, EntryKinds DEF Follow
<1>5. Resolved(n)' = Resolved(n)
  BY <1>1, <1>3, <1>4 DEF Resolved, Follow
<1>6. Stat(n).kind = "file" => Resolved(n) # name
  BY <1>1, EntryKinds DEF Stat
<1>7. Stat(n).kind = "file" => Stat(n)' = Stat(n)
  BY <1>1, <1>2, <1>5, <1>6 DEF Stat
<1>8. Resolved(n) = name => Stat(n)' = File(i)
  BY <1>1, <1>2, <1>5, EntryKinds DEF Stat
<1> QED BY <1>7, <1>8

(* Taking a name away takes no other file away.                            *)
LEMMA Unlinked ==
    ASSUME dir \in [Names -> Entries], NEW path \in Names, NEW n \in Names,
           NEW f \in Inodes, NEW g \in Inodes, f # g, Stat(path) = File(f), Stat(n) = File(g),
           dir' = [dir EXCEPT ![path] = Nothing]
    PROVE  Stat(n)' = File(g) /\ dir'[path] = Nothing
<1> DEFINE x == Follow(n)
           y == Resolved(n)
<1>1. x \in Names /\ y \in Names /\ dir[y] = File(g) /\ dir[y].kind = "file"
  BY Leads, EntryKinds DEF Stat
<1>2. Follow(y) = y /\ y # path
  <2>1. Follow(y) = y
    BY <1>1, Leads
  <2>2. y = path => Stat(path) = File(g)
    BY <1>1, Leads, EntryKinds DEF Stat
  <2> QED BY <2>1, <2>2, EntryKinds
<1>3. x # path
  <2> SUFFICES ASSUME x = path PROVE FALSE
    OBVIOUS
  <2>1. Follow(path) = y
    BY DEF Resolved
  <2>2. Resolved(path) = y
    BY <2>1, <1>2 DEF Resolved
  <2>3. Stat(path) = File(g)
    BY <2>2, <1>1 DEF Stat
  <2> QED BY <2>3, EntryKinds
<1>4. n # path
  BY EntryKinds
<1>5. \A m \in Names : m # path => dir'[m] = dir[m] /\ Follow(m)' = Follow(m)
  BY DEF Follow
<1>6. Resolved(n)' = y
  BY <1>1, <1>3, <1>4, <1>5 DEF Resolved, Follow
<1> QED BY <1>1, <1>2, <1>5, <1>6 DEF Stat

(* What is moved is found under the new name, through links too.           *)
LEMMA Moved ==
    ASSUME dir \in [Names -> Entries], NEW path \in Names, NEW dest \in Names,
           NEW f \in Inodes, Stat(path) = File(f), Stat(dest) # Stat(path),
           dir' = [n \in Names |-> CASE n = dest -> dir[path] [] n = path -> Nothing [] OTHER -> dir[n]]
    PROVE  Stat(dest)' = File(f) /\ dir'[path] = Nothing /\ dir' \in [Names -> Entries]
<1>0. PICK x \in Names, y \in Names : x = Follow(path) /\ y = Resolved(path)
  BY Leads
<1>1. dir[y] = File(f) /\ dir[y].kind = "file" /\ Follow(y) = y
  BY <1>0, Leads, EntryKinds DEF Stat
<1>2. path # dest
  OBVIOUS
<1>3. dir'[dest] = dir[path] /\ dir'[path] = Nothing
      /\ \A n \in Names \ {path, dest} : dir'[n] = dir[n] /\ Follow(n)' = Follow(n)
  BY <1>2 DEF Follow
<1>4. dir' \in [Names -> Entries]
  BY EntryKinds
<1>5. Follow(dest)' = IF dir[path].kind = "link" THEN x ELSE dest
  BY <1>0, <1>3 DEF Follow
<1>6. CASE dir[path].kind # "link"
  <2>1. y = path
    BY <1>0, <1>6, Leads
  <2>2. Resolved(dest)' = dest
    BY <1>5, <1>6 DEF Resolved, Follow
  <2> QED BY <1>1, <1>3, <1>4, <2>1, <2>2 DEF Stat
<1>7. CASE dir[path].kind = "link"
  <2>1. y # path
    BY <1>1, <1>7, EntryKinds
  <2>2. y # dest
    <3> SUFFICES ASSUME y = dest PROVE FALSE
      OBVIOUS
    <3>1. Stat(dest) = File(f)
      BY <1>1, Leads, EntryKinds DEF Stat
    <3> QED BY <3>1
  <2>3. x # path
    BY <1>0, <1>1, <2>1 DEF Resolved, Follow
  <2>4. x # dest
    <3> SUFFICES ASSUME x = dest PROVE FALSE
      OBVIOUS
    <3>1. Follow(dest) = y
      BY <1>0 DEF Resolved
    <3>2. Resolved(dest) = y
      BY <3>1, <1>1 DEF Resolved
    <3> QED BY <3>2, <1>1 DEF Stat
  <2>5. Follow(x)' = y
    BY <1>0, <1>1, <1>3, <2>3, <2>4 DEF Resolved
  <2>6. Follow(dest)' = x
    BY <1>5, <1>7
  <2>7. Resolved(dest)' = y
    BY <2>5, <2>6 DEF Resolved, Follow
  <2> QED BY <1>1, <1>3, <1>4, <2>1, <2>2, <2>7 DEF Stat
<1> QED BY <1>6, <1>7

-----------------------------------------------------------------------------
(* Steps that leave names and bytes alone.                                 *)
LEMMA KeptNames ==
    ASSUME Kept
    PROVE  \A n, text : Stat(n)' = Stat(n) /\ Holds(n, text)' = Holds(n, text)
  BY DEF Kept, Holds, path_is_file, Stat, Resolved, Follow

(* The record of a call before the first, and of one that has ended.       *)
LEMMA IdleSensible ==
    /\ Idle \in Calls /\ Sensible(Idle) /\ Idle.at = "done" /\ ~Idle.alone /\ Idle.op = "none"
    /\ \A r : r = [Idle EXCEPT !.op = "other"] =>
          r \in Calls /\ Sensible(r) /\ r.at = "done" /\ ~r.alone /\ r.op = "other"
<1>1. << >> \in Bytes
  BY EmptySeq DEF Bytes
<1>2. PICK e \in Bytes : e = << >>
  BY <1>1, Zenon
<1>3. [op |-> "none", path |-> "", dest |-> "", overwrite |-> FALSE, contents |-> e, at |-> "done",
       from |-> NoInode, to |-> NoInode, pos |-> 0, made |-> FALSE, ok |-> FALSE,
       text |-> e, alone |-> FALSE] \in Calls
  BY DEF Calls, Ops, Places
<1>4. Idle = [op |-> "none", path |-> "", dest |-> "", overwrite |-> FALSE, contents |-> e, at |-> "done",
              from |-> NoInode, to |-> NoInode, pos |-> 0, made |-> FALSE, ok |-> FALSE,
              text |-> e, alone |-> FALSE]
  BY <1>2, Zenon DEF Idle
<1>5. Idle.at = "done" /\ ~Idle.alone /\ Idle.op = "none"
  BY DEF Idle
<1>6. Idle \in Calls
  BY <1>3, <1>4
<1>7. \A r : r = [Idle EXCEPT !.op = "other"] =>
          r \in Calls /\ r.at = "done" /\ ~r.alone /\ r.op = "other"
  BY <1>5, <1>6 DEF Calls, Ops
<1> QED BY <1>5, <1>6, <1>7 DEF Sensible

EndOf(k, o) == [Done(k) EXCEPT !.ok = o]

LEMMA Ended ==
    ASSUME NEW k \in Calls, Sensible(k), k.at # "done"
    PROVE  \A o \in BOOLEAN : \A n : n = EndOf(k, o) =>
               /\ n \in Calls /\ Sensible(n) /\ n.at = "done" /\ n.ok = o
               /\ n.to = k.to /\ n.made = k.made /\ n.op = k.op
               /\ k.op = "move" => n.path = k.path /\ n.dest = k.dest /\ n.text = k.text /\ n.alone = k.alone
               /\ k.op # "move" => ~n.alone
<1> SUFFICES ASSUME NEW o \in BOOLEAN, NEW n, n = EndOf(k, o)
             PROVE  /\ n \in Calls /\ Sensible(n) /\ n.at = "done" /\ n.ok = o
                    /\ n.to = k.to /\ n.made = k.made /\ n.op = k.op
                    /\ k.op = "move" => n.path = k.path /\ n.dest = k.dest /\ n.text = k.text /\ n.alone = k.alone
                    /\ k.op # "move" => ~n.alone
  OBVIOUS
<1>1. CASE k.op = "move"
  <2>1. n = [[k EXCEPT !.at = "done", !.overwrite = FALSE, !.from = NoInode, !.pos = 0] EXCEPT !.ok = o]
    BY <1>1, Zenon DEF Done, EndOf
  <2>2. PICK m : m = [k EXCEPT !.at = "done", !.overwrite = FALSE, !.from = NoInode, !.pos = 0]
    OBVIOUS
  <2>3. m \in Calls
    BY <2>2 DEF Calls, Places
  <2>4. m.at = "done" /\ m.to = k.to /\ m.made = k.made /\ m.op = k.op
        /\ m.path = k.path /\ m.dest = k.dest /\ m.text = k.text /\ m.alone = k.alone
    BY <2>2 DEF Calls
  <2>5. n = [m EXCEPT !.ok = o]
    BY <2>1, <2>2, Zenon
  <2>6. n \in Calls /\ n.ok = o /\ n.at = m.at /\ n.to = m.to /\ n.made = m.made /\ n.op = m.op
        /\ n.path = m.path /\ n.dest = m.dest /\ n.text = m.text /\ n.alone = m.alone
    BY <2>3, <2>5 DEF Calls
  <2> QED BY <1>1, <2>4, <2>6 DEF Sensible
<1>2. CASE k.op # "move"
  <2>1. n = [[Idle EXCEPT !.op = k.op, !.to = k.to, !.made = k.made] EXCEPT !.ok = o]
    BY <1>2, Zenon DEF Done, EndOf
  <2>2. n \in Calls /\ n.at = "done" /\ n.ok = o /\ n.to = k.to /\ n.made = k.made /\ n.op = k.op
        /\ ~n.alone
    BY <2>1, IdleSensible DEF Calls
  <2> QED BY <1>2, <2>2 DEF Sensible
<1> QED BY <1>1, <1>2

LEMMA Fails ==
    ASSUME IInv, NEW c \in Callers, call[c].at # "done", Ends(c, FALSE), Kept,
           UNCHANGED <<system, calls>>
    PROVE  IInv'
<1>1. PICK k \in Calls : k = call[c] /\ Sensible(k)
  BY DEF IInv, Typed
<1>2. PICK new : new = EndOf(k, FALSE)
  OBVIOUS
<1>3. /\ new \in Calls /\ Sensible(new) /\ new.at = "done" /\ new.op = k.op
      /\ k.op = "move" => new.path = k.path /\ new.text = k.text
      /\ new.ok = FALSE /\ (new.alone => k.op = "move" /\ k.alone)
  <2>1. k.at # "done"
    BY <1>1
  <2>2. new \in Calls /\ Sensible(new) /\ new.at = "done" /\ new.op = k.op
    BY <1>1, <1>2, <2>1, Ended
  <2>3. k.op = "move" => new.path = k.path /\ new.text = k.text
    BY <1>1, <1>2, <2>1, Ended
  <2>4. new.ok = FALSE /\ (new.alone => k.op = "move" /\ k.alone)
    BY <1>1, <1>2, <2>1, Ended
  <2> QED BY <2>2, <2>3, <2>4
<1>4. Goes(c, new)
  BY <1>1, <1>2, Zenon DEF Ends, EndOf
<1>5. call'[c] = new
  BY <1>3, <1>4, Going DEF IInv, Typed
<1>6. new.alone => Lossless(new)'
  <2> SUFFICES ASSUME new.alone PROVE Lossless(new)'
    OBVIOUS
  <2>1. Lossless(k) /\ k.op = "move"
    BY <1>1, <1>3 DEF IInv
  <2>2. Holds(k.path, k.text)
    BY <1>1, <2>1 DEF Lossless, Calls, Places, Sensible
  <2>3. Holds(new.path, new.text)'
    BY <1>3, <2>1, <2>2, KeptNames
  <2> QED BY <1>3, <2>1, <2>3 DEF Lossless
<1> QED BY <1>3, <1>4, <1>5, <1>6, Concludes DEF IInv, Typed, Kept

(* A call that only goes on to another place.                              *)
Same(n, k) ==
    /\ n.op = k.op /\ n.path = k.path /\ n.dest = k.dest /\ n.text = k.text /\ n.alone = k.alone
    /\ n.overwrite = k.overwrite /\ n.made = k.made

LEMMA GoesOn ==
    ASSUME NEW k \in Calls, NEW at \in Places, NEW n, n = [k EXCEPT !.at = at]
    PROVE  n \in Calls /\ n.at = at /\ Same(n, k) /\ n.from = k.from /\ n.to = k.to /\ n.pos = k.pos
<1>1. n \in Calls
  BY DEF Calls
<1>2. n.at = at /\ Same(n, k) /\ n.from = k.from /\ n.to = k.to /\ n.pos = k.pos
  BY DEF Calls, Same
<1> QED BY <1>1, <1>2

(* A file that is moved stays as it was while names and bytes do.          *)
LEMMA StillWhole ==
    ASSUME Kept, NEW path, NEW dest, NEW text, Holds(path, text), Stat(path) # Stat(dest)
    PROVE  /\ Holds(path, text)' /\ (Stat(path) # Stat(dest))'
           /\ \A i : Stat(path) = File(i) => (Stat(path) = File(i))'
<1>1. Stat(path)' = Stat(path) /\ Stat(dest)' = Stat(dest)
  BY KeptNames
<1>2. Holds(path, text)'
  BY KeptNames
<1>3. \A i : File(i)' = File(i)
  BY DEF File
<1> QED BY <1>1, <1>2, <1>3

LEMMA Checked ==
    ASSUME IInv, NEW c \in Callers, call[c].at \in {"move", "copy"}, NEW at \in Places,
           at \in {"copy", "open_from"}, To(c, at), Kept, UNCHANGED <<system, calls>>
    PROVE  IInv'
<1>1. PICK k \in Calls : k = call[c] /\ Sensible(k)
  BY DEF IInv, Typed
<1>2. PICK new : new = [k EXCEPT !.at = at]
  OBVIOUS
<1>3. k.at \in {"move", "copy"}
  BY <1>1
<1>4. new \in Calls /\ new.at = at /\ Same(new, k) /\ new.pos = k.pos
  <2>1. new \in Calls
    BY <1>2, GoesOn
  <2>2. new.at = at /\ new.pos = k.pos
    BY <1>2 DEF Calls
  <2>3. Same(new, k)
    BY <1>2 DEF Calls, Same
  <2> QED BY <2>1, <2>2, <2>3
<1>5. Goes(c, new)
  BY <1>1, <1>2, Zenon DEF To
<1>6. call'[c] = new
  BY <1>4, <1>5, Going DEF IInv, Typed
<1>7. Sensible(new)
  BY <1>1, <1>3, <1>4 DEF Sensible, Same
<1>8. ASSUME new.alone PROVE Lossless(new)'
  <2>1. Lossless(k)
    BY <1>1, <1>4, <1>8 DEF IInv, Same
  <2>2. k.op = "move" /\ Holds(k.path, k.text) /\ Stat(k.path) # Stat(k.dest) /\ k.pos = 0
    BY <1>3, <2>1 DEF Lossless
  <2>3. new.op = "move" /\ Holds(new.path, new.text) /\ Stat(new.path) # Stat(new.dest) /\ new.pos = 0
    BY <1>4, <2>2 DEF Same
  <2>4. Holds(new.path, new.text)' /\ (Stat(new.path) # Stat(new.dest))'
    BY <2>3, StillWhole
  <2> QED BY <1>4, <2>3, <2>4 DEF Lossless
<1> QED BY <1>4, <1>5, <1>6, <1>7, <1>8, Concludes DEF IInv, Typed, Kept

LEMMA CheckMoveKeeps == ASSUME IInv, NEW c \in Callers, CheckMove(c) PROVE IInv'
<1>1. call[c].at = "move" /\ Kept /\ UNCHANGED <<system, calls>>
  BY DEF CheckMove, posix, At_
<1>2. Ends(c, FALSE) \/ To(c, "copy")
  BY DEF CheckMove
<1> QED BY <1>1, <1>2, Fails, Checked DEF Places

LEMMA CheckCopyKeeps == ASSUME IInv, NEW c \in Callers, CheckCopy(c) PROVE IInv'
<1>1. call[c].at = "copy" /\ Kept /\ UNCHANGED <<system, calls>>
  BY DEF CheckCopy, posix, At_
<1>2. Ends(c, FALSE) \/ To(c, "open_from")
  BY DEF CheckCopy
<1> QED BY <1>1, <1>2, Fails, Checked DEF Places

LEMMA OpenSourceKeeps == ASSUME IInv, NEW c \in Callers, OpenSource(c) PROVE IInv'
<1>1. PICK k \in Calls : k = call[c] /\ Sensible(k)
  BY DEF IInv, Typed
<1>2. k.at = "open_from" /\ call[c].at = "open_from" /\ Kept /\ UNCHANGED <<system, calls>>
  BY <1>1 DEF OpenSource, posix, At_
<1>3. CASE Ends(c, FALSE)
  BY <1>2, <1>3, Fails
<1>4. CASE Stat(k.path) # Nothing
           /\ Goes(c, [k EXCEPT !.at = "open_to",
                           !.from = IF path_is_file(k.path) THEN Stat(k.path).inode ELSE NoInode])
  <2>1. PICK f : f = IF path_is_file(k.path) THEN Stat(k.path).inode ELSE NoInode
    OBVIOUS
  <2>2. k.path \in Names /\ k.dest \in Names /\ k.op \in {"copy", "move"}
    BY <1>1, <1>2 DEF Sensible
  <2>3. f \in Inodes \union {NoInode}
    BY <2>1, <2>2, Leads, EntryKinds DEF IInv, Typed, path_is_file
  <2>4. PICK new : new = [k EXCEPT !.at = "open_to", !.from = f]
    OBVIOUS
  <2>5. new \in Calls /\ new.at = "open_to" /\ Same(new, k) /\ new.pos = k.pos /\ new.from = f
    <3>1. new \in Calls
      BY <2>3, <2>4 DEF Calls, Places
    <3>2. new.at = "open_to" /\ Same(new, k) /\ new.pos = k.pos /\ new.from = f
      BY <2>4 DEF Calls, Same
    <3> QED BY <3>1, <3>2
  <2>6. Goes(c, new)
    BY <1>4, <2>1, <2>4, Zenon
  <2>7. call'[c] = new
    BY <2>5, <2>6, Going DEF IInv, Typed
  <2>8. Sensible(new)
    BY <1>1, <2>2, <2>5 DEF Sensible, Same
  <2>9. ASSUME new.alone PROVE Lossless(new)'
    <3>1. Lossless(k)
      BY <1>1, <2>5, <2>9 DEF IInv, Same
    <3>2. k.op = "move" /\ Holds(k.path, k.text) /\ Stat(k.path) # Stat(k.dest) /\ k.pos = 0
      BY <1>2, <3>1 DEF Lossless
    <3>3. Stat(k.path) = File(f)
      BY <2>1, <2>2, <3>2, Leads, EntryKinds DEF IInv, Typed, Holds, path_is_file
    <3>4. new.op = "move" /\ Holds(new.path, new.text) /\ Stat(new.path) # Stat(new.dest) /\ new.pos = 0
          /\ Stat(new.path) = File(f)
      BY <2>5, <3>2, <3>3 DEF Same
    <3>5. Holds(new.path, new.text)' /\ (Stat(new.path) # Stat(new.dest))' /\ (Stat(new.path) = File(f))'
      BY <1>2, <3>4, StillWhole
    <3> QED BY <2>5, <3>4, <3>5 DEF Lossless, File
  <2> QED BY <1>2, <2>5, <2>6, <2>7, <2>8, <2>9, Concludes DEF IInv, Typed, Kept
<1> QED BY <1>1, <1>3, <1>4 DEF OpenSource

-----------------------------------------------------------------------------
(* A name that holds a text leads to a file of these bytes, and the other  *)
(* way around.                                                             *)
LEMMA Found ==
    ASSUME dir \in [Names -> Entries], NEW n \in Names, NEW text, Holds(n, text)
    PROVE  \E f \in Inodes : Stat(n) = File(f) /\ data[f] = text
<1>1. Stat(n).kind = "file" /\ Stat(n) \in Entries /\ data[Stat(n).inode] = text
  BY Leads DEF Holds, path_is_file
<1> QED BY <1>1, EntryKinds

LEMMA Held ==
    ASSUME NEW n, NEW f, NEW text, Stat(n) = File(f), data[f] = text
    PROVE  Holds(n, text)
<1>1. Stat(n).kind = "file" /\ Stat(n).inode = f
  BY EntryKinds
<1> QED BY <1>1 DEF Holds, path_is_file

LEMMA HeldNext ==
    ASSUME NEW n, NEW f, NEW text, Stat(n)' = File(f), data'[f] = text
    PROVE  Holds(n, text)'
<1>1. Stat(n)'.kind = "file" /\ Stat(n)'.inode = f
  BY EntryKinds
<1> QED BY <1>1 DEF Holds, path_is_file

(* A free inode is behind no name.                                         *)
LEMMA FreeInode ==
    ASSUME dir \in [Names -> Entries], NEW i \in Free, NEW n \in Names
    PROVE  i \in Inodes /\ Stat(n) # File(i)
<1>1. i \in Inodes /\ \A m \in Names : dir[m] # File(i)
  BY DEF Free
<1>2. Stat(n) = dir[Resolved(n)] \/ Stat(n) = Nothing
  BY DEF Stat
<1> QED BY <1>1, <1>2, Leads, EntryKinds

(* Where a call opens what it writes pieces to.                            *)
OpenedTo(k, i, m) == [k EXCEPT !.at = "pieces", !.to = i, !.made = m]
OpenedLike(n, k, i, m) ==
    /\ n.at = "pieces" /\ n.to = i /\ n.made = m
    /\ n.op = k.op /\ n.path = k.path /\ n.dest = k.dest /\ n.text = k.text /\ n.alone = k.alone
    /\ n.overwrite = k.overwrite /\ n.from = k.from /\ n.pos = k.pos

LEMMA Opened ==
    ASSUME NEW k \in Calls, NEW i \in Inodes, NEW m \in BOOLEAN, NEW n, n = OpenedTo(k, i, m)
    PROVE  n \in Calls /\ OpenedLike(n, k, i, m)
<1>1. n \in Calls
  BY DEF Calls, Places, OpenedTo
<1>2. n.at = "pieces" /\ n.to = i /\ n.made = m
  BY DEF Calls, OpenedTo
<1>3. n.op = k.op /\ n.path = k.path /\ n.dest = k.dest /\ n.text = k.text /\ n.alone = k.alone
      /\ n.overwrite = k.overwrite /\ n.from = k.from /\ n.pos = k.pos
  BY DEF Calls, OpenedTo
<1> QED BY <1>1, <1>2, <1>3 DEF OpenedLike

(* What is known of a move between two pieces.                             *)
LEMMA BetweenPieces ==
    ASSUME NEW n, n.op = "move", n.at = "pieces",
           Holds(n.path, n.text)', Stat(n.path)' = File(n.from), Stat(n.dest)' = File(n.to), n.to # n.from,
           Len(data'[n.to]) = n.pos, n.pos \in Nat, n.pos <= Len(n.text),
           \A j \in 1 .. n.pos : data'[n.to][j] = n.text[j]
    PROVE  Lossless(n)'
  BY DEF Lossless

(* The file that is emptied or made is not the one that is moved.          *)
LEMMA OpensDest ==
    ASSUME IInv, NEW c \in Callers, NEW k \in Calls, k = call[c], Sensible(k), k.at = "open_to",
           NEW i \in Inodes, NEW m \in BOOLEAN, ~k.overwrite => m, NEW n,
           n = OpenedTo(k, i, m), Goes(c, n),
           dir' \in [Names -> Entries], data' = [data EXCEPT ![i] = << >>],
           UNCHANGED <<system, calls>>, Stat(k.dest)' = File(i),
           Stat(k.path).kind = "file" /\ Stat(k.path) # Stat(k.dest) =>
               Stat(k.path) # File(i) /\ Stat(k.path)' = Stat(k.path)
    PROVE  IInv'
<1>0. n \in Calls /\ OpenedLike(n, k, i, m)
  BY Opened, Zenon
<1>1. n \in Calls
  BY <1>0
<1>2. n.at = "pieces" /\ n.to = i /\ n.made = m
  BY <1>0 DEF OpenedLike
<1>3. n.op = k.op /\ n.path = k.path /\ n.dest = k.dest /\ n.text = k.text /\ n.alone = k.alone
  BY <1>0 DEF OpenedLike
<1>4. n.overwrite = k.overwrite /\ n.from = k.from /\ n.pos = k.pos
  BY <1>0 DEF OpenedLike
<1>5. call'[c] = n
  BY <1>1, Going DEF IInv, Typed
<1>6. Sensible(n)
  BY <1>2, <1>3, <1>4 DEF Sensible
<1>7. data' \in [Inodes -> Bytes]
  BY EmptySeq DEF IInv, Typed, Bytes
<1>8. ASSUME n.alone PROVE Lossless(n)'
  <2>1. Lossless(k) /\ k.path \in Names
    BY <1>3, <1>8 DEF IInv, Sensible
  <2>2. k.op = "move" /\ Holds(k.path, k.text) /\ Stat(k.path) # Stat(k.dest) /\ k.pos = 0
        /\ Stat(k.path) = File(k.from)
    BY <2>1 DEF Lossless
  <2>3. PICK f \in Inodes : Stat(k.path) = File(f) /\ data[f] = k.text
    BY <2>1, <2>2, Found DEF IInv, Typed
  <2>4. f = k.from /\ Stat(k.path).kind = "file"
    <3>1. File(f) = File(k.from) /\ Stat(k.path) = File(f)
      BY <2>2, <2>3
    <3>2. f = k.from
      BY <3>1, SameFile
    <3> QED BY <3>1, <3>2, EntryKinds
  <2>5. Stat(k.path)' = File(f) /\ f # i
    BY <2>2, <2>3, <2>4
  <2>6. data'[f] = k.text /\ data'[i] = << >>
    BY <2>3, <2>5 DEF IInv, Typed
  <2>7. Holds(k.path, k.text)'
    BY <2>5, <2>6, HeldNext
  <2>8. Len(data'[i]) = 0 /\ Len(k.text) \in Nat
    <3>1. k.text \in Seq(0 .. 2)
      BY DEF Calls, Bytes
    <3>2. Len(k.text) \in Nat
      BY <3>1, LenProperties
    <3> QED BY <2>6, <3>2, EmptySeq
  <2>9. n.op = "move" /\ Holds(n.path, n.text)' /\ Stat(n.path)' = File(n.from)
        /\ Stat(n.dest)' = File(n.to) /\ n.to # n.from
    BY <1>2, <1>3, <1>4, <2>2, <2>4, <2>5, <2>7
  <2>10. n.at = "pieces" /\ Len(data'[n.to]) = n.pos /\ n.pos = 0 /\ Len(n.text) \in Nat
    BY <1>2, <1>3, <1>4, <2>2, <2>8
  <2>11. n.pos \in Nat /\ n.pos <= Len(n.text)
    BY <2>10
  <2>12. \A j \in 1 .. n.pos : data'[n.to][j] = n.text[j]
    <3>1. 1 .. n.pos = {}
      BY <2>10
    <3> QED BY <3>1, Zenon
  <2> QED BY <2>9, <2>10, <2>11, <2>12, BetweenPieces
<1> QED BY <1>1, <1>5, <1>6, <1>7, <1>8, Concludes DEF IInv, Typed

LEMMA OpenDestKeeps == ASSUME IInv, NEW c \in Callers, OpenDest(c) PROVE IInv'
<1>1. PICK k \in Calls : k = call[c] /\ Sensible(k)
  BY DEF IInv, Typed
<1>2. k.at = "open_to" /\ call[c].at = "open_to" /\ UNCHANGED <<system, calls>>
  BY <1>1 DEF OpenDest, posix, At_
<1>3. k.path \in Names /\ k.dest \in Names /\ dir \in [Names -> Entries]
  BY <1>1, <1>2 DEF Sensible, IInv, Typed
<1>4. PICK name \in Names : name = Resolved(k.dest)
  BY <1>3, Leads
<1>5. CASE Ends(c, FALSE) /\ Kept
  BY <1>2, <1>5, Fails
<1>6. ASSUME dir[name] = Nothing, NEW i \in Free, dir' = [dir EXCEPT ![name] = File(i)],
             data' = [data EXCEPT ![i] = << >>],
             Goes(c, [k EXCEPT !.at = "pieces", !.to = i, !.made = TRUE])
      PROVE  IInv'
  <2>1. i \in Inodes /\ Stat(k.path) # File(i)
    BY <1>3, FreeInode
  <2>2. Stat(k.dest)' = File(i) /\ (Stat(k.path).kind = "file" => Stat(k.path)' = Stat(k.path))
    BY <1>3, <1>4, <1>6, <2>1, Created
  <2>3. dir' \in [Names -> Entries]
    BY <1>3, <1>6, <2>1, EntryKinds
  <2>4. PICK n : n = OpenedTo(k, i, TRUE)
    OBVIOUS
  <2>5. Goes(c, n)
    BY <1>6, <2>4, Zenon DEF OpenedTo
  <2> QED BY <1>1, <1>2, <1>6, <2>1, <2>2, <2>3, <2>4, <2>5, OpensDest
<1>7. ASSUME dir[name].kind = "file", k.overwrite,
             data' = [data EXCEPT ![dir[name].inode] = << >>], dir' = dir,
             Goes(c, [k EXCEPT !.at = "pieces", !.to = dir[name].inode])
      PROVE  IInv'
  <2>1. PICK i \in Inodes : dir[name] = File(i) /\ i = dir[name].inode
    BY <1>3, <1>7, EntryKinds
  <2>2. Stat(k.dest) = File(i)
    BY <1>4, <1>7, <2>1, EntryKinds DEF Stat
  <2>3. \A n : Stat(n)' = Stat(n)
    BY <1>7 DEF Stat, Resolved, Follow
  <2>4. dir' \in [Names -> Entries]
    BY <1>3, <1>7
  <2>5. PICK m \in BOOLEAN : m = k.made
    BY DEF Calls
  <2>6. PICK n : n = OpenedTo(k, i, m)
    OBVIOUS
  <2>7. [k EXCEPT !.at = "pieces", !.to = dir[name].inode] = n
    BY <2>1, <2>5, <2>6 DEF OpenedTo, Calls
  <2>8. Goes(c, n)
    BY <1>7, <2>7, Zenon
  <2>9. data' = [data EXCEPT ![i] = << >>]
    BY <1>7, <2>1, Zenon
  <2> QED BY <1>1, <1>2, <1>7, <2>2, <2>3, <2>4, <2>6, <2>8, <2>9, OpensDest
<1>8. \/ Ends(c, FALSE) /\ Kept
      \/ /\ dir[name] = Nothing
         /\ \E i \in Free : /\ dir' = [dir EXCEPT ![name] = File(i)]
                            /\ data' = [data EXCEPT ![i] = << >>]
                            /\ Goes(c, [k EXCEPT !.at = "pieces", !.to = i, !.made = TRUE])
      \/ /\ dir[name].kind = "file" /\ k.overwrite /\ dir' = dir
         /\ data' = [data EXCEPT ![dir[name].inode] = << >>]
         /\ Goes(c, [k EXCEPT !.at = "pieces", !.to = dir[name].inode])
  BY <1>1, <1>4, Zenon DEF OpenDest, Exclusively
<1> QED BY <1>5, <1>6, <1>7, <1>8

-----------------------------------------------------------------------------
(* What writing a byte at a position leaves.                               *)
LEMMA WrittenBytes ==
    ASSUME NEW s \in Bytes, NEW pos \in Nat, NEW b \in 0 .. 2
    PROVE  /\ Written(s, pos, b) \in Bytes
           /\ Len(s) <= pos => Len(Written(s, pos, b)) = pos + 1
           /\ Written(s, pos, b)[pos + 1] = b
           /\ \A j \in 1 .. pos : j <= Len(s) => Written(s, pos, b)[j] = s[j]
<1>1. PICK l \in Nat : l = (IF Len(s) > pos THEN Len(s) ELSE pos + 1)
  <2>1. Len(s) \in Nat
    BY LenProperties DEF Bytes
  <2> QED BY <2>1
<1>2. l >= pos + 1 /\ (Len(s) <= pos => l = pos + 1)
  BY <1>1, LenProperties DEF Bytes
<1>3. \A i \in 1 .. Len(s) : s[i] \in 0 .. 2
  BY ElementOfSeq DEF Bytes
<1>4. Len(s) \in Nat
  BY LenProperties DEF Bytes
<1>5. PICK w : w = [i \in 1 .. l |-> IF i = pos + 1 THEN b ELSE IF i <= Len(s) THEN s[i] ELSE 0]
  OBVIOUS
<1>6. w = Written(s, pos, b)
  BY <1>1, <1>5, Zenon DEF Written
<1>7. \A i \in 1 .. l : (IF i = pos + 1 THEN b ELSE IF i <= Len(s) THEN s[i] ELSE 0) \in 0 .. 2
  BY <1>3, <1>4
<1>8. w \in Seq(0 .. 2)
  BY <1>5, <1>7, IsASeq
<1>9. Len(w) = l
  BY <1>5
<1> QED BY <1>2, <1>4, <1>5, <1>6, <1>8, <1>9 DEF Bytes

(* A move that wrote its next piece: the one before and the one after.     *)
LEMMA OnePieceMore ==
    ASSUME IInv, NEW k \in Calls, Sensible(k), k.at = "pieces", Lossless(k),
           k.pos < Len(data[k.from]), k.from \in Inodes,
           data' = [data EXCEPT ![k.to] = Written(@, k.pos, data[k.from][k.pos + 1])], dir' = dir,
           NEW n, n.at = "pieces", n.pos = k.pos + 1, Same(n, k), n.from = k.from, n.to = k.to
    PROVE  Lossless(n)'
<1>1. /\ k.op = "move" /\ Holds(k.path, k.text) /\ Stat(k.path) = File(k.from)
      /\ Stat(k.dest) = File(k.to) /\ k.to # k.from
      /\ Len(data[k.to]) = k.pos /\ k.pos <= Len(k.text)
      /\ \A j \in 1 .. k.pos : data[k.to][j] = k.text[j]
  BY DEF Lossless
<1>2. k.path \in Names /\ k.to \in Inodes /\ k.pos \in Nat
  BY DEF Sensible, Calls
<1>3. data[k.from] = k.text
  <2>1. PICK f \in Inodes : Stat(k.path) = File(f) /\ data[f] = k.text
    BY <1>1, <1>2, Found DEF IInv, Typed
  <2>2. f = k.from
    BY <1>1, <2>1, SameFile
  <2> QED BY <2>1, <2>2
<1>4. data[k.to] \in Bytes /\ data[k.from] \in Bytes
  BY <1>2 DEF IInv, Typed
<1>5. data[k.from][k.pos + 1] \in 0 .. 2
  BY <1>2, <1>4, ElementOfSeq, LenProperties DEF Bytes
<1>6. PICK w : w = Written(data[k.to], k.pos, data[k.from][k.pos + 1])
  OBVIOUS
<1>7. /\ w \in Bytes /\ Len(w) = k.pos + 1 /\ w[k.pos + 1] = k.text[k.pos + 1]
      /\ \A j \in 1 .. k.pos : w[j] = data[k.to][j]
  <2>1. PICK s \in Bytes : s = data[k.to]
    BY <1>4
  <2>2. PICK b \in 0 .. 2 : b = data[k.from][k.pos + 1]
    BY <1>5
  <2>3. PICK p \in Nat : p = k.pos
    BY <1>2
  <2>4. w = Written(s, p, b) /\ Len(s) = p
    BY <1>1, <1>6, <2>1, <2>2, <2>3
  <2>5. w \in Bytes /\ Len(w) = p + 1 /\ w[p + 1] = b
    <3>1. Written(s, p, b) \in Bytes
      BY WrittenBytes, Zenon
    <3>2. Len(Written(s, p, b)) = p + 1
      <4>1. Len(s) <= p
        BY <2>4
      <4>2. Len(s) <= p => Len(Written(s, p, b)) = p + 1
        BY WrittenBytes, Zenon
      <4> QED BY <4>1, <4>2
    <3>3. Written(s, p, b)[p + 1] = b
      BY WrittenBytes, Zenon
    <3> QED BY <2>4, <3>1, <3>2, <3>3
  <2>6. \A j \in 1 .. p : w[j] = s[j]
    <3>1. \A j \in 1 .. p : j <= Len(s) => Written(s, p, b)[j] = s[j]
      BY WrittenBytes, Zenon
    <3> QED BY <2>4, <3>1
  <2>7. b = k.text[k.pos + 1]
    BY <1>3, <2>2
  <2> QED BY <2>1, <2>3, <2>5, <2>6, <2>7
<1>8. data'[k.to] = w /\ data'[k.from] = k.text
  BY <1>1, <1>2, <1>3, <1>6 DEF IInv, Typed
<1>9. \A m : Stat(m)' = Stat(m)
  BY DEF Stat, Resolved, Follow
<1>10. Holds(k.path, k.text)'
  BY <1>1, <1>8, <1>9, HeldNext
<1>11. n.op = "move" /\ Holds(n.path, n.text)' /\ Stat(n.path)' = File(n.from)
       /\ Stat(n.dest)' = File(n.to) /\ n.to # n.from
  BY <1>1, <1>9, <1>10 DEF Same
<1>12. Len(data'[n.to]) = n.pos /\ n.pos \in Nat /\ n.pos <= Len(n.text)
  <2>1. Len(k.text) \in Nat
    BY LenProperties DEF Calls, Bytes
  <2> QED BY <1>2, <1>3, <1>7, <1>8, <2>1 DEF Same
<1>13. \A j \in 1 .. n.pos : data'[n.to][j] = n.text[j]
  <2>1. n.text = k.text /\ data'[n.to] = w
    BY <1>8 DEF Same
  <2>2. \A j \in 1 .. k.pos + 1 : w[j] = k.text[j]
    BY <1>1, <1>2, <1>7
  <2> QED BY <2>1, <2>2
<1> QED BY <1>11, <1>12, <1>13, BetweenPieces

(* What a move has written, and then all of it.                            *)
LEMMA LastPiece ==
    ASSUME IInv, NEW k \in Calls, Sensible(k), k.at = "pieces", Lossless(k),
           k.pos >= Len(data[k.from]), Kept, NEW n, n.at = "unlink", Same(n, k), n.from = k.from, n.to = k.to
    PROVE  Lossless(n)'
<1>1. /\ k.op = "move" /\ Holds(k.path, k.text) /\ Stat(k.path) = File(k.from)
      /\ Stat(k.dest) = File(k.to) /\ k.to # k.from
      /\ Len(data[k.to]) = k.pos /\ k.pos <= Len(k.text)
      /\ \A j \in 1 .. k.pos : data[k.to][j] = k.text[j]
  BY DEF Lossless
<1>2. k.path \in Names /\ k.to \in Inodes /\ k.pos \in Nat /\ k.text \in Bytes
  BY DEF Sensible, Calls
<1>3. data[k.from] = k.text
  <2>1. PICK f \in Inodes : Stat(k.path) = File(f) /\ data[f] = k.text
    BY <1>1, <1>2, Found DEF IInv, Typed
  <2>2. f = k.from
    BY <1>1, <2>1, SameFile
  <2> QED BY <2>1, <2>2
<1>4. data[k.to] = k.text
  <2>1. PICK s \in Seq(0 .. 2) : s = data[k.to]
    BY <1>2 DEF IInv, Typed, Bytes
  <2>2. PICK t \in Seq(0 .. 2) : t = k.text
    BY <1>2 DEF Bytes
  <2>3. Len(s) \in Nat /\ Len(t) \in Nat
    BY LenProperties
  <2>4. Len(s) = Len(t)
    BY <1>1, <1>2, <1>3, <2>1, <2>2, <2>3
  <2>5. \A j \in 1 .. Len(s) : s[j] = t[j]
    BY <1>1, <2>1, <2>2
  <2>6. s = t
    BY <2>4, <2>5, SeqEqual
  <2> QED BY <2>1, <2>2, <2>6
<1>5. n.op = "move" /\ Holds(n.path, n.text) /\ Stat(n.path) = File(n.from)
      /\ Stat(n.dest) = File(n.to) /\ n.to # n.from /\ data[n.to] = n.text
  BY <1>1, <1>4 DEF Same
<1>6. Holds(n.path, n.text)' /\ Stat(n.path)' = Stat(n.path) /\ Stat(n.dest)' = Stat(n.dest) /\ data' = data
  BY <1>5, KeptNames DEF Kept
<1> QED BY <1>5, <1>6 DEF Lossless

LEMMA CopyPieceKeeps == ASSUME IInv, NEW c \in Callers, CopyPiece(c) PROVE IInv'
<1>1. PICK k \in Calls : k = call[c] /\ Sensible(k)
  BY DEF IInv, Typed
<1>2. k.at = "pieces" /\ call[c].at = "pieces" /\ UNCHANGED <<system, calls>>
  BY <1>1 DEF CopyPiece, posix, At_
<1>3. k.to \in Inodes /\ k.pos \in Nat /\ k.from \in Inodes \union {NoInode} /\ dir \in [Names -> Entries]
      /\ data \in [Inodes -> Bytes]
  BY <1>1, <1>2 DEF Sensible, Calls, IInv, Typed
<1>4. CASE Ends(c, FALSE) /\ Kept
  BY <1>2, <1>4, Fails
<1>5. ASSUME k.from # NoInode, k.pos < Len(data[k.from]),
             data' = [data EXCEPT ![k.to] = Written(@, k.pos, data[k.from][k.pos + 1])],
             Goes(c, [k EXCEPT !.pos = @ + 1]), dir' = dir
      PROVE  IInv'
  <2>1. PICK n : n = [k EXCEPT !.pos = @ + 1]
    OBVIOUS
  <2>2. n \in Calls /\ n.at = "pieces" /\ n.pos = k.pos + 1 /\ n.from = k.from /\ n.to = k.to
    <3>1. PICK p \in Nat : p = k.pos + 1
      BY <1>3
    <3>2. n = [k EXCEPT !.pos = p]
      BY <2>1, <3>1
    <3>3. n \in Calls
      BY <3>2 DEF Calls
    <3>4. n.at = "pieces" /\ n.pos = p /\ n.from = k.from /\ n.to = k.to
      BY <1>2, <3>2 DEF Calls
    <3> QED BY <3>1, <3>3, <3>4
  <2>3. Same(n, k)
    BY <2>1 DEF Calls, Same
  <2>4. Goes(c, n)
    BY <1>5, <2>1, Zenon
  <2>5. call'[c] = n
    BY <2>2, <2>4, Going DEF IInv, Typed
  <2>6. Sensible(n)
    BY <1>1, <1>2, <2>2, <2>3 DEF Sensible, Same
  <2>7. data' \in [Inodes -> Bytes] /\ k.from \in Inodes
    <3>1. k.from \in Inodes /\ data[k.to] \in Bytes /\ data[k.from] \in Bytes
      BY <1>3, <1>5
    <3>2. data[k.from][k.pos + 1] \in 0 .. 2
      BY <1>3, <1>5, <3>1, ElementOfSeq, LenProperties DEF Bytes
    <3>3. Written(data[k.to], k.pos, data[k.from][k.pos + 1]) \in Bytes
      BY <1>3, <3>1, <3>2, WrittenBytes
    <3> QED BY <1>3, <1>5, <3>1, <3>3
  <2>8. ASSUME n.alone PROVE Lossless(n)'
    <3>1. Lossless(k)
      BY <1>1, <2>3, <2>8 DEF IInv, Same
    <3> QED BY <1>1, <1>2, <1>5, <2>2, <2>3, <2>7, <3>1, OnePieceMore
  <2> QED BY <1>2, <1>3, <1>5, <2>2, <2>4, <2>5, <2>6, <2>7, <2>8, Concludes DEF IInv, Typed
<1>6. ASSUME k.from # NoInode, k.pos >= Len(data[k.from]), k.op = "move", To(c, "unlink"), Kept
      PROVE  IInv'
  <2>1. PICK n : n = [k EXCEPT !.at = "unlink"]
    OBVIOUS
  <2>2. n \in Calls /\ n.at = "unlink" /\ n.from = k.from /\ n.to = k.to
    BY <2>1 DEF Calls, Places
  <2>3. Same(n, k)
    BY <2>1 DEF Calls, Same
  <2>4. Goes(c, n)
    BY <1>1, <1>6, <2>1, Zenon DEF To
  <2>5. call'[c] = n
    BY <2>2, <2>4, Going DEF IInv, Typed
  <2>6. Sensible(n)
    BY <1>1, <1>2, <1>6, <2>2, <2>3 DEF Sensible, Same
  <2>7. ASSUME n.alone PROVE Lossless(n)'
    <3>1. Lossless(k)
      BY <1>1, <2>3, <2>7 DEF IInv, Same
    <3> QED BY <1>1, <1>2, <1>6, <2>2, <2>3, <3>1, LastPiece
  <2> QED BY <1>2, <1>3, <1>6, <2>2, <2>4, <2>5, <2>6, <2>7, Concludes DEF IInv, Typed, Kept
<1>7. ASSUME k.op # "move", Ends(c, TRUE), Kept PROVE IInv'
  <2>1. PICK n : n = EndOf(k, TRUE)
    OBVIOUS
  <2>2. n \in Calls /\ Sensible(n) /\ ~n.alone
    BY <1>1, <1>2, <1>7, <2>1, Ended
  <2>3. Goes(c, n)
    BY <1>1, <1>7, <2>1, Zenon DEF Ends, EndOf
  <2>4. call'[c] = n
    BY <2>2, <2>3, Going DEF IInv, Typed
  <2> QED BY <1>2, <1>3, <1>7, <2>2, <2>3, <2>4, Concludes DEF IInv, Typed, Kept
<1>8. \/ Ends(c, FALSE) /\ Kept
      \/ /\ k.from # NoInode /\ ~Copied(k)
         /\ data' = [data EXCEPT ![k.to] = Written(@, k.pos, data[k.from][k.pos + 1])]
         /\ Goes(c, [k EXCEPT !.pos = @ + 1]) /\ dir' = dir
      \/ /\ k.from # NoInode /\ Copied(k) /\ k.op = "move" /\ To(c, "unlink") /\ Kept
      \/ /\ k.op # "move" /\ Ends(c, TRUE) /\ Kept
  BY <1>1, Zenon DEF CopyPiece
<1>9. CASE k.from # NoInode
  <2>1. Len(data[k.from]) \in Nat
    BY <1>3, <1>9, LenProperties DEF Bytes
  <2>2. ~Copied(k) => k.pos < Len(data[k.from])
    BY <1>3, <2>1 DEF Copied
  <2>3. Copied(k) => k.pos >= Len(data[k.from])
    BY DEF Copied
  <2> QED BY <1>4, <1>5, <1>6, <1>7, <1>8, <2>2, <2>3
<1> QED BY <1>4, <1>7, <1>8, <1>9

-----------------------------------------------------------------------------
(* A step that ends a call and leaves it ended: what has to hold of a move *)
(* that was alone to its end.                                              *)
LEMMA Succeeds ==
    ASSUME IInv, NEW c \in Callers, NEW k \in Calls, Sensible(k), k.at # "done",
           NEW n, n = EndOf(k, TRUE), Goes(c, n),
           dir' \in [Names -> Entries], data' \in [Inodes -> Bytes], UNCHANGED <<system, calls>>,
           (k.op = "move" /\ k.alone) => Holds(k.dest, k.text)' /\ dir'[k.path] = Nothing
    PROVE  IInv'
<1>1. n \in Calls /\ Sensible(n) /\ n.at = "done" /\ n.ok = TRUE /\ n.op = k.op
  BY Ended
<1>2. k.op # "move" => ~n.alone
  BY Ended
<1>3. k.op = "move" => n.path = k.path /\ n.dest = k.dest /\ n.text = k.text /\ n.alone = k.alone
  BY Ended
<1>4. call'[c] = n
  BY <1>1, Going DEF IInv, Typed
<1>5. ASSUME n.alone PROVE Lossless(n)'
  <2>1. n.op = "move" /\ Holds(n.dest, n.text)' /\ dir'[n.path] = Nothing
    BY <1>1, <1>2, <1>3, <1>5
  <2> QED BY <1>1, <2>1 DEF Lossless, Nothing
<1> QED BY <1>1, <1>4, <1>5, Concludes DEF IInv, Typed

LEMMA UnlinkKeeps == ASSUME IInv, NEW c \in Callers, Unlink(c) PROVE IInv'
<1>1. PICK k \in Calls : k = call[c] /\ Sensible(k)
  BY DEF IInv, Typed
<1>2. k.at = "unlink" /\ call[c].at = "unlink" /\ UNCHANGED <<system, calls>>
  BY <1>1 DEF Unlink, posix, At_
<1>3. k.path \in Names /\ k.dest \in Names /\ dir \in [Names -> Entries] /\ data \in [Inodes -> Bytes]
      /\ k.op = "move"
  BY <1>1, <1>2 DEF Sensible, IInv, Typed
<1>4. CASE Ends(c, FALSE) /\ Kept
  BY <1>2, <1>4, Fails
<1>5. ASSUME dir' = [dir EXCEPT ![k.path] = Nothing], Ends(c, TRUE), data' = data PROVE IInv'
  <2>1. PICK n : n = EndOf(k, TRUE)
    OBVIOUS
  <2>2. Goes(c, n)
    BY <1>1, <1>5, <2>1, Zenon DEF Ends, EndOf
  <2>3. dir' \in [Names -> Entries]
    BY <1>3, <1>5, EntryKinds
  <2>4. ASSUME k.alone PROVE Holds(k.dest, k.text)' /\ dir'[k.path] = Nothing
    <3>1. Lossless(k)
      BY <1>1, <2>4 DEF IInv
    <3>2. Holds(k.path, k.text) /\ Stat(k.path) = File(k.from) /\ Stat(k.dest) = File(k.to) /\ k.to # k.from
          /\ data[k.to] = k.text
      BY <1>2, <3>1 DEF Lossless
    <3>3. PICK f \in Inodes : Stat(k.path) = File(f)
      BY <1>3, <3>2, Found
    <3>4. PICK g \in Inodes : Stat(k.dest) = File(g) /\ g = k.to
      <4>1. Stat(k.dest) \in Entries /\ Stat(k.dest).kind = "file" /\ Stat(k.dest).inode = k.to
        BY <1>3, <3>2, Leads, EntryKinds
      <4> QED BY <3>2, <4>1, EntryKinds
    <3>5. f # g
      BY <3>2, <3>3, <3>4, SameFile
    <3>6. Stat(k.dest)' = File(g) /\ dir'[k.path] = Nothing
      <4>1. PICK p \in Names, d \in Names : p = k.path /\ d = k.dest
        BY <1>3
      <4>2. dir' = [dir EXCEPT ![p] = Nothing]
        BY <1>5, <4>1
      <4>3. Stat(p) = File(f) /\ Stat(d) = File(g)
        BY <3>3, <3>4, <4>1
      <4>4. Stat(d)' = File(g) /\ dir'[p] = Nothing
        BY <1>3, <3>5, <4>2, <4>3, Unlinked
      <4> QED BY <4>1, <4>4
    <3>7. data'[g] = k.text
      BY <1>5, <3>2, <3>4
    <3> QED BY <3>6, <3>7, HeldNext
  <2> QED BY <1>1, <1>2, <1>3, <1>5, <2>1, <2>2, <2>3, <2>4, Succeeds
<1> QED BY <1>1, <1>4, <1>5, Zenon DEF Unlink

(* On Windows: the checks, and then one call of the system.                *)
LEMMA CheckKeeps == ASSUME IInv, FilesAssumption, NEW c \in Callers, Check(c) PROVE IInv'
<1>1. PICK k \in Calls : k = call[c] /\ Sensible(k)
  BY DEF IInv, Typed
<1>2. k.at \in {"copy", "move"} /\ call[c].at # "done" /\ Kept /\ UNCHANGED <<system, calls>>
  BY <1>1 DEF Check, windows, At_
<1>3. k.path \in Names /\ k.dest \in Names /\ k.op \in {"copy", "move"}
  BY <1>1, <1>2 DEF Sensible
<1>4. PICK dest \in Names : dest = IF path_is_directory(k.dest) THEN Inside(k.dest, k.path) ELSE k.dest
  BY <1>3 DEF FilesAssumption
<1>5. CASE Ends(c, FALSE)
  BY <1>2, <1>5, Fails
<1>6. CASE Goes(c, [k EXCEPT !.at = "system_call", !.dest = dest, !.alone = @ /\ Stat(dest) # Stat(k.path)])
  <2>1. PICK a \in BOOLEAN : a = (k.alone /\ Stat(dest) # Stat(k.path))
    OBVIOUS
  <2>2. PICK n : n = [k EXCEPT !.at = "system_call", !.dest = dest, !.alone = a]
    OBVIOUS
  <2>3. n \in Calls
    BY <2>2 DEF Calls, Places
  <2>4. n.at = "system_call" /\ n.dest = dest /\ n.op = k.op /\ n.path = k.path /\ n.text = k.text /\ n.pos = k.pos
    BY <2>2 DEF Calls
  <2>5. n.alone = a
    BY <2>2 DEF Calls
  <2>6. Goes(c, n)
    <3>1. n = [k EXCEPT !.at = "system_call", !.dest = dest, !.alone = @ /\ Stat(dest) # Stat(k.path)]
      BY <2>1, <2>2, Zenon
    <3> QED BY <1>6, <3>1, Zenon
  <2>7. call'[c] = n
    BY <2>3, <2>6, Going DEF IInv, Typed
  <2>8. Sensible(n)
    BY <1>3, <2>4 DEF Sensible
  <2>9. ASSUME n.alone PROVE Lossless(n)'
    <3>1. Lossless(k) /\ Stat(dest) # Stat(k.path)
      BY <1>1, <2>1, <2>5, <2>9 DEF IInv
    <3>2. k.op = "move" /\ Holds(k.path, k.text) /\ k.pos = 0
      BY <1>2, <3>1 DEF Lossless
    <3>3. n.op = "move" /\ Holds(n.path, n.text) /\ Stat(n.path) # Stat(n.dest) /\ n.pos = 0
      BY <2>4, <3>1, <3>2
    <3>4. Holds(n.path, n.text)' /\ (Stat(n.path) # Stat(n.dest))'
      BY <1>2, <3>3, StillWhole
    <3> QED BY <2>4, <3>3, <3>4 DEF Lossless
  <2> QED BY <1>2, <2>3, <2>6, <2>7, <2>8, <2>9, Concludes DEF IInv, Typed, Kept
<1> QED BY <1>1, <1>4, <1>5, <1>6, Zenon DEF Check

LEMMA CopyFileWKeeps == ASSUME IInv, NEW c \in Callers, CopyFileW(c) PROVE IInv'
<1>1. PICK k \in Calls : k = call[c] /\ Sensible(k)
  BY DEF IInv, Typed
<1>2. k.at = "system_call" /\ call[c].at = "system_call" /\ k.op = "copy" /\ UNCHANGED <<system, calls>>
  BY <1>1 DEF CopyFileW, windows, At_
<1>3. k.path \in Names /\ k.dest \in Names /\ dir \in [Names -> Entries] /\ data \in [Inodes -> Bytes]
  BY <1>1, <1>2 DEF Sensible, IInv, Typed
<1>4. PICK name \in Names : name = Resolved(k.dest)
  BY <1>3, Leads
<1>5. path_is_file(k.path) => data[Stat(k.path).inode] \in Bytes
  BY <1>3, Leads, EntryKinds DEF path_is_file
<1>6. CASE Ends(c, FALSE) /\ Kept
  BY <1>2, <1>6, Fails
<1>7. ASSUME path_is_file(k.path), NEW i \in Free, dir' = [dir EXCEPT ![name] = File(i)],
             data' = [data EXCEPT ![i] = data[Stat(k.path).inode]],
             Goes(c, [Done([k EXCEPT !.to = i, !.made = TRUE]) EXCEPT !.ok = TRUE])
      PROVE  IInv'
  <2>1. i \in Inodes
    BY DEF Free
  <2>2. PICK m : m = [k EXCEPT !.to = i, !.made = TRUE]
    OBVIOUS
  <2>3. m \in Calls
    BY <2>1, <2>2 DEF Calls
  <2>4. m.at = k.at /\ m.op = k.op /\ m.path = k.path /\ m.dest = k.dest
    BY <2>2 DEF Calls
  <2>5. Sensible(m)
    BY <1>2, <1>3, <2>4 DEF Sensible
  <2>6. PICK n : n = EndOf(m, TRUE)
    OBVIOUS
  <2>7. Goes(c, n)
    BY <1>7, <2>2, <2>6, Zenon DEF EndOf
  <2>8. dir' \in [Names -> Entries]
    BY <1>3, <1>7, <2>1, EntryKinds
  <2>9. data' \in [Inodes -> Bytes]
    BY <1>3, <1>5, <1>7
  <2> QED BY <1>2, <2>3, <2>4, <2>5, <2>6, <2>7, <2>8, <2>9, Succeeds
<1>8. ASSUME path_is_file(k.path), dir[name].kind = "file", dir' = dir,
             data' = [data EXCEPT ![dir[name].inode] = data[Stat(k.path).inode]], Ends(c, TRUE)
      PROVE  IInv'
  <2>1. PICK n : n = EndOf(k, TRUE)
    OBVIOUS
  <2>2. Goes(c, n)
    BY <1>1, <1>8, <2>1, Zenon DEF Ends, EndOf
  <2>3. dir' \in [Names -> Entries] /\ data' \in [Inodes -> Bytes]
    BY <1>3, <1>5, <1>8
  <2> QED BY <1>1, <1>2, <2>1, <2>2, <2>3, Succeeds
<1> QED BY <1>1, <1>4, <1>6, <1>7, <1>8, Zenon DEF CopyFileW

LEMMA MoveFileExWKeeps == ASSUME IInv, NEW c \in Callers, MoveFileExW(c) PROVE IInv'
<1>1. PICK k \in Calls : k = call[c] /\ Sensible(k)
  BY DEF IInv, Typed
<1>2. k.at = "system_call" /\ call[c].at = "system_call" /\ k.op = "move" /\ UNCHANGED <<system, calls, data>>
  BY <1>1 DEF MoveFileExW, windows, At_
<1>3. dir \in [Names -> Entries] /\ data \in [Inodes -> Bytes]
  BY DEF IInv, Typed
<1>4. PICK path \in Names, dest \in Names : path = k.path /\ dest = k.dest
  BY <1>1, <1>2 DEF Sensible
<1>5. CASE Ends(c, FALSE) /\ UNCHANGED dir
  BY <1>2, <1>5, Fails DEF Kept
<1>6. ASSUME dir' = [n \in Names |-> CASE n = dest -> dir[path] [] n = path -> Nothing [] OTHER -> dir[n]],
             Ends(c, TRUE)
      PROVE  IInv'
  <2>1. PICK n : n = EndOf(k, TRUE)
    OBVIOUS
  <2>2. Goes(c, n)
    BY <1>1, <1>6, <2>1, Zenon DEF Ends, EndOf
  <2>3. dir' \in [Names -> Entries]
    <3>1. \A m \in Names : (CASE m = dest -> dir[path] [] m = path -> Nothing [] OTHER -> dir[m]) \in Entries
      BY <1>3, EntryKinds
    <3> QED BY <1>6, <3>1
  <2>4. ASSUME k.alone PROVE Holds(k.dest, k.text)' /\ dir'[k.path] = Nothing
    <3>1. Lossless(k)
      BY <1>1, <2>4 DEF IInv
    <3>2. Holds(path, k.text) /\ Stat(dest) # Stat(path)
      BY <1>2, <1>4, <3>1 DEF Lossless
    <3>3. PICK f \in Inodes : Stat(path) = File(f) /\ data[f] = k.text
      BY <1>3, <3>2, Found
    <3>4. Stat(dest)' = File(f) /\ dir'[path] = Nothing
      BY <1>3, <1>6, <3>2, <3>3, Moved
    <3>5. data'[f] = k.text
      BY <1>2, <3>3
    <3> QED BY <1>4, <3>4, <3>5, HeldNext
  <2> QED BY <1>1, <1>2, <1>3, <2>1, <2>2, <2>3, <2>4, Succeeds
<1> QED BY <1>1, <1>4, <1>5, <1>6, Zenon DEF MoveFileExW

-----------------------------------------------------------------------------
(* Reading and writing whole files, which is never part of a move.         *)
LEMMA NotAlone ==
    ASSUME IInv, NEW c \in Callers, call[c].op # "move"
    PROVE  ~call[c].alone
  BY DEF IInv, Lossless

LEMMA OpenReadKeeps == ASSUME IInv, NEW c \in Callers, OpenRead(c) PROVE IInv'
<1>1. PICK k \in Calls : k = call[c] /\ Sensible(k)
  BY DEF IInv, Typed
<1>2. k.at = "open_read" /\ call[c].at = "open_read" /\ Kept /\ UNCHANGED <<system, calls>>
  BY <1>1 DEF OpenRead, At_
<1>3. k.path \in Names /\ k.dest \in Names /\ k.op = "read" /\ dir \in [Names -> Entries] /\ data \in [Inodes -> Bytes]
  BY <1>1, <1>2 DEF Sensible, IInv, Typed
<1>4. CASE Ends(c, FALSE)
  BY <1>2, <1>4, Fails
<1>5. ASSUME path_is_file(k.path),
             Goes(c, [k EXCEPT !.at = "read", !.from = Stat(k.path).inode, !.pos = Len(data[Stat(k.path).inode])])
      PROVE  IInv'
  <2>1. PICK f \in Inodes : f = Stat(k.path).inode
    BY <1>3, <1>5, Leads, EntryKinds DEF path_is_file
  <2>2. PICK l \in Nat : l = Len(data[f])
    BY <1>3, LenProperties DEF Bytes
  <2>3. PICK n : n = [k EXCEPT !.at = "read", !.from = f, !.pos = l]
    OBVIOUS
  <2>4. n \in Calls
    BY <2>3 DEF Calls, Places
  <2>5. n.at = "read" /\ n.from = f /\ n.op = k.op /\ n.path = k.path /\ n.dest = k.dest
    BY <2>3 DEF Calls
  <2>6. n.alone = k.alone
    BY <2>3 DEF Calls
  <2>7. Goes(c, n)
    BY <1>5, <2>1, <2>2, <2>3, Zenon
  <2>8. call'[c] = n
    BY <2>4, <2>7, Going DEF IInv, Typed
  <2>9. Sensible(n)
    BY <1>3, <2>5 DEF Sensible
  <2>10. ~n.alone
    BY <1>1, <1>3, <2>6, NotAlone
  <2> QED BY <1>2, <2>4, <2>7, <2>8, <2>9, <2>10, Concludes DEF IInv, Typed, Kept
<1> QED BY <1>1, <1>4, <1>5, Zenon DEF OpenRead

LEMMA ReadKeeps == ASSUME IInv, NEW c \in Callers, Read(c) PROVE IInv'
<1>1. PICK k \in Calls : k = call[c] /\ Sensible(k)
  BY DEF IInv, Typed
<1>2. k.at = "read" /\ call[c].at = "read" /\ Kept /\ UNCHANGED <<system, calls>>
  BY <1>1 DEF Read, At_
<1>3. k.from \in Inodes /\ k.pos \in Nat /\ k.op = "read" /\ data[k.from] \in Seq(0 .. 2)
  BY <1>1, <1>2 DEF Sensible, IInv, Typed, Calls, Bytes
<1>4. CASE Ends(c, FALSE)
  BY <1>2, <1>4, Fails
<1>5. ASSUME k.pos <= Len(data[k.from]),
             Goes(c, [Done(k) EXCEPT !.ok = TRUE, !.contents = SubSeq(data[k.from], 1, k.pos)])
      PROVE  IInv'
  <2>1. PICK t \in Bytes : t = SubSeq(data[k.from], 1, k.pos)
    <3>1. SubSeq(data[k.from], 1, k.pos) \in Seq(0 .. 2)
      BY <1>3, <1>5, LenProperties, ElementOfSeq, SubSeqProperties
    <3> QED BY <3>1 DEF Bytes
  <2>2. PICK m : m = EndOf(k, TRUE)
    OBVIOUS
  <2>3. m \in Calls /\ m.at = "done" /\ m.op = k.op
    <3>1. k.at # "done" /\ Sensible(k) /\ m = EndOf(k, TRUE)
      BY <1>1, <1>2, <2>2
    <3>2. m \in Calls /\ m.at = "done" /\ m.op = k.op
      BY <3>1, Ended
    <3> QED BY <3>2
  <2>4. ~m.alone
    BY <1>1, <1>2, <1>3, <2>2, Ended
  <2>5. PICK n : n = [m EXCEPT !.contents = t]
    OBVIOUS
  <2>6. n \in Calls
    BY <2>3, <2>5 DEF Calls
  <2>7. n.at = "done" /\ n.op = "read"
    BY <1>3, <2>3, <2>5 DEF Calls
  <2>8. ~n.alone
    BY <2>3, <2>4, <2>5 DEF Calls
  <2>9. Goes(c, n)
    <3>1. n = [Done(k) EXCEPT !.ok = TRUE, !.contents = t]
      BY <2>2, <2>5, Zenon DEF EndOf
    <3> QED BY <1>5, <2>1, <3>1, Zenon
  <2>10. call'[c] = n
    BY <2>6, <2>9, Going DEF IInv, Typed
  <2>11. Sensible(n)
    BY <2>7 DEF Sensible
  <2> QED BY <1>2, <2>6, <2>8, <2>9, <2>10, <2>11, Concludes DEF IInv, Typed, Kept
<1> QED BY <1>1, <1>4, <1>5, Zenon DEF Read

LEMMA OpenWriteKeeps == ASSUME IInv, NEW c \in Callers, OpenWrite(c) PROVE IInv'
<1>1. PICK k \in Calls : k = call[c] /\ Sensible(k)
  BY DEF IInv, Typed
<1>2. k.at = "open_write" /\ call[c].at = "open_write" /\ UNCHANGED <<system, calls>>
  BY <1>1 DEF OpenWrite, At_
<1>3. k.path \in Names /\ k.dest \in Names /\ k.op \in {"append", "overwrite", "overwrite_entire"}
      /\ dir \in [Names -> Entries] /\ data \in [Inodes -> Bytes]
  BY <1>1, <1>2 DEF Sensible, IInv, Typed
<1>4. PICK name \in Names : name = Resolved(k.path)
  BY <1>3, Leads
<1>5. CASE Ends(c, FALSE) /\ Kept
  BY <1>2, <1>5, Fails
<1>6. ASSUME NEW i \in Inodes, NEW m \in BOOLEAN,
             Goes(c, [k EXCEPT !.at = "write", !.to = i, !.made = m]),
             dir' \in [Names -> Entries], data' \in [Inodes -> Bytes]
      PROVE  IInv'
  <2>1. PICK n : n = [k EXCEPT !.at = "write", !.to = i, !.made = m]
    OBVIOUS
  <2>2. n \in Calls
    BY <2>1 DEF Calls, Places
  <2>3. n.at = "write" /\ n.to = i /\ n.op = k.op /\ n.path = k.path /\ n.dest = k.dest
    BY <2>1 DEF Calls
  <2>4. n.alone = k.alone
    BY <2>1 DEF Calls
  <2>5. Goes(c, n)
    BY <1>6, <2>1, Zenon
  <2>6. call'[c] = n
    BY <2>2, <2>5, Going DEF IInv, Typed
  <2>7. Sensible(n)
    BY <1>3, <2>3 DEF Sensible
  <2>8. ~n.alone
    BY <1>1, <1>3, <2>4, NotAlone
  <2> QED BY <1>2, <1>6, <2>2, <2>5, <2>6, <2>7, <2>8, Concludes DEF IInv, Typed
<1>7. ASSUME dir[name].kind = "file", dir' = dir,
             data' = [data EXCEPT ![dir[name].inode] = IF Empties(k) THEN << >> ELSE @],
             Goes(c, [k EXCEPT !.at = "write", !.to = dir[name].inode])
      PROVE  IInv'
  <2>1. PICK i \in Inodes : i = dir[name].inode
    BY <1>3, <1>7, EntryKinds
  <2>2. PICK m \in BOOLEAN : m = k.made
    BY DEF Calls
  <2>3. [k EXCEPT !.at = "write", !.to = i] = [k EXCEPT !.at = "write", !.to = i, !.made = m]
    BY <2>2 DEF Calls
  <2>4. Goes(c, [k EXCEPT !.at = "write", !.to = i, !.made = m])
    BY <1>7, <2>1, <2>3, Zenon
  <2>5. dir' \in [Names -> Entries] /\ data' \in [Inodes -> Bytes]
    BY <1>3, <1>7, <2>1, EmptySeq DEF Bytes
  <2> QED BY <1>6, <2>4, <2>5
<1>8. ASSUME dir[name] = Nothing, NEW i \in Free, dir' = [dir EXCEPT ![name] = File(i)],
             data' = [data EXCEPT ![i] = << >>],
             Goes(c, [k EXCEPT !.at = "write", !.to = i, !.made = TRUE])
      PROVE  IInv'
  <2>1. i \in Inodes
    BY DEF Free
  <2>2. dir' \in [Names -> Entries] /\ data' \in [Inodes -> Bytes]
    BY <1>3, <1>8, <2>1, EntryKinds, EmptySeq DEF Bytes
  <2> QED BY <1>6, <1>8, <2>1, <2>2
<1> QED BY <1>1, <1>4, <1>5, <1>7, <1>8, Zenon DEF OpenWrite

LEMMA ToWriteBytes == ASSUME NEW t \in Bytes PROVE ToWrite(t) \in Bytes
<1>1. t \in Seq(0 .. 2) /\ Len(t) \in Nat /\ DOMAIN t = 1 .. Len(t)
  BY LenProperties DEF Bytes
<1>2. PICK T \in SUBSET (1 .. Len(t)) : T = {i \in DOMAIN t : t[i] # 0}
  BY <1>1
<1>3. Cardinality(T) \in Nat /\ Cardinality(T) <= Len(t)
  <2>1. PICK l \in Nat : l = Len(t)
    BY <1>1
  <2>2. IsFiniteSet(1 .. l)
    BY FS_Interval
  <2>3. Cardinality(1 .. l) = l
    BY FS_Interval
  <2>4. T \in SUBSET (1 .. l)
    BY <2>1
  <2>5. IsFiniteSet(T) /\ Cardinality(T) <= Cardinality(1 .. l)
    BY <2>2, <2>4, FS_Subset, Zenon
  <2>6. Cardinality(T) \in Nat
    BY <2>5, FS_CardinalityType
  <2> QED BY <2>1, <2>3, <2>5, <2>6
<1>4. SubSeq(t, 1, Cardinality(T)) \in Seq(0 .. 2)
  <2>1. \A i \in 1 .. Cardinality(T) : t[i] \in 0 .. 2
    BY <1>1, <1>3, ElementOfSeq
  <2> QED BY <1>3, <2>1, SubSeqProperties
<1> QED BY <1>2, <1>4 DEF ToWrite, length, Bytes

(* Putting bytes at a place in others leaves bytes.                        *)
LEMMA PutBytes ==
    ASSUME NEW s \in Bytes, NEW t \in Bytes, NEW place \in Nat, place <= Len(s)
    PROVE  SubSeq(s, 1, place) \o t \o SubSeq(s, place + Len(t) + 1, Len(s)) \in Bytes
<1>1. Len(s) \in Nat /\ Len(t) \in Nat /\ s \in Seq(0 .. 2) /\ t \in Seq(0 .. 2)
  BY LenProperties DEF Bytes
<1>2. \A i \in 1 .. Len(s) : s[i] \in 0 .. 2
  BY <1>1, ElementOfSeq
<1>3. SubSeq(s, 1, place) \in Seq(0 .. 2)
  BY <1>1, <1>2, SubSeqProperties
<1>4. PICK m \in Nat : m = place + Len(t) + 1
  BY <1>1
<1>5. \A i \in m .. Len(s) : s[i] \in 0 .. 2
  BY <1>1, <1>2, <1>4
<1>6. SubSeq(s, m, Len(s)) \in Seq(0 .. 2)
  BY <1>1, <1>5, SubSeqProperties
<1>7. SubSeq(s, 1, place) \o t \in Seq(0 .. 2)
  BY <1>1, <1>3, ConcatProperties
<1>8. SubSeq(s, 1, place) \o t \o SubSeq(s, m, Len(s)) \in Seq(0 .. 2)
  BY <1>6, <1>7, ConcatProperties
<1> QED BY <1>4, <1>8 DEF Bytes

LEMMA WriteKeeps == ASSUME IInv, NEW c \in Callers, Write(c) PROVE IInv'
<1>1. PICK k \in Calls : k = call[c] /\ Sensible(k)
  BY DEF IInv, Typed
<1>2. k.at = "write" /\ call[c].at = "write" /\ dir' = dir /\ UNCHANGED <<system, calls>>
  BY <1>1 DEF Write, At_
<1>3. k.to \in Inodes /\ k.op # "move" /\ k.contents \in Bytes
      /\ dir \in [Names -> Entries] /\ data \in [Inodes -> Bytes]
  BY <1>1, <1>2 DEF Sensible, IInv, Typed, Calls
<1>4. PICK s \in Bytes : s = data[k.to]
  BY <1>3
<1>5. PICK all \in Bytes : all = ToWrite(k.contents)
  BY <1>3, ToWriteBytes
<1>6. Len(s) \in Nat /\ Len(all) \in Nat /\ all \in Seq(0 .. 2)
  BY LenProperties DEF Bytes
<1>7. PICK place \in Nat : place = (IF k.op = "append" THEN Len(s) ELSE 0) /\ place <= Len(s)
  BY <1>6
<1>8. PICK m \in 0 .. Len(all) :
          /\ data' = [data EXCEPT ![k.to] = SubSeq(s, 1, place) \o SubSeq(all, 1, m)
                                           \o SubSeq(s, place + Len(SubSeq(all, 1, m)) + 1, Len(s))]
          /\ Ends(c, m = Len(all))
  BY <1>1, <1>4, <1>5, <1>7, Zenon DEF Write
<1>9. PICK t \in Bytes : t = SubSeq(all, 1, m)
  <2>1. \A i \in 1 .. m : all[i] \in 0 .. 2
    BY <1>6, ElementOfSeq
  <2>2. SubSeq(all, 1, m) \in Seq(0 .. 2)
    BY <1>6, <2>1, SubSeqProperties
  <2> QED BY <2>2 DEF Bytes
<1>10. data' \in [Inodes -> Bytes]
  <2>1. SubSeq(s, 1, place) \o t \o SubSeq(s, place + Len(t) + 1, Len(s)) \in Bytes
    BY <1>7, PutBytes
  <2> QED BY <1>3, <1>8, <1>9, <2>1
<1>11. PICK o \in BOOLEAN : o = (m = Len(all))
  OBVIOUS
<1>12. PICK n : n = EndOf(k, o)
  OBVIOUS
<1>13. n \in Calls /\ Sensible(n)
  BY <1>1, <1>2, <1>12, Ended
<1>14. ~n.alone
  BY <1>1, <1>2, <1>3, <1>12, Ended
<1>15. Goes(c, n)
  BY <1>1, <1>8, <1>11, <1>12, Zenon DEF Ends, EndOf
<1>16. call'[c] = n
  BY <1>13, <1>15, Going DEF IInv, Typed
<1> QED BY <1>2, <1>3, <1>10, <1>13, <1>14, <1>15, <1>16, Concludes DEF IInv, Typed

-----------------------------------------------------------------------------
(* Calls begin.                                                            *)
LEMMA BeginKeeps == ASSUME IInv, FilesAssumption, NEW c \in Callers, Begin(c) PROVE IInv'
<1>1. calls' \in 0 .. MaxCalls /\ UNCHANGED <<system, dir, data>> /\ Kept
  BY DEF Begin, Kept, FilesAssumption, IInv, Typed
<1>2. dir \in [Names -> Entries] /\ data \in [Inodes -> Bytes]
  BY DEF IInv, Typed
<1>3. PICK op \in {"copy", "move", "read", "append", "overwrite", "overwrite_entire"},
           p \in Names, d \in Names, o \in BOOLEAN, t \in Contents \union {<< >>} :
        Goes(c, Begun(c, op, p, d, o, t))
  BY Zenon DEF Begin
<1>4. PICK at \in {"copy", "move", "open_read", "open_write"} : at = FirstPlace(op) /\ (op = "move" => at = "move")
  BY DEF FirstPlace
<1>5. PICK x \in Bytes : x = IF op = "move" /\ path_is_file(p) THEN data[Stat(p).inode] ELSE << >>
  <2>1. path_is_file(p) => data[Stat(p).inode] \in Bytes
    BY <1>2, Leads, EntryKinds DEF path_is_file
  <2>2. << >> \in Bytes
    BY EmptySeq DEF Bytes
  <2> QED BY <2>1, <2>2
<1>6. PICK a \in BOOLEAN : a = (/\ op = "move" /\ path_is_file(p) /\ Stat(p) # Stat(d)
                               /\ \A e \in Callers \ {c} : call[e].at = "done")
  OBVIOUS
<1>7. PICK n : n = [Idle EXCEPT !.op = op, !.path = p, !.dest = d, !.overwrite = o, !.contents = t,
                                !.at = at, !.text = x, !.alone = a]
  OBVIOUS
<1>8. n \in Calls
  <2>1. t \in Bytes
    BY EmptySeq DEF FilesAssumption, Bytes
  <2>2. op \in Ops /\ at \in Places
    BY DEF Ops, Places
  <2> QED BY <1>7, <2>1, <2>2, IdleSensible DEF Calls
<1>9. Idle.pos = 0
  BY DEF Idle
<1>10. n.op = op /\ n.path = p /\ n.dest = d /\ n.at = at /\ n.text = x /\ n.pos = 0
  BY <1>7, <1>9, IdleSensible DEF Calls
<1>11. n.alone = a
  BY <1>7, IdleSensible DEF Calls
<1>12. Goes(c, n)
  BY <1>3, <1>4, <1>5, <1>6, <1>7, Zenon DEF Begun
<1>13. call'[c] = n
  BY <1>8, <1>12, Going DEF IInv, Typed
<1>14. Sensible(n)
  BY <1>4, <1>10 DEF Sensible, FirstPlace
<1>15. ASSUME n.alone PROVE Lossless(n)'
  <2>1. op = "move" /\ path_is_file(p) /\ Stat(p) # Stat(d)
    BY <1>6, <1>11, <1>15
  <2>2. at = "move" /\ Holds(p, x)
    BY <1>4, <1>5, <2>1 DEF Holds
  <2>3. n.at = "move" /\ n.op = "move" /\ Holds(n.path, n.text) /\ Stat(n.path) # Stat(n.dest) /\ n.pos = 0
    BY <1>10, <2>1, <2>2
  <2>4. Holds(n.path, n.text)' /\ (Stat(n.path) # Stat(n.dest))'
    BY <1>1, <2>3, StillWhole
  <2> QED BY <2>3, <2>4 DEF Lossless
<1> QED BY <1>1, <1>2, <1>8, <1>12, <1>13, <1>14, <1>15, Concludes DEF IInv, Typed

(* What is one call of the system.                                         *)
LEMMA OnceKeeps ==
    ASSUME IInv, FilesAssumption, NEW c \in Callers, May(c), Once(c), dir' \in [Names -> Entries]
    PROVE  IInv'
<1>1. calls' \in 0 .. MaxCalls /\ system' = system /\ data' = data
  BY DEF May, Once, FilesAssumption, IInv, Typed
<1>2. PICK n : n = [Idle EXCEPT !.op = "other"]
  OBVIOUS
<1>3. n \in Calls /\ Sensible(n) /\ ~n.alone
  BY <1>2, IdleSensible
<1>4. Goes(c, n)
  BY <1>2, Zenon DEF Once
<1>5. call'[c] = n
  BY <1>3, <1>4, Going DEF IInv, Typed
<1> QED BY <1>1, <1>3, <1>4, <1>5, Concludes DEF IInv, Typed

LEMMA NamesChange ==
    ASSUME IInv, FilesAssumption, NEW c \in Callers, NEW n \in Names, NEW m \in Names,
           \/ path_create_directory(c, n) \/ path_delete_file(c, n) \/ path_delete_directory(c, n)
           \/ path_rename(c, n, m) \/ path_create_hard_link(c, n, m) \/ path_create_symbolic_link(c, n, m)
    PROVE  IInv'
<1>1. dir \in [Names -> Entries] /\ Directory \in Entries /\ Nothing \in Entries /\ Link(n) \in Entries
  BY EntryKinds DEF IInv, Typed, Entries
<1>2. CASE path_create_directory(c, n)
  <2>1. dir' \in [Names -> Entries]
    BY <1>1, <1>2 DEF path_create_directory
  <2> QED BY <1>2, <2>1, OnceKeeps DEF path_create_directory
<1>3. CASE path_delete_file(c, n)
  <2>1. dir' \in [Names -> Entries]
    BY <1>1, <1>3 DEF path_delete_file
  <2> QED BY <1>3, <2>1, OnceKeeps DEF path_delete_file
<1>4. CASE path_delete_directory(c, n)
  <2>1. dir' \in [Names -> Entries]
    BY <1>1, <1>4 DEF path_delete_directory
  <2> QED BY <1>4, <2>1, OnceKeeps DEF path_delete_directory
<1>5. CASE path_rename(c, n, m)
  <2>1. \A x \in Names : (CASE x = m -> dir[n] [] x = n -> Nothing [] OTHER -> dir[x]) \in Entries
    BY <1>1
  <2>2. dir' \in [Names -> Entries]
    BY <1>1, <1>5, <2>1 DEF path_rename
  <2> QED BY <1>5, <2>2, OnceKeeps DEF path_rename
<1>6. CASE path_create_hard_link(c, n, m)
  <2>1. dir' \in [Names -> Entries]
    BY <1>1, <1>6 DEF path_create_hard_link
  <2> QED BY <1>6, <2>1, OnceKeeps DEF path_create_hard_link
<1>7. CASE path_create_symbolic_link(c, n, m)
  <2>1. dir' \in [Names -> Entries]
    BY <1>1, <1>7 DEF path_create_symbolic_link
  <2> QED BY <1>7, <2>1, OnceKeeps DEF path_create_symbolic_link
<1> QED BY <1>2, <1>3, <1>4, <1>5, <1>6, <1>7

LEMMA IInvInit == ASSUME FilesAssumption, Init PROVE IInv
<1>1. Idle \in Calls /\ Sensible(Idle) /\ ~Idle.alone
  BY IdleSensible
<1>2. \A c \in Callers : call[c] = Idle
  BY DEF Init
<1>3. call \in [Callers -> Calls]
  BY <1>1 DEF Init
<1>4. data \in [Inodes -> Bytes]
  <2>1. << >> \in Bytes
    BY EmptySeq DEF Bytes
  <2>2. <<1, 2>> \in Seq(0 .. 2)
    OBVIOUS
  <2>3. PICK s \in Bytes, t \in Bytes : s = << >> /\ t = <<1, 2>>
    BY <2>1, <2>2, Zenon DEF Bytes
  <2>4. data = [i \in Inodes |-> IF i \in Free THEN s ELSE t]
    BY <2>3, Zenon DEF Init
  <2> QED BY <2>4
<1>5. dir \in [Names -> Entries] /\ system \in Systems /\ calls \in 0 .. MaxCalls
  BY DEF Init, FilesAssumption
<1> QED BY <1>1, <1>2, <1>3, <1>4, <1>5 DEF IInv, Typed

LEMMA IInvStays == ASSUME IInv, UNCHANGED vars PROVE IInv'
<1>1. \A n, text : Stat(n)' = Stat(n) /\ Holds(n, text)' = Holds(n, text)
  BY KeptNames DEF vars, Kept
<1>2. \A k : Lossless(k)' <=> Lossless(k)
  BY <1>1 DEF Lossless, vars
<1>3. Typed'
  BY DEF IInv, Typed, vars
<1> QED BY <1>2, <1>3 DEF IInv, vars

LEMMA IInvNext == ASSUME IInv, FilesAssumption, [Next]_vars PROVE IInv'
<1>1. CASE UNCHANGED vars
  BY <1>1, IInvStays
<1>2. ASSUME NEW c \in Callers,
             \/ Begin(c) \/ CheckMove(c) \/ CheckCopy(c) \/ OpenSource(c) \/ OpenDest(c)
             \/ CopyPiece(c) \/ Unlink(c)
      PROVE  IInv'
  BY <1>2, BeginKeeps, CheckMoveKeeps, CheckCopyKeeps, OpenSourceKeeps, OpenDestKeeps, CopyPieceKeeps, UnlinkKeeps
<1>3. ASSUME NEW c \in Callers,
             \/ Check(c) \/ CopyFileW(c) \/ MoveFileExW(c)
             \/ OpenRead(c) \/ Read(c) \/ OpenWrite(c) \/ Write(c)
      PROVE  IInv'
  BY <1>3, CheckKeeps, CopyFileWKeeps, MoveFileExWKeeps, OpenReadKeeps, ReadKeeps, OpenWriteKeeps, WriteKeeps
<1>4. ASSUME NEW c \in Callers, NEW n \in Names, NEW m \in Names,
             \/ path_create_directory(c, n) \/ path_delete_file(c, n) \/ path_delete_directory(c, n)
             \/ path_rename(c, n, m) \/ path_create_hard_link(c, n, m) \/ path_create_symbolic_link(c, n, m)
      PROVE  IInv'
  BY <1>4, NamesChange
<1> QED BY <1>1, <1>2, <1>3, <1>4, Zenon DEF Next

-----------------------------------------------------------------------------
LEMMA IInvHolds == ASSUME FilesAssumption PROVE Spec => []IInv
<1>1. Init => IInv
  BY IInvInit
<1>2. IInv /\ [Next]_vars => IInv'
  BY IInvNext
<1> QED BY <1>1, <1>2, PTL DEF Spec

LEMMA IInvSuffices == ASSUME IInv PROVE TypeOK /\ MoveLosesNothing
<1>1. TypeOK
  BY DEF IInv, Typed, TypeOK, Calls, Bytes
<1>2. ASSUME NEW c \in Callers, call[c].op = "move", call[c].alone
      PROVE  /\ Holds(call[c].path, call[c].text) \/ Holds(call[c].dest, call[c].text)
             /\ (call[c].at = "done" /\ call[c].ok) =>
                    Holds(call[c].dest, call[c].text) /\ dir[call[c].path] = Nothing
  <2>1. PICK k \in Calls : k = call[c] /\ Sensible(k) /\ Lossless(k)
    BY <1>2 DEF IInv, Typed
  <2>2. k.at \in {"done", "move", "copy", "open_from", "open_to", "pieces", "unlink", "system_call"}
    BY <1>2, <2>1 DEF Sensible, Calls, Places
  <2>3. Holds(k.path, k.text) \/ Holds(k.dest, k.text)
    BY <2>1, <2>2 DEF Lossless
  <2>4. k.at = "done" /\ k.ok => Holds(k.dest, k.text) /\ dir[k.path] = Nothing
    BY <2>1 DEF Lossless
  <2> QED BY <2>1, <2>3, <2>4
<1> QED BY <1>1, <1>2 DEF MoveLosesNothing

(* Copies and moves, pieces, unlinks, reads and writes of any number of    *)
(* callers leave names, files and calls what they should be.               *)
THEOREM TypeCorrect == ASSUME FilesAssumption PROVE Spec => []TypeOK
<1>1. IInv => TypeOK
  BY IInvSuffices
<1> QED BY <1>1, IInvHolds, PTL

(* A move that nobody else interferes with, to another file, never loses   *)
(* what it moves, at any of its steps and however one of them fails        *)
(* (path_move of os/posix/path.h and of os/windows/path.h).                *)
THEOREM MoveLosesNothingHolds == ASSUME FilesAssumption PROVE Spec => []MoveLosesNothing
<1>1. IInv => MoveLosesNothing
  BY IInvSuffices
<1> QED BY <1>1, IInvHolds, PTL

-----------------------------------------------------------------------------
(* What one step may write, of a copy or a move told not to overwrite.     *)
WritesOnlyItsOwn(c) ==
    (call[c].op \in {"copy", "move"} /\ ~call[c].overwrite /\ call[c].at # "done" /\ call'[c] # [call[c] EXCEPT !.alone = FALSE])
          => \A i \in Inodes : data'[i] # data[i] => i = call'[c].to /\ call'[c].made

LEMMA OthersDoNot ==
    ASSUME IInv, NEW c \in Callers, NEW d \in Callers \ {c}, NEW new, Goes(d, new)
    PROVE  call'[c] = [call[c] EXCEPT !.alone = FALSE]
  BY DEF Goes

LEMMA GoesTo ==
    ASSUME IInv, NEW c \in Callers, NEW new, Goes(c, new)
    PROVE  call'[c] = new
  BY DEF Goes

LEMMA OpenDestWrites == ASSUME IInv, NEW c \in Callers, OpenDest(c) PROVE WritesOnlyItsOwn(c)
<1>1. PICK k \in Calls : k = call[c] /\ Sensible(k)
  BY DEF IInv, Typed
<1>2. SUFFICES ASSUME ~k.overwrite, NEW i \in Inodes, data'[i] # data[i]
               PROVE  i = call'[c].to /\ call'[c].made
  BY <1>1 DEF WritesOnlyItsOwn
<1>3. PICK name : name = Resolved(k.dest)
  OBVIOUS
<1>4. \/ Kept
      \/ \E j \in Free : /\ data' = [data EXCEPT ![j] = << >>]
                          /\ Goes(c, [k EXCEPT !.at = "pieces", !.to = j, !.made = TRUE])
      \/ k.overwrite
  BY <1>1, <1>3, Zenon DEF OpenDest, Exclusively
<1>5. PICK j \in Free : /\ data' = [data EXCEPT ![j] = << >>]
                       /\ Goes(c, [k EXCEPT !.at = "pieces", !.to = j, !.made = TRUE])
  BY <1>2, <1>4 DEF Kept
<1>6. i = j
  BY <1>2, <1>5 DEF IInv, Typed
<1>7. PICK n : n = [k EXCEPT !.at = "pieces", !.to = j, !.made = TRUE]
  OBVIOUS
<1>8. call'[c] = n
  BY <1>5, <1>7, GoesTo
<1>9. n.to = j /\ n.made
  BY <1>7 DEF Calls
<1> QED BY <1>6, <1>8, <1>9

LEMMA CopyPieceWrites == ASSUME IInv, NEW c \in Callers, CopyPiece(c) PROVE WritesOnlyItsOwn(c)
<1>1. PICK k \in Calls : k = call[c] /\ Sensible(k) /\ k.at = "pieces"
  BY DEF IInv, Typed, CopyPiece, posix, At_
<1>2. SUFFICES ASSUME ~k.overwrite, NEW i \in Inodes, data'[i] # data[i]
               PROVE  i = call'[c].to /\ call'[c].made
  BY <1>1 DEF WritesOnlyItsOwn
<1>3. \/ Kept
      \/ /\ data' = [data EXCEPT ![k.to] = Written(@, k.pos, data[k.from][k.pos + 1])]
         /\ Goes(c, [k EXCEPT !.pos = @ + 1])
  BY <1>1, Zenon DEF CopyPiece
<1>4. i = k.to /\ Goes(c, [k EXCEPT !.pos = @ + 1])
  BY <1>2, <1>3 DEF Kept, IInv, Typed
<1>5. PICK n : n = [k EXCEPT !.pos = @ + 1]
  OBVIOUS
<1>6. call'[c] = n
  BY <1>4, <1>5, GoesTo
<1>7. n.to = k.to /\ n.made = k.made
  BY <1>5 DEF Calls
<1> QED BY <1>1, <1>2, <1>4, <1>6, <1>7 DEF Sensible

LEMMA CopyFileWWrites == ASSUME IInv, NEW c \in Callers, CopyFileW(c) PROVE WritesOnlyItsOwn(c)
<1>1. PICK k \in Calls : k = call[c] /\ Sensible(k) /\ k.at = "system_call" /\ k.op = "copy"
  BY DEF IInv, Typed, CopyFileW, windows, At_
<1>2. SUFFICES ASSUME ~k.overwrite, NEW i \in Inodes, data'[i] # data[i]
               PROVE  i = call'[c].to /\ call'[c].made
  BY <1>1 DEF WritesOnlyItsOwn
<1>3. \/ Kept
      \/ \E j \in Free : /\ data' = [data EXCEPT ![j] = data[Stat(k.path).inode]]
                          /\ Goes(c, [Done([k EXCEPT !.to = j, !.made = TRUE]) EXCEPT !.ok = TRUE])
      \/ k.overwrite
  BY <1>1, Zenon DEF CopyFileW
<1>4. PICK j \in Free : /\ data' = [data EXCEPT ![j] = data[Stat(k.path).inode]]
                       /\ Goes(c, [Done([k EXCEPT !.to = j, !.made = TRUE]) EXCEPT !.ok = TRUE])
  BY <1>2, <1>3 DEF Kept
<1>5. i = j /\ j \in Inodes
  BY <1>2, <1>4 DEF IInv, Typed, Free
<1>6. PICK m : m = [k EXCEPT !.to = j, !.made = TRUE]
  OBVIOUS
<1>7. m \in Calls
  BY <1>5, <1>6 DEF Calls
<1>8. m.at = k.at /\ m.op = k.op /\ m.path = k.path /\ m.dest = k.dest /\ m.to = j
  BY <1>6 DEF Calls
<1>9. m.made = TRUE
  BY <1>6 DEF Calls
<1>10. Sensible(m)
  BY <1>1, <1>8 DEF Sensible
<1>11. PICK n : n = EndOf(m, TRUE)
  OBVIOUS
<1>12. n.to = m.to /\ n.made = m.made
  <2>1. m.at # "done"
    BY <1>1, <1>8
  <2>2. n.to = m.to
    BY <1>7, <1>10, <1>11, <2>1, Ended
  <2>3. n.made = m.made
    BY <1>7, <1>10, <1>11, <2>1, Ended
  <2> QED BY <2>2, <2>3
<1>13. call'[c] = n
  BY <1>4, <1>6, <1>11, GoesTo, Zenon DEF EndOf
<1> QED BY <1>5, <1>8, <1>9, <1>12, <1>13

LEMMA StepWrites == ASSUME IInv, [Next]_vars PROVE \A c \in Callers : WritesOnlyItsOwn(c)
<1> SUFFICES ASSUME NEW c \in Callers PROVE WritesOnlyItsOwn(c)
  OBVIOUS
<1>1. data' = data => WritesOnlyItsOwn(c)
  BY DEF WritesOnlyItsOwn
<1>2. ASSUME NEW d \in Callers \ {c}, NEW new, Goes(d, new) PROVE WritesOnlyItsOwn(c)
  BY <1>2, OthersDoNot DEF WritesOnlyItsOwn
<1>3. CASE UNCHANGED vars
  BY <1>1, <1>3 DEF vars
<1>4. ASSUME NEW d \in Callers,
             \/ Begin(d) \/ CheckMove(d) \/ CheckCopy(d) \/ OpenSource(d) \/ Unlink(d) \/ Check(d)
             \/ MoveFileExW(d) \/ OpenRead(d) \/ Read(d)
      PROVE  WritesOnlyItsOwn(c)
  <2>1. data' = data
    BY <1>4, Zenon DEF Begin, CheckMove, CheckCopy, OpenSource, Unlink, Check, MoveFileExW, OpenRead, Read, Kept
  <2> QED BY <1>1, <2>1
<1>5. ASSUME NEW d \in Callers, OpenDest(d) \/ CopyPiece(d) \/ CopyFileW(d) PROVE WritesOnlyItsOwn(c)
  <2>1. CASE d = c
    BY <1>5, <2>1, OpenDestWrites, CopyPieceWrites, CopyFileWWrites
  <2>2. CASE d # c
    <3>1. \E new : Goes(d, new)
      BY <1>5, Zenon DEF OpenDest, CopyPiece, CopyFileW, Ends, To
    <3> QED BY <1>2, <2>2, <3>1
  <2> QED BY <2>1, <2>2
<1>6. ASSUME NEW d \in Callers, OpenWrite(d) \/ Write(d) PROVE WritesOnlyItsOwn(c)
  <2>1. CASE d = c
    <3>1. PICK k \in Calls : k = call[c] /\ Sensible(k)
      BY DEF IInv, Typed
    <3>2. k.at \in {"open_write", "write"}
      BY <1>6, <2>1, <3>1 DEF OpenWrite, Write, At_
    <3>3. k.op \notin {"copy", "move"}
      BY <3>1, <3>2 DEF Sensible
    <3> QED BY <3>1, <3>3 DEF WritesOnlyItsOwn
  <2>2. CASE d # c
    <3>1. \E new : Goes(d, new)
      BY <1>6, Zenon DEF OpenWrite, Write, Ends
    <3> QED BY <1>2, <2>2, <3>1
  <2> QED BY <2>1, <2>2
<1>7. ASSUME NEW d \in Callers, Once(d) PROVE WritesOnlyItsOwn(c)
  BY <1>1, <1>7 DEF Once
<1>8. CASE Next
  <2>1. PICK d \in Callers :
          \/ Begin(d) \/ CheckMove(d) \/ CheckCopy(d) \/ OpenSource(d) \/ OpenDest(d) \/ CopyPiece(d) \/ Unlink(d)
          \/ Check(d) \/ CopyFileW(d) \/ MoveFileExW(d)
          \/ OpenRead(d) \/ Read(d) \/ OpenWrite(d) \/ Write(d) \/ Once(d)
    BY <1>8, Zenon DEF Next, path_create_directory, path_delete_file, path_delete_directory, path_rename,
                       path_create_hard_link, path_create_symbolic_link
  <2> QED BY <1>4, <1>5, <1>6, <1>7, <2>1
<1> QED BY <1>3, <1>8

(* A copy or a move told not to overwrite writes only into a file it made  *)
(* itself, whatever others do between its check and its open (copy_file of *)
(* os/posix/path.h, path_copy of os/windows/path.h).                       *)
THEOREM OverwritesNothingHolds == ASSUME FilesAssumption PROVE Spec => OverwritesNothing
<1>1. IInv /\ [Next]_vars => [\A c \in Callers : WritesOnlyItsOwn(c)]_vars
  BY StepWrites
<1>2. OverwritesNothing <=> [][\A c \in Callers : WritesOnlyItsOwn(c)]_vars
  BY DEF OverwritesNothing, WritesOnlyItsOwn
<1> QED BY <1>1, <1>2, IInvHolds, PTL DEF Spec
=============================================================================
