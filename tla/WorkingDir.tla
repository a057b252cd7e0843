------------------------------ MODULE WorkingDir -----------------------------
(***************************************************************************)
(* os_get_working_dir and os_set_working_dir (posix/common.h,              *)
(* windows/common.h): the process has one current directory, the library   *)
(* caches it as a string under a mutex.  The system is asked before the    *)
(* mutex is taken, and what is returned is the cached string itself.       *)
(***************************************************************************)
EXTENDS Integers, FiniteSets

CONSTANTS
    Threads,
    Platforms,      \* which of "windows" and "posix" to look at
    Dirs,           \* directories
    Length,         \* of each directory: length of its name
    Strings,        \* blocks of persistent memory a string can be in
    Null,           \* S->WorkingDir before the first call
    Garbage,        \* what an unfilled buffer holds
    MaxCalls        \* bound on the calls of a thread

WorkingDirAssumption ==
    /\ Platforms \subseteq {"windows", "posix"}
    /\ Length \in [Dirs -> Nat] /\ MaxCalls \in Nat
    /\ Null \notin Strings \cup Threads \cup Dirs \cup {Garbage}
    /\ Garbage \notin Dirs

VARIABLES
    platform,
    cwd,            \* the current directory of the process
    text,           \* of each block: the directory it spells, Null if free
    WorkingDir,     \* S->WorkingDir: a block or Null
    WorkingDirMutex,\* the thread that holds it, or Null
    pc,             \* of each thread: "idle", "size", "read", "lock", "store",
                    \* "set"
    required,       \* of each thread: the size it asked for on Windows
    dir,            \* of each thread: what it read, or is about to cache
    result,         \* of each thread: the string its last get returned
    since,          \* of each thread: the directories current since its call
    calls           \* of each thread: its calls so far

vars == <<platform, cwd, text, WorkingDir, WorkingDirMutex, pc, required, dir,
          result, since, calls>>

Init == /\ platform \in Platforms
        /\ cwd \in Dirs
        /\ text = [s \in Strings |-> Null]
        /\ WorkingDir = Null /\ WorkingDirMutex = Null
        /\ pc = [t \in Threads |-> "idle"]
        /\ required = [t \in Threads |-> 0]
        /\ dir = [t \in Threads |-> cwd]
        /\ result = [t \in Threads |-> Null]
        /\ since = [t \in Threads |-> {}]
        /\ calls = [t \in Threads |-> 0]

At(t, here, there) == pc[t] = here /\ pc' = [pc EXCEPT ![t] = there]

(* free does nothing to a string that has no memory.                       *)
Freed(mem, s) == IF s = Null THEN mem ELSE [mem EXCEPT ![s] = Null]

Locked(t) == WorkingDirMutex = Null /\ WorkingDirMutex' = t
Unlocked == WorkingDirMutex' = Null

-----------------------------------------------------------------------------
(* The caller is done with what it got and calls again.                    *)
Get(t) ==
    /\ calls[t] < MaxCalls
    /\ At(t, "idle", IF platform = "windows" THEN "size" ELSE "read")
    /\ calls' = [calls EXCEPT ![t] = @ + 1]
    /\ result' = [result EXCEPT ![t] = Null]
    /\ since' = [since EXCEPT ![t] = {cwd}]
    /\ UNCHANGED <<platform, cwd, text, WorkingDir, WorkingDirMutex, required, dir>>

(* GetCurrentDirectoryW(0, null): room for the name and its terminator.    *)
GetSize(t) ==
    /\ At(t, "size", "read")
    /\ required' = [required EXCEPT ![t] = Length[cwd] + 1]
    /\ UNCHANGED <<platform, cwd, text, WorkingDir, WorkingDirMutex, dir, result,
                   since, calls>>

(* getcwd; on Windows a name that does not fit leaves the buffer as it was *)
(* and answers the size it needs, which is not zero and taken for success. *)
GetReadsCache(t) ==                 \* mutant: the cache instead of the system
    /\ At(t, "read", "lock")
    /\ dir' = [dir EXCEPT ![t] =
                  IF WorkingDir = Null THEN cwd ELSE text[WorkingDir]]
    /\ UNCHANGED <<platform, cwd, text, WorkingDir, WorkingDirMutex, required,
                   result, since, calls>>

GetRead(t) ==
    /\ At(t, "read", "lock")
    /\ dir' = [dir EXCEPT ![t] =
                  IF platform = "windows" /\ Length[cwd] + 1 > required[t] + 1
                  THEN Garbage ELSE cwd]
    /\ UNCHANGED <<platform, cwd, text, WorkingDir, WorkingDirMutex, required,
                   result, since, calls>>

(* With the mutex: the cached string is freed, ...                         *)
GetFree(t) ==
    /\ At(t, "lock", "store") /\ Locked(t)
    /\ text' = Freed(text, WorkingDir)
    /\ UNCHANGED <<platform, cwd, WorkingDir, required, dir, result, since, calls>>

(* ... a new one cached, and handed out.                                   *)
GetStore(t) ==
    /\ At(t, "store", "idle") /\ Unlocked
    /\ \E s \in Strings :
          /\ text[s] = Null
          /\ text' = [text EXCEPT ![s] = dir[t]]
          /\ WorkingDir' = s
          /\ result' = [result EXCEPT ![t] = s]
    /\ UNCHANGED <<platform, cwd, required, dir, since, calls>>

(* chdir, and then the cache: what was cached is not freed.                *)
Set(t, d) ==
    /\ calls[t] < MaxCalls
    /\ At(t, "idle", "set")
    /\ cwd' = d
    /\ dir' = [dir EXCEPT ![t] = d]
    /\ since' = [u \in Threads |-> IF pc[u] = "idle" THEN since[u]
                                   ELSE since[u] \cup {d}]
    /\ calls' = [calls EXCEPT ![t] = @ + 1]
    /\ result' = [result EXCEPT ![t] = Null]
    /\ UNCHANGED <<platform, text, WorkingDir, WorkingDirMutex, required>>

(* The system refuses, say because there is no such directory: posix gives *)
(* up, Windows reports it and caches the name all the same.                *)
SetRefused(t, d) ==
    /\ calls[t] < MaxCalls
    /\ At(t, "idle", IF platform = "windows" THEN "set" ELSE "idle")
    /\ dir' = [dir EXCEPT ![t] = d]
    /\ calls' = [calls EXCEPT ![t] = @ + 1]
    /\ result' = [result EXCEPT ![t] = Null]
    /\ UNCHANGED <<platform, cwd, text, WorkingDir, WorkingDirMutex, required, since>>

SetStore(t) ==
    /\ At(t, "set", "idle") /\ WorkingDirMutex = Null
    /\ \E s \in Strings :
          /\ text[s] = Null
          /\ text' = [text EXCEPT ![s] = dir[t]]
          /\ WorkingDir' = s
    /\ UNCHANGED <<platform, cwd, WorkingDirMutex, required, dir, result, since, calls>>

Next == \E t \in Threads :
    \/ Get(t) \/ GetSize(t) \/ GetRead(t) \/ GetFree(t) \/ GetStore(t)
    \/ \E d \in Dirs : Set(t, d) \/ SetRefused(t, d)
    \/ SetStore(t)

Spec == Init /\ [][Next]_vars

-----------------------------------------------------------------------------
TypeOK ==
    /\ platform \in Platforms /\ cwd \in Dirs
    /\ text \in [Strings -> Dirs \cup {Null, Garbage}]
    /\ WorkingDir \in Strings \cup {Null}
    /\ WorkingDirMutex \in Threads \cup {Null}
    /\ pc \in [Threads -> {"idle", "size", "read", "lock", "store", "set"}]
    /\ required \in [Threads -> Nat]
    /\ dir \in [Threads -> Dirs \cup {Garbage}]
    /\ result \in [Threads -> Strings \cup {Null}]
    /\ since \in [Threads -> SUBSET Dirs]

(* "[Thread Safe] ... we use a lock so ours are": what a get answers was   *)
(* the current directory at some moment of the call.  Windows falls short  *)
(* of it where a longer name came in between the size and the name: the    *)
(* answer is what the buffer held before.                                  *)
GetAnswersCwd ==
    \A t \in Threads :
        pc[t] \in {"lock", "store"} =>
            \/ dir[t] \in since[t]
            \/ /\ platform = "windows" /\ dir[t] = Garbage
               /\ \E d, e \in since[t] : Length[d] < Length[e]

(* Outside of the mutex the cache is a live string, so the next call frees *)
(* it once and nobody frees it twice.                                      *)
CacheIsLive ==
    WorkingDirMutex = Null /\ WorkingDir # Null => text[WorkingDir] # Null

(* A get answers a directory that was current during the call, but for a   *)
(* buffer too small on Windows, and the cached directory is live memory    *)
(* whenever the mutex is free.                                             *)
DirectoryIsCurrent == GetAnswersCwd /\ CacheIsLive

(* "Don't free the result of this function, not a leak": the library looks *)
(* after the string, every live one is the cached one.  Not kept by set.   *)
NothingLost ==
    \A s \in Strings : text[s] # Null => s = WorkingDir

(* A thread that uses what its call returned, until its own next call,     *)
(* still finds it there, whatever other threads call in the meantime.  Not *)
(* kept: their gets free it.                                               *)
ResultStays ==
    [][\A t \in Threads :
          pc[t] = "idle" /\ pc'[t] = "idle" /\ result[t] # Null
              => text'[result[t]] = text[result[t]]]_vars
=============================================================================
