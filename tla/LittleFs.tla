------------------------------ MODULE LittleFs ------------------------------
(***************************************************************************)
(* The file system objects of a sketch: VFSFILE (libraries/FS), which      *)
(* hands every call to an FS_LITTLEFS (libraries/LittleFS), which hands it *)
(* to the flash file system.                                               *)
(*                                                                         *)
(* A path is the sequence of its names.  Making a directory is done in the *)
(* steps of createDirRecursive(), one call of the flash file system each,  *)
(* because power may fail between any two; what is on flash survives that, *)
(* the objects and what was written to a file and not flushed do not.      *)
(***************************************************************************)
LOCAL INSTANCE Naturals
LOCAL INSTANCE Sequences

CONSTANTS
  Path,      \* the paths in use, with those of their parents
  Object,    \* VFSFILE variables of the sketch
  MaxLen     \* bound: bytes of a file

VARIABLES
  object,    \* per VFSFILE: "unmade" (no impl), "unmounted" or "mounted"
  formatted, \* there is a file system on the flash that can be mounted
  tree,      \* what is on flash at each path: "none", "dir" or "file"
  content,   \* bytes of each file on flash
  handle,    \* the sketch's open file: its path, or <<>>
  size,      \* what it would hold with all that was written through it
  making,    \* the createDirRecursive() under way: target, depth of the call, ...
  promised,  \* per path: what the library has told the sketch is there
  lossy      \* paths whose file has been through a flush() that failed

fsVars == <<object, formatted, tree, content, handle, size, making, promised, lossy>>

Idle == [target |-> <<>>, depth |-> 0, again |-> FALSE]
Nothing == [p \in Path |-> "none"]
Empty == [p \in Path |-> 0]
(* Nothing, its existence, or its existence and so many bytes.              *)
NoPromise == [p \in Path |-> [there |-> FALSE, bytes |-> 0]]

Parent(p) == SubSeq(p, 1, Len(p) - 1)
Kind(p) == IF p = <<>> THEN "dir" ELSE tree[p]
Above(p) == {SubSeq(p, 1, n) : n \in 0 .. Len(p) - 1}

Init ==
  /\ object = [o \in Object |-> "unmade"]
  /\ formatted \in BOOLEAN
  /\ tree = Nothing /\ content = Empty
  /\ handle = <<>> /\ size = 0
  /\ making = Idle
  /\ promised = NoPromise /\ lossy = {}

-----------------------------------------------------------------------------
(* mount(): a mount that fails, for whatever reason, formats the flash and  *)
(* tries once more.  A file that is open is taken to stay so.               *)
Mount(o) ==
  \/ /\ formatted
     /\ object' = [object EXCEPT ![o] = "mounted"]
     /\ UNCHANGED <<formatted, tree, content, promised, lossy>>
  \/ \E again \in BOOLEAN :
       /\ formatted' = again
       /\ object' = [object EXCEPT ![o] = IF again THEN "mounted" ELSE "unmounted"]
       /\ tree' = Nothing /\ content' = Empty
       /\ promised' = NoPromise /\ lossy' = {}

(* VFSFILE(LITTLEFS) makes an FS_LITTLEFS, whose constructor mounts.  Any   *)
(* other type has none, and stays as if it were not made (but FATFS, which  *)
(* leaves the pointer undefined).                                           *)
Construct(o) ==
  /\ object[o] = "unmade" /\ making = Idle
  /\ Mount(o)
  /\ UNCHANGED <<handle, size, making>>

(* Every call of VFSFILE asks whether there is an impl, and every call of   *)
(* FS_LITTLEFS whether it is mounted; if not they answer -1 and do nothing. *)
(* The calls that only ask the flash file system change nothing here.       *)
HasImpl(o) == object[o] # "unmade"
Reaches(o) == HasImpl(o) /\ object[o] = "mounted" /\ making = Idle

(* The calls with a handle also ask whether it is one.  What a handle does  *)
(* whose file was formatted away is not defined.                            *)
ReachesFile(o) == Reaches(o) /\ handle # <<>> /\ formatted /\ tree[handle] = "file"

-----------------------------------------------------------------------------
(* What tal_fs_mkdir() may answer for a path. *)
MkdirAnswers(p) ==
  IF ~ formatted THEN {"error"}
  ELSE IF Kind(p) # "none" THEN {"exist"}
  ELSE IF Kind(Parent(p)) = "dir" THEN {"ok", "error"}
  ELSE IF \E q \in Above(p) : Kind(q) = "file" THEN {"error"}
  ELSE {"noent"}

Mkdir(o, p) ==
  /\ Reaches(o)
  /\ making' = [target |-> p, depth |-> Len(p), again |-> FALSE]
  /\ UNCHANGED <<object, formatted, tree, content, handle, size, promised, lossy>>

(* Mutant of ReturnsDone: the parents are made, the directory itself is not *)
(* tried again.                                                             *)
ReturnsDoneEarly(depth) ==
  /\ making' = Idle
  /\ promised' = [promised EXCEPT ![making.target].there = TRUE]

(* Mutant of ReturnsDone: the outermost call goes on as if it had a caller. *)
ReturnsDonePast(depth) ==
  /\ making' = [making EXCEPT !.depth = depth + 1, !.again = TRUE]
  /\ promised' = [promised EXCEPT ![making.target].there = (@ \/ depth = Len(making.target))]

(* A call of createDirRecursive() returns 0: its caller, if there is one,   *)
(* tries its own directory once more.                                       *)
ReturnsDone(depth) ==
  IF depth = Len(making.target)
    THEN /\ making' = Idle
         /\ promised' = [promised EXCEPT ![making.target].there = TRUE]
    ELSE /\ making' = [making EXCEPT !.depth = depth + 1, !.again = TRUE]
         /\ UNCHANGED promised

(* A call returns an error, and so do all that wait for it. *)
ReturnsFailed == making' = Idle /\ UNCHANGED promised

(* One call of tal_fs_mkdir() and what follows it.  The first try of a call *)
(* takes an existing directory for success and makes the parents of one     *)
(* that misses them; the second returns what it gets.  When the copy of the *)
(* path cannot be had strrchr() is called on NULL: if that finds a slash    *)
(* there the program stops (Restart), else -1 is returned.                  *)
MkdirStep ==
  /\ making # Idle
  /\ LET d == making.depth
         p == SubSeq(making.target, 1, d)
     IN \E answer \in MkdirAnswers(p) :
          /\ tree' = IF answer = "ok" THEN [tree EXCEPT ![p] = "dir"] ELSE tree
          /\ \/ answer = "ok" /\ ReturnsDone(d)
             \/ answer = "exist" /\ ~ making.again /\ ReturnsDone(d)
             \/ /\ answer = "noent" /\ ~ making.again
                /\ making' = [making EXCEPT !.depth = d - 1]
                /\ UNCHANGED promised
             \/ (answer = "error" \/ answer = "noent") /\ ReturnsFailed
  /\ UNCHANGED <<object, formatted, content, handle, size, lossy>>

-----------------------------------------------------------------------------
(* A file, or a directory without anything in it, can be removed. *)
Remove(o, p) ==
  /\ Reaches(o) /\ formatted /\ handle # p
  /\ tree[p] # "none" /\ \A q \in Path : tree[q] # "none" => p \notin Above(q)
  /\ tree' = [tree EXCEPT ![p] = "none"]
  /\ content' = [content EXCEPT ![p] = 0]
  /\ promised' = [promised EXCEPT ![p] = [there |-> FALSE, bytes |-> 0]]
  /\ lossy' = lossy \ {p}
  /\ UNCHANGED <<object, formatted, handle, size, making>>

(* rename(), here of a file, to a name that is free. *)
Rename(o, p, q) ==
  /\ Reaches(o) /\ formatted /\ handle \notin {p, q}
  /\ tree[p] = "file" /\ tree[q] = "none" /\ Kind(Parent(q)) = "dir"
  /\ tree' = [tree EXCEPT ![p] = "none", ![q] = "file"]
  /\ content' = [content EXCEPT ![p] = 0, ![q] = content[p]]
  /\ promised' = [promised EXCEPT ![p] = [there |-> FALSE, bytes |-> 0], ![q] = promised[p]]
  /\ lossy' = {IF r = p THEN q ELSE r : r \in lossy}
  /\ UNCHANGED <<object, formatted, handle, size, making>>

(* open() and openDir() through an object that is not mounted mount first,  *)
(* and so may format.  A file that is closed is opened or made.             *)
MountFirst(o) ==
  /\ HasImpl(o) /\ object[o] = "unmounted" /\ making = Idle
  /\ Mount(o)
  /\ UNCHANGED <<handle, size, making>>

Open(o, p) ==
  /\ Reaches(o) /\ formatted /\ handle = <<>>
  /\ Kind(Parent(p)) = "dir" /\ tree[p] # "dir"
  /\ tree' = [tree EXCEPT ![p] = "file"]
  /\ handle' = p /\ size' = content[p]
  /\ promised' = [promised EXCEPT ![p].there = TRUE]
  /\ UNCHANGED <<object, formatted, content, making, lossy>>

Write(o) ==
  /\ ReachesFile(o) /\ size < MaxLen
  /\ size' = size + 1
  /\ UNCHANGED <<object, formatted, tree, content, handle, making, promised, lossy>>

(* All of what was written is on flash, or some: what a file loses by a     *)
(* failed flush the flash file system may leave out for good.               *)
SaveAll == content' = [content EXCEPT ![handle] = size]
SaveSome ==
  \E n \in content[handle] .. size : content' = [content EXCEPT ![handle] = n]

(* flush() answers nothing: that tal_fflush() or tal_fsync() failed it does *)
(* not look at.                                                             *)
Flush(o) ==
  /\ ReachesFile(o)
  /\ \/ SaveAll /\ UNCHANGED lossy
     \/ SaveSome /\ lossy' = lossy \cup {handle}
  /\ UNCHANGED <<object, formatted, tree, handle, size, making, promised>>

(* close() answers what tal_fclose() does, which after a failed flush is no *)
(* word about what that lost.                                               *)
Close(o) ==
  /\ ReachesFile(o)
  /\ \/ /\ \/ SaveAll /\ lossy' = lossy \ {handle}
           \/ handle \in lossy /\ SaveSome /\ UNCHANGED lossy
        /\ promised' = [promised EXCEPT ![handle] = [there |-> TRUE, bytes |-> size]]
     \/ SaveSome /\ UNCHANGED <<lossy, promised>>
  /\ handle' = <<>> /\ size' = 0
  /\ UNCHANGED <<object, formatted, tree, making>>

(* The power fails, or the program stops. *)
Restart ==
  /\ \E o \in Object : object[o] # "unmade"
  /\ object' = [o \in Object |-> "unmade"]
  /\ handle' = <<>> /\ size' = 0 /\ making' = Idle
  /\ UNCHANGED <<formatted, tree, content, promised, lossy>>

Next ==
  \/ \E o \in Object :
       \/ Construct(o) \/ MountFirst(o)
       \/ Write(o) \/ Flush(o) \/ Close(o)
       \/ \E p \in Path : Mkdir(o, p) \/ Remove(o, p) \/ Open(o, p)
       \/ \E p, q \in Path : Rename(o, p, q)
  \/ MkdirStep
  \/ Restart

-----------------------------------------------------------------------------
TypeOK ==
  /\ object \in [Object -> {"unmade", "unmounted", "mounted"}]
  /\ formatted \in BOOLEAN
  /\ tree \in [Path -> {"none", "dir", "file"}]
  /\ content \in [Path -> 0 .. MaxLen]
  /\ handle \in Path \cup {<<>>} /\ size \in 0 .. MaxLen
  /\ making.target \in Path \cup {<<>>} /\ making.again \in BOOLEAN
  /\ making.depth \in 0 .. Len(making.target)
  /\ promised \in [Path -> [there : BOOLEAN, bytes : 0 .. MaxLen]] /\ lossy \subseteq Path

(* What the library has told the sketch is there, is there: a directory     *)
(* whose mkdir() returned 0, a file that was opened, all that was written   *)
(* to a file whose close() returned 0.  That outlives any restart, a        *)
(* mkdir() that was cut short or failed in the middle of its recursion, and *)
(* an object that could not mount.  Only a failed mount, which formats,     *)
(* takes it back; and what close() says of a file is worth nothing after a  *)
(* flush() of it that failed, which nobody is told.                         *)
PromiseKept ==
  \A p \in Path : /\ promised[p].there => tree[p] # "none"
                  /\ p \notin lossy => promised[p].bytes <= content[p]

(* The recursion of mkdir() ends. *)
MkdirReturns == making # Idle ~> making = Idle
=============================================================================
