---------------------------- MODULE SharedStorage ----------------------------
(***************************************************************************)
(* The file browser of the volume every application shares.  A request     *)
(* looks at a path, and acts on it with another system call: meanwhile     *)
(* other requests, and the applications, change the tree.  What a file     *)
(* holds is left out: a write keeps the file it is made to.  So are        *)
(* symbolic links, and the storage that is not mounted.                    *)
(***************************************************************************)
EXTENDS Naturals, Sequences, FiniteSets, SequencesExt, FiniteSetsExt

CONSTANTS
  MaxName,        \* names are numbers, in the order they are listed in (bound)
  Protected,      \* the names of the protected folders
  MaxFile,        \* files are numbers (bound); file f has f bytes
  Browsers        \* requests that can be in flight

NamesAssumption ==
  /\ MaxName \in Nat /\ MaxFile \in Nat \ {0}
  /\ Protected \subseteq 1 .. MaxName /\ Protected # {}

EntryNames == 1 .. MaxName
Files == 1 .. MaxFile
\* Relative paths; at most two levels (bound).  The root is <<>>.
Paths == {<<n>> : n \in EntryNames} \cup (EntryNames \X EntryNames)
Missing == 0
Dir == MaxFile + 1

VARIABLES
  tree,     \* what is at each path
  unmade,   \* the files that nothing created yet
  browsing  \* what each request found, and is about to do

storageVars == <<tree, unmade, browsing>>

Idle == [op |-> "idle"]

Parent(p) == Front(p)
Named(p, n) == Append(Front(p), n)
At(p) == IF p = <<>> THEN Dir ELSE tree[p]
IsDir(p) == At(p) = Dir
Exists(p) == At(p) # Missing
Children(p) == {c \in Paths : Len(c) = Len(p) + 1 /\ Parent(c) = p /\ Exists(c)}
Writable(p) == IsDir(Parent(p))

\* The protected folders are there, and some files of the applications.
Init ==
  /\ \E used \in SUBSET {<<<<Min(Protected), 1>>, 1>>} :
       tree = [p \in Paths |-> IF p \in {<<n>> : n \in Protected} THEN Dir
                              ELSE IF <<p, 1>> \in used THEN 1 ELSE Missing]
  /\ unmade = Files \ {tree[p] : p \in Paths}
  /\ browsing = [b \in Browsers |-> Idle]

Found(b, r) ==
  /\ browsing[b] = Idle
  /\ browsing' = [browsing EXCEPT ![b] = r]
  /\ UNCHANGED <<tree, unmade>>

Answer(b) == browsing' = [browsing EXCEPT ![b] = Idle]

-----------------------------------------------------------------------------
(* Reading: the entries of a folder, folders first; and what every folder  *)
(* holds in bytes, files and folders, the largest entry first.             *)

\* validate_path: the path resolves below the root.
ValidatePath(p) == p = <<>> \/ (p \in Paths /\ Exists(p))

FileInfo(p) == [path |-> p, type |-> IF IsDir(p) THEN "directory" ELSE "file",
                size |-> IF IsDir(p) THEN 0 ELSE At(p)]

BrowseDirectory(p) ==
  LET before(a, b) == IF IsDir(a) = IsDir(b) THEN Last(a) <= Last(b) ELSE IsDir(a)
      entries == SetToSortSeq(Children(p), before)
  IN IF ~ValidatePath(p) THEN [error |-> "not found"]
     ELSE IF ~IsDir(p) THEN [error |-> "not a directory"]
     ELSE [path |-> p, items |-> [k \in DOMAIN entries |-> FileInfo(entries[k])]]

SizeOf(p) ==
  SumSet({tree[f] : f \in {g \in Paths : tree[g] \in Files /\ IsPrefix(p, g)}})

UsageTree(p) ==
  LET before(a, b) == SizeOf(a) > SizeOf(b) \/ (SizeOf(a) = SizeOf(b) /\ Last(a) <= Last(b))
  IN [size |-> SizeOf(p), children |-> SetToSortSeq(Children(p), before)]

StorageUsage ==
  [root |-> UsageTree(<<>>), total_size |-> SizeOf(<<>>),
   total_files |-> Cardinality({p \in Paths : tree[p] \in Files}),
   total_directories |-> 1 + Cardinality({p \in Paths : tree[p] = Dir})]

\* download_file and read_text_file: a file, that is not too large to edit.
Readable(p, limit) == ValidatePath(p) /\ ~IsDir(p) /\ SizeOf(p) <= limit

-----------------------------------------------------------------------------
(* mkdir: refused when something is there; then creates the parents too.   *)
CheckCreate(b, p) ==
  /\ ~Exists(p)
  /\ Found(b, [op |-> "mkdir", path |-> p])

CreateDirectory(b) ==
  /\ browsing[b].op = "mkdir"
  /\ LET p == browsing[b].path
         above == {q \in Paths : IsPrefix(q, p)}
     IN tree' = IF \E q \in above : tree[q] \in Files THEN tree
                ELSE [q \in Paths |-> IF q \in above THEN Dir ELSE tree[q]]
  /\ Answer(b)
  /\ UNCHANGED unmade

(* delete: a file, or a folder that is empty and not protected.            *)
CheckDelete(b, p) ==
  /\ Exists(p)
  /\ ~(Len(p) = 1 /\ p[1] \in Protected)
  /\ IsDir(p) => Children(p) = {}
  /\ Found(b, [op |-> IF IsDir(p) THEN "remove_dir" ELSE "remove_file", path |-> p])

Without(p) == [q \in Paths |-> IF IsPrefix(p, q) THEN Missing ELSE tree[q]]

\* Mutant of the next: the folder is removed with what is in it.
RemoveDirAll(b) ==
  /\ browsing[b].op = "remove_dir"
  /\ tree' = IF IsDir(browsing[b].path) THEN Without(browsing[b].path) ELSE tree
  /\ Answer(b)
  /\ UNCHANGED unmade

RemoveDir(b) ==
  /\ browsing[b].op = "remove_dir"
  /\ LET p == browsing[b].path
     IN tree' = IF IsDir(p) /\ Children(p) = {} THEN Without(p) ELSE tree
  /\ Answer(b)
  /\ UNCHANGED unmade

RemoveFile(b) ==
  /\ browsing[b].op = "remove_file"
  /\ LET p == browsing[b].path IN tree' = IF At(p) \in Files THEN Without(p) ELSE tree
  /\ Answer(b)
  /\ UNCHANGED unmade

(* rename: to a name nothing in the folder has; the system call replaces a *)
(* file by a file, and an empty folder by a folder, that came in between.  *)
\* Mutant of the next: the name is not looked up.
CheckRenameSource(b, p, n) ==
  /\ Exists(p)
  /\ Found(b, [op |-> "rename", path |-> p, to |-> Named(p, n), free |-> ~Exists(Named(p, n))])

CheckRename(b, p, n) ==
  /\ Exists(p)
  /\ ~Exists(Named(p, n))
  /\ Found(b, [op |-> "rename", path |-> p, to |-> Named(p, n), free |-> TRUE])

\* Where what is at q after p is renamed was before.
Before(q, p, to) == p \o SubSeq(q, Len(to) + 1, Len(q))

Replaces(p, to) ==
  \/ At(to) = Missing /\ Writable(to)
  \/ At(to) \in Files /\ At(p) \in Files
  \/ IsDir(to) /\ IsDir(p) /\ Children(to) = {}

RenamePath(b) ==
  /\ browsing[b].op = "rename"
  /\ LET p == browsing[b].path
         to == browsing[b].to
     IN tree' = IF p = to \/ ~Exists(p) \/ ~Replaces(p, to) THEN tree
                ELSE [q \in Paths |-> IF IsPrefix(to, q) THEN At(Before(q, p, to))
                                      ELSE IF IsPrefix(p, q) THEN Missing
                                      ELSE tree[q]]
  /\ Answer(b)
  /\ UNCHANGED unmade

(* write: to a file that is there; the system call creates one that was    *)
(* deleted in between.                                                     *)
CheckWrite(b, p) ==
  /\ Exists(p) /\ ~IsDir(p)
  /\ Found(b, [op |-> "write", path |-> p])

Create(p) ==
  \E f \in unmade : tree' = [tree EXCEPT ![p] = f] /\ unmade' = unmade \ {f}

WriteTextFile(b) ==
  /\ browsing[b].op = "write"
  /\ LET p == browsing[b].path
     IN IF Exists(p) \/ ~Writable(p) THEN UNCHANGED <<tree, unmade>> ELSE Create(p)
  /\ Answer(b)

\* An application adds a file to the volume.
AppCreates(p) ==
  /\ Writable(p) /\ ~Exists(p)
  /\ Create(p)
  /\ UNCHANGED browsing

Next ==
  \/ \E b \in Browsers :
       \/ \E p \in Paths :
            \/ CheckCreate(b, p) \/ CheckDelete(b, p) \/ CheckWrite(b, p)
            \/ \E n \in EntryNames : CheckRename(b, p, n)
       \/ CreateDirectory(b) \/ RemoveDir(b) \/ RemoveFile(b)
       \/ RenamePath(b) \/ WriteTextFile(b)
  \/ \E p \in Paths : AppCreates(p)

Spec == Init /\ [][Next]_storageVars

-----------------------------------------------------------------------------
\* Types of the variables, and the shape of a tree.
TypeOK ==
  /\ tree \in [Paths -> {Missing, Dir} \cup Files]
  /\ \A p \in Paths : Exists(p) => Writable(p)
  /\ \A p, q \in Paths : tree[p] \in Files /\ tree[p] = tree[q] => p = q
  /\ unmade \subseteq {f \in Files : \A p \in Paths : tree[p] # f}
  /\ \A b \in Browsers :
       \/ browsing[b] = Idle
       \/ browsing[b].op \in {"mkdir", "remove_dir", "remove_file", "rename", "write"}
          /\ browsing[b].path \in Paths

\* A request is about a path there can be; a rename stays in its folder, under a name that
\* was found free.
TreeInv ==
  /\ TypeOK
  /\ DOMAIN browsing = Browsers
  /\ \A b \in Browsers :
       browsing[b].op = "rename" =>
         /\ browsing[b].to \in Paths /\ Parent(browsing[b].to) = Parent(browsing[b].path)
         /\ browsing[b].free

Kept == {f \in Files : \E p \in Paths : tree[p] = f}

\* Removes(b, f): request b deletes file f by its path, or moves another file to a name
\* that file f took after the request had found it free.
Removes(b, f) ==
  \/ browsing[b].op = "remove_file" /\ tree[browsing[b].path] = f
  \/ browsing[b].op = "rename" /\ browsing[b].free /\ tree[browsing[b].to] = f

FileSurvives ==
  \A f \in Kept : f \in Kept' \/ \E b \in Browsers : Removes(b, f) /\ browsing'[b] = Idle

\* A file leaves the volume only by the deletion of that file, or, under its new name, in
\* the moment between rename's look and its system call; no folder goes with a file that
\* was put in it after it was found empty.  ("Only delete empty directories".)
FilesSurvive == [][FileSurvives]_storageVars
=============================================================================
