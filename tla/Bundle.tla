------------------------------- MODULE Bundle -------------------------------
(***************************************************************************)
(* ExtractBundle and FindClusterData (pkg/sbctl/support-bundle.go): what   *)
(* the entries of an archive leave on disk, and the directory and the file *)
(* the API server is given of a bundle, extracted or the user's own        *)
(* directory.                                                              *)
(*                                                                         *)
(* A path is the sequence of its names after filepath.Clean, relative to   *)
(* the bundle's directory, which is <<>>; two spellings of a path are one  *)
(* path.  What an entry holds is its place in the archive.                 *)
(***************************************************************************)
EXTENDS Integers, Sequences, SequencesExt

CONSTANTS
  Paths,         \* the paths that may occur, closed under ancestors
  PathLength,    \* the length of the string of each, below the bundle's own
  NameOrder,     \* names in the order of strings
  RootNames,     \* names of a bundle directory of the user's
  Archives,      \* sequences of entries
  Directories    \* bundle directories of the user's: what os.Lstat says of
                 \* each path, those seen through a link included

Ancestor(p, q) == IsStrictPrefix(p, q)

(* "file": a regular file; "other": any other kind; "bad": a header that   *)
(* cannot be read.  local: filepath.IsLocal and no backslash.  whole: its  *)
(* data can be read to the end.                                            *)
EntryType == [type : {"file", "other", "bad"}, path : Paths,
              local : BOOLEAN, whole : BOOLEAN]

(* The result before anything is found: no path has an empty name. *)
NoPath == <<"">>

ASSUME PathsAssumption ==
  /\ Paths \subseteq Seq(STRING)
  /\ <<>> \in Paths /\ NoPath \notin Paths
  /\ \A p \in Paths : p # <<>> => Front(p) \in Paths
  /\ PathLength \in [Paths -> Nat]
  /\ \A p \in Paths : \A i \in DOMAIN p : NameOrder[p[i]] \in Nat

(* x/n is shorter than x/y/n: each name on the way adds to the string.     *)
ASSUME LengthAssumption ==
  \A p, q \in Paths \ {<<>>} :
    Last(p) = Last(q) /\ Ancestor(Front(p), Front(q))
      => PathLength[p] < PathLength[q]

(* A bundle's location is spelled as filepath.Clean would.                 *)
ASSUME LengthOfRoot == \A p \in Paths \ {<<>>} : PathLength[<<>>] < PathLength[p]

ASSUME ArchivesAssumption ==
  /\ Archives \subseteq Seq(EntryType)
  /\ \A d \in Directories :
       /\ DOMAIN d \subseteq Paths /\ <<>> \in DOMAIN d
       /\ \A p \in DOMAIN d : d[p] \in {"dir", "file", "link"}
       /\ \A p \in DOMAIN d, q \in Paths :
            Ancestor(q, p) => q \in DOMAIN d /\ d[q] # "file"

VARIABLES
  rootName,   \* the name of the bundle's directory
  archive,    \* the archive, or <<>> for a directory of the user's
  tree,       \* the files and directories below the bundle's directory
  step,       \* where ExtractBundle, then FindClusterData, is
  next,       \* the entry tarReader is at
  ioFailed,   \* a call failed for a reason outside of the archive
  todo,       \* the paths filepath.Walk has not visited
  clusterResourcesDir, clusterInfoFile   \* result

input  == <<rootName, archive>>
result == <<clusterResourcesDir, clusterInfoFile>>
vars   == <<input, tree, step, next, ioFailed, todo, result>>

Steps == {"open", "next", "mkdir", "create", "copy", "walk", "found", "failed"}

(* A file that is not extracted, of whatever kind, is of no entry.         *)
Node(kind) == [kind |-> kind, entry |-> 0, whole |-> TRUE]
Directory  == Node("dir")
File(i, whole) == [kind |-> "file", entry |-> i, whole |-> whole]
Nodes == [kind : {"dir", "file", "link"}, entry : Nat, whole : BOOLEAN]

TypeOK ==
  /\ archive \in Archives \cup {<<>>}
  /\ DOMAIN tree \subseteq Paths
  /\ \A p \in DOMAIN tree : tree[p] \in Nodes
  /\ step \in Steps
  /\ next \in 1..(Len(archive) + 1)
  /\ ioFailed \in BOOLEAN
  /\ todo \subseteq Paths
  /\ clusterResourcesDir \in Paths \cup {NoPath}
  /\ clusterInfoFile \in Paths \cup {NoPath}

Ancestors(p) == {q \in Paths : Ancestor(q, p)}

LinkAt(p) == p \in DOMAIN tree /\ tree[p].kind = "link"

(* filepath.Walk follows no link, not even that of the bundle's location.  *)
Reached == {p \in DOMAIN tree : \A q \in Ancestors(p) : ~LinkAt(q)}

InitArchive ==
  /\ archive \in Archives
  /\ rootName = "sbctl"
  /\ tree = [p \in {<<>>} |-> Directory]
  /\ step = "open"
  /\ todo = {}

InitDirectory ==
  /\ archive = <<>>
  /\ rootName \in RootNames
  /\ \E d \in Directories : tree = [p \in DOMAIN d |-> Node(d[p])]
  /\ step = "walk"
  /\ todo = Reached

Init ==
  /\ InitArchive \/ InitDirectory
  /\ next = 1
  /\ ioFailed = FALSE
  /\ clusterResourcesDir = NoPath /\ clusterInfoFile = NoPath

-----------------------------------------------------------------------------
(* ExtractBundle *)

At(label)   == step = label
Goto(label) == step' = label

Entry == archive[next]

DirectoryAt(p) == p \in DOMAIN tree /\ tree[p].kind = "dir"
FileAt(p)      == p \in DOMAIN tree /\ tree[p].kind = "file"

Put(p, node) == tree' = [q \in DOMAIN tree \cup {p} |-> IF q = p THEN node ELSE tree[q]]

unwalked == <<input, todo, result>>

(* A call that fails for want of space, of file descriptors, ... *)
Fail ==
  /\ step \in {"open", "next", "mkdir", "create", "copy"}
  /\ Goto("failed")
  /\ ioFailed' = TRUE
  /\ UNCHANGED <<unwalked, tree, next>>

(* os.Open and gzip.NewReader; os.MkdirAll finds the directory *)
Open ==
  /\ At("open") /\ Goto("next")
  /\ UNCHANGED <<unwalked, tree, next, ioFailed>>

EndOfArchive ==
  /\ At("next") /\ next > Len(archive)
  /\ Goto("walk")
  /\ todo' = Reached
  /\ UNCHANGED <<input, tree, next, ioFailed, result>>

BadHeader ==
  /\ At("next") /\ next <= Len(archive) /\ Entry.type = "bad"
  /\ Goto("failed")
  /\ UNCHANGED <<unwalked, tree, next, ioFailed>>

SkipEntry ==
  /\ At("next") /\ next <= Len(archive) /\ Entry.type = "other"
  /\ next' = next + 1
  /\ UNCHANGED <<unwalked, tree, step, ioFailed>>

NextFile ==
  /\ At("next") /\ next <= Len(archive) /\ Entry.type = "file"
  /\ Goto(IF Entry.local THEN "mkdir" ELSE "failed")
  /\ UNCHANGED <<unwalked, tree, next, ioFailed>>

(* outputRoot.MkdirAll: the parents that are missing; one that is a file   *)
(* is an error                                                             *)
MkdirAll ==
  /\ At("mkdir")
  /\ \/ /\ \E p \in Ancestors(Entry.path) : FileAt(p)
        /\ Goto("failed")
        /\ UNCHANGED tree
     \/ /\ \A p \in Ancestors(Entry.path) : ~FileAt(p)
        /\ Goto("create")
        /\ tree' = [p \in DOMAIN tree \cup Ancestors(Entry.path) |->
                      IF p \in DOMAIN tree THEN tree[p] ELSE Directory]
  /\ UNCHANGED <<unwalked, next, ioFailed>>

(* Mutant: O_EXCL, which refuses a file that exists. *)
CreateFileExclusive ==
  /\ At("create")
  /\ \/ Entry.path \in DOMAIN tree /\ Goto("failed") /\ UNCHANGED tree
     \/ /\ Entry.path \notin DOMAIN tree
        /\ Goto("copy")
        /\ Put(Entry.path, File(next, FALSE))
  /\ UNCHANGED <<unwalked, next, ioFailed>>

(* OpenFile with O_CREATE and O_TRUNC: an earlier entry's file is emptied *)
CreateFile ==
  /\ At("create")
  /\ \/ DirectoryAt(Entry.path) /\ Goto("failed") /\ UNCHANGED tree
     \/ /\ ~DirectoryAt(Entry.path)
        /\ Goto("copy")
        /\ Put(Entry.path, File(next, FALSE))
  /\ UNCHANGED <<unwalked, next, ioFailed>>

(* Mutant: data that ends early ends the copy like data that ends. *)
CopyIgnoringError ==
  /\ At("copy")
  /\ Goto("next") /\ next' = next + 1
  /\ Put(Entry.path, File(next, Entry.whole))
  /\ UNCHANGED <<unwalked, ioFailed>>

(* io.Copy of the entry's data *)
Copy ==
  /\ At("copy")
  /\ \/ Entry.whole /\ Goto("next") /\ next' = next + 1
     \/ ~Entry.whole /\ Goto("failed") /\ UNCHANGED next
  /\ Put(Entry.path, File(next, Entry.whole))
  /\ UNCHANGED <<unwalked, ioFailed>>

ExtractBundle ==
  \/ Open \/ EndOfArchive \/ BadHeader \/ SkipEntry \/ NextFile
  \/ MkdirAll \/ CreateFile \/ Copy \/ Fail

-----------------------------------------------------------------------------
(* FindClusterData *)

Name(p) == IF p = <<>> THEN rootName ELSE Last(p)

(* filepath.Walk visits a directory before what is in it, and what is in   *)
(* it in the order of the names.                                           *)
Before(p, q) ==
  \/ Ancestor(p, q)
  \/ \E k \in 1..Len(p) :
       /\ k <= Len(q)
       /\ NameOrder[p[k]] < NameOrder[q[k]]
       /\ \A i \in 1..(k - 1) : p[i] = q[i]

ClusterResources == {p \in DOMAIN tree : DirectoryAt(p) /\ Name(p) = "cluster-resources"}

(* Mutant: without result.ClusterResourcesDir == "". *)
BetterNeverFirst(p) ==
  clusterResourcesDir # NoPath /\ PathLength[p] < PathLength[clusterResourcesDir]

(* Mutant: the last directory found is taken. *)
BetterLast(p) == TRUE

(* "find the file with the shortest name" *)
Better(p) ==
  \/ clusterResourcesDir = NoPath
  \/ PathLength[p] < PathLength[clusterResourcesDir]

(* Mutant: the name of the version file is kept, not its path. *)
VisitName ==
  /\ At("walk")
  /\ \E p \in todo :
       /\ \A q \in todo : p = q \/ Before(p, q)
       /\ todo' = todo \ {p}
       /\ clusterResourcesDir' =
            IF p \in ClusterResources /\ Better(p) THEN p ELSE clusterResourcesDir
       /\ clusterInfoFile' =
            IF ~DirectoryAt(p) /\ Name(p) = "cluster_version.json" THEN <<Name(p)>> ELSE clusterInfoFile
  /\ UNCHANGED <<input, tree, step, next, ioFailed>>

Visit ==
  /\ At("walk")
  /\ \E p \in todo :
       /\ \A q \in todo : p = q \/ Before(p, q)
       /\ todo' = todo \ {p}
       /\ clusterResourcesDir' =
            IF p \in ClusterResources /\ Better(p) THEN p ELSE clusterResourcesDir
       /\ clusterInfoFile' =
            IF ~DirectoryAt(p) /\ Name(p) = "cluster_version.json" THEN p ELSE clusterInfoFile
  /\ UNCHANGED <<input, tree, step, next, ioFailed>>

WalkEnds ==
  /\ At("walk") /\ todo = {}
  /\ Goto("found")
  /\ UNCHANGED <<input, tree, next, ioFailed, todo, result>>

(* A directory that cannot be read *)
WalkFails ==
  /\ At("walk") /\ todo # {}
  /\ Goto("failed")
  /\ ioFailed' = TRUE
  /\ UNCHANGED <<input, tree, next, todo, result>>

FindClusterData == Visit \/ WalkEnds \/ WalkFails

Next == ExtractBundle \/ FindClusterData

Spec == Init /\ [][Next]_vars

-----------------------------------------------------------------------------
(* Properties *)

FilesIn(t) == {p \in DOMAIN t : t[p].kind = "file"}

(* The places of the entries, up to the nth, that write to p.              *)
Writers(p, n) == {i \in 1..n : archive[i].type = "file" /\ archive[i].path = p}

(* At each entry the bundle's directory holds exactly the files of the     *)
(* entries before it, each with the whole data of the last entry of its    *)
(* path, and no directory but those on the way to a file: nothing of an    *)
(* earlier entry, a repeated path or a skipped kind stays behind, and what *)
(* FindClusterData and the server read is what the archive says.           *)
ExtractedSoFar ==
  archive # <<>> /\ step \in {"next", "walk", "found"} =>
    /\ FilesIn(tree) = {p \in Paths : Writers(p, next - 1) # {}}
    /\ \A p \in FilesIn(tree) :
         /\ tree[p].whole
         /\ tree[p].entry \in Writers(p, next - 1)
         /\ \A i \in Writers(p, next - 1) : i <= tree[p].entry
    /\ \A p \in DOMAIN tree \ (FilesIn(tree) \cup {<<>>}) :
         \E q \in FilesIn(tree) : Ancestor(p, q)

(* What is wrong with an archive that no disk can hold it: entries that    *)
(* cannot be read or leave the directory, and a path that would be a file  *)
(* and a directory at once.                                                *)
Sound(a) ==
  /\ \A i \in DOMAIN a :
       /\ a[i].type # "bad"
       /\ a[i].type = "file" => a[i].local /\ a[i].whole /\ a[i].path # <<>>
  /\ \A i, j \in DOMAIN a :
       a[i].type = "file" /\ a[j].type = "file" => ~Ancestor(a[i].path, a[j].path)

(* An archive is extracted if and only if there is nothing wrong with it,  *)
(* in whatever order its entries come.                                     *)
ExtractsIffSound ==
  archive # <<>> /\ ~ioFailed =>
    /\ step = "failed" => ~Sound(archive)
    /\ step \in {"walk", "found"} => Sound(archive)

(* The server is started for a bundle if and only if it has cluster        *)
(* resources.  An archive has them if one of its regular files lies below  *)
(* a directory of that name, whatever the order of its entries: directory  *)
(* entries and links are not extracted.  A directory of the user's has     *)
(* them if it or a directory in it has that name, be it empty, and is not  *)
(* behind a link.                                                          *)
Below(p, name) == \E q \in Ancestors(p) \ {<<>>} : Last(q) = name

HasClusterResources ==
  IF archive # <<>>
    THEN \E i \in DOMAIN archive :
           archive[i].type = "file" /\ Below(archive[i].path, "cluster-resources")
    ELSE \E p \in DOMAIN tree :
           /\ DirectoryAt(p) /\ Name(p) = "cluster-resources"
           /\ \A q \in DOMAIN tree : Ancestor(q, p) => ~LinkAt(q)

FoundIffThere ==
  step = "found" => (clusterResourcesDir # NoPath <=> HasClusterResources)

(* "Support bundle can have multiple cluster-resources directories": the   *)
(* one that is found does not lie in or beside another on its own way to   *)
(* the root.                                                               *)
Above(p, q) ==   \* p/cluster-resources is on the way to q/cluster-resources
  p # q /\ (p = <<>> \/ (q # <<>> /\ Ancestor(Front(p), Front(q))))

NotNested ==
  step = "found" => \A p \in ClusterResources : ~Above(p, clusterResourcesDir)

(* "We want the one at the root": none is nearer to the root.              *)
RootMost ==
  step = "found" =>
    \A p \in ClusterResources : Len(clusterResourcesDir) <= Len(p)
=============================================================================
