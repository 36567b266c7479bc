------------------------------ MODULE MCBundle ------------------------------
(***************************************************************************)
(* Archives of a few entries that repeat, contradict or nest one another.  *)
(***************************************************************************)
EXTENDS Bundle

Resources == "cluster-resources"
Version   == "cluster_version.json"

(* The names, their order and their lengths; "name" stands for the long    *)
(* name of a bundle's own directory, "x" and "y" for short ones.           *)
MCNameOrder  == [n \in {Resources, Version, "name", "x", "y"} |->
                   CASE n = Resources -> 1 [] n = Version -> 2 [] n = "name" -> 3
                     [] n = "x" -> 4 [] OTHER -> 5]
NameLength(n) == CASE n = Resources -> 17 [] n = Version -> 20 [] n = "name" -> 34
                   [] OTHER -> 1

FilePaths ==
  {<<"x">>, <<"x", "y">>, <<"x", Resources>>,
   <<"x", Resources, "y">>, <<"x", "y", Resources, "x">>,
   <<"name", Resources, "x">>, <<"name", Resources, "y", Resources, "y">>,
   <<"name", Version>>, <<"x", Version>>, <<>>}

MCPaths == UNION {{SubSeq(p, 1, k) : k \in 0..Len(p)} : p \in FilePaths}

MCPathLength ==
  [p \in MCPaths |-> FoldLeft(LAMBDA total, n : total + 1 + NameLength(n), 0, p)]

FileEntry(p) == [type |-> "file", path |-> p, local |-> TRUE, whole |-> TRUE]

Entries ==
  {FileEntry(p) : p \in FilePaths}
    \cup {[FileEntry(<<"x", "y">>) EXCEPT !.whole = FALSE],
          [FileEntry(<<"x">>) EXCEPT !.local = FALSE],
          [FileEntry(<<"x", Resources, "y">>) EXCEPT !.type = "other"],
          [FileEntry(<<"x">>) EXCEPT !.type = "bad"]}

MCArchives == UNION {[1..n -> Entries] : n \in 1..3}

(* A directory tree, with what lies behind its links.                      *)
Tree(files, dirs, links) ==
  LET named == files \cup dirs \cup links
  IN  [p \in {<<>>} \cup named \cup UNION {Ancestors(q) : q \in named} |->
         CASE p \in links -> "link" [] p \in files -> "file" [] OTHER -> "dir"]

(* Files only; empty directories; links to a bundle, to a directory in it, *)
(* to its cluster resources and to a file; a link beside a directory.      *)
MCDirectories ==
  {Tree({<<"x">>}, {}, {}), Tree({<<"x", Resources>>}, {}, {}),
   Tree({<<"x", Resources, "y">>, <<"name", Resources, "x">>, <<"name", Version>>}, {}, {}),
   Tree({<<"name", Resources, "y", Resources, "y">>, <<"x", Version>>}, {}, {}),
   Tree({<<"name", Version>>}, {<<"x", Resources>>}, {}),
   Tree({<<"x", Resources, "y">>}, {}, {<<>>}),
   Tree({<<"x", Resources, "y">>}, {}, {<<"x">>}),
   Tree({<<"x", Resources, "y">>}, {}, {<<"x", Resources>>}),
   Tree({<<"x", Resources, "y">>, <<"name", Resources, "x">>}, {}, {<<"x">>, <<"name", Version>>})}

(* A bundle directory that holds a shorter name beside its own.            *)
RootDirectories ==
  {Tree({<<"name", Resources, "x">>, <<"x", "y", Resources, "x">>, <<"name", Version>>}, {}, {})}
=============================================================================
