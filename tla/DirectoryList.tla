----------------------------- MODULE DirectoryList -----------------------------
(***************************************************************************)
(* DirectoryList: the recursive walk that finds the folders and the music  *)
(* files of OISPMedia, while the file system may lose entries under it.    *)
(*                                                                         *)
(* readDirRecursive is unfolded into its activations: a step reads one     *)
(* entry of the innermost directory, a directory to descend into becomes   *)
(* an activation of its own.                                               *)
(***************************************************************************)
EXTENDS Integers, Sequences, FiniteSets

CONSTANTS
  Node,      \* files and directories
  Root,      \* the directory that setRootPath names
  Kind,      \* node -> "dir", "file", "other" (a socket, say) or "hidden"
  Children,  \* directory -> its entries, in the order of readdir
  Height,    \* node -> how deep the directories below it go: a path has an end
  PathLength,\* file -> length of its path
  EndingsOf, \* file -> the endings its path has
  EndingLength, \* ending -> its length
  FilterLists,  \* lists of endings that addFileFilter was called with
  Levels,    \* arguments of setRecursive
  MaxLists,  \* bound: how often the list is asked for
  MaxLosses  \* bound: entries that disappear

NO_LIMIT == -1
NO_RECURSIVE == 0

Directories == {node \in Node : Kind[node] = "dir"}

ASSUME DirectoryAssumption ==
  /\ Kind \in [Node -> {"dir", "file", "other", "hidden"}]
  /\ Root \in Directories
  /\ Children \in [Directories -> Seq(Node)]
  /\ Height \in [Node -> Nat]
  /\ \A d \in Directories : \A k \in 1 .. Len(Children[d]) : Height[Children[d][k]] < Height[d]
  /\ Levels \subseteq Nat \cup {NO_LIMIT}
  /\ MaxLists \in Nat /\ MaxLosses \in Nat

\* An ending that stands before one that the path of a file has is no longer than
\* that path: the lists that the program sets have endings of one length.
ASSUME EndingsAssumption ==
  \A list \in FilterLists, node \in Node : \A k \in DOMAIN list :
    Kind[node] = "file" /\ list[k] \in EndingsOf[node] =>
      \A j \in 1 .. k : EndingLength[list[j]] <= PathLength[node]

VARIABLES
  recursive_level, file_type, fileFilterList,  \* set before the list is asked for
  file_list,
  recursive_counter,
  frames,    \* activations of readDirRecursive: directory, entries left
  there,     \* the nodes that have not disappeared
  lists      \* how often getDirectoryList was called

settings == <<recursive_level, file_type, fileFilterList>>
vars == <<settings, file_list, recursive_counter, frames, there, lists>>

-----------------------------------------------------------------------------
\* The entries opendir and readdir give for a directory: none if it is gone.
Entries(dir) == IF dir \in there THEN Children[dir] ELSE <<>>

\* hasFileFilterEnding: the endings are tried in order; one that is longer than
\* the path ends the search.  Without endings, nothing matches.
hasFileFilterEnding(file) ==
  \E k \in DOMAIN fileFilterList :
     /\ fileFilterList[k] \in EndingsOf[file]
     /\ \A j \in 1 .. k : EndingLength[fileFilterList[j]] <= PathLength[file]

\* What the walk adds to the list.
Listed(node) ==
  \/ Kind[node] = "dir" /\ file_type = "DIRECTORY"
  \/ Kind[node] = "file" /\ file_type = "REGULAR_FILE" /\ hasFileFilterEnding(node)

\* Faulty variant: one directory too deep.
DescendsTooDeep == recursive_counter <= recursive_level \/ recursive_level = NO_LIMIT

Descends == recursive_counter < recursive_level \/ recursive_level = NO_LIMIT

\* Faulty variant: an entry that is skipped is looked at again.
AfterEntrySkipped(left) == IF Kind[Head(left)] = "hidden" THEN left ELSE Tail(left)

\* What readdir has left after an entry.
AfterEntry(left) == Tail(left)

\* Faulty variant: the counter is not taken back when a directory is left.
counterKept == recursive_counter

counterAfterReturn == recursive_counter - 1

-----------------------------------------------------------------------------
Init ==
  /\ recursive_level \in Levels
  /\ file_type \in {"REGULAR_FILE", "DIRECTORY"}
  /\ fileFilterList \in FilterLists
  /\ file_list = <<>> /\ recursive_counter = 0 /\ frames = <<>>
  /\ there = Node /\ lists = 0

getDirectoryList ==
  /\ frames = <<>> /\ lists < MaxLists
  /\ lists' = lists + 1
  /\ frames' = <<[dir |-> Root, left |-> Entries(Root)]>>
  /\ UNCHANGED <<settings, file_list, recursive_counter, there>>

Innermost == frames[Len(frames)]
Rest(k) == SubSeq(frames, 1, Len(frames) - k)

\* An entry: skipped if it is hidden or stat does not find it.
ReadEntry ==
  /\ frames # <<>> /\ Innermost.left # <<>>
  /\ LET node == Head(Innermost.left)
         outer == Append(Rest(1), [Innermost EXCEPT !.left = AfterEntry(@)])
         seen == node \in there /\ Kind[node] # "hidden"
     IN /\ file_list' = IF seen /\ Listed(node) THEN Append(file_list, node)
                                                ELSE file_list
        /\ IF seen /\ Kind[node] = "dir" /\ Descends
           THEN /\ recursive_counter' = recursive_counter + 1
                /\ frames' = Append(outer, [dir |-> node, left |-> Entries(node)])
           ELSE /\ frames' = outer
                /\ UNCHANGED recursive_counter
  /\ UNCHANGED <<settings, there, lists>>

\* closedir and return; getDirectoryList itself resets the counter.
Return ==
  /\ frames # <<>> /\ Innermost.left = <<>>
  /\ frames' = Rest(1)
  /\ recursive_counter' = IF Len(frames) = 1 THEN 0 ELSE counterAfterReturn
  /\ UNCHANGED <<settings, file_list, there, lists>>

\* A file, or a directory with all that is in it, disappears (external): the
\* least set with the node and with all entries of every directory in it.
Below ==
  LET Whole == {S \in SUBSET Node : \A d \in S \cap Directories :
                                     \A k \in 1 .. Len(Children[d]) : Children[d][k] \in S}
  IN [node \in Node |-> {n \in Node : \A S \in Whole : node \in S => n \in S}]

Disappears ==
  /\ \E node \in there \ {Root} :
       /\ Cardinality(Node \ there) < MaxLosses
       /\ there' = there \ Below[node]
  /\ UNCHANGED <<settings, file_list, recursive_counter, frames, lists>>

Walk == getDirectoryList \/ ReadEntry \/ Return

Next == Walk \/ Disappears

Spec == Init /\ [][Next]_vars /\ WF_vars(Walk)

-----------------------------------------------------------------------------
(* The reference: what is listed below a directory when levels of further  *)
(* directories are wanted.                                                 *)

\* "if no file filter is set catch all files" (hasFileFilterEnding)
NoFilter == file_type = "REGULAR_FILE" /\ fileFilterList = <<>>

Wanted ==
  {node \in Node :
     \/ Kind[node] = "dir" /\ file_type = "DIRECTORY"
     \/ /\ Kind[node] = "file" /\ file_type = "REGULAR_FILE"
        /\ NoFilter \/ \E k \in DOMAIN fileFilterList : fileFilterList[k] \in EndingsOf[node]}

\* The wanted ones of some entries, each directory followed by what is inside.
InOrder(wanted, entries, inside) ==
  LET from[k \in 1 .. Len(entries) + 1] ==
        IF k > Len(entries) THEN <<>>
        ELSE ((IF entries[k] \in wanted THEN <<entries[k]>> ELSE <<>>)
                \o (IF entries[k] \in Directories THEN inside[entries[k]] ELSE <<>>))
             \o from[k + 1]
  IN from[1]

Nothing == [dir \in Directories |-> <<>>]

\* What is listed of each directory.
Reference(wanted, levels) ==
  LET within[n \in 0 .. levels] ==
        [dir \in Directories |->
           InOrder(wanted, Children[dir], IF n = 0 THEN Nothing ELSE within[n - 1])]
  IN within[levels]

Expected ==
  Reference(Wanted, IF recursive_level = NO_LIMIT THEN Height[Root] ELSE recursive_level)[Root]

Done == lists = 1 /\ frames = <<>>

\* Every variable has its type, and the counter is the depth of the walk.
TypeOK ==
  /\ recursive_level \in Levels /\ fileFilterList \in FilterLists
  /\ file_list \in Seq(Node) /\ there \subseteq Node
  /\ frames \in Seq([dir : Directories, left : Seq(Node)])
  /\ recursive_counter = IF frames = <<>> THEN 0 ELSE Len(frames) - 1

\* A list is that part of another one which keep says, in its order.
IsPart(list, whole, keep) ==
  /\ Cardinality(keep) = Len(list)
  /\ \A k \in keep : list[Cardinality({i \in keep : i <= k})] = whole[k]

\* The list is the reference, in its order, without some of what has disappeared
\* and with all that has not, wherever in the walk it went away.
AsExpected ==
  \E keep \in SUBSET (DOMAIN Expected) :
    /\ \A k \in DOMAIN Expected : Expected[k] \in there => k \in keep
    /\ IsPart(file_list, Expected, keep)

\* The first list is as expected, of directories and of files with the endings
\* that were set.  Without endings it is not: no file is listed.
ListIsExpected == Done /\ ~NoFilter => AsExpected

\* A walk comes to its end, whatever disappears under it.
WalkEnds == frames # <<>> ~> frames = <<>>
=============================================================================
