--------------------------------- MODULE Vfs ----------------------------------
(***************************************************************************)
(* The virtual file system shared by all sessions, internal/vfs/vfs.go and *)
(* attr.go: the tree, its budgets of nodes and bytes, write permission and *)
(* the attributes i (immutable) and a (append only).                       *)
(*                                                                         *)
(* Every operation holds the lock from its first lookup to its last        *)
(* assignment, so each is one step.  An operation that fails usually       *)
(* changes nothing and is no step at all; the ones that fail half way are  *)
(* steps.  Contents are abstracted to their length, permissions to whether *)
(* some write bit is set; owner, group and times decide nothing here.      *)
(***************************************************************************)
EXTENDS Naturals, Sequences, FiniteSets

SX == INSTANCE SequencesExt

CONSTANTS
  Names,         \* names of entries
  Paths,         \* the paths operations are called with: names and ".."
  Lengths,       \* lengths of the data written
  MaxFileSize,   \* maxFileSize
  MaxTotalBytes, \* maxTotalBytes
  MaxTotalNodes  \* maxTotalNodes

ASSUME VfsAssumption ==
  /\ ".." \notin Names
  /\ Paths \subseteq Seq(Names \union {".."}) \ {<<>>}
  /\ Lengths \subseteq Nat
  /\ MaxFileSize \in Nat /\ MaxTotalBytes \in Nat
  /\ MaxTotalNodes \in Nat \ {0}

VARIABLES
  node,        \* the nodes created and not deleted: isDir, children, size, writable, attrs
  totalNodes,  \* FileSystem.totalNodes
  totalBytes   \* FileSystem.totalBytes

vfsVars == <<node, totalNodes, totalBytes>>

Root == 0
NodeId == 0..(MaxTotalNodes - 1)
Attrs == {"i", "a"}

NewDir == [isDir |-> TRUE, children |-> <<>>, size |-> 0, writable |-> TRUE, attrs |-> {}]
NewFile(len) == [NewDir EXCEPT !.isDir = FALSE, !.size = len]

VfsInit ==
  /\ node = [n \in {Root} |-> NewDir]
  /\ totalNodes = 1
  /\ totalBytes = 0

(***************************************************************************)
(* Trees.  A tree is a function from node ids to nodes, as node is.        *)
(***************************************************************************)
Entries(tree, n) == DOMAIN tree[n].children

\* The tree with a new node under the given one.
Grow(tree, parent, name, new) ==
  LET id == CHOOSE n \in NodeId : n \notin DOMAIN tree
  IN [n \in DOMAIN tree \union {id} |->
        IF n = id THEN new
        ELSE IF n # parent THEN tree[n]
        ELSE [tree[n] EXCEPT !.children =
                [x \in DOMAIN @ \union {name} |-> IF x = name THEN id ELSE @[x]]]]

WithoutEntry(children, name) == [x \in DOMAIN children \ {name} |-> children[x]]

Closed(tree, S) == \A m \in S : \A x \in Entries(tree, m) : tree[m].children[x] \in S

\* The nodes at n and below: the least set that holds n and the children of its members.
Below(tree, n) ==
  {m \in DOMAIN tree : \A S \in SUBSET DOMAIN tree : n \in S /\ Closed(tree, S) => m \in S}

\* The sum of a number per node.
Total(w) ==
  LET sum[i \in 0..MaxTotalNodes] == IF i = 0 THEN 0 ELSE sum[i - 1] + w[i - 1]
  IN sum[MaxTotalNodes]

Bytes(tree, S) == Total([n \in NodeId |-> IF n \in S THEN tree[n].size ELSE 0])

Immutable(n) == "i" \in node[n].attrs
Protected(n) == node[n].attrs # {}

(***************************************************************************)
(* Paths.                                                                  *)
(***************************************************************************)
\* ".." returns to the directory the walk came from, the root stays.
Back(w) ==
  IF w.stack = <<>> THEN w
  ELSE [w EXCEPT !.at = SX!Last(w.stack), !.stack = SX!Front(w.stack)]

Segment(w, seg, throughDirs) ==
  IF seg = ".." THEN Back(w)
  ELSE IF /\ w.ok
          /\ seg \in Entries(node, w.at)
          /\ throughDirs => node[node[w.at].children[seg]].isDir
       THEN [w EXCEPT !.at = node[w.at].children[seg], !.stack = Append(w.stack, w.at)]
       ELSE [w EXCEPT !.ok = FALSE]

Walk(path, throughDirs) ==
  LET walk[i \in 0..Len(path)] ==
        IF i = 0 THEN [at |-> Root, stack |-> <<>>, ok |-> TRUE]
        ELSE Segment(walk[i - 1], path[i], throughDirs)
  IN walk[Len(path)]

\* walkPath
Resolves(path) == Walk(path, FALSE).ok
Resolve(path) == Walk(path, FALSE).at

\* locateNode, and the same loop in lockedWrite
Located(path) == SX!Last(path) # ".." /\ Walk(SX!Front(path), TRUE).ok
Parent(path) == Walk(SX!Front(path), TRUE).at
Exists(path) == SX!Last(path) \in Entries(node, Parent(path))
Target(path) == node[Parent(path)].children[SX!Last(path)]

(***************************************************************************)
(* Writing: WriteFile, AppendFile and Touch.                               *)
(***************************************************************************)
\* The checks after the node is there: new and old are lengths of one file.
Fits(old, new) ==
  /\ new <= MaxFileSize
  /\ new > old => totalBytes + new - old <= MaxTotalBytes

\* A new file.  When its content does not fit the call fails, and the empty file stays.
CreateFile(path, len) ==
  /\ Located(path)
  /\ node[Parent(path)].writable
  /\ ~Exists(path)
  /\ ~Immutable(Parent(path))
  /\ totalNodes < MaxTotalNodes
  /\ LET kept == IF Fits(0, len) THEN len ELSE 0
     IN /\ node' = Grow(node, Parent(path), SX!Last(path), NewFile(kept))
        /\ totalBytes' = totalBytes + kept
  /\ totalNodes' = totalNodes + 1

Overwrite(path, len, appending) ==
  /\ Located(path)
  /\ node[Parent(path)].writable
  /\ Exists(path)
  /\ LET n == Target(path)
         new == len + (IF appending THEN node[n].size ELSE 0)
     IN /\ ~node[n].isDir
        /\ ~Immutable(n)
        /\ "a" \in node[n].attrs => appending
        /\ node[n].writable
        /\ Fits(node[n].size, new)
        /\ node' = [node EXCEPT ![n].size = new]
        /\ totalBytes' = totalBytes + new - node[n].size
  /\ UNCHANGED totalNodes

(***************************************************************************)
(* Mkdir: creates what is missing on the way, and leaves it there when a   *)
(* later segment fails.  For a directory that exists it remembers that     *)
(* directory, not the one it came from, as the way back for "..".  Its     *)
(* callers all ask for permissions that let the owner write.               *)
(***************************************************************************)
MkdirSegment(w, seg) ==
  IF ~w.ok THEN w
  ELSE IF seg = ".." THEN Back(w)
  ELSE IF seg \in Entries(w.tree, w.at)
  THEN LET n == w.tree[w.at].children[seg]
       IN IF w.tree[n].isDir THEN [w EXCEPT !.at = n, !.stack = Append(w.stack, n)]
          ELSE [w EXCEPT !.ok = FALSE]
  ELSE IF \/ "i" \in w.tree[w.at].attrs
          \/ ~w.tree[w.at].writable
          \/ totalNodes + w.made >= MaxTotalNodes
  THEN [w EXCEPT !.ok = FALSE]
  ELSE LET tree == Grow(w.tree, w.at, seg, NewDir)
       IN [w EXCEPT !.tree = tree, !.at = tree[w.at].children[seg],
                    !.stack = Append(w.stack, w.at), !.made = w.made + 1]

MkdirWalk(path) ==
  LET walk[i \in 0..Len(path)] ==
        IF i = 0 THEN [tree |-> node, at |-> Root, stack |-> <<>>, made |-> 0, ok |-> TRUE]
        ELSE MkdirSegment(walk[i - 1], path[i])
  IN walk[Len(path)]

\* Bug: directories on the way are not counted.
MkdirCountedOnce(path) ==
  LET w == MkdirWalk(path)
  IN /\ node' = IF w.ok THEN [w.tree EXCEPT ![w.at].writable = TRUE] ELSE w.tree
     /\ totalNodes' = IF w.made > 0 THEN totalNodes + 1 ELSE totalNodes
     /\ UNCHANGED totalBytes

Mkdir(path) ==
  LET w == MkdirWalk(path)
  IN /\ node' = IF w.ok THEN [w.tree EXCEPT ![w.at].writable = TRUE] ELSE w.tree
     /\ totalNodes' = totalNodes + w.made
     /\ UNCHANGED totalBytes

(***************************************************************************)
(* Removing, moving, copying.                                              *)
(***************************************************************************)
\* What Remove and RemoveAll have in common: the subtree goes, and is counted.
Detach(path) ==
  LET gone == Below(node, Target(path))
  IN /\ node' = [n \in DOMAIN node \ gone |->
                   IF n = Parent(path)
                   THEN [node[n] EXCEPT !.children = WithoutEntry(@, SX!Last(path))] ELSE node[n]]
     /\ totalNodes' = totalNodes - Cardinality(gone)
     /\ totalBytes' = totalBytes - Bytes(node, gone)

Remove(path) ==
  /\ Located(path) /\ Exists(path)
  /\ ~Protected(Target(path)) /\ ~Protected(Parent(path))
  /\ Entries(node, Target(path)) = {}
  /\ node[Parent(path)].writable
  /\ Detach(path)

\* Bug: only the top of the subtree is checked for attributes.
RemoveAllShallow(path) ==
  /\ Located(path) /\ Exists(path)
  /\ ~Protected(Target(path)) /\ ~Protected(Parent(path))
  /\ node[Parent(path)].writable
  /\ Detach(path)

RemoveAll(path) ==
  /\ Located(path) /\ Exists(path)
  /\ ~Protected(Parent(path))
  /\ \A n \in Below(node, Target(path)) : ~Protected(n)
  /\ node[Parent(path)].writable
  /\ Detach(path)

\* Nothing asks whether the new place lies below the old one.
Rename(old, new) ==
  /\ Located(old) /\ Exists(old) /\ Located(new)
  /\ ~Protected(Target(old)) /\ ~Protected(Parent(old)) /\ ~Immutable(Parent(new))
  /\ node[Parent(old)].writable /\ node[Parent(new)].writable
  /\ ~Exists(new)
  /\ LET cut == [node EXCEPT ![Parent(old)].children = WithoutEntry(@, SX!Last(old))]
     IN node' = [cut EXCEPT ![Parent(new)].children =
                   [x \in DOMAIN @ \union {SX!Last(new)} |->
                      IF x = SX!Last(new) THEN Target(old) ELSE @[x]]]
  /\ UNCHANGED <<totalNodes, totalBytes>>

\* A regular file; permissions are copied, attributes are not.
Copy(src, dst) ==
  /\ Resolves(src) /\ ~node[Resolve(src)].isDir
  /\ Located(dst)
  /\ ~Immutable(Parent(dst)) /\ node[Parent(dst)].writable
  /\ ~Exists(dst)
  /\ totalNodes < MaxTotalNodes
  /\ LET file == node[Resolve(src)]
     IN /\ totalBytes + file.size <= MaxTotalBytes
        /\ node' = Grow(node, Parent(dst), SX!Last(dst), [file EXCEPT !.attrs = {}])
        /\ totalBytes' = totalBytes + file.size
  /\ totalNodes' = totalNodes + 1

(***************************************************************************)
(* Permissions and attributes.                                             *)
(***************************************************************************)
Chmod(path, writable) ==
  /\ Resolves(path)
  /\ ~Immutable(Resolve(path))
  /\ node' = [node EXCEPT ![Resolve(path)].writable = writable]
  /\ UNCHANGED <<totalNodes, totalBytes>>

SetAttrs(path, attrs) ==
  /\ Resolves(path)
  /\ node' = [node EXCEPT ![Resolve(path)].attrs = attrs]
  /\ UNCHANGED <<totalNodes, totalBytes>>

VfsNext ==
  \E path \in Paths :
    \/ \E len \in Lengths : CreateFile(path, len)
    \/ \E len \in Lengths, appending \in BOOLEAN : Overwrite(path, len, appending)
    \/ Mkdir(path)
    \/ \E writable \in BOOLEAN : Chmod(path, writable)
    \/ Remove(path)
    \/ RemoveAll(path)
    \/ \E new \in Paths : Rename(path, new) \/ Copy(path, new)
    \/ \E attrs \in SUBSET Attrs : SetAttrs(path, attrs)

VfsSpec == VfsInit /\ [][VfsNext]_vfsVars

(***************************************************************************)
(* Properties.                                                             *)
(***************************************************************************)
Folders == UNION {[S -> NodeId] : S \in SUBSET Names}

Nodes == [isDir : BOOLEAN, children : Folders, size : 0..MaxFileSize,
          writable : BOOLEAN, attrs : SUBSET Attrs]

\* The types of the variables, and the two budgets.  Every entry leads to a node.
VfsTypeOK ==
  /\ DOMAIN node \subseteq NodeId /\ node \in [DOMAIN node -> Nodes]
  /\ Root \in DOMAIN node /\ node[Root].isDir
  /\ Closed(node, DOMAIN node)
  /\ \A n \in DOMAIN node : ~node[n].isDir => Entries(node, n) = {}
  /\ totalNodes \in 1..MaxTotalNodes
  /\ totalBytes \in 0..MaxTotalBytes

Reachable == Below(node, Root)

\* The two counters the budgets are checked against are exact through creations that fail
\* half way, overwrites, copies and removals of subtrees: they count the nodes that were
\* created and not deleted, and the budgets hold.  (The nodes of a directory moved into
\* itself stay: see CountsTree.)
CountsExact ==
  /\ totalNodes = Cardinality(DOMAIN node)
  /\ totalBytes = Bytes(node, DOMAIN node)
  /\ totalNodes <= MaxTotalNodes /\ totalBytes <= MaxTotalBytes

\* Every node has one place in the tree and no node is its own ancestor, so that the walks
\* over a subtree end.  (A renamed directory may leave the tree: see CountsTree.)
TreeShape ==
  /\ \A m \in Reachable : \A x \in Entries(node, m) : node[m].children[x] # Root
  /\ \A m, n \in Reachable : \A x \in Entries(node, m), y \in Entries(node, n) :
       node[m].children[x] = node[n].children[y] => m = n /\ x = y

\* The tree is one, and the budgets know it.
TreeCounted == CountsExact /\ TreeShape

\* The step from the tree old to the tree new respects the attributes that both have.
Respects(old, new) ==
  \A n \in DOMAIN old :
    /\ old[n].attrs # {} => n \in DOMAIN new
    /\ ("i" \in old[n].attrs /\ "i" \in new[n].attrs) =>
         /\ new[n].size = old[n].size
         /\ new[n].children = old[n].children
         /\ ~old[n].isDir => new[n].writable = old[n].writable
    /\ (old[n].attrs # {} /\ new[n].attrs # {}) =>
         \A x \in Entries(old, n) :
           x \in Entries(new, n) /\ new[n].children[x] = old[n].children[x]
    /\ ("a" \in old[n].attrs /\ "a" \in new[n].attrs) => new[n].size >= old[n].size

\* While a node keeps its attribute i, no operation changes or removes it, adds an entry to
\* it or takes one away; with a, a file never gets shorter and is not removed.  (Mkdir of
\* an immutable directory that exists does set its permissions.)
AttributesHold == [][Respects(node, node')]_vfsVars

\* vfs.go: totalNodes is the number of nodes of the tree, which deletions give back.
CountsTree == totalNodes = Cardinality(Reachable)
=============================================================================
