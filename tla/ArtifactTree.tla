---------------------------- MODULE ArtifactTree ----------------------------
(***************************************************************************)
(* The two ways the artifacts of a session are listed by directory: the    *)
(* tree of the viewer (artifactTree.ts, ArtifactTreeView.tsx) and the      *)
(* groups of the side panel (ArtifactPanel.tsx).                           *)
(*                                                                         *)
(* Both are functions of the list of artifacts.  A file path is what       *)
(* split('/') makes of it, a sequence of segments: /workspace/a is         *)
(* <<"", "workspace", "a">>, and dist/ is <<"dist", "">>.  The name of a   *)
(* node is a sequence of segments too, as directories that are collapsed   *)
(* into one are named by all of theirs.  An artifact is its place in the   *)
(* list.  Left out: icons, colours and what a status does to them.         *)
(*                                                                         *)
(* The assumptions at the end compare the functions with what they are to  *)
(* compute, for every list of up to three artifacts over two names.        *)
(***************************************************************************)
EXTENDS Naturals, Sequences, FiniteSets, SequencesExt

----------------------------------------------------------------------------
(* The tree.                                                               *)

DropSlash(p) == IF Len(p) > 1 /\ Head(p) = "" THEN Tail(p) ELSE p
DropWorkspace(p) == IF Len(p) > 1 /\ Head(p) = "workspace" THEN Tail(p) ELSE p
cleanPath(p) == DropSlash(DropWorkspace(DropSlash(p)))

segments(p) == SelectSeq(cleanPath(p), LAMBDA s : s # "")

Root == [name |-> <<>>, path |-> <<>>, isDirectory |-> TRUE, artifact |-> 0,
         children |-> <<>>]

\* The node of a directory, or of artifact i, under "parent".
Node(parent, seg, i) ==
  [Root EXCEPT !.name = <<seg>>, !.path = Append(parent.path, seg),
               !.isDirectory = (i = 0), !.artifact = i]

RECURSIVE Insert(_, _, _)
Insert(node, rest, i) ==
  IF rest = <<>> THEN node
  ELSE LET seg == Head(rest)
           dir == SelectInSeq(node.children,
                              LAMBDA c : c.isDirectory /\ c.name = <<seg>>)
       IN IF Len(rest) = 1
          THEN [node EXCEPT !.children = Append(@, Node(node, seg, i))]
          ELSE IF dir = 0
          THEN [node EXCEPT !.children =
                  Append(@, Insert(Node(node, seg, 0), Tail(rest), i))]
          ELSE [node EXCEPT !.children[dir] = Insert(@, Tail(rest), i)]

\* A directory whose only child is a directory is replaced by that child.
RECURSIVE Merged(_)
Merged(child) ==
  IF /\ child.isDirectory
     /\ Len(child.children) = 1
     /\ child.children[1].isDirectory
  THEN Merged([child.children[1] EXCEPT !.name = child.name \o @])
  ELSE child

RECURSIVE collapseSingleChildDirs(_)
collapseSingleChildDirs(node) ==
  [node EXCEPT !.children =
     [i \in DOMAIN @ |-> Merged(collapseSingleChildDirs(node.children[i]))]]

\* The order of names: of their segments, for names of one letter.
Alphabet == <<"a", "b", "workspace">>
NameRank(seg) == CHOOSE i \in DOMAIN Alphabet : Alphabet[i] = seg
NameBefore(m, n) ==
  \/ IsStrictPrefix(m, n)
  \/ \E k \in 1..Len(m) : /\ k <= Len(n)
                          /\ SubSeq(m, 1, k - 1) = SubSeq(n, 1, k - 1)
                          /\ NameRank(m[k]) < NameRank(n[k])

\* The sort is stable: nodes of one name stay in the order of the list.
Before(x, y) ==
  \/ x.isDirectory /\ ~y.isDirectory
  \/ /\ x.isDirectory = y.isDirectory
     /\ \/ NameBefore(x.name, y.name)
        \/ x.name = y.name /\ x.artifact < y.artifact

RECURSIVE sortTree(_)
sortTree(node) ==
  [node EXCEPT !.children =
     SortSeq([i \in DOMAIN @ |-> sortTree(node.children[i])], Before)]

buildArtifactTree(paths) ==
  sortTree(collapseSingleChildDirs(
    FoldLeftDomain(LAMBDA tree, i : Insert(tree, segments(paths[i]), i), Root, paths)))

----------------------------------------------------------------------------
(* What the viewer shows of it.  A directory the user closed, known by its *)
(* path, hides what is below it; the artifact whose path is that of the    *)
(* selected one is marked.                                                 *)

RECURSIVE TreeNode(_, _, _, _)
TreeNode(node, depth, closed, selected) ==
  LET row == [name |-> node.name, path |-> node.path, depth |-> depth,
              artifact |-> node.artifact,
              marked |-> ~node.isDirectory /\ node.path = selected]
      below == [i \in DOMAIN node.children |->
                  TreeNode(node.children[i], depth + 1, closed, selected)]
  IN <<row>> \o IF node.path \in closed THEN <<>> ELSE FlattenSeq(below)

ArtifactTreeView(root, closed, selected) ==
  FlattenSeq([i \in DOMAIN root.children |->
                TreeNode(root.children[i], 0, closed, selected)])

\* ArtifactViewer's selectedPath keeps the empty segments.
selectedPath(p) == cleanPath(p)

----------------------------------------------------------------------------
(* The groups of the panel, which cleans no path.                          *)

Dir(p) == IF Len(p) > 1 THEN Front(p) ELSE <<"/">>

Grouped(groups, dir, i) ==
  LET at == SelectInSeq(groups, LAMBDA g : g.dir = dir)
  IN IF at = 0 THEN Append(groups, [dir |-> dir, items |-> <<i>>])
     ELSE [groups EXCEPT ![at].items = Append(@, i)]

ArtifactFlatTree(paths) ==
  FoldLeftDomain(LAMBDA groups, i : Grouped(groups, Dir(paths[i]), i), <<>>, paths)

\* The panel is there for artifacts or for tasks, and then shows both.
ArtifactPanel(paths, todos) ==
  [shown     |-> paths # <<>> \/ todos # <<>>,
   completed |-> Len(SelectSeq(todos, LAMBDA t : t = "completed")),
   tasks     |-> todos,
   count     |-> Len(paths),
   groups    |-> ArtifactFlatTree(paths)]

----------------------------------------------------------------------------
(* The checks.                                                             *)

Bodies == UNION {[1..n -> {"a", "b"}] : n \in 1..3}
Spellings == << <<"", "workspace">>, <<"workspace">>, <<>>, <<"">> >>
\* The lists of up to three artifacts, all paths as they are or each spelt its way.
Lists ==
  LET lists == UNION {[1..n -> Bodies] : n \in 0..3}
  IN lists \cup {[i \in DOMAIN l |-> Spellings[i] \o l[i]] : l \in lists}

Files(rows) == SelectSeq(rows, LAMBDA r : r.artifact # 0)
Under(p) == {SubSeq(p, 1, k) : k \in 1..(Len(p) - 1)}

\* The directories that are to be shown: those with an artifact of their own,
\* or with two subdirectories.
Shown(paths) ==
  LET all == {segments(paths[i]) : i \in DOMAIN paths}
      dirs == UNION {Under(p) : p \in all}
  IN {d \in dirs : \/ \E p \in all : Front(p) = d
                   \/ Cardinality({e \in dirs : Len(e) > 1 /\ Front(e) = d}) > 1}

\* The ways to spell a path in the workspace are ways to name one node.
ASSUME SpellingsAgree ==
  \A b \in Bodies : \A s \in ToSet(Spellings) : segments(s \o b) = b

\* Each artifact has one row, under its own path, whatever the others are; the
\* directories have one row each and are those that are to be shown.
ASSUME EachOnce ==
  \A paths \in Lists :
    LET rows == ArtifactTreeView(buildArtifactTree(paths), {}, <<>>)
        dirs == SelectSeq(rows, LAMBDA r : r.artifact = 0)
    IN /\ Len(Files(rows)) = Len(paths)
       /\ \A i \in DOMAIN paths :
            \E j \in DOMAIN rows : rows[j].artifact = i /\ rows[j].path = segments(paths[i])
       /\ Len(dirs) = Cardinality(Shown(paths))
       /\ {dirs[j].path : j \in DOMAIN dirs} = Shown(paths)

\* The names from the top down to a row spell its path, although directories
\* were collapsed.
ASSUME NamesSpellPath ==
  \A paths \in Lists :
    LET rows == ArtifactTreeView(buildArtifactTree(paths), {}, <<>>)
        above(j) == {k \in 1..(j - 1) : /\ rows[k].depth < rows[j].depth
                                        /\ \A l \in k..(j - 1) : rows[l].depth > rows[k].depth \/ l = k}
    IN \A j \in DOMAIN rows :
         rows[j].path = FlattenSeq([k \in 1..j |-> IF k \in above(j) \cup {j}
                                                   THEN rows[k].name ELSE <<>>])

\* Among the rows of one directory the directories come first, each kind by name.
ASSUME InOrderOfNames ==
  \A paths \in Lists :
    LET rows == ArtifactTreeView(buildArtifactTree(paths), {}, <<>>)
    IN \A j, k \in DOMAIN rows :
         (/\ j < k
          /\ rows[j].depth = rows[k].depth
          /\ \A l \in j..k : rows[l].depth >= rows[j].depth)
         => /\ rows[k].artifact = 0 => rows[j].artifact = 0
            /\ (rows[j].artifact = 0) = (rows[k].artifact = 0)
                 => ~NameBefore(rows[k].name, rows[j].name)

\* The row of the selected artifact is marked, and no other unless it is of the
\* same file under another spelling.
ASSUME SelectedMarked ==
  \A paths \in Lists : \A i \in DOMAIN paths :
    LET rows == ArtifactTreeView(buildArtifactTree(paths), {}, selectedPath(paths[i]))
    IN \A j \in DOMAIN rows :
         rows[j].marked <=> /\ rows[j].artifact # 0
                            /\ segments(paths[rows[j].artifact]) = segments(paths[i])

\* A closed directory hides the artifacts below it and no others.
ASSUME ClosedHides ==
  \A paths \in Lists : \A d \in Shown(paths) :
    LET rows == Files(ArtifactTreeView(buildArtifactTree(paths), {d}, <<>>))
    IN {rows[j].artifact : j \in DOMAIN rows}
         = {i \in DOMAIN paths : d \notin Under(segments(paths[i]))}

\* The panel has each artifact once, below the heading of its directory, or
\* without one if its path is a name alone; no heading comes twice.
ASSUME GroupsPartition ==
  \A paths \in Lists :
    LET groups == ArtifactPanel(paths, <<>>).groups
        items == FlattenSeq([j \in DOMAIN groups |-> groups[j].items])
    IN /\ Len(items) = Len(paths) /\ ToSet(items) = DOMAIN paths
       /\ \A j, k \in DOMAIN groups : groups[j].dir = groups[k].dir => j = k
       /\ \A j \in DOMAIN groups : \A i \in ToSet(groups[j].items) :
            paths[i] = IF Len(paths[i]) = 1 THEN <<Last(paths[i])>>
                       ELSE Append(groups[j].dir, Last(paths[i]))
=============================================================================
