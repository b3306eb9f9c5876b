---------------------------- MODULE MCGitHistory ----------------------------
(***************************************************************************)
(* Three commits in every shape, over root trees that share a subtree      *)
(* under different names, with one summary that overflows; and ranges of   *)
(* the same commits with a baseline, a time window and shallow commits.    *)
(***************************************************************************)
EXTENDS GitHistory

CONSTANTS x, y, z

File(name, b) == [name |-> name, kind |-> "blob", id |-> b]
Dir(name, t) == [name |-> name, kind |-> "tree", id |-> t]

Library ==
  <<<<File("a", x)>>,
    <<File("a", x), File("b", y)>>,
    <<Dir("d", 1), Dir("e", 2)>>,
    <<Dir("d", 2), File("z", z)>>,
    <<Dir("d", 1), Dir("e", 1), File("z", z)>>>>

Three == {1, 2, 3}

Shapes == {[c \in Three |-> CASE c = 1 -> <<>> [] c = 2 -> p2 [] c = 3 -> p3] :
             p2 \in {<<>>, <<1>>}, p3 \in {<<1>>, <<2>>, <<1, 2>>, <<2, 1>>}}

Full(parents, root, filtered, matching, names, rooted, tiny) ==
  [parents |-> parents, root |-> root, filtered |-> filtered, matching |-> matching,
   names |-> names, rooted |-> rooted, tiny |-> tiny, branch |-> FALSE, tips |-> {}, base |-> NoCommit,
   shallow |-> {}, window |-> Three]

Options == {<<FALSE, {}, {}, {}, {}>>, <<FALSE, {}, {"d"}, {}, {z}>>,
            <<FALSE, {}, {}, {<<"d", "a">>}, {}>>,
            <<TRUE, {x, y}, {}, {}, {}>>, <<TRUE, {x}, {"d"}, {}, {}>>}

FullScans ==
  {Full(s, r, o[1], o[2], o[3], o[4], o[5]) :
     s \in Shapes, r \in [Three -> {3, 4, 5}], o \in Options}
    \cup {Full(s, r, FALSE, {}, {}, {}, {}) : s \in Shapes, r \in [Three -> {3, 4, NoTree}]}
    \cup {Full(s, [c \in Three |-> 3], TRUE, {}, {}, {}, {}) : s \in Shapes}

Branches ==
  {[parents |-> s, root |-> r, filtered |-> FALSE, matching |-> {}, names |-> n, rooted |-> {},
    tiny |-> {}, branch |-> TRUE, tips |-> t, base |-> b, shallow |-> h, window |-> w] :
     s \in Shapes, r \in [Three -> {3, 4}], n \in {{}, {"d"}}, t \in {{3}, {2, 3}},
     b \in {NoCommit, 1}, h \in {{}, {2}}, w \in {Three, {1, 3}}}

Repositories == FullScans \cup Branches
=============================================================================
