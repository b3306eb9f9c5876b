-------------------------- MODULE MCRepositoryScan --------------------------
(***************************************************************************)
(* The first content is found under two paths, and under each of them a    *)
(* rule restricted to such paths matches it.  The others hold dependent    *)
(* credentials: one credential beside its component, twice, and beside     *)
(* none; one beside several components and at the place of another (both   *)
(* decoded from one span); and the simple credential of the first content  *)
(* again, which both phases validate, and which another repository has,    *)
(* too.                                                                    *)
(***************************************************************************)
EXTENDS RepositoryScan

CONSTANTS i1, i2, i3, i4, i5, Simple, Pair, Part, s1, s2, d1, d2, h1

M(rule, secret, span, context) ==
  [rule |-> rule, secret |-> secret, span |-> span, context |-> context]

Contents ==
  [i \in Input |-> CASE i \in {i1, i5} -> 1 [] i = i2 -> 2 [] i = i3 -> 3 [] i = i4 -> 4]

Matches == [i \in Input |->
  CASE i = i1 -> <<M(Simple, s1, 1, NoContext)>>
    [] i = i2 -> <<M(Part, h1, 1, NoContext), M(Pair, d1, 2, h1)>>
    [] i = i3 -> <<M(Part, h1, 1, NoContext), M(Pair, d1, 2, h1), M(Simple, s1, 3, NoContext)>>
    [] i = i4 -> <<M(Pair, d1, 1, NoContext), M(Pair, d2, 1, Ambiguous)>>
    [] i = i5 -> <<M(Part, s2, 2, NoContext)>>]

Shared == {<<Simple, s1, NoContext>>}

BothWays == [no_dedup : BOOLEAN]
=============================================================================
