------------------------------ MODULE MCPacing ------------------------------
(***************************************************************************)
(* Three validations: v1 is an HTTP rule with a fallback endpoint, v2 a    *)
(* credential URI of another namespace in the same bucket, whose selector  *)
(* names no namespace (the longer selector has the wrong one and matches   *)
(* neither), and v3 has no limit and no retries.                           *)
(***************************************************************************)
EXTENDS Pacing, MCGitHistory

CONSTANTS v1, v2, v3

Web1 == <<"kingfisher", "web", "1">>
Web2 == <<"betterleaks", "web", "2">>
Jwt  == <<"kingfisher", "jwt">>

Ids == {Web1, Web2, Jwt}
Rules == [t \in Task |-> CASE t = v1 -> Web1 [] t = v2 -> Web2 [] t = v3 -> Jwt]
Selectors ==
  <<[selector |-> <<"web">>, len |-> 3, interval |-> 2],
    [selector |-> <<"kingfisher", "web", "2">>, len |-> 16, interval |-> 3]>>
Requests == [id \in Ids |-> IF id = Jwt THEN 1 ELSE 2]
Repeats == [id \in Ids |-> IF id = Jwt THEN 0 ELSE 1]
HttpRules == {Web1}
=============================================================================
