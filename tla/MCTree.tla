-------------------------------- MODULE MCTree --------------------------------
(* Instances of Tree for TLC: every volume whose root directory has, under   *)
(* each of two names, nothing, a folder, a file or a link: out of the root,  *)
(* to the other name (which may be a link back), into a folder that may or   *)
(* may not be there, or through it and up, out of the root.                  *)
EXTENDS Tree

CONSTANTS u1, u2, m1, skip, up

OneUpload  == {u1}
TwoUploads == {u1, u2}
OneMkdir   == {m1}
NoMkdirs   == {}
TwoNames   == {"a", "b"}
SomeBases  == {<<"b">>, <<"a", up>>, <<up>>}
SomePaths  == {<<"a">>, <<"a", skip, "b">>, <<skip>>, <<"a", "b", "a">>}

A == <<"in", "a">>
B == <<"in", "b">>
Plain      == {"none", "dir", "file"}
Climbing   == <<"in", "b", up, up, "out">>   \* b/../../out, leading nowhere until b is made
Ends(l)    == {<<"out">>, IF l = A THEN B ELSE A, <<"in", "b", "a">>, Climbing}
Held(l) == (Plain \X {NoLoc}) \cup ({"link"} \X Ends(l))

\* The tree with h[A] and h[B] under the two names.
TreeOf(h) ==
  LET names == {l \in {A, B} : h[l][1] # "none"} IN
  [kind  |-> [l \in names \cup {NoLoc, Root, <<"out">>} |-> IF l \in names THEN h[l][1] ELSE "dir"],
   links |-> [l \in {m \in names : h[m][1] = "link"} |-> h[l][2]]]
SomeTrees == {TreeOf([l \in {A, B} |-> IF l = A THEN a ELSE b]) : a \in Held(A), b \in Held(B)}
=============================================================================
