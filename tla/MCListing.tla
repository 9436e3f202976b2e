----------------------------- MODULE MCListing -----------------------------
(* Instances of Listing for TLC: the names "X" (1) and "x" (4), with the temp *)
(* names "dropper-upload-..." (2 and 3) between them; any of two uploads and *)
(* a folder may be there before.                                             *)
EXTENDS Listing

CONSTANTS u1, u2, m1, nothing
TwoUploads == {u1, u2}
OneMkdir   == {m1}
AllCalls   == {u1, u2, m1}
TwoNames   == {1, 4}
Temps      == [u \in TwoUploads |-> IF u = u1 THEN 2 ELSE 3]
Folded     == [n \in 1 .. 4 |-> IF n = 1 THEN 4 ELSE n]

\* Every route and client; descending sizes, and the ascending names a browser sent
\* to / is shown; and a path that is gone.
Requests ==
  LET R(route, client, path, by, order) ==
        [route |-> route, client |-> client, path |-> path, by |-> by, order |-> order]
  IN {R("/files", "htmx", "here", "size", "desc"), R("/files", "json", "gone", "name", "asc"),
      R("/files", "htmx", "gone", "name", "asc"), R("/files", "browser", "gone", "name", "asc"),
      R("/", "json", "gone", "name", "asc")}

\* One upload's temp file before the entries, the other's after them.
TempsAround == {<<3, 4, 1, 2>>}
=============================================================================
