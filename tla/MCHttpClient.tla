---------------------------- MODULE MCHttpClient ----------------------------
(***************************************************************************)
(* Three requests, with two pieces of headers and two of body; beside a    *)
(* file, a socket, both in either order, or neither.                       *)
(***************************************************************************)
EXTENDS HttpClient

File == [device |-> "file", index |-> 0]
Socket == [device |-> "soc", index |-> 0]

MCOtherTables ==
  { [h \in {} |-> File], [h \in {0} |-> File],
    [h \in {0, 1} |-> IF h = 0 THEN File ELSE Socket], [h \in {0, 1} |-> IF h = 0 THEN Socket ELSE File],
    [h \in {1} |-> Socket] }
=============================================================================
