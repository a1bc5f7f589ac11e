----------------------------- MODULE MCFileTree -----------------------------
(* Two folders below the root with a folder in each: one holds a score          *)
(* container and its output too, and a file named like the other upload, as the *)
(* other folder is.  A page is open on the root and one on the first folder.    *)
EXTENDS FileTree, TLC

CONSTANTS c1, c2, a, b, k, x, score, sheet

Node(type, name, parent) == [type |-> type, name |-> name, parent |-> parent, by |-> None]

MCTree ==
    <<Node("DIR", a, None), Node("DIR", a, 1), Node("DIR", x, 1),
      Node("CONTAINER", k, 2), Node("FILE", x, 4), Node("DIR", b, 3),
      Node("DIR", b, 2), Node("FILE", x, 2)>>

MCOpenAt == c1 :> 1 @@ c2 :> 2

MCNameOf   == score :> k @@ sheet :> x
MCIsSource == score :> TRUE @@ sheet :> FALSE

=============================================================================
