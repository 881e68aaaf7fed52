------------------------ MODULE MCDirectoryScanner ------------------------
(***************************************************************************)
(* Model values for DirectoryScanner: root/f1, root/d1/f2 and             *)
(* root/d1/d2/f3 with a recursion depth of 1, so d1 is watched and d2,    *)
(* one level deeper, is not.                                              *)
(***************************************************************************)
EXTENDS DirectoryScanner

CONSTANTS d1, d2, f1, f2, f3

MCParent == (d1 :> Root) @@ (d2 :> d1) @@ (f1 :> Root) @@ (f2 :> d1)
              @@ (f3 :> d2)
====
