------------------------------- MODULE MCDirWalk -------------------------------
(***************************************************************************)
(* Model-checking instance of DirWalk: below /top, next to a directory     *)
(* that has nothing to do with it, the tree                                *)
(*    root/ sub/ { deep/ { link }, file }   root/ file                     *)
(* with the name "file" in two directories.                                *)
(***************************************************************************)
EXTENDS DirWalk, TLC

AllNodes == {"top", "root", "sub", "deep", "link", "file1", "file2"}

Parents ==
  "top" :> "top" @@ "root" :> "top" @@ "sub" :> "root" @@ "deep" :> "sub" @@
  "link" :> "deep" @@ "file1" :> "sub" @@ "file2" :> "root"

Names == [n \in AllNodes |-> IF n \in {"file1", "file2"} THEN "file" ELSE n]

TheKinds ==
  [n \in AllNodes |-> CASE n \in {"file1", "file2"} -> "reg"
                        [] n = "link" -> "slink"
                        [] OTHER -> "dir"]

===============================================================================
