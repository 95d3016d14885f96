----------------------------- MODULE MCFileTree -----------------------------
(* Two names, paths of one or two of them; a is a folder with a device or  *)
(* socket in it, b a file.                                                 *)
EXTENDS FileTree

Mixed == [x \in Paths |-> CASE x = <<"a">> -> "folder"
                            [] x = <<"b">> -> "file"
                            [] x = <<"a", "b">> -> "device"
                            [] OTHER -> "none"]
=============================================================================
