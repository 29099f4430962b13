---------------------------- MODULE MCFileTransfer ----------------------------
(***************************************************************************)
(* FileTransfer with two pulls that may use the same file name, one server *)
(* thread, and two or three copies, on one side or on both.                *)
(***************************************************************************)
EXTENDS FileTransfer

CONSTANTS s1, p1, p2

Servers == {s1}
Pullers == {p1, p2}
Both    == {"linux", "macos"}
Names   == {"a", "b"}

Copies(here, windows) == [side \in {"here", "windows"} |-> IF side = "here" THEN here ELSE windows]

MCSplits == {Copies(3, 0), Copies(2, 1), Copies(0, 2)}

=============================================================================
