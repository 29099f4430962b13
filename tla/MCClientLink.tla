---------------------------- MODULE MCClientLink ----------------------------
(***************************************************************************)
(* MacLink, the two daemons' connections, with a read timeout of two ticks *)
(* and up to three faults.                                                 *)
(***************************************************************************)
EXTENDS MacLink

AnyAnswer == BOOLEAN
Both      == {"linux", "macos"}
MacOnly   == {"macos"}

=============================================================================
