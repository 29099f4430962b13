----------------------------- MODULE MCPackageIds -----------------------------
(***************************************************************************)
(* PackageIds with a memory of two ids and a clock that wraps once.        *)
(* Payloads of no, one and two chunks.                                     *)
(***************************************************************************)
EXTENDS PackageIds

Lengths == {0, 2, 3}

=============================================================================
