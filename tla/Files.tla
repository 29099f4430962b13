-------------------------------- MODULE Files --------------------------------
(***************************************************************************)
(* What both directions of the file transfer share: which daemon it is,    *)
(* and what they call some values.                                         *)
(***************************************************************************)

EXTENDS Naturals

CONSTANTS
  Torn,    (* the content of a file that is being written, or half written *)
  Nothing  (* None of an Option                                            *)

\* Copies are numbers.
ASSUME TornAssumption == Torn \notin Nat

VARIABLE os  (* "linux" or "macos" *)

=============================================================================
