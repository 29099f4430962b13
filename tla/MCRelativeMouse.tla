--------------------------- MODULE MCRelativeMouse ---------------------------
(***************************************************************************)
(* RelativeMouse on a small layout and a universal range of 0..6 with a    *)
(* margin of 1.  Entries come over the middle of an edge, at the last and  *)
(* the last but one position, or a little off screen (the overshoot        *)
(* handle_mouse clamps), away from the corners, where learn_entry may take *)
(* one edge for another.                                                   *)
(***************************************************************************)
EXTENDS RelativeMouse

Desk(s, c, n) == [side |-> s, configured |-> c, neighbors |-> n]

OnEdge(e, depth, along) ==
  CASE e = "left"   -> <<e, depth, along>>
    [] e = "right"  -> <<e, 6 - depth, along>>
    [] e = "top"    -> <<e, along, depth>>
    [] e = "bottom" -> <<e, along, 6 - depth>>

MidEntries == {OnEdge(e, d, 2) : e \in Edge, d \in {-1, 0, 1}}

\* A desk of three machines, Windows' side configured, and one of two, the
\* side left to be learned.
LeftDesk == Desk("left", "left", [e \in {"right", "bottom"} |-> "mac"])
TopDesk  == Desk("top", NoEdge, <<>>)

AllDesks == {LeftDesk, TopDesk}

ASSUME DesksAssumption == ClearOfCorners /\ SidesAreRight /\ SidesAreNamed

OnePixel == {-1, 0, 1}

=============================================================================
