------------------------------- MODULE MacMouse -------------------------------
(***************************************************************************)
(* The mouse half of CgInput, the sink of the macOS daemon (cg_input.rs):  *)
(* moves, buttons with their drags and click counts, and the mouse's part  *)
(* of reset.  CGEventPost is asynchronous, so the cursor lags behind what  *)
(* was posted; other things move it too (a trackpad, a game that warps     *)
(* it) or hide it.  Scrolling posts an event and changes nothing here; the *)
(* displays stay as they are.                                              *)
(***************************************************************************)
EXTENDS Integers, Sequences, Functions

CONSTANTS
  Button,        (* the buttons used                                       *)
  Desk,          (* virtual_desktop_bounds: <<width, height>> in pixels    *)
  Fraction,      (* where absolute moves go, in Units of the desktop       *)
  Unit,
  Delta,         (* the raw deltas of relative moves                       *)
  Resync,        (* POSITION_RESYNC_AFTER in ticks                         *)
  DoubleClick,   (* DOUBLE_CLICK_INTERVAL in ticks                         *)
  ClickDistance, (* DOUBLE_CLICK_DISTANCE in pixels                        *)
  MaxCount,      (* bound: clicks in a row                                 *)
  NoButton

ASSUME MouseAssumption ==
  /\ NoButton \notin Button
  /\ Desk \in (Nat \ {0}) \X (Nat \ {0})
  /\ Unit \in Nat \ {0} /\ Fraction \subseteq (0 .. Unit) \X (0 .. Unit)
  /\ Delta \subseteq Int \X Int
  /\ {Resync, MaxCount} \subseteq Nat \ {0} /\ {DoubleClick, ClickDistance} \subseteq Nat

VARIABLES
  here,       (* Windows sends its mouse here                              *)
  wdown,      (* buttons physically held at Windows                        *)
  pos,        (* CgInput.pos                                               *)
  sincePost,  (* since last_mouse_post, up to Resync                       *)
  shown,      (* cursor_shown                                              *)
  held,       (* held_buttons, oldest first                                *)
  lastButton, (* last_click_button                                         *)
  sinceClick, (* since last_click_time, up to DoubleClick + 1              *)
  lastPos,    (* last_click_pos                                            *)
  count,      (* click_count                                               *)
  exits,      (* the edges the last move was pushed past, if it reported   *)
  live,       (* macOS: where the cursor is                                *)
  behind,     (* macOS: has yet to carry out what was posted               *)
  nudged,     (* macOS: others have moved the cursor since                 *)
  visible,    (* macOS: the cursor is not hidden                           *)
  osDown,     (* macOS: per button, presses since its last release         *)
  drag,       (* macOS: the button of the drag that the last move went on  *)
  missed      (* buttons released at Windows while its mouse was elsewhere *)

clicks  == <<lastButton, sinceClick, lastPos, count>>
buttons == <<held, osDown, missed>>
cursor  == <<live, nudged, visible>>
mvars == <<here, wdown, pos, sincePost, shown, exits, drag, behind,
           clicks, buttons, cursor>>

Down == {b \in Button : osDown[b] > 0}

\* The cursor once macOS has carried out what was posted.
Settled == IF behind THEN pos ELSE live

MInit ==
  /\ here = FALSE /\ wdown = {}
  /\ pos = <<Desk[1] \div 2, Desk[2] \div 2>> /\ lastPos = pos
  /\ sincePost = Resync
  /\ shown = TRUE
  /\ held = <<>> /\ missed = {}
  /\ lastButton = NoButton /\ sinceClick = 0 /\ count = 1
  /\ exits = <<>>
  /\ live = pos /\ behind = FALSE /\ nudged = FALSE
  /\ visible = TRUE
  /\ osDown = [b \in Button |-> 0] /\ drag = NoButton

-----------------------------------------------------------------------------
(* What CgInput is built from.                                             *)

\* Mutant: the live cursor is read whenever a position is needed.
SyncedAlways == live

\* sync_position: the live cursor, unless a mouse event was posted a moment
\* ago.
Synced == IF sincePost = Resync THEN live ELSE pos

\* post_mouse_with_delta: an event at pos'.
Posted ==
  /\ sincePost' = 0
  /\ behind' = TRUE
  /\ nudged' = FALSE

\* Read anew, or as it was read last.
cursor_shown == shown' \in {shown, visible}

\* Mutant: a move drags the button pressed last.
DragsNewest == IF held = <<>> THEN NoButton ELSE held[Len(held)]

\* move_type: a drag of the earliest button still held.
move_type == IF held = <<>> THEN NoButton ELSE Head(held)

\* held_buttons has at most one entry of a button.
Without(b) ==
  IF b \notin Range(held) THEN held
  ELSE LET i == CHOOSE i \in DOMAIN held : held[i] = b
       IN  SubSeq(held, 1, i - 1) \o SubSeq(held, i + 1, Len(held))

Clamp(v, size) == IF v < 0 THEN 0 ELSE IF v >= size THEN size - 1 ELSE v

Near(p, q) ==
  (p[1] - q[1]) * (p[1] - q[1]) + (p[2] - q[2]) * (p[2] - q[2])
    <= ClickDistance * ClickDistance

-----------------------------------------------------------------------------
(* Moves.                                                                  *)

\* A fraction of the desktop, its far border included.
move_absolute(f) ==
  /\ pos' = <<(f[1] * Desk[1]) \div Unit, (f[2] * Desk[2]) \div Unit>>
  /\ drag' = move_type
  /\ Posted
  /\ exits' = <<>>
  /\ UNCHANGED <<shown, clicks, buttons, live, visible>>

\* The edges a move from p to t goes past, in the order they are looked at
\* (Past); and whether p is within a pixel of one of them.
Edge == {"left", "right", "top", "bottom"}

IsPast(e, t) ==
  \/ e = "left" /\ t[1] < 0
  \/ e = "right" /\ t[1] > Desk[1] - 1
  \/ e = "top" /\ t[2] < 0
  \/ e = "bottom" /\ t[2] > Desk[2] - 1

IsAt(e, p) ==
  \/ e = "left" /\ p[1] <= 1
  \/ e = "right" /\ p[1] >= Desk[1] - 2
  \/ e = "top" /\ p[2] <= 1
  \/ e = "bottom" /\ p[2] >= Desk[2] - 2

Past(t) ==
  LET Over(e) == IF IsPast(e, t) THEN <<e>> ELSE <<>>
  IN  Over("left") \o Over("right") \o Over("top") \o Over("bottom")

at_edge(p, t) == \E e \in Range(Past(t)) : IsAt(e, p)

\* A visible cursor leaves over any edge, a hidden one that is at an edge.
Reports(p, t) == at_edge(p, t) \/ visible

\* move_relative: from the live cursor if that is hidden.  Of the edges it
\* was pushed past the first is reported.
move_relative(d) ==
  /\ cursor_shown
  /\ LET current == IF shown' THEN Synced ELSE live
         t == <<current[1] + d[1], current[2] + d[2]>>
     IN  /\ exits' = IF Reports(current, t) THEN Past(t) ELSE <<>>
         /\ pos' = <<Clamp(t[1], Desk[1]), Clamp(t[2], Desk[2])>>
  /\ drag' = move_type
  /\ Posted
  /\ UNCHANGED <<clicks, buttons, live, visible>>

-----------------------------------------------------------------------------
(* Buttons.                                                                *)

\* Mutant: a press does not look whether the button is already down.
PressAgain(b) == FALSE

\* Its release got lost, says the code.
HeldAlready(b) == b \in Range(held)

SameClick(b) ==
  lastButton = b /\ sinceClick <= DoubleClick /\ Near(Synced, lastPos)

\* A drag is over when its button goes up.
Undrag(up) == drag' = IF drag \in up THEN NoButton ELSE drag

Press(b) ==
  LET up == IF HeldAlready(b) THEN {b} ELSE {}
  IN  /\ pos' = Synced
      /\ count' = IF SameClick(b) THEN count + 1 ELSE 1
      /\ count' <= MaxCount
      /\ lastButton' = b /\ sinceClick' = 0 /\ lastPos' = pos'
      /\ held' = Append(IF up = {} THEN held ELSE Without(b), b)
      /\ osDown' = [osDown EXCEPT ![b] = IF up = {} THEN @ + 1 ELSE 1]
      /\ missed' = missed \ {b}
      /\ Undrag(up)

Release(b) ==
  /\ pos' = Synced
  /\ held' = Without(b)
  /\ osDown' = [osDown EXCEPT ![b] = 0]
  /\ missed' = missed \ {b}
  /\ Undrag({b})
  /\ UNCHANGED clicks

\* CgInput::button.
button(b, pressed) ==
  /\ IF pressed THEN Press(b) ELSE Release(b)
  /\ Posted
  /\ exits' = <<>>
  /\ UNCHANGED <<shown, live, visible>>

\* The first loop of CgInput::reset: releases the buttons.
ResetButtons ==
  /\ held' = <<>> /\ missed' = {}
  /\ osDown' = [b \in Button |-> IF b \in Range(held) THEN 0 ELSE osDown[b]]
  /\ Undrag(Range(held))
  /\ exits' = <<>>
  /\ IF held = <<>> THEN UNCHANGED <<pos, sincePost, behind, nudged>>
                    ELSE pos' = Synced /\ Posted
  /\ UNCHANGED <<shown, clicks, live, visible>>

-----------------------------------------------------------------------------
(* Windows' mouse, while it is here and while it is not.                   *)

Enter(f) == here' = TRUE /\ move_absolute(f) /\ UNCHANGED wdown
Move(d)  == here /\ move_relative(d) /\ UNCHANGED <<here, wdown>>

Leave ==
  /\ here /\ here' = FALSE
  /\ exits' = <<>>
  /\ UNCHANGED <<wdown, pos, sincePost, shown, drag, behind, clicks, buttons, cursor>>

\* A button that goes down or up elsewhere: nothing is sent here.
Elsewhere ==
  /\ exits' = <<>>
  /\ UNCHANGED <<pos, sincePost, shown, drag, behind, clicks, held, osDown, cursor>>

ButtonDown(b) ==
  /\ b \notin wdown /\ wdown' = wdown \cup {b}
  /\ \/ here /\ button(b, TRUE)
     \/ ~here /\ Elsewhere /\ UNCHANGED missed
  /\ UNCHANGED here

ButtonUp(b) ==
  /\ b \in wdown /\ wdown' = wdown \ {b}
  /\ \/ here /\ button(b, FALSE)
     \/ ~here /\ Elsewhere /\ missed' = missed \cup ({b} \cap Down)
  /\ UNCHANGED here

-----------------------------------------------------------------------------
(* macOS.                                                                  *)

Catches ==
  /\ behind /\ behind' = FALSE
  /\ live' = pos
  /\ exits' = <<>>
  /\ UNCHANGED <<here, wdown, pos, sincePost, shown, drag, clicks, buttons,
                 nudged, visible>>

\* Something else moves the cursor; what is in flight moves it again.
Nudge ==
  /\ live' \in (0 .. Desk[1] - 1) \X (0 .. Desk[2] - 1)
  /\ live' # live
  /\ nudged' = ~behind
  /\ exits' = <<>>
  /\ UNCHANGED <<here, wdown, pos, sincePost, shown, drag, behind, clicks,
                 buttons, visible>>

HideOrShow ==
  /\ visible' = ~visible
  /\ exits' = <<>>
  /\ UNCHANGED <<here, wdown, pos, sincePost, shown, drag, behind, clicks,
                 buttons, live, nudged>>

\* Time passes.  What was posted is carried out within Resync ticks.
Tick ==
  /\ sincePost + 1 = Resync => ~behind
  /\ sincePost' = IF sincePost < Resync THEN sincePost + 1 ELSE sincePost
  /\ sinceClick' = IF sinceClick <= DoubleClick THEN sinceClick + 1 ELSE sinceClick
  /\ exits' = <<>>
  /\ UNCHANGED <<here, wdown, pos, shown, drag, behind, buttons, cursor,
                 lastButton, lastPos, count>>

-----------------------------------------------------------------------------
Point == (0 .. Desk[1]) \X (0 .. Desk[2])

MTypeOK ==
  /\ {here, shown, behind, nudged, visible} \subseteq BOOLEAN
  /\ wdown \subseteq Button /\ missed \subseteq Button
  /\ {pos, lastPos, live} \subseteq Point
  /\ sincePost \in 0 .. Resync /\ sinceClick \in 0 .. DoubleClick + 1
  /\ held \in Seq(Button)
  /\ {lastButton, drag} \subseteq Button \cup {NoButton}
  /\ count \in 1 .. MaxCount
  /\ Range(exits) \subseteq Edge
  /\ osDown \in [Button -> Nat]

\* "Releasing a second button mid-drag keeps the drag going" (cg_input.rs:134):
\* so does pressing one, a lost release of another, and every move.
DragGoesOn ==
  [][(drag \in Down /\ drag \in Down' /\ drag \notin wdown' \ wdown) => (drag' = drag)]_mvars

\* A click or a relative move of a visible cursor starts from where the cursor
\* is once macOS has caught up: no movement is thrown away, and nothing is
\* clicked elsewhere, unless others have moved the cursor within
\* POSITION_RESYNC_AFTER of an event of ours (cg_input.rs:55-62, :548-550).
StartsAtCursor == Synced = Settled \/ (nudged /\ sincePost < Resync)

\* "Reports an edge exit while the cursor is visible, or, when it's hidden, only
\* once it has really reached that edge" (cg_input.rs:473-474): the edge that is
\* reported, of a cursor that the bridge knows to be hidden and whose place it
\* has just read.
HiddenLeavesOverItsEdge ==
  [][exits' # <<>> /\ ~visible /\ ~shown' => IsAt(Head(exits'), live)]_mvars

=============================================================================
