---------------------------- MODULE RelativeMouse ----------------------------
(***************************************************************************)
(* "Move mouse relatively": Windows sends deltas, and this machine notices *)
(* the cursor being pushed off an edge and asks Windows to switch.         *)
(* MouseState and the mouse moves of handle_mouse (input_handling.rs), the *)
(* tracked position of WaylandInput (wayland_input.rs), and the Windows    *)
(* side that decides which machine has the cursor.                         *)
(*                                                                         *)
(* The universal range 0..65535 is 0..U.  A position is kept in U-ths of a *)
(* pixel, so that the f64 arithmetic of the code is exact on integers: the *)
(* universal x is at x * W, a pixel is U wide.                             *)
(***************************************************************************)
EXTENDS Integers, FiniteSets

CONSTANTS
  W, H,         (* the output layout in pixels                            *)
  U,            (* the universal extent, 65535                            *)
  Margin,       (* ENTRY_EDGE_MARGIN                                      *)
  Inset,        (* SWITCH_BACK_INSET                                      *)
  Pause,        (* ticks after which a move comes "after a pause" (1 s)   *)
  Throttle,     (* SWITCH_BACK_MIN_INTERVAL in ticks                      *)
  LayoutKnown,  (* hyprctl told the layout                                *)
  Desks,        (* the desks: where Windows really is (side), and what    *)
                (* config.json says: windows_side (configured, or NoEdge) *)
                (* and neighbors (edge -> machine)                        *)
  EntryPoints,  (* <<edge, x, y>>: where the cursor comes in              *)
  Deltas        (* the pixel deltas the user moves by                     *)

Edge    == {"left", "right", "top", "bottom"}
NoEdge  == "none"
Windows == "windows"
Here    == "here"
Nobody  == "nobody"       \* a target, or a request, that is not there

Machine == {Windows} \cup UNION {{d.neighbors[e] : e \in DOMAIN d.neighbors} : d \in Desks}

ASSUME ConstantsAssumption ==
  /\ {W, H, U, Margin, Pause, Throttle} \subseteq Nat \ {0}
  /\ Inset \in 0 .. U
  /\ LayoutKnown \in BOOLEAN
  /\ \A d \in Desks :
       /\ d.side \in Edge
       /\ d.configured \in Edge \cup {NoEdge}
       /\ DOMAIN d.neighbors \subseteq Edge \ {d.side}
  /\ Here \notin Machine /\ Nobody \notin Machine
  /\ Margin < U \div 2
  /\ EntryPoints \subseteq Edge \X Int \X Int /\ Deltas \subseteq Int

VARIABLES
  desk,          (* the desk of this installation, read once at start     *)
  learned,       (* MouseState.learned_edge                               *)
  relativeSeen,  (* MouseState.relative_seen                              *)
  sincePacket,   (* age of last_packet, Pause for "more than 1 s or none" *)
  sinceSwitch,   (* age of last_switch_back, Throttle for "long or none"  *)
  pos,           (* WaylandInput.rel_pos                                  *)
  exit,          (* the last move's EdgeExit: edge and delta, or NoExit   *)
  entered,       (* the last move was the absolute one of an entry        *)
  where,         (* the machine that has the cursor                       *)
  asked,         (* a NextMachine package on its way, or NoRequest        *)
  known,         (* an entry from Windows taught its edge since then      *)
  leaving        (* the user has decided to go back to Windows            *)

mouseState == <<learned, relativeSeen, sincePacket, sinceSwitch>>
mouse == <<desk, learned, relativeSeen, sincePacket, sinceSwitch, pos, exit,
           entered, where, asked, known>>
vars == <<mouse, leaving>>

NoExit    == [edge |-> NoEdge, dx |-> 0, dy |-> 0]
NoRequest == [to |-> Nobody, x |-> 0, y |-> 0, from |-> NoEdge]

Clamp(v, lo, hi) == IF v < lo THEN lo ELSE IF v > hi THEN hi ELSE v

-----------------------------------------------------------------------------
(* MouseState.                                                             *)

\* Mutant: what was learned overrides config.json.
WindowsEdgeLearnedFirst == IF learned # NoEdge THEN learned ELSE desk.configured

windows_edge == IF desk.configured # NoEdge THEN desk.configured ELSE learned

\* Mutant: once the Windows edge is known, every free edge leads there.
TargetAnyEdge(e) ==
  IF e \in DOMAIN desk.neighbors THEN desk.neighbors[e]
  ELSE IF windows_edge # NoEdge THEN Windows ELSE Nobody

\* MouseState::target: a neighbour's edge first, then the one of Windows.
target(e) ==
  IF e \in DOMAIN desk.neighbors THEN desk.neighbors[e]
  ELSE IF e = windows_edge THEN Windows ELSE Nobody

\* The edge an absolute position is close to; the first of left, right, top
\* and bottom wins in a corner.
EntryEdge(x, y) ==
  CASE x <= Margin                       -> "left"
    [] x > Margin /\ x >= U - Margin     -> "right"
    [] x > Margin /\ x < U - Margin /\ y <= Margin -> "top"
    [] x > Margin /\ x < U - Margin /\ y > Margin /\ y >= U - Margin -> "bottom"
    [] OTHER -> NoEdge

\* Entries over the middle of an edge: in a corner it may pass for another.
ClearOfCorners ==
  \A p \in EntryPoints : EntryEdge(Clamp(p[2], 0, U), Clamp(p[3], 0, U)) = p[1]

\* A config.json that is right about Windows' side, and names it where other
\* machines have edges of their own.
SidesAreRight == \A d \in Desks : d.configured \in {NoEdge, d.side}
SidesAreNamed == \A d \in Desks : DOMAIN d.neighbors # {} => d.configured # NoEdge

\* Mutant: whatever the first move after a pause is close to is forgotten.
LearnForgets(x, y, afterPause) ==
  learned' = IF relativeSeen \/ afterPause THEN EntryEdge(x, y) ELSE learned

\* MouseState::learn_entry.
LearnEntry(x, y, afterPause) ==
  learned' = IF (relativeSeen \/ afterPause) /\ EntryEdge(x, y) # NoEdge
             THEN EntryEdge(x, y) ELSE learned

-----------------------------------------------------------------------------
(* InputSink for WaylandInput.                                             *)

MoveAbsolute(x, y) == pos' = IF LayoutKnown THEN <<x * W, y * H>> ELSE pos

\* The edge a move to <<tx, ty>> is pushed off: left, right, top, bottom.
EdgePast(tx, ty) ==
  CASE ~LayoutKnown                        -> NoEdge
    [] LayoutKnown /\ tx < 0               -> "left"
    [] LayoutKnown /\ tx > (W - 1) * U     -> "right"
    [] LayoutKnown /\ tx \in 0 .. (W - 1) * U /\ ty < 0 -> "top"
    [] LayoutKnown /\ tx \in 0 .. (W - 1) * U /\ ty > (H - 1) * U -> "bottom"
    [] OTHER -> NoEdge

\* Mutant: the tracked position is not clamped to the layout.
MoveRelativeUnclamped(tx, ty) == pos' = <<tx, ty>>

MoveRelative(tx, ty) ==
  pos' = IF LayoutKnown THEN <<Clamp(tx, 0, (W - 1) * U), Clamp(ty, 0, (H - 1) * U)>>
         ELSE pos

-----------------------------------------------------------------------------
(* handle_mouse.                                                           *)

AfterPause == sincePacket = Pause

\* An absolute move, clamped into the universal range.
HandleAbsolute(x, y) ==
  LET cx == Clamp(x, 0, U)
      cy == Clamp(y, 0, U)
  IN  /\ LearnEntry(cx, cy, AfterPause)
      /\ MoveAbsolute(cx, cy)
      /\ sincePacket' = 0
      /\ exit' = NoExit
      /\ entered' = TRUE
      /\ UNCHANGED <<relativeSeen, sinceSwitch>>

\* Where the cursor reappears: just inside the edge that faces us.
SwitchBack(e, tx, ty) ==
  LET along == IF e \in {"left", "right"} THEN Clamp(ty \div H, 0, U)
                                          ELSE Clamp(tx \div W, 0, U)
      far   == IF e \in {"left", "top"} THEN U - Inset ELSE Inset
      vert  == e \in {"left", "right"}
  IN  [to |-> target(e), from |-> e,
       x |-> IF vert THEN far ELSE along, y |-> IF vert THEN along ELSE far]

\* Mutant: last_switch_back is set before the throttle is looked at.
HandleRelativeThrottleFirst(dx, dy) ==
  LET tx == pos[1] + dx * U
      ty == pos[2] + dy * U
      e  == EdgePast(tx, ty)
      leads == e # NoEdge /\ target(e) # Nobody
  IN  /\ relativeSeen' = TRUE
      /\ sincePacket' = 0
      /\ MoveRelative(tx, ty)
      /\ exit' = [edge |-> e, dx |-> dx, dy |-> dy]
      /\ entered' = FALSE
      /\ sinceSwitch' = IF leads THEN 0 ELSE sinceSwitch
      /\ asked' = IF leads /\ sinceSwitch = Throttle THEN SwitchBack(e, tx, ty) ELSE asked
      /\ UNCHANGED learned

\* A relative move.  Pushed off an edge that leads somewhere, and not
\* throttled, it sends Windows a NextMachine package.
HandleRelative(dx, dy) ==
  LET tx == pos[1] + dx * U
      ty == pos[2] + dy * U
      e  == EdgePast(tx, ty)
      switches == e # NoEdge /\ target(e) # Nobody /\ sinceSwitch = Throttle
  IN  /\ relativeSeen' = TRUE
      /\ sincePacket' = 0
      /\ MoveRelative(tx, ty)
      /\ exit' = [edge |-> e, dx |-> dx, dy |-> dy]
      /\ entered' = FALSE
      /\ sinceSwitch' = IF switches THEN 0 ELSE sinceSwitch
      /\ asked' = IF switches THEN SwitchBack(e, tx, ty) ELSE asked
      /\ UNCHANGED learned

\* Buttons, wheels.  Coordinates coded as relative count whatever they come
\* with.
HandleOther(relative) ==
  /\ relativeSeen' = (relativeSeen \/ relative)
  /\ sincePacket' = 0
  /\ UNCHANGED <<learned, sinceSwitch, pos, exit, entered>>

-----------------------------------------------------------------------------
Init ==
  /\ desk \in Desks
  /\ learned = NoEdge /\ relativeSeen = FALSE
  /\ sincePacket = Pause /\ sinceSwitch = Throttle
  /\ pos = <<0, 0>>
  /\ exit = NoExit /\ entered = FALSE
  /\ where = Windows
  /\ asked = NoRequest
  /\ known = FALSE /\ leaving = FALSE

\* The machine beyond an edge, as the desk really is laid out.
Beyond(e) ==
  IF e = desk.side THEN Windows
  ELSE IF e \in DOMAIN desk.neighbors THEN desk.neighbors[e] ELSE Nobody

\* Windows switches to this machine because the cursor crossed edge e.  Only
\* an entry after a pause, or once relative mode is in use, can teach.
Enter(e, x, y) ==
  /\ where = Beyond(e)
  /\ where' = Here
  /\ known' = (known \/ (e = desk.side /\ (relativeSeen \/ AfterPause)))
  /\ HandleAbsolute(x, y)
  /\ UNCHANGED <<desk, asked>>

\* Windows switches here by hotkey: the cursor appears mid-screen.
EnterByHotkey ==
  /\ where # Here
  /\ where' = Here
  /\ HandleAbsolute(U \div 2, U \div 2)
  /\ UNCHANGED <<desk, asked, known>>

\* ... and away by hotkey.
LeaveByHotkey(m) ==
  /\ where = Here
  /\ where' = m
  /\ UNCHANGED <<desk, mouseState, pos, exit, entered, asked, known>>

Move(dx, dy) ==
  /\ where = Here
  /\ HandleRelative(dx, dy)
  /\ UNCHANGED <<desk, where, known>>

Click ==
  /\ where = Here
  /\ \E relative \in BOOLEAN : HandleOther(relative)
  /\ UNCHANGED <<desk, where, asked, known>>

\* Windows obeys the NextMachine package, or it is lost.
Granted ==
  /\ asked # NoRequest
  /\ where' = asked.to
  /\ asked' = NoRequest
  /\ UNCHANGED <<desk, mouseState, pos, exit, entered, known>>

Ignored ==
  /\ asked # NoRequest
  /\ asked' = NoRequest
  /\ UNCHANGED <<desk, mouseState, pos, exit, entered, where, known>>

Tick ==
  /\ sincePacket < Pause \/ sinceSwitch < Throttle
  /\ sincePacket' = IF sincePacket < Pause THEN sincePacket + 1 ELSE Pause
  /\ sinceSwitch' = IF sinceSwitch < Throttle THEN sinceSwitch + 1 ELSE Throttle
  /\ UNCHANGED <<desk, learned, relativeSeen, pos, exit, entered, where, asked, known>>

\* A new session: MouseState::new; WaylandInput and its position stay.
Reconnect ==
  /\ learned' = NoEdge /\ relativeSeen' = FALSE
  /\ sincePacket' = Pause /\ sinceSwitch' = Throttle
  /\ asked' = NoRequest
  /\ known' = FALSE
  /\ exit' = NoExit
  /\ UNCHANGED <<desk, pos, entered, where>>

\* The user moves and switches at will ...
Wish ==
  \/ \E p \in EntryPoints : Enter(p[1], p[2], p[3])
  \/ EnterByHotkey
  \/ \E m \in Machine : LeaveByHotkey(m)
  \/ \E dx, dy \in Deltas : Move(dx, dy)

\* ... until the wish to leave: from then on, only pushes to the edge of
\* Windows,
Push ==
  /\ leaving
  /\ CASE desk.side = "left"   -> Move(-1, 0)
       [] desk.side = "right"  -> Move(1, 0)
       [] desk.side = "top"    -> Move(0, -1)
       [] desk.side = "bottom" -> Move(0, 1)
  /\ UNCHANGED leaving

\* with a hand that also wanders along the edge.
Wander ==
  /\ leaving
  /\ \E d \in Deltas : IF desk.side \in {"left", "right"} THEN Move(0, d) ELSE Move(d, 0)
  /\ UNCHANGED leaving

Decide == ~leaving /\ leaving' = TRUE /\ UNCHANGED mouse

\* What Windows does with a request, time, and the connection.
Around == Click \/ Granted \/ Ignored \/ Tick \/ Reconnect

Next ==
  \/ (~leaving /\ Wish /\ UNCHANGED leaving)
  \/ Decide \/ Push \/ Wander
  \/ (Around /\ UNCHANGED leaving)

\* Who wants to leave keeps pushing, time passes, and Windows, asked over
\* and over, does not lose every request.
Fairness ==
  /\ WF_vars(Push) /\ WF_vars(Tick /\ UNCHANGED leaving)
  /\ SF_vars(Granted /\ UNCHANGED leaving)

Spec == Init /\ [][Next]_vars /\ Fairness

-----------------------------------------------------------------------------
\* Types; the tracked position stays in the layout, and a request names a
\* machine and a point of its screen.
TypeOK ==
  /\ desk \in Desks
  /\ learned \in Edge \cup {NoEdge}
  /\ relativeSeen \in BOOLEAN /\ entered \in BOOLEAN
  /\ known \in BOOLEAN /\ leaving \in BOOLEAN
  /\ sincePacket \in 0 .. Pause /\ sinceSwitch \in 0 .. Throttle
  /\ pos \in (0 .. W * U) \X (0 .. H * U)
  /\ exit.edge \in Edge \cup {NoEdge}
  /\ where \in Machine \cup {Here}
  /\ asked = NoRequest \/ (asked.to \in Machine /\ {asked.x, asked.y} \subseteq 0 .. U)

Pushed(x) ==
  CASE x.edge = "left"   -> x.dx < 0
    [] x.edge = "right"  -> x.dx > 0
    [] x.edge = "top"    -> x.dy < 0
    [] x.edge = "bottom" -> x.dy > 0
    [] OTHER             -> TRUE

\* EdgeExit is "a relative move that tried to carry the cursor past a screen
\* edge" (input_handling.rs:81).  That is so once a relative move has placed
\* the cursor: an absolute entry may put it one step further out than
\* relative moves go, and the move after it then counts as an exit.
ExitIsPushAfterFirst ==
  [][(\E dx, dy \in Deltas : Move(dx, dy)) /\ ~entered => Pushed(exit')]_vars

\* A request asks for the machine that really is beyond the edge crossed.
SwitchLeadsWhereEdgeDoes == asked # NoRequest => asked.to = Beyond(asked.from)

\* "the bridge itself notices the cursor being pushed off the edge that faces
\* Windows and hands control back" (README.md:267): once the cursor came in
\* from Windows by an entry that learn_entry listens to, the edge it came
\* through leads back, whatever other entries and moves follow.
WindowsEdgeLeadsBack == known => target(desk.side) = Windows

\* Keeping on pushing takes the cursor out of here, however the machine was
\* used before and however many requests are lost, unless a reconnect makes
\* the bridge forget the edge first.
PushingReturns == (leaving /\ where = Here /\ known) ~> (where # Here \/ ~known)

=============================================================================
