-------------------------- MODULE RelativeMouseProofs --------------------------
(***************************************************************************)
(* What holds of relative mode for every layout, universal range, margin   *)
(* and throttle, and any entries and moves: types and ranges, that an exit *)
(* is a push, and where the edges lead.                                    *)
(*                                                                         *)
(* The theorems about edges name what they need of the user's desk: that   *)
(* entries are clear of the corners, and that config.json is right.        *)
(***************************************************************************)
EXTENDS RelativeMouse, TLAPS

-----------------------------------------------------------------------------
(* Arithmetic of positions.                                                *)

LEMMA Extents ==
  /\ W \in Nat \ {0} /\ H \in Nat \ {0} /\ U \in Nat \ {0} /\ Margin \in Nat \ {0}
  /\ Pause \in Nat \ {0} /\ Throttle \in Nat \ {0} /\ Inset \in 0 .. U
  /\ Margin < U \div 2
BY ConstantsAssumption

\* Clamping leaves a number of the range, which it does not move within it.
LEMMA ClampBounds ==
  ASSUME NEW v \in Int, NEW hi \in Nat
  PROVE  Clamp(v, 0, hi) \in 0 .. hi
BY DEF Clamp

LEMMA ClampWithin ==
  ASSUME NEW v \in Int, NEW limit \in Int, NEW hi \in 0 .. limit
  PROVE  Clamp(v, 0, hi) \in 0 .. limit
BY DEF Clamp

\* The tracked position reaches from 0 to the last pixel, in U-ths.
LEMMA LastPixel ==
  ASSUME NEW n \in Nat \ {0}
  PROVE  /\ (n - 1) * U \in 0 .. n * U
         /\ \A u \in 0 .. U : u * n \in 0 .. n * U
<1>1. U \in Nat /\ n - 1 \in Nat /\ n \in Nat
  BY Extents
<1> DEFINE last == (n - 1) * U
<1>2. last \in Nat /\ n * U = last + U
  BY <1>1
<1>3. ASSUME NEW u \in 0 .. U PROVE u * n \in 0 .. n * U
  <2>1. u \in Nat /\ U - u \in Nat
    BY <1>1
  <2>2. u * n \in Nat /\ (U - u) * n \in Nat
    BY <1>1, <2>1
  <2>3. (U - u) * n = n * U - u * n
    BY <1>1, <2>1
  <2> QED
    BY <1>1, <2>2, <2>3
<1> QED
  BY <1>1, <1>2, <1>3

\* A delta moves by whole pixels, in its own direction.
LEMMA DeltaMoves ==
  ASSUME NEW d \in Int
  PROVE  d * U \in Int /\ (d * U < 0 => d < 0) /\ (d * U > 0 => d > 0)
<1>1. U \in Nat \ {0}
  BY Extents
<1>2. CASE d >= 0
  BY <1>1, <1>2
<1>3. CASE d < 0
  <2>1. 0 - d \in Nat /\ (0 - d) * U \in Nat
    BY <1>1, <1>3
  <2>2. d * U \in Int /\ (0 - d) * U = 0 - d * U
    BY <1>1
  <2> QED
    BY <1>3, <2>1, <2>2
<1> QED
  BY <1>2, <1>3

\* Mid-screen is close to no edge.
LEMMA MiddleTeachesNothing ==
  /\ U \div 2 \in 0 .. U
  /\ EntryEdge(Clamp(U \div 2, 0, U), Clamp(U \div 2, 0, U)) = NoEdge
<1>1. U \div 2 \in 0 .. U /\ U \div 2 <= U - U \div 2
  BY Extents
<1>2. Clamp(U \div 2, 0, U) = U \div 2
  BY <1>1, Extents DEF Clamp
<1>3. U \div 2 > Margin /\ U \div 2 < U - Margin
  BY <1>1, Extents
<1> QED
  BY <1>1, <1>2, <1>3, Extents DEF EntryEdge

-----------------------------------------------------------------------------
(* The steps.                                                              *)

\* What the user's intent adds to a step is who pushes where.
LEMMA StepIsOneOf ==
  ASSUME desk \in Desks, [Next]_vars
  PROVE  \/ \E p \in EntryPoints : Enter(p[1], p[2], p[3])
         \/ EnterByHotkey
         \/ \E m \in Machine : LeaveByHotkey(m)
         \/ \E dx, dy \in Int : Move(dx, dy)
         \/ Click \/ Granted \/ Ignored \/ Tick \/ Reconnect
         \/ UNCHANGED mouse
<1>1. desk.side \in Edge /\ Deltas \subseteq Int
  BY ConstantsAssumption
<1>2. CASE Wish
  BY <1>1, <1>2 DEF Wish
<1>3. CASE Push
  <2>1. desk.side \in {"left", "right", "top", "bottom"}
    BY <1>1 DEF Edge
  <2>2. Move(-1, 0) \/ Move(1, 0) \/ Move(0, -1) \/ Move(0, 1)
    BY <1>3, <2>1 DEF Push
  <2>3. -1 \in Int /\ 0 \in Int /\ 1 \in Int
    OBVIOUS
  <2> QED
    BY <2>2, <2>3
<1>4. CASE Wander
  BY <1>1, <1>4 DEF Wander
<1>5. CASE Decide \/ UNCHANGED vars
  BY <1>5 DEF Decide, vars
<1>6. CASE Around
  BY <1>6 DEF Around
<1> QED
  BY <1>2, <1>3, <1>4, <1>5, <1>6 DEF Next

-----------------------------------------------------------------------------
(* The types.                                                              *)

Flags ==
  /\ relativeSeen \in BOOLEAN /\ entered \in BOOLEAN
  /\ known \in BOOLEAN /\ leaving \in BOOLEAN

Request == asked = NoRequest \/ (asked.to \in Machine /\ {asked.x, asked.y} \subseteq 0 .. U)

Ranges ==
  /\ desk \in Desks
  /\ learned \in Edge \cup {NoEdge}
  /\ sincePacket \in 0 .. Pause /\ sinceSwitch \in 0 .. Throttle
  /\ pos \in (0 .. W * U) \X (0 .. H * U)
  /\ exit.edge \in Edge \cup {NoEdge}
  /\ where \in Machine \cup {Here}
  /\ Request

\* Once a relative move has placed the cursor, it is on a pixel of the layout.
OnPixel == LayoutKnown /\ ~entered => pos \in (0 .. (W - 1) * U) \X (0 .. (H - 1) * U)

LEMMA TypesAreBoth == TypeOK <=> Flags /\ Ranges
BY DEF TypeOK, Flags, Ranges, Request

LEMMA TargetIsMachine ==
  ASSUME desk \in Desks, NEW e \in Edge
  PROVE  target(e) \in Machine \cup {Nobody}
<1>1. Windows \in Machine
  BY DEF Machine
<1>2. ASSUME e \in DOMAIN desk.neighbors PROVE desk.neighbors[e] \in Machine
  BY <1>2 DEF Machine
<1> QED
  BY <1>1, <1>2 DEF target

LEMMA EntryEdgeTyped ==
  ASSUME NEW x, NEW y PROVE EntryEdge(x, y) \in Edge \cup {NoEdge}
BY DEF EntryEdge, Edge

LEMMA EdgePastTyped ==
  ASSUME NEW tx, NEW ty PROVE EdgePast(tx, ty) \in Edge \cup {NoEdge}
BY DEF EdgePast, Edge

\* An entry is tracked wherever it is, and teaches an edge or nothing.
LEMMA AbsoluteTyped ==
  ASSUME Ranges, NEW x \in Int, NEW y \in Int, HandleAbsolute(x, y)
  PROVE  /\ learned' \in Edge \cup {NoEdge} /\ sincePacket' \in 0 .. Pause
         /\ pos' \in (0 .. W * U) \X (0 .. H * U)
         /\ exit'.edge = NoEdge /\ entered' = TRUE
         /\ UNCHANGED <<relativeSeen, sinceSwitch>>
<1> DEFINE cx == Clamp(x, 0, U)
           cy == Clamp(y, 0, U)
<1>1. cx \in 0 .. U /\ cy \in 0 .. U
  BY ClampBounds, Extents
<1>2. cx * W \in 0 .. W * U /\ cy * H \in 0 .. H * U
  BY <1>1, LastPixel, Extents
<1>3. pos' = IF LayoutKnown THEN <<cx * W, cy * H>> ELSE pos
  BY DEF HandleAbsolute, MoveAbsolute
<1>4. learned' \in {learned, EntryEdge(cx, cy)}
  BY DEF HandleAbsolute, LearnEntry
<1> HIDE DEF cx, cy
<1>5. pos' \in (0 .. W * U) \X (0 .. H * U)
  BY <1>2, <1>3 DEF Ranges
<1>6. learned' \in Edge \cup {NoEdge}
  BY <1>4, EntryEdgeTyped DEF Ranges
<1>7. sincePacket' = 0 /\ 0 \in 0 .. Pause
  BY Extents DEF HandleAbsolute
<1> QED
  BY <1>5, <1>6, <1>7 DEF HandleAbsolute, NoExit

LEMMA SwitchBackTyped ==
  ASSUME NEW e, NEW tx \in Int, NEW ty \in Int
  PROVE  /\ {SwitchBack(e, tx, ty).x, SwitchBack(e, tx, ty).y} \subseteq 0 .. U
         /\ SwitchBack(e, tx, ty).to = target(e) /\ SwitchBack(e, tx, ty).from = e
<1>1. ty \div H \in Int /\ tx \div W \in Int /\ U \in Nat
  BY Extents
<1>2. Clamp(ty \div H, 0, U) \in 0 .. U /\ Clamp(tx \div W, 0, U) \in 0 .. U
  BY <1>1, ClampBounds
<1>3. U - Inset \in 0 .. U /\ Inset \in 0 .. U
  BY Extents
<1> QED
  BY <1>2, <1>3 DEF SwitchBack

LEMMA PositionsAreNumbers == ASSUME Ranges PROVE pos[1] \in Int /\ pos[2] \in Int
<1>1. W * U \in Int /\ H * U \in Int
  BY Extents
<1> QED
  BY <1>1 DEF Ranges

\* Where a relative move goes, before and after it is kept in the layout.
LEMMA RelativeTyped ==
  ASSUME Ranges, NEW dx \in Int, NEW dy \in Int, HandleRelative(dx, dy), UNCHANGED <<desk, where>>
  PROVE  Ranges'
<1> DEFINE tx == pos[1] + dx * U
           ty == pos[2] + dy * U
           e  == EdgePast(tx, ty)
<1>1. pos[1] \in Int /\ pos[2] \in Int /\ dx * U \in Int /\ dy * U \in Int
  BY PositionsAreNumbers, DeltaMoves
<1>2. tx \in Int /\ ty \in Int
  BY <1>1
<1>3. e \in Edge \cup {NoEdge}
  BY EdgePastTyped
<1>4. pos' = IF LayoutKnown THEN <<Clamp(tx, 0, (W - 1) * U), Clamp(ty, 0, (H - 1) * U)>> ELSE pos
  BY DEF HandleRelative, MoveRelative
<1>5. /\ sincePacket' = 0 /\ learned' = learned
      /\ exit' = [edge |-> e, dx |-> dx, dy |-> dy]
      /\ sinceSwitch' \in {0, sinceSwitch}
      /\ \/ asked' = asked
         \/ e # NoEdge /\ target(e) # Nobody /\ asked' = SwitchBack(e, tx, ty)
  BY DEF HandleRelative
<1> HIDE DEF tx, ty, e
<1>6. pos' \in (0 .. W * U) \X (0 .. H * U)
  <2>1. /\ (W - 1) * U \in 0 .. W * U /\ (H - 1) * U \in 0 .. H * U
        /\ W * U \in Int /\ H * U \in Int
    BY LastPixel, Extents
  <2>2. Clamp(tx, 0, (W - 1) * U) \in 0 .. W * U /\ Clamp(ty, 0, (H - 1) * U) \in 0 .. H * U
    BY <1>2, <2>1, ClampWithin
  <2> DEFINE nx == Clamp(tx, 0, (W - 1) * U)
             ny == Clamp(ty, 0, (H - 1) * U)
  <2>3. pos' = <<nx, ny>> \/ pos' = pos
    BY <1>4
  <2>4. nx \in 0 .. W * U /\ ny \in 0 .. H * U
    BY <2>2
  <2> HIDE DEF nx, ny
  <2> QED
    BY <2>3, <2>4 DEF Ranges
<1>7. Request'
  <2>1. CASE asked' = asked
    BY <2>1 DEF Ranges, Request
  <2>2. CASE e # NoEdge /\ target(e) # Nobody /\ asked' = SwitchBack(e, tx, ty)
    <3>1. target(e) \in Machine
      BY <1>3, <2>2, TargetIsMachine DEF Ranges
    <3>2. asked'.to \in Machine /\ {asked'.x, asked'.y} \subseteq 0 .. U
      BY <1>2, <2>2, <3>1, SwitchBackTyped
    <3> QED
      BY <3>2 DEF Request
  <2> QED
    BY <1>5, <2>1, <2>2
<1> QED
  BY <1>3, <1>5, <1>6, <1>7, Extents DEF Ranges

LEMMA InitTyped == Init => TypeOK /\ OnPixel
<1> SUFFICES ASSUME Init PROVE TypeOK /\ OnPixel
  OBVIOUS
<1>1. /\ (W - 1) * U \in 0 .. W * U /\ (H - 1) * U \in 0 .. H * U
      /\ W * U \in Int /\ H * U \in Int
  BY LastPixel, Extents
<1>2. pos \in (0 .. W * U) \X (0 .. H * U) /\ pos \in (0 .. (W - 1) * U) \X (0 .. (H - 1) * U)
  BY <1>1 DEF Init
<1>3. Flags
  BY DEF Init, Flags
<1>4. Ranges
  BY <1>2, Extents DEF Init, Ranges, Request, NoExit, Machine
<1> QED
  BY <1>2, <1>3, <1>4, TypesAreBoth DEF OnPixel

LEMMA StepKeepsFlags == ASSUME TypeOK, [Next]_vars PROVE Flags'
<1>1. Flags /\ desk \in Desks
  BY DEF Flags, TypeOK
<1>2. leaving' \in BOOLEAN
  BY <1>1 DEF Flags, Next, Decide, Push, Wander, vars
<1>3. CASE \E p \in EntryPoints : Enter(p[1], p[2], p[3])
  BY <1>1, <1>2, <1>3 DEF Flags, Enter, HandleAbsolute
<1>4. CASE EnterByHotkey
  BY <1>1, <1>2, <1>4 DEF Flags, EnterByHotkey, HandleAbsolute
<1>5. CASE \E m \in Machine : LeaveByHotkey(m)
  BY <1>1, <1>2, <1>5 DEF Flags, LeaveByHotkey, mouseState
<1>6. CASE \E dx, dy \in Int : Move(dx, dy)
  <2>1. UNCHANGED known /\ relativeSeen' = TRUE /\ entered' = FALSE
    BY <1>6 DEF Move, HandleRelative
  <2> QED
    BY <1>1, <1>2, <2>1 DEF Flags
<1>7. CASE Click
  BY <1>1, <1>2, <1>7 DEF Flags, Click, HandleOther
<1>8. CASE Granted \/ Ignored
  BY <1>1, <1>2, <1>8 DEF Flags, Granted, Ignored, mouseState
<1>9. CASE Tick
  BY <1>1, <1>2, <1>9 DEF Flags, Tick
<1>10. CASE Reconnect
  BY <1>1, <1>2, <1>10 DEF Flags, Reconnect
<1>11. CASE UNCHANGED mouse
  BY <1>1, <1>2, <1>11 DEF Flags, mouse
<1> QED
  BY <1>1, <1>3, <1>4, <1>5, <1>6, <1>7, <1>8, <1>9, <1>10, <1>11, StepIsOneOf

LEMMA StepKeepsRanges == ASSUME TypeOK, [Next]_vars PROVE Ranges'
<1>1. Ranges /\ desk \in Desks
  BY DEF Ranges, TypeOK, Request
<1>2. ASSUME NEW p \in EntryPoints, Enter(p[1], p[2], p[3]) PROVE Ranges'
  <2>1. p[2] \in Int /\ p[3] \in Int /\ HandleAbsolute(p[2], p[3])
    BY <1>2, ConstantsAssumption DEF Enter
  <2>2. where' = Here /\ UNCHANGED <<desk, asked>>
    BY <1>2 DEF Enter
  <2> QED
    BY <1>1, <2>1, <2>2, AbsoluteTyped DEF Ranges, Request
<1>3. CASE EnterByHotkey
  <2>1. U \div 2 \in Int /\ HandleAbsolute(U \div 2, U \div 2)
    BY <1>3, Extents DEF EnterByHotkey
  <2>2. where' = Here /\ UNCHANGED <<desk, asked>>
    BY <1>3 DEF EnterByHotkey
  <2> QED
    BY <1>1, <2>1, <2>2, AbsoluteTyped DEF Ranges, Request
<1>4. ASSUME NEW m \in Machine, LeaveByHotkey(m) PROVE Ranges'
  BY <1>1, <1>4 DEF Ranges, Request, LeaveByHotkey, mouseState
<1>5. ASSUME NEW dx \in Int, NEW dy \in Int, Move(dx, dy) PROVE Ranges'
  BY <1>1, <1>5, RelativeTyped DEF Move
<1>6. CASE Click
  BY <1>1, <1>6, Extents DEF Ranges, Request, Click, HandleOther
<1>7. CASE Granted
  BY <1>1, <1>7 DEF Ranges, Request, Granted, mouseState
<1>8. CASE Ignored
  BY <1>1, <1>8 DEF Ranges, Request, Ignored, mouseState
<1>9. CASE Tick
  <2>1. sincePacket' \in 0 .. Pause /\ sinceSwitch' \in 0 .. Throttle
    BY <1>1, <1>9, Extents DEF Ranges, Tick
  <2> QED
    BY <1>1, <1>9, <2>1 DEF Ranges, Request, Tick
<1>10. CASE Reconnect
  BY <1>1, <1>10, Extents DEF Ranges, Request, Reconnect, NoExit
<1>11. CASE UNCHANGED mouse
  BY <1>1, <1>11 DEF Ranges, Request, mouse
<1> QED
  BY <1>1, <1>2, <1>3, <1>4, <1>5, <1>6, <1>7, <1>8, <1>9, <1>10, <1>11, StepIsOneOf

\* A relative move leaves the cursor on a pixel; nothing else puts it where it
\* is not entered.
LEMMA StepKeepsPixel == ASSUME TypeOK, OnPixel, [Next]_vars PROVE OnPixel'
<1>1. Ranges /\ desk \in Desks
  BY DEF Ranges, TypeOK, Request
<1>2. CASE (\E p \in EntryPoints : Enter(p[1], p[2], p[3])) \/ EnterByHotkey
  BY <1>2 DEF OnPixel, Enter, EnterByHotkey, HandleAbsolute
<1>3. ASSUME NEW dx \in Int, NEW dy \in Int, Move(dx, dy) PROVE OnPixel'
  <2> SUFFICES ASSUME LayoutKnown PROVE pos' \in (0 .. (W - 1) * U) \X (0 .. (H - 1) * U)
    BY DEF OnPixel
  <2> DEFINE nx == Clamp(pos[1] + dx * U, 0, (W - 1) * U)
             ny == Clamp(pos[2] + dy * U, 0, (H - 1) * U)
  <2>1. pos' = <<nx, ny>>
    BY <1>3 DEF Move, HandleRelative, MoveRelative
  <2>2. pos[1] + dx * U \in Int /\ pos[2] + dy * U \in Int
    BY <1>1, PositionsAreNumbers, DeltaMoves
  <2>3. (W - 1) * U \in Nat /\ (H - 1) * U \in Nat
    BY Extents
  <2>4. nx \in 0 .. (W - 1) * U /\ ny \in 0 .. (H - 1) * U
    BY <2>2, <2>3, ClampBounds
  <2> HIDE DEF nx, ny
  <2> QED
    BY <2>1, <2>4
<1>4. CASE \/ (\E m \in Machine : LeaveByHotkey(m))
           \/ Click \/ Granted \/ Ignored \/ Tick \/ Reconnect \/ UNCHANGED mouse
  BY <1>4 DEF OnPixel, LeaveByHotkey, Click, HandleOther, Granted, Ignored, Tick, Reconnect, mouse
<1> QED
  BY <1>1, <1>2, <1>3, <1>4, StepIsOneOf

-----------------------------------------------------------------------------
(* Exits.                                                                  *)

\* From a pixel of the layout, only a push over an edge leads past it.
LEMMA ExitFromPixelIsPush ==
  ASSUME TypeOK, OnPixel, ~entered, NEW dx \in Int, NEW dy \in Int, Move(dx, dy)
  PROVE  Pushed(exit')
<1> DEFINE tx == pos[1] + dx * U
           ty == pos[2] + dy * U
           right  == (W - 1) * U
           bottom == (H - 1) * U
<1>1. exit' = [edge |-> EdgePast(tx, ty), dx |-> dx, dy |-> dy]
  BY DEF Move, HandleRelative
<1>2. CASE ~LayoutKnown
  <2>1. exit'.edge = NoEdge
    BY <1>1, <1>2 DEF EdgePast
  <2> QED
    BY <2>1 DEF Pushed, NoEdge
<1>3. CASE LayoutKnown
  <2>1. right \in Nat /\ bottom \in Nat /\ dx * U \in Int /\ dy * U \in Int
    BY Extents, DeltaMoves
  <2>2. pos[1] \in 0 .. right /\ pos[2] \in 0 .. bottom
    BY <1>3 DEF OnPixel
  <2> HIDE DEF right, bottom
  <2>3. /\ tx < 0 => dx < 0
        /\ tx > right => dx > 0
        /\ ty < 0 => dy < 0
        /\ ty > bottom => dy > 0
    BY <2>1, <2>2, DeltaMoves
  <2>4. /\ EdgePast(tx, ty) = "left" => tx < 0
        /\ EdgePast(tx, ty) = "right" => tx > right
        /\ EdgePast(tx, ty) = "top" => ty < 0
        /\ EdgePast(tx, ty) = "bottom" => ty > bottom
    BY DEF EdgePast, NoEdge, right, bottom
  <2> HIDE DEF tx, ty
  <2>5. EdgePast(tx, ty) \in Edge \cup {NoEdge}
    BY EdgePastTyped
  <2> QED
    BY <1>1, <2>3, <2>4, <2>5 DEF Pushed, Edge, NoEdge
<1> QED
  BY <1>2, <1>3

-----------------------------------------------------------------------------
(* Where the edges lead.                                                   *)

\* What is learned is an edge something lies beyond; once an entry from
\* Windows was listened to, something is learned.
LearnedOK ==
  /\ learned \in {NoEdge, desk.side} \cup DOMAIN desk.neighbors
  /\ known => learned # NoEdge

LEMMA DeskIsRight ==
  ASSUME desk \in Desks, SidesAreRight
  PROVE  /\ desk.side \in Edge /\ desk.side \notin DOMAIN desk.neighbors
         /\ DOMAIN desk.neighbors \subseteq Edge
         /\ desk.configured \in {NoEdge, desk.side}
BY ConstantsAssumption DEF SidesAreRight

\* An edge that leads somewhere leads to what lies beyond it.
LEMMA TargetIsBeyond ==
  ASSUME desk \in Desks, SidesAreRight, LearnedOK,
         NEW e \in Edge, target(e) # Nobody
  PROVE  target(e) = Beyond(e)
<1>1. CASE e \in DOMAIN desk.neighbors
  BY <1>1, DeskIsRight DEF target, Beyond
<1>2. CASE e \notin DOMAIN desk.neighbors
  <2>1. e = windows_edge /\ target(e) = Windows
    BY <1>2 DEF target
  <2>2. e # NoEdge
    BY DEF Edge, NoEdge
  <2>3. e = desk.side
    BY <1>2, <2>1, <2>2, DeskIsRight DEF windows_edge, LearnedOK
  <2> QED
    BY <2>1, <2>3 DEF Beyond
<1> QED
  BY <1>1, <1>2

EdgesOK == LearnedOK /\ SwitchLeadsWhereEdgeDoes

\* An entry comes from what is beyond its edge, and away from the corners it
\* teaches that edge or nothing.
LEMMA EntryTeachesItsEdge ==
  ASSUME TypeOK, EdgesOK, ClearOfCorners, NEW p \in EntryPoints, Enter(p[1], p[2], p[3])
  PROVE  EdgesOK'
<1>1. p[1] \in Edge /\ EntryEdge(Clamp(p[2], 0, U), Clamp(p[3], 0, U)) = p[1]
  BY ConstantsAssumption DEF ClearOfCorners
<1>2. p[1] \in {desk.side} \cup DOMAIN desk.neighbors
  <2>1. Beyond(p[1]) \in Machine \cup {Here}
    BY DEF Enter, TypeOK
  <2> QED
    BY <2>1, ConstantsAssumption DEF Beyond, Nobody, Here
<1>3. p[1] # NoEdge
  BY <1>1 DEF Edge, NoEdge
<1>4. LearnEntry(Clamp(p[2], 0, U), Clamp(p[3], 0, U), AfterPause)
  BY DEF Enter, HandleAbsolute
<1>5. learned' = IF relativeSeen \/ AfterPause THEN p[1] ELSE learned
  BY <1>1, <1>3, <1>4 DEF LearnEntry
<1>6. /\ known' = (known \/ (p[1] = desk.side /\ (relativeSeen \/ AfterPause)))
      /\ UNCHANGED <<desk, asked>>
  BY DEF Enter
<1>7. LearnedOK'
  BY <1>2, <1>3, <1>5, <1>6 DEF EdgesOK, LearnedOK
<1>8. SwitchLeadsWhereEdgeDoes'
  BY <1>6 DEF EdgesOK, SwitchLeadsWhereEdgeDoes, Beyond
<1> QED
  BY <1>7, <1>8 DEF EdgesOK

LEMMA MoveAsksBeyond ==
  ASSUME TypeOK, EdgesOK, SidesAreRight, NEW dx \in Int, NEW dy \in Int, Move(dx, dy)
  PROVE  EdgesOK'
<1> DEFINE tx == pos[1] + dx * U
           ty == pos[2] + dy * U
           e  == EdgePast(tx, ty)
<1>1. /\ UNCHANGED <<desk, learned, known>>
      /\ \/ asked' = asked
         \/ e # NoEdge /\ target(e) # Nobody /\ asked' = SwitchBack(e, tx, ty)
  BY DEF Move, HandleRelative
<1>2. tx \in Int /\ ty \in Int
  <2>1. Ranges
    BY TypesAreBoth
  <2> QED
    BY <2>1, PositionsAreNumbers, DeltaMoves
<1>3. e \in Edge \cup {NoEdge}
  BY EdgePastTyped
<1> HIDE DEF tx, ty, e
<1>4. LearnedOK'
  BY <1>1 DEF EdgesOK, LearnedOK
<1>5. CASE asked' = asked
  BY <1>1, <1>4, <1>5 DEF EdgesOK, SwitchLeadsWhereEdgeDoes, Beyond
<1>6. CASE e # NoEdge /\ target(e) # Nobody /\ asked' = SwitchBack(e, tx, ty)
  <2>1. target(e) = Beyond(e)
    BY <1>3, <1>6, TargetIsBeyond DEF EdgesOK, TypeOK
  <2>2. asked'.to = Beyond(e) /\ asked'.from = e
    BY <1>2, <1>6, <2>1, SwitchBackTyped
  <2>3. SwitchLeadsWhereEdgeDoes'
    BY <1>1, <2>2 DEF SwitchLeadsWhereEdgeDoes, Beyond
  <2> QED
    BY <1>4, <2>3 DEF EdgesOK
<1> QED
  BY <1>1, <1>5, <1>6

LEMMA StepKeepsEdges ==
  ASSUME TypeOK, EdgesOK, ClearOfCorners, SidesAreRight, [Next]_vars
  PROVE  EdgesOK'
<1>1. desk \in Desks
  BY DEF TypeOK
<1>2. ASSUME NEW p \in EntryPoints, Enter(p[1], p[2], p[3]) PROVE EdgesOK'
  BY <1>2, EntryTeachesItsEdge
<1>3. CASE EnterByHotkey
  <2>1. UNCHANGED <<desk, asked, known>> /\ HandleAbsolute(U \div 2, U \div 2)
    BY <1>3 DEF EnterByHotkey
  <2>2. learned' = learned
    BY <2>1, MiddleTeachesNothing DEF HandleAbsolute, LearnEntry
  <2> QED
    BY <2>1, <2>2 DEF EdgesOK, LearnedOK, SwitchLeadsWhereEdgeDoes, Beyond
<1>4. ASSUME NEW dx \in Int, NEW dy \in Int, Move(dx, dy) PROVE EdgesOK'
  BY <1>4, MoveAsksBeyond
<1>5. CASE (\E m \in Machine : LeaveByHotkey(m)) \/ Click \/ Tick \/ UNCHANGED mouse
  BY <1>5 DEF EdgesOK, LearnedOK, SwitchLeadsWhereEdgeDoes, Beyond, LeaveByHotkey, mouseState, Click,
              HandleOther, Tick, mouse
<1>6. CASE Granted \/ Ignored \/ Reconnect
  BY <1>6 DEF EdgesOK, LearnedOK, SwitchLeadsWhereEdgeDoes, Granted, Ignored, Reconnect, mouseState
<1> QED
  BY <1>1, <1>2, <1>3, <1>4, <1>5, <1>6, StepIsOneOf

-----------------------------------------------------------------------------
(* The theorems.                                                           *)

Placed == TypeOK /\ OnPixel

LEMMA PlacedInvariant == Spec => []Placed
<1>1. Placed /\ [Next]_vars => Placed'
  <2> SUFFICES ASSUME Placed, [Next]_vars PROVE Placed'
    OBVIOUS
  <2>1. Flags' /\ Ranges' /\ OnPixel'
    BY StepKeepsFlags, StepKeepsRanges, StepKeepsPixel DEF Placed
  <2>2. TypeOK'
    BY <2>1 DEF TypeOK, Flags, Ranges, Request
  <2> QED
    BY <2>1, <2>2 DEF Placed
<1> QED
  BY <1>1, InitTyped, PTL DEF Spec, Placed

\* The tracked position stays in the layout, and a request names a machine and
\* a point of its screen (wayland_input.rs:318-340, input_handling.rs:343-351).
THEOREM TypeCorrect == Spec => []TypeOK
<1>1. Placed => TypeOK
  BY DEF Placed
<1> QED
  BY <1>1, PlacedInvariant, PTL

\* An exit is a push over that edge, but for the first relative move after an
\* absolute one (input_handling.rs:81).
THEOREM ExitsArePushes == Spec => ExitIsPushAfterFirst
<1>1. Placed =>
        [(\E dx, dy \in Deltas : Move(dx, dy)) /\ ~entered => Pushed(exit')]_vars
  BY ExitFromPixelIsPush, ConstantsAssumption DEF Placed
<1> QED
  BY <1>1, PlacedInvariant, PTL DEF ExitIsPushAfterFirst

LEMMA EdgesInvariant ==
  ASSUME ClearOfCorners, SidesAreRight PROVE Spec => [](TypeOK /\ EdgesOK)
<1>1. Init => TypeOK /\ EdgesOK
  BY InitTyped DEF Init, EdgesOK, LearnedOK, SwitchLeadsWhereEdgeDoes
<1>2. TypeOK /\ TypeOK' /\ EdgesOK /\ [Next]_vars => EdgesOK'
  BY StepKeepsEdges
<1> QED
  BY <1>1, <1>2, TypeCorrect, PTL DEF Spec

\* With entries clear of the corners and a config.json that is not wrong about
\* Windows' side, a request asks for the machine that is beyond the edge the
\* cursor was pushed off (input_handling.rs:129-137, :336-351).
THEOREM RequestsLeadBeyond ==
  ASSUME ClearOfCorners, SidesAreRight PROVE Spec => []SwitchLeadsWhereEdgeDoes
<1>1. EdgesOK => SwitchLeadsWhereEdgeDoes
  BY DEF EdgesOK
<1> QED
  BY <1>1, EdgesInvariant, PTL

\* If the side is named too wherever other machines have edges, Windows' edge
\* leads back from the first entry that is listened to (input_handling.rs:142-160).
THEOREM WindowsEdgeStays ==
  ASSUME ClearOfCorners, SidesAreRight, SidesAreNamed PROVE Spec => []WindowsEdgeLeadsBack
<1>1. TypeOK /\ EdgesOK => WindowsEdgeLeadsBack
  <2> SUFFICES ASSUME TypeOK, EdgesOK, known PROVE target(desk.side) = Windows
    BY DEF WindowsEdgeLeadsBack
  <2>1. /\ desk \in Desks
        /\ desk.side \notin DOMAIN desk.neighbors /\ desk.configured \in {NoEdge, desk.side}
    BY DeskIsRight DEF TypeOK
  <2>2. CASE desk.configured # NoEdge
    BY <2>1, <2>2 DEF target, windows_edge
  <2>3. CASE desk.configured = NoEdge
    <3>1. DOMAIN desk.neighbors = {}
      BY <2>1, <2>3 DEF SidesAreNamed
    <3> QED
      BY <2>1, <2>3, <3>1 DEF EdgesOK, LearnedOK, target, windows_edge
  <2> QED
    BY <2>2, <2>3
<1> QED
  BY <1>1, EdgesInvariant, PTL

=============================================================================
