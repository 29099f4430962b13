----------------------------- MODULE MacSinkProofs -----------------------------
(***************************************************************************)
(* What holds of the macOS sink for every set of keys and buttons, every   *)
(* table of codes, every desktop and every timing.  The keyboard and the   *)
(* mouse share no variable, so each half has an invariant of its own; they *)
(* meet where a session starts and ends, and reset releases both.          *)
(***************************************************************************)
EXTENDS MacSink, SequenceTheorems, TLAPS

-----------------------------------------------------------------------------
(* The mouse (MacMouse).                                                   *)

\* No button is held twice.
Once(s) == \A i, j \in 1 .. Len(s) : s[i] = s[j] => i = j

\* The books of the buttons: what is held is down, was pressed once and is
\* released by Windows or by reset; what is dragged is what is held longest.
HeldOK ==
  /\ held \in Seq(Button) /\ Once(held)
  /\ osDown = [b \in Button |-> IF b \in Range(held) THEN 1 ELSE 0]
  /\ wdown \subseteq Button /\ missed \subseteq Button
  /\ Range(held) \subseteq wdown \cup missed
  /\ drag \in Button \cup {NoButton}
  /\ drag # NoButton => held # <<>> /\ drag = Head(held)

\* The entry of b is all that Without(b) lacks.
LEMMA WithoutOne ==
  ASSUME held \in Seq(Button), Once(held), NEW b \in Button
  PROVE  /\ Without(b) \in Seq(Button) /\ Once(Without(b))
         /\ Range(Without(b)) = Range(held) \ {b}
         /\ held # <<>> /\ Head(held) # b =>
              Without(b) # <<>> /\ Head(Without(b)) = Head(held)
<1>1. CASE b \notin Range(held)
  BY <1>1 DEF Without
<1>2. CASE b \in Range(held)
  <2> DEFINE i == CHOOSE i \in DOMAIN held : held[i] = b
             one == SubSeq(held, 1, i - 1)
             two == SubSeq(held, i + 1, Len(held))
  <2>1. i \in 1 .. Len(held) /\ held[i] = b
    BY <1>2 DEF Range
  <2>2. Without(b) = one \o two
    BY <1>2 DEF Without
  <2> HIDE DEF i
  <2>3. /\ one \in Seq(Button) /\ Len(one) = i - 1
        /\ \A k \in 1 .. i - 1 : one[k] = held[k]
    <3>1. \A k \in 1 .. i - 1 : held[k] \in Button
      BY <2>1
    <3> QED
      BY <2>1, <3>1, SubSeqProperties
  <2>4. /\ two \in Seq(Button) /\ Len(two) = Len(held) - i
        /\ \A k \in 1 .. Len(held) - i : two[k] = held[k + i]
    <3>1. \A k \in i + 1 .. Len(held) : held[k] \in Button
      BY <2>1
    <3> QED
      BY <2>1, <3>1, SubSeqProperties
  <2> HIDE DEF one, two
  <2>5. /\ Without(b) \in Seq(Button) /\ Len(Without(b)) = Len(held) - 1
        /\ \A k \in 1 .. Len(held) - 1 :
             Without(b)[k] = IF k < i THEN held[k] ELSE held[k + 1]
    <3>1. /\ one \o two \in Seq(Button) /\ Len(one \o two) = Len(one) + Len(two)
          /\ \A k \in 1 .. Len(one) + Len(two) :
               (one \o two)[k] = IF k <= Len(one) THEN one[k] ELSE two[k - Len(one)]
      BY <2>3, <2>4, ConcatProperties
    <3>2. Len(one) + Len(two) = Len(held) - 1
      BY <2>1, <2>3, <2>4
    <3>3. ASSUME NEW k \in 1 .. Len(held) - 1
          PROVE  Without(b)[k] = IF k < i THEN held[k] ELSE held[k + 1]
      <4>1. CASE k < i
        BY <2>1, <2>2, <2>3, <3>1, <3>2, <4>1
      <4>2. CASE k >= i
        <5> DEFINE j == k - (i - 1)
        <5>1. j \in 1 .. Len(held) - i /\ j + i = k + 1 /\ ~(k <= i - 1)
          BY <2>1, <4>2
        <5>2. two[j] = held[k + 1]
          BY <2>4, <5>1
        <5>3. (one \o two)[k] = two[j]
          BY <2>3, <3>1, <3>2, <5>1
        <5> QED
          BY <2>1, <2>2, <4>2, <5>2, <5>3
      <4> QED
        BY <2>1, <4>1, <4>2
    <3> QED
      BY <2>2, <3>1, <3>2, <3>3
  <2>6. Once(Without(b))
    <3> SUFFICES ASSUME NEW k \in 1 .. Len(held) - 1, NEW l \in 1 .. Len(held) - 1,
                        Without(b)[k] = Without(b)[l]
                 PROVE  k = l
      BY <2>5 DEF Once
    <3> DEFINE old(j) == IF j < i THEN j ELSE j + 1
    <3>1. /\ old(k) \in 1 .. Len(held) /\ old(l) \in 1 .. Len(held)
          /\ Without(b)[k] = held[old(k)] /\ Without(b)[l] = held[old(l)]
      BY <2>1, <2>5
    <3>2. old(k) = old(l)
      BY <3>1 DEF Once
    <3> QED
      BY <2>1, <3>2
  <2>7. Range(Without(b)) = Range(held) \ {b}
    <3>1. ASSUME NEW x \in Range(held) \ {b} PROVE x \in Range(Without(b))
      <4>1. PICK k \in 1 .. Len(held) : held[k] = x
        BY <3>1 DEF Range
      <4>2. CASE k < i
        BY <2>1, <2>5, <4>1, <4>2 DEF Range
      <4>3. CASE k > i
        <5>1. k - 1 \in 1 .. Len(held) - 1 /\ Without(b)[k - 1] = x
          BY <2>1, <2>5, <4>1, <4>3
        <5> QED
          BY <2>5, <5>1 DEF Range
      <4> QED
        BY <2>1, <3>1, <4>1, <4>2, <4>3
    <3>2. ASSUME NEW x \in Range(Without(b)) PROVE x \in Range(held) \ {b}
      <4>1. PICK k \in 1 .. Len(held) - 1 : Without(b)[k] = x
        BY <2>5 DEF Range
      <4>2. CASE k < i
        <5>1. x = held[k] /\ k \in 1 .. Len(held) /\ k # i
          BY <2>1, <2>5, <4>1, <4>2
        <5> QED
          BY <2>1, <5>1 DEF Range, Once
      <4>3. CASE k >= i
        <5>1. x = held[k + 1] /\ k + 1 \in 1 .. Len(held) /\ k + 1 # i
          BY <2>1, <2>5, <4>1, <4>3
        <5> QED
          BY <2>1, <5>1 DEF Range, Once
      <4> QED
        BY <2>1, <4>2, <4>3
    <3> QED
      BY <3>1, <3>2
  <2>8. held # <<>> /\ Head(held) # b =>
          Without(b) # <<>> /\ Head(Without(b)) = Head(held)
    BY <2>1, <2>5
  <2> QED
    BY <2>5, <2>6, <2>7, <2>8
<1> QED
  BY <1>1, <1>2

\* What happens to the variables of MacMouse: nothing to its buttons, or else.
Quiet ==
  \/ Leave \/ (\E f \in Fraction : Enter(f)) \/ (\E d \in Delta : Move(d))
  \/ HideOrShow \/ Catches \/ Nudge \/ Tick
  \/ UNCHANGED mvars

MStep ==
  \/ Quiet
  \/ \E b \in Button : ButtonDown(b) \/ ButtonUp(b)
  \/ ResetButtons /\ here' \in {here, FALSE} /\ UNCHANGED wdown

\* What leaves the buttons alone drags what was dragged or what is held longest.
LEMMA ButtonsAlone ==
  ASSUME Quiet
  PROVE  UNCHANGED <<wdown, held, osDown, missed>> /\ drag' \in {drag, move_type}
<1>1. CASE Leave
  BY <1>1 DEF Leave, buttons
<1>2. CASE \E f \in Fraction : Enter(f)
  BY <1>2 DEF Enter, move_absolute, buttons
<1>3. CASE \E d \in Delta : Move(d)
  BY <1>3 DEF Move, move_relative, buttons
<1>4. CASE HideOrShow \/ Catches \/ Nudge \/ Tick
  BY <1>4 DEF HideOrShow, Catches, Nudge, Tick, buttons
<1>5. CASE UNCHANGED mvars
  BY <1>5 DEF mvars, buttons
<1> QED
  BY <1>1, <1>2, <1>3, <1>4, <1>5 DEF Quiet

\* A press of b: what the button's variables become.
LEMMA PressHeld ==
  ASSUME HeldOK, NEW b \in Button, Press(b), wdown' = wdown \cup {b}
  PROVE  HeldOK' /\ (drag # b => drag' = drag)
<1> DEFINE kept == IF HeldAlready(b) THEN Without(b) ELSE held
<1>1. /\ kept \in Seq(Button) /\ Once(kept) /\ Range(kept) = Range(held) \ {b}
      /\ held # <<>> /\ Head(held) # b => kept # <<>> /\ Head(kept) = Head(held)
  BY WithoutOne DEF HeldOK, HeldAlready
<1>2. held' = Append(kept, b)
  BY DEF Press
<1>3. osDown' = [osDown EXCEPT ![b] = 1]
  <2>1. CASE HeldAlready(b)
    <3>1. {b} # {}
      OBVIOUS
    <3> QED
      BY <2>1, <3>1 DEF Press
  <2>2. CASE ~HeldAlready(b)
    <3>1. osDown[b] = 0
      BY <2>2 DEF HeldOK, HeldAlready
    <3> QED
      BY <2>2, <3>1 DEF Press
  <2> QED
    BY <2>1, <2>2
<1>4. missed' = missed \ {b} /\ drag' = IF HeldAlready(b) /\ drag = b THEN NoButton ELSE drag
  BY DEF Press, Undrag
<1> HIDE DEF kept
<1>5. /\ held' \in Seq(Button) /\ Len(held') = Len(kept) + 1
      /\ \A k \in 1 .. Len(kept) : held'[k] = kept[k]
      /\ held'[Len(kept) + 1] = b
  BY <1>1, <1>2, AppendProperties
<1>6. Range(held') = Range(held) \cup {b}
  <2>1. Range(held') = Range(kept) \cup {b}
    <3>1. ASSUME NEW x \in Range(held') PROVE x \in Range(kept) \cup {b}
      BY <1>1, <1>5, <3>1 DEF Range
    <3>2. ASSUME NEW x \in Range(kept) PROVE x \in Range(held')
      BY <1>1, <1>5, <3>2 DEF Range
    <3>3. b \in Range(held')
      BY <1>1, <1>5 DEF Range
    <3> QED
      BY <3>1, <3>2, <3>3
  <2> QED
    BY <1>1, <2>1
<1>7. Once(held')
  <2>1. \A k \in 1 .. Len(kept) : kept[k] # b
    BY <1>1 DEF Range
  <2> QED
    BY <1>1, <1>5, <2>1 DEF Once
<1>8. osDown' = [c \in Button |-> IF c \in Range(held') THEN 1 ELSE 0]
  BY <1>3, <1>6 DEF HeldOK
<1>9. drag' # NoButton => held' # <<>> /\ drag' = Head(held')
  <2> SUFFICES ASSUME drag' # NoButton PROVE held' # <<>> /\ drag' = Head(held')
    OBVIOUS
  <2>1. drag' = drag /\ held # <<>> /\ drag = Head(held)
    BY <1>4 DEF HeldOK
  <2>2. Head(held) # b
    <3>1. Head(held) \in Range(held)
      BY <2>1 DEF Range, HeldOK
    <3> QED
      BY <1>4, <2>1, <3>1 DEF HeldAlready
  <2> QED
    BY <1>1, <1>5, <2>1, <2>2
<1> QED
  BY <1>4, <1>5, <1>6, <1>7, <1>8, <1>9 DEF HeldOK

\* A release of b likewise.
LEMMA ReleaseHeld ==
  ASSUME HeldOK, NEW b \in Button, Release(b), wdown' = wdown \ {b}
  PROVE  HeldOK' /\ (drag # b => drag' = drag) /\ osDown'[b] = 0
<1>1. /\ held' \in Seq(Button) /\ Once(held') /\ Range(held') = Range(held) \ {b}
      /\ held # <<>> /\ Head(held) # b => held' # <<>> /\ Head(held') = Head(held)
  <2>1. held' = Without(b)
    BY DEF Release
  <2> QED
    BY <2>1, WithoutOne DEF HeldOK
<1>2. osDown' = [osDown EXCEPT ![b] = 0] /\ missed' = missed \ {b}
  BY DEF Release
<1>3. drag' = IF drag = b THEN NoButton ELSE drag
  BY DEF Release, Undrag
<1>4. osDown' = [c \in Button |-> IF c \in Range(held') THEN 1 ELSE 0]
  BY <1>1, <1>2 DEF HeldOK
<1>5. drag' # NoButton => held' # <<>> /\ drag' = Head(held')
  BY <1>1, <1>3 DEF HeldOK
<1>6. Range(held') \subseteq wdown' \cup missed'
  BY <1>1, <1>2 DEF HeldOK
<1>7. osDown'[b] = 0
  BY <1>2 DEF HeldOK
<1> QED
  BY <1>1, <1>2, <1>3, <1>4, <1>5, <1>6, <1>7 DEF HeldOK

\* Reset likewise.
LEMMA ResetHeld ==
  ASSUME HeldOK, ResetButtons, wdown' = wdown
  PROVE  HeldOK' /\ held' = <<>> /\ drag' = NoButton /\ osDown' = [b \in Button |-> 0]
<1>1. held' = <<>> /\ missed' = {} /\ osDown' = [b \in Button |-> 0]
  BY DEF ResetButtons, HeldOK
<1>2. drag' = NoButton
  <2>1. drag # NoButton => drag \in Range(held)
    BY DEF HeldOK, Range
  <2> QED
    BY <2>1 DEF ResetButtons, Undrag
<1>3. Range(held') = {} /\ held' \in Seq(Button) /\ Once(held')
  BY <1>1 DEF Range, Once
<1> QED
  BY <1>1, <1>2, <1>3 DEF HeldOK

\* Every step of the mouse keeps the books of the buttons.
LEMMA HeldKept ==
  ASSUME HeldOK, MStep
  PROVE  HeldOK'
<1>1. ASSUME NEW b \in Button, ButtonDown(b)
      PROVE  HeldOK'
  <2>1. CASE here
    BY <1>1, <2>1, PressHeld DEF ButtonDown, button
  <2>2. CASE ~here
    BY <1>1, <2>2 DEF ButtonDown, Elsewhere, HeldOK
  <2> QED
    BY <2>1, <2>2
<1>2. ASSUME NEW b \in Button, ButtonUp(b)
      PROVE  HeldOK'
  <2>1. CASE here
    BY <1>2, <2>1, ReleaseHeld DEF ButtonUp, button
  <2>2. CASE ~here
    <3>1. /\ held' = held /\ osDown' = osDown /\ drag' = drag
          /\ wdown' = wdown \ {b} /\ missed' = missed \cup ({b} \cap Down)
      BY <1>2, <2>2 DEF ButtonUp, Elsewhere
    <3>2. \A c \in Range(held) : osDown[c] > 0
      BY DEF HeldOK, Range
    <3>3. Range(held) \subseteq Button
      BY DEF HeldOK, Range
    <3> QED
      BY <1>2, <3>1, <3>2, <3>3 DEF HeldOK, Down
  <2> QED
    BY <2>1, <2>2
<1>3. CASE ResetButtons /\ UNCHANGED wdown
  BY <1>3, ResetHeld
<1>4. CASE Quiet
  <2>1. UNCHANGED <<wdown, held, osDown, missed>> /\ drag' \in {drag, move_type}
    BY <1>4, ButtonsAlone
  <2>2. CASE drag' = drag
    BY <2>1, <2>2 DEF HeldOK
  <2>3. CASE drag' = move_type
    BY <2>1, <2>3 DEF HeldOK, move_type
  <2> QED
    BY <2>1, <2>2, <2>3
<1> QED
  BY <1>1, <1>2, <1>3, <1>4 DEF MStep

\* What was posted has been carried out after Resync ticks at the latest, and
\* then, unless others move it, the cursor is where it was posted to.
CursorOK ==
  /\ sincePost \in 0 .. Resync
  /\ sincePost = Resync => ~behind
  /\ ~behind /\ ~nudged /\ sincePost < Resync => live = pos

\* Every step of the mouse keeps the cursor so.
LEMMA CursorKept ==
  ASSUME CursorOK, MStep
  PROVE  CursorOK'
<1>0. Resync \in Nat /\ Resync > 0
  BY MouseAssumption
<1>1. CASE Posted
  BY <1>0, <1>1 DEF Posted, CursorOK
<1>2. CASE UNCHANGED <<pos, sincePost, behind, live>> /\ nudged' = nudged
  BY <1>2 DEF CursorOK
<1>3. CASE Catches
  BY <1>3 DEF Catches, CursorOK
<1>4. CASE Nudge
  BY <1>4 DEF Nudge, CursorOK
<1>5. CASE Tick
  BY <1>0, <1>5 DEF Tick, CursorOK, cursor
<1>6. CASE Leave \/ HideOrShow \/ UNCHANGED mvars
  BY <1>2, <1>6 DEF Leave, HideOrShow, mvars, cursor
<1>7. ASSUME NEW f \in Fraction, Enter(f) PROVE CursorOK'
  BY <1>1, <1>7 DEF Enter, move_absolute
<1>8. ASSUME NEW d \in Delta, Move(d) PROVE CursorOK'
  BY <1>1, <1>8 DEF Move, move_relative
<1>9. ASSUME NEW b \in Button, ButtonDown(b) \/ ButtonUp(b) PROVE CursorOK'
  BY <1>1, <1>2, <1>9 DEF ButtonDown, ButtonUp, button, Elsewhere, cursor
<1>10. CASE ResetButtons
  BY <1>1, <1>2, <1>10 DEF ResetButtons
<1> QED
  BY <1>3, <1>4, <1>5, <1>6, <1>7, <1>8, <1>9, <1>10 DEF MStep, Quiet

\* A button that is dragged, and stays down, stays the one that is dragged.
DragStep == drag \in Down /\ drag \in Down' /\ drag \notin wdown' \ wdown => drag' = drag

\* It does: a press of another button, a release of one and a reset leave it.
LEMMA DragStepHolds ==
  ASSUME HeldOK, MStep
  PROVE  DragStep
<1> SUFFICES ASSUME drag \in Down, drag \in Down', drag \notin wdown' \ wdown
             PROVE  drag' = drag
  BY DEF DragStep
<1>1. drag \in Button /\ drag # NoButton /\ osDown'[drag] > 0
  BY MouseAssumption DEF Down
<1>2. ASSUME NEW b \in Button, ButtonDown(b)
      PROVE  drag' = drag
  <2>1. drag # b
    BY <1>2 DEF ButtonDown
  <2> QED
    BY <1>2, <2>1, PressHeld DEF ButtonDown, button, Elsewhere
<1>3. ASSUME NEW b \in Button, ButtonUp(b)
      PROVE  drag' = drag
  <2>1. CASE here
    <3>1. HeldOK /\ Release(b) /\ wdown' = wdown \ {b}
      BY <1>3, <2>1 DEF ButtonUp, button
    <3>2. osDown'[b] = 0 /\ (drag # b => drag' = drag)
      BY <3>1, ReleaseHeld
    <3> QED
      BY <1>1, <3>2
  <2>2. CASE ~here
    BY <1>3, <2>2 DEF ButtonUp, Elsewhere
  <2> QED
    BY <2>1, <2>2
<1>4. CASE ResetButtons /\ UNCHANGED wdown
  BY <1>1, <1>4, ResetHeld
<1>5. CASE Quiet
  BY <1>1, <1>5, ButtonsAlone DEF HeldOK, move_type
<1> QED
  BY <1>2, <1>3, <1>4, <1>5 DEF MStep

\* A press, a release and a move start from where the cursor is once macOS has
\* caught up.
LEMMA CursorIsStart == CursorOK => StartsAtCursor
BY MouseAssumption DEF CursorOK, StartsAtCursor, Synced, Settled

\* The types, by what the provers can take together.
FlagsOK ==
  /\ here \in BOOLEAN /\ shown \in BOOLEAN /\ behind \in BOOLEAN
  /\ nudged \in BOOLEAN /\ visible \in BOOLEAN

ClicksOK ==
  /\ sinceClick \in 0 .. DoubleClick + 1
  /\ lastButton \in Button \cup {NoButton}
  /\ count \in 1 .. MaxCount

ExitsOK == Range(exits) \subseteq Edge

PlacesOK == pos \in Point /\ lastPos \in Point /\ live \in Point

\* Flags stay flags.
LEMMA FlagsKept == FlagsOK /\ MStep => FlagsOK'
<1> SUFFICES ASSUME FlagsOK, MStep PROVE FlagsOK'
  OBVIOUS
<1>1. CASE Leave \/ HideOrShow \/ Catches \/ Nudge \/ Tick \/ UNCHANGED mvars
  BY <1>1 DEF FlagsOK, Leave, HideOrShow, Catches, Nudge, Tick, mvars, cursor
<1>2. ASSUME NEW f \in Fraction, Enter(f) PROVE FlagsOK'
  BY <1>2 DEF FlagsOK, Enter, move_absolute, Posted
<1>3. ASSUME NEW d \in Delta, Move(d) PROVE FlagsOK'
  BY <1>3 DEF FlagsOK, Move, move_relative, cursor_shown, Posted
<1>4. ASSUME NEW b \in Button, ButtonDown(b) \/ ButtonUp(b) PROVE FlagsOK'
  BY <1>4 DEF FlagsOK, ButtonDown, ButtonUp, button, Posted, Elsewhere, cursor
<1>5. CASE ResetButtons /\ here' \in {here, FALSE}
  BY <1>5 DEF FlagsOK, ResetButtons, Posted
<1> QED
  BY <1>1, <1>2, <1>3, <1>4, <1>5 DEF MStep, Quiet

\* Click times and counts stay within their bounds.
LEMMA ClicksKept == ClicksOK /\ MStep => ClicksOK'
<1> SUFFICES ASSUME ClicksOK, MStep PROVE ClicksOK'
  OBVIOUS
<1>0. DoubleClick \in Nat /\ MaxCount \in Nat /\ MaxCount > 0
  BY MouseAssumption
<1>1. CASE UNCHANGED clicks
  BY <1>1 DEF ClicksOK, clicks
<1>2. CASE Tick
  BY <1>0, <1>2 DEF ClicksOK, Tick
<1>3. ASSUME NEW b \in Button, Press(b) PROVE ClicksOK'
  BY <1>0, <1>3 DEF ClicksOK, Press
<1>4. CASE Quiet
  BY <1>1, <1>2, <1>4 DEF Quiet, Leave, Enter, move_absolute, Move, move_relative, HideOrShow,
       Catches, Nudge, mvars
<1>5. ASSUME NEW b \in Button, ButtonDown(b) \/ ButtonUp(b) PROVE ClicksOK'
  BY <1>1, <1>3, <1>5 DEF ButtonDown, ButtonUp, button, Release, Elsewhere
<1>6. CASE ResetButtons
  BY <1>1, <1>6 DEF ResetButtons
<1> QED
  BY <1>4, <1>5, <1>6 DEF MStep

\* What a move is pushed past is an edge.
LEMMA PastEdges == ASSUME NEW t PROVE Range(Past(t)) \subseteq Edge
<1> DEFINE Over(e) == IF IsPast(e, t) THEN <<e>> ELSE <<>>
<1>1. ASSUME NEW e \in Edge PROVE Over(e) \in Seq(Edge)
  BY <1>1
<1>2. Past(t) = Over("left") \o Over("right") \o Over("top") \o Over("bottom")
  BY DEF Past
<1> HIDE DEF Over
<1>3. Past(t) \in Seq(Edge)
  BY <1>1, <1>2, ConcatProperties DEF Edge
<1> QED
  BY <1>3 DEF Range

\* Only edges are left over.
LEMMA ExitsKept == ExitsOK /\ MStep => ExitsOK'
<1> SUFFICES ASSUME ExitsOK, MStep PROVE ExitsOK'
  OBVIOUS
<1>1. CASE exits' = <<>>
  BY <1>1 DEF ExitsOK, Range
<1>2. ASSUME NEW d \in Delta, Move(d)
      PROVE  ExitsOK'
  BY <1>1, <1>2, PastEdges DEF Move, move_relative, ExitsOK
<1>3. ASSUME ~(\E d \in Delta : Move(d))
      PROVE  exits' = <<>> \/ exits' = exits
  BY <1>3 DEF MStep, Quiet, Leave, Enter, move_absolute, HideOrShow, Catches, Nudge,
                Tick, ButtonDown, ButtonUp, button, Elsewhere, ResetButtons, mvars
<1> QED
  BY <1>1, <1>2, <1>3 DEF ExitsOK

\* A fraction of a desktop lies in it, its far border included.
LEMMA FractionFits ==
  ASSUME NEW u \in Nat, u > 0, NEW a \in 0 .. u, NEW n \in Nat
  PROVE  (a * n) \div u \in 0 .. n
<1>1. a * n <= n * u /\ 0 <= a * n /\ a * n \in Int
  OBVIOUS
<1>2. (a * n) \div u \in Int
  OBVIOUS
<1>3. u * ((a * n) \div u) <= a * n /\ a * n < u * ((a * n) \div u) + u
  OBVIOUS
<1> QED
  BY <1>1, <1>2, <1>3

\* Positions stay on the desktop.
LEMMA PlacesKept == PlacesOK /\ MStep => PlacesOK'
<1> SUFFICES ASSUME PlacesOK, MStep PROVE PlacesOK'
  OBVIOUS
<1> DEFINE w == Desk[1]
           h == Desk[2]
<1>0. w \in Nat /\ w > 0 /\ h \in Nat /\ h > 0 /\ Point = (0 .. w) \X (0 .. h)
  BY MouseAssumption DEF Point
<1> HIDE DEF w, h
<1>1. CASE pos' = Synced /\ live' = live /\ lastPos' \in {lastPos, pos'}
  BY <1>1 DEF PlacesOK, Synced
<1>2. CASE UNCHANGED <<pos, lastPos>> /\ live' \in {live, pos}
  BY <1>2 DEF PlacesOK
<1>3. CASE Nudge
  <2>1. live' \in (0 .. w - 1) \X (0 .. h - 1) /\ UNCHANGED <<pos, lastPos>>
    BY <1>3 DEF Nudge, clicks, w, h
  <2>2. 0 .. w - 1 \subseteq 0 .. w /\ 0 .. h - 1 \subseteq 0 .. h
    BY <1>0
  <2>3. live' \in Point
    BY <1>0, <2>1, <2>2
  <2> QED
    BY <2>1, <2>3 DEF PlacesOK
<1>4. ASSUME NEW f \in Fraction, Enter(f) PROVE PlacesOK'
  <2>1. pos' = <<(f[1] * w) \div Unit, (f[2] * h) \div Unit>> /\ lastPos' = lastPos /\ live' = live
    BY <1>4 DEF Enter, move_absolute, clicks, w, h
  <2>2. f[1] \in 0 .. Unit /\ f[2] \in 0 .. Unit /\ Unit \in Nat /\ Unit > 0
    BY MouseAssumption
  <2>3. (f[1] * w) \div Unit \in 0 .. w /\ (f[2] * h) \div Unit \in 0 .. h
    BY <1>0, <2>2, FractionFits
  <2> QED
    BY <1>0, <2>1, <2>3 DEF PlacesOK
<1>5. ASSUME NEW d \in Delta, Move(d) PROVE PlacesOK'
  <2>1. PICK current \in Point :
          /\ pos' = <<Clamp(current[1] + d[1], w), Clamp(current[2] + d[2], h)>>
          /\ lastPos' = lastPos /\ live' = live
    BY <1>5 DEF Move, move_relative, clicks, PlacesOK, Synced, w, h
  <2>2. d[1] \in Int /\ d[2] \in Int /\ current[1] \in Int /\ current[2] \in Int
    BY <1>0, MouseAssumption
  <2> QED
    BY <1>0, <2>1, <2>2 DEF PlacesOK, Clamp
<1>6. CASE Leave \/ HideOrShow \/ Catches \/ Tick \/ UNCHANGED mvars
  BY <1>2, <1>6 DEF Leave, HideOrShow, Catches, Tick, mvars, cursor, clicks
<1>7. ASSUME NEW b \in Button, ButtonDown(b) \/ ButtonUp(b) PROVE PlacesOK'
  BY <1>1, <1>2, <1>7 DEF ButtonDown, ButtonUp, button, Press, Release, Elsewhere, cursor, clicks
<1>8. CASE ResetButtons
  BY <1>1, <1>2, <1>8 DEF ResetButtons, clicks
<1> QED
  BY <1>3, <1>4, <1>5, <1>6, <1>7, <1>8 DEF MStep, Quiet

-----------------------------------------------------------------------------
(* The keyboard (MacInput).                                                *)

\* What a key posts to macOS, and what macOS may have down.
Key == Nat \X {"hid", "session"}

\* The types of the books and of macOS.
SinkData ==
  /\ pressed \subseteq Evdev
  /\ posted \in [ModifierCodes -> KeyCodes \cup {None}]
  /\ rewritten \in [Evdev -> (SUBSET Key) \cup {None}]
  /\ os \subseteq Key /\ stale \subseteq os

\* EntryHasItsKey, and what it takes: the modifiers that are looked at when
\* another key goes down are posted as long as they are pressed.
Entries ==
  /\ \A code \in ModifierCodes : posted[code] # None => code \in pressed
  /\ \A code \in Evdev : rewritten[code] # None => code \in pressed \ ModifierCodes
  /\ switcher => LEFTALT \in pressed
  /\ tapped => \E code \in ModifierCodes : IsWin(code) /\ posted[code] # None
  /\ cancelled => LEFTCTRL \in pressed /\ posted[LEFTCTRL] = None
  /\ LEFTALT \in pressed => posted[LEFTALT] # None
  /\ CAPSLOCK \in pressed => posted[CAPSLOCK] = Cg[CAPSLOCK]

\* HeldIsOwed, by what x is owed to.
IsOwed(x) ==
  \/ \E c \in ModifierCodes : posted[c] # None /\ x = Hid(posted[c])
  \/ \E c \in Evdev : rewritten[c] # None /\ x \in rewritten[c]
  \/ switcher /\ x = Switcher
  \/ \E c \in pressed \ ModifierCodes : rewritten[c] = None /\ x = Hid(Cg[c])
  \/ x \in stale

AllOwed == \A x \in os : IsOwed(x)

SinkOK == SinkData /\ Entries /\ AllOwed

\* What waits for reset's releases, one by one.
LEMMA ReleasedOnes ==
  ASSUME NEW x
  PROVE  x \in Released <=>
           \/ \E c \in ModifierCodes : posted[c] # None /\ x = Hid(posted[c])
           \/ \E c \in Evdev : rewritten[c] # None /\ x \in rewritten[c]
           \/ switcher /\ x = Switcher
<1> DEFINE one == {Hid(posted[code]) : code \in {c \in ModifierCodes : posted[c] # None}}
           two == UNION {rewritten[code] : code \in {c \in Evdev : rewritten[c] # None}}
           three == IF switcher THEN {Switcher} ELSE {}
<1>1. Released = (one \cup two) \cup three
  BY DEF Released
<1>2. x \in one <=> \E c \in ModifierCodes : posted[c] # None /\ x = Hid(posted[c])
  OBVIOUS
<1>3. x \in two <=> \E c \in Evdev : rewritten[c] # None /\ x \in rewritten[c]
  OBVIOUS
<1>4. x \in three <=> switcher /\ x = Switcher
  OBVIOUS
<1> HIDE DEF one, two, three
<1> QED
  BY <1>1, <1>2, <1>3, <1>4

\* AllOwed is HeldIsOwed.
LEMMA AllOwedIsHeldOwed == AllOwed => HeldIsOwed
<1> SUFFICES ASSUME AllOwed, NEW x \in os
             PROVE  x \in Released \cup {Hid(Cg[code]) : code \in RawKeys} \cup stale
  BY DEF HeldIsOwed
<1>1. IsOwed(x)
  BY DEF AllOwed
<1>2. (\E c \in pressed \ ModifierCodes : rewritten[c] = None /\ x = Hid(Cg[c])) =>
        x \in {Hid(Cg[code]) : code \in RawKeys}
  BY DEF RawKeys
<1> QED
  BY <1>1, <1>2, ReleasedOnes DEF IsOwed

\* So EntryHasItsKey follows.
LEMMA EntriesHaveKeys == Entries => EntryHasItsKey
BY DEF Entries, EntryHasItsKey

\* Every code has a keycode, which is no None.
LEMMA CodesAreKeys ==
  /\ \A code \in DOMAIN Cg : Cg[code] \in KeyCodes
  /\ KeyCodes \subseteq Nat /\ None \notin KeyCodes
  /\ \A kc \in Nat : Hid(kc) \in Key
  /\ Switcher \in Key
  /\ Evdev \cup ModifierCodes \subseteq DOMAIN Cg
BY CgAssumption, NoneAssumption
   DEF KeyCodes, Command, RightCommand, Control, RightControl, Key, Hid, Session, Switcher

\* So has every modifier, swapped or not; Caps Lock is never swapped.
LEMMA KeycodesAreKeys ==
  ASSUME NEW code \in ModifierCodes, NEW kc \in modifier_keycode(code)
  PROVE  kc \in KeyCodes /\ (code = CAPSLOCK => kc = Cg[code])
<1>1. Cg[code] \in KeyCodes
  BY CodesAreKeys
<1>2. \A c \in DOMAIN Swapped : Swapped[c] \in KeyCodes /\ c # CAPSLOCK
  BY DEF Swapped, KeyCodes, LEFTCTRL, RIGHTCTRL, LEFTMETA, RIGHTMETA, CAPSLOCK
<1> QED
  BY <1>1, <1>2 DEF modifier_keycode

\* A modifier goes down.
LEMMA ModifierPressKept ==
  ASSUME SinkOK, NEW code \in Evdev, code \in ModifierCodes, code \notin pressed,
         pressed' = pressed \cup {code}, ModifierPress(code)
  PROVE  SinkOK'
<1> DEFINE fakes == {c \in {LEFTCTRL} : code = RIGHTALT /\ posted[c] # None}
<1>1. PICK kc \in modifier_keycode(code) :
        /\ posted' = [c \in ModifierCodes |->
                        IF c = code THEN kc ELSE IF c \in fakes THEN None ELSE posted[c]]
        /\ cancelled' = (cancelled \/ fakes # {})
        /\ tapped' = IsWin(code)
        /\ PostKeys({Hid(posted[c]) : c \in fakes}, {Hid(kc)})
        /\ UNCHANGED <<rewritten, switcher>>
  BY DEF ModifierPress
<1>2. kc \in KeyCodes /\ kc # None /\ kc \in Nat /\ (code = CAPSLOCK => kc = Cg[code]) /\ Hid(kc) \in Key
  BY KeycodesAreKeys, CodesAreKeys
<1>3. fakes \subseteq {LEFTCTRL} /\ LEFTCTRL \in ModifierCodes /\ LEFTALT \in ModifierCodes /\ CAPSLOCK \in ModifierCodes
      /\ LEFTALT # LEFTCTRL /\ CAPSLOCK # LEFTCTRL /\ (fakes # {} => code # LEFTCTRL /\ posted[LEFTCTRL] # None)
  BY DEF ModifierCodes, LEFTCTRL, LEFTALT, RIGHTALT, CAPSLOCK
<1> HIDE DEF fakes
<1>4. posted[code] = None
  BY DEF SinkOK, Entries
<1>5. SinkData'
  BY <1>1, <1>2, <1>3 DEF SinkOK, SinkData, PostKeys
<1>6. Entries'
  BY <1>1, <1>2, <1>3, <1>4 DEF SinkOK, Entries
<1>7. ASSUME NEW x \in os' PROVE IsOwed(x)'
  <2>1. CASE x = Hid(kc)
    BY <1>1, <1>2, <2>1 DEF IsOwed
  <2>2. CASE x \in os \ {Hid(posted[c]) : c \in fakes}
    <3>1. IsOwed(x)
      BY <2>2 DEF SinkOK, AllOwed
    <3>2. ASSUME NEW c \in ModifierCodes, posted[c] # None, x = Hid(posted[c])
          PROVE  posted'[c] # None /\ posted'[c] = posted[c]
      BY <1>1, <1>4, <2>2, <3>2
    <3>3. x \in stale => x \in stale'
      BY <1>1, <2>2 DEF PostKeys
    <3> QED
      BY <1>1, <3>1, <3>2, <3>3 DEF IsOwed
  <2> QED
    BY <1>1, <1>7, <2>1, <2>2 DEF PostKeys
<1> QED
  BY <1>5, <1>6, <1>7 DEF SinkOK, AllOwed

\* A modifier goes up.
LEMMA ModifierReleaseKept ==
  ASSUME SinkOK, NEW code \in Evdev, code \in ModifierCodes,
         pressed' = pressed \ {code}, ModifierRelease(code)
  PROVE  SinkOK'
<1>1. /\ LEFTCTRL \in ModifierCodes /\ LEFTALT \in ModifierCodes /\ CAPSLOCK \in ModifierCodes
      /\ LEFTALT # LEFTCTRL /\ CAPSLOCK # LEFTCTRL
  BY DEF ModifierCodes, LEFTCTRL, LEFTALT, CAPSLOCK
<1>2. CASE code = LEFTCTRL /\ cancelled
  <2>1. /\ cancelled' = FALSE /\ UNCHANGED <<posted, rewritten, switcher, tapped, os, stale>>
    BY <1>2 DEF ModifierRelease, ReleaseAs, macos
  <2>2. SinkData'
    BY <2>1 DEF SinkOK, SinkData
  <2>3. Entries'
    BY <1>1, <1>2, <2>1 DEF SinkOK, Entries
  <2>4. ASSUME NEW x \in os' PROVE IsOwed(x)'
    <3>1. IsOwed(x)
      BY <2>1, <2>4 DEF SinkOK, AllOwed
    <3> QED
      BY <1>2, <2>1, <3>1 DEF IsOwed
  <2> QED
    BY <2>2, <2>3, <2>4 DEF SinkOK, AllOwed
<1>3. CASE ~(code = LEFTCTRL /\ cancelled)
  <2> DEFINE more == IF switcher /\ code = LEFTALT THEN {Switcher} ELSE {}
             kcs  == IF posted[code] # None THEN {posted[code]} ELSE modifier_keycode(code)
  <2>1. PICK kc \in kcs :
          /\ posted' = [posted EXCEPT ![code] = None]
          /\ switcher' = (switcher /\ code # LEFTALT)
          /\ tapped' = (tapped /\ ~IsWin(code))
          /\ PostKeys({Hid(kc)} \cup more, {})
          /\ rewritten' = rewritten /\ cancelled' = cancelled
    BY <1>3 DEF ModifierRelease, ReleaseAs
  <2>2. posted[code] # None => kc = posted[code]
    BY <2>1
  <2>3. os' = os \ ({Hid(kc)} \cup more) /\ stale' = stale \ ({Hid(kc)} \cup more)
    BY <2>1 DEF PostKeys
  <2>4. SinkData'
    BY <2>1, <2>3 DEF SinkOK, SinkData
  <2>5. Entries'
    BY <1>1, <1>3, <2>1 DEF SinkOK, SinkData, Entries
  <2>6. ASSUME NEW x \in os' PROVE IsOwed(x)'
    <3>1. IsOwed(x) /\ x # Hid(kc) /\ x \notin more
      BY <2>3, <2>6 DEF SinkOK, AllOwed
    <3>2. ASSUME NEW c \in ModifierCodes, posted[c] # None, x = Hid(posted[c])
          PROVE  posted'[c] # None /\ posted'[c] = posted[c]
      BY <2>1, <2>2, <3>1, <3>2 DEF SinkOK, SinkData
    <3>3. x \in stale => x \in stale'
      BY <2>3, <2>6
    <3>4. switcher /\ x = Switcher => switcher'
      BY <2>1, <3>1
    <3> QED
      BY <2>1, <3>1, <3>2, <3>3, <3>4 DEF IsOwed
  <2> QED
    BY <2>4, <2>5, <2>6 DEF SinkOK, AllOwed
<1> QED
  BY <1>2, <1>3

\* Any other key goes up.
LEMMA KeyReleaseKept ==
  ASSUME SinkOK, NEW code \in Evdev, code \notin ModifierCodes,
         pressed' = pressed \ {code}, KeyRelease(code)
  PROVE  SinkOK'
<1> DEFINE ups == IF rewritten[code] = None THEN {Hid(Cg[code])} ELSE rewritten[code]
<1>1. /\ rewritten' = [rewritten EXCEPT ![code] = None]
      /\ os' = os \ ups /\ stale' = stale \ ups
      /\ UNCHANGED <<posted, switcher, tapped, cancelled>>
  BY DEF KeyRelease, PostKeys
<1>2. LEFTCTRL \in ModifierCodes /\ LEFTALT \in ModifierCodes /\ CAPSLOCK \in ModifierCodes
  BY DEF ModifierCodes
<1>3. SinkData'
  BY <1>1 DEF SinkOK, SinkData
<1>4. Entries'
  BY <1>1, <1>2 DEF SinkOK, SinkData, Entries
<1>5. ASSUME NEW x \in os' PROVE IsOwed(x)'
  <2>1. IsOwed(x) /\ x \notin ups
    BY <1>1, <1>5 DEF SinkOK, AllOwed
  <2>2. ASSUME NEW c \in Evdev, rewritten[c] # None, x \in rewritten[c]
        PROVE  rewritten'[c] # None /\ x \in rewritten'[c]
    BY <1>1, <2>1, <2>2 DEF SinkOK, SinkData
  <2>3. ASSUME NEW c \in pressed \ ModifierCodes, rewritten[c] = None, x = Hid(Cg[c])
        PROVE  c \in pressed' \ ModifierCodes /\ rewritten'[c] = None
    BY <1>1, <2>1, <2>3 DEF SinkOK, SinkData
  <2>4. x \in stale => x \in stale'
    BY <1>1, <1>5
  <2> QED
    BY <1>1, <2>1, <2>2, <2>3, <2>4 DEF IsOwed
<1> QED
  BY <1>3, <1>4, <1>5 DEF SinkOK, AllOwed

\* A key that is held repeats.
LEMMA RepeatKept ==
  ASSUME SinkOK, NEW code \in pressed, code \in ModifierCodes => code = CAPSLOCK,
         pressed' = pressed, key_repeat(code)
  PROVE  SinkOK'
<1> DEFINE downs == IF rewritten[code] = None THEN {Hid(Cg[code])} ELSE rewritten[code]
<1>1. /\ os' = os \cup downs /\ stale' = stale
      /\ UNCHANGED <<posted, rewritten, switcher, tapped, cancelled>>
  BY DEF key_repeat, PostKeys, sink
<1>2. code \in Evdev /\ downs \subseteq Key
  BY CodesAreKeys DEF SinkOK, SinkData
<1>3. SinkData'
  BY <1>1, <1>2 DEF SinkOK, SinkData
<1>4. Entries'
  BY <1>1 DEF SinkOK, Entries
<1>5. ASSUME NEW x \in downs PROVE IsOwed(x)
  <2>1. CASE rewritten[code] # None
    BY <1>2, <1>5, <2>1 DEF IsOwed
  <2>2. CASE rewritten[code] = None /\ code \notin ModifierCodes
    BY <1>5, <2>2 DEF IsOwed
  <2>3. CASE rewritten[code] = None /\ code = CAPSLOCK
    <3>1. posted[CAPSLOCK] = Cg[CAPSLOCK] /\ CAPSLOCK \in ModifierCodes
      BY <2>3 DEF SinkOK, Entries, ModifierCodes
    <3>2. Cg[CAPSLOCK] # None
      BY <3>1, CodesAreKeys
    <3> QED
      BY <1>5, <2>3, <3>1, <3>2 DEF IsOwed
  <2> QED
    BY <2>1, <2>2, <2>3
<1>6. ASSUME NEW x \in os' PROVE IsOwed(x)'
  <2>1. IsOwed(x)
    BY <1>1, <1>5, <1>6 DEF SinkOK, AllOwed
  <2> QED
    BY <1>1, <2>1 DEF IsOwed
<1> QED
  BY <1>3, <1>4, <1>6 DEF SinkOK, AllOwed

\* What rewrite gives is posted to macOS, and only Alt opens the switcher.
LEMMA RewriteFacts ==
  ASSUME NEW code, NEW ms, NEW app, NEW inText
  PROVE  /\ rewrite(code, ms, app, inText).posts \subseteq Key
         /\ rewrite(code, ms, app, inText).act = "switch" => "alt" \in ms
<1>1. \A c \in DOMAIN CtrlKey : CtrlKey[c] \in Nat
  BY DEF CtrlKey
<1>2. \A c \in DOMAIN FinderKey : FinderKey[c] \in Nat
  BY DEF FinderKey
<1>3. rewrite(code, ms, app, inText).posts \subseteq Key
  BY <1>1, <1>2 DEF rewrite, Raw, Posts, Hid, Session, Key
<1>4. rewrite(code, ms, app, inText).act = "switch" => ms \ {"shift"} = {"alt"}
  BY DEF rewrite, Raw, Posts
<1> QED
  BY <1>3, <1>4

\* Any other key goes down.
LEMMA KeyPressKept ==
  ASSUME SinkOK, NEW code \in Evdev, code \notin ModifierCodes, code \notin pressed,
         pressed' = pressed \cup {code}, KeyPress(code),
         cgMods' \subseteq Modifier, "alt" \in cgMods' => LEFTALT \in pressed
  PROVE  SinkOK'
<1>1. PICK r \in windows_rewrite(code) :
       \/ /\ r.act = "raw"
          /\ PostKeys({}, {Hid(Cg[code])})
          /\ UNCHANGED <<rewritten, switcher>>
       \/ /\ r.act # "raw"
          /\ rewritten' = [rewritten EXCEPT ![code] = r.posts]
          /\ switcher' = (switcher \/ r.act = "switch")
          /\ PostKeys({}, r.posts \cup IF r.act = "switch" /\ ~switcher THEN {Switcher} ELSE {})
  BY DEF KeyPress
<1>2. tapped' = FALSE /\ posted' = posted /\ cancelled' = cancelled
  BY DEF KeyPress
<1>3. rewritten[code] = None
  BY DEF SinkOK, Entries
<1>4. LEFTCTRL \in ModifierCodes /\ LEFTALT \in ModifierCodes /\ CAPSLOCK \in ModifierCodes
  BY DEF ModifierCodes
<1>5. CASE r.act = "raw"
  <2>1. os' = os \cup {Hid(Cg[code])} /\ stale' = stale /\ UNCHANGED <<rewritten, switcher>>
    BY <1>1, <1>5 DEF PostKeys
  <2>2. SinkData'
    BY <1>2, <2>1, CodesAreKeys DEF SinkOK, SinkData
  <2>3. Entries'
    BY <1>2, <1>4, <2>1 DEF SinkOK, Entries
  <2>4. ASSUME NEW x \in os' PROVE IsOwed(x)'
    <3>1. CASE x = Hid(Cg[code])
      BY <1>3, <2>1, <3>1 DEF IsOwed
    <3>2. CASE x \in os
      <4>1. IsOwed(x)
        BY <3>2 DEF SinkOK, AllOwed
      <4> QED
        BY <1>2, <2>1, <4>1 DEF IsOwed
    <3> QED
      BY <2>1, <2>4, <3>1, <3>2
  <2> QED
    BY <2>2, <2>3, <2>4 DEF SinkOK, AllOwed
<1>6. CASE r.act # "raw"
  <2> DEFINE opened == IF r.act = "switch" /\ ~switcher THEN {Switcher} ELSE {}
  <2>1. /\ rewritten' = [rewritten EXCEPT ![code] = r.posts]
        /\ switcher' = (switcher \/ r.act = "switch")
        /\ os' = os \cup (r.posts \cup opened) /\ stale' = stale
    BY <1>1, <1>6 DEF PostKeys
  <2>2. PICK app \in AppKind, inText \in BOOLEAN : r = rewrite(code, cgMods', app, inText)
    BY <1>6 DEF windows_rewrite, Raw
  <2>3. /\ r.posts # None /\ r.posts \subseteq Key
        /\ r.act = "switch" => LEFTALT \in pressed
    BY <2>2, RewriteFacts, NoneAssumption
  <2>4. SinkData'
    BY <1>2, <2>1, <2>3, CodesAreKeys DEF SinkOK, SinkData
  <2>5. Entries'
    BY <1>2, <1>4, <2>1, <2>3 DEF SinkOK, SinkData, Entries
  <2>6. rewritten'[code] = r.posts
    BY <2>1 DEF SinkOK, SinkData
  <2>7. ASSUME NEW x \in os' PROVE IsOwed(x)'
    <3>1. CASE x \in r.posts
      BY <2>3, <2>6, <3>1 DEF IsOwed
    <3>2. CASE x \in opened
      BY <2>1, <3>2 DEF IsOwed
    <3>3. CASE x \in os
      <4>1. IsOwed(x)
        BY <3>3 DEF SinkOK, AllOwed
      <4>2. \A c \in Evdev : c # code => rewritten'[c] = rewritten[c]
        BY <2>1 DEF SinkOK, SinkData
      <4>3. pressed \subseteq Evdev
        BY DEF SinkOK, SinkData
      <4> QED
        BY <1>2, <1>3, <2>1, <4>1, <4>2, <4>3 DEF IsOwed
    <3> QED
      BY <2>1, <2>7, <3>1, <3>2, <3>3
  <2> QED
    BY <2>4, <2>5, <2>7 DEF SinkOK, AllOwed
<1> QED
  BY <1>5, <1>6

\* The tracked modifiers, and what CgInput was told of them: of them only Alt
\* has a sink that waits for it.
TrackedOK ==
  /\ mods \subseteq Modifier /\ cgMods \subseteq Modifier
  /\ "alt" \in mods \cup cgMods => LEFTALT \in pressed
  /\ ~up => pressed = {}

\* What Update does to Alt.
LEMMA UpdateFacts ==
  ASSUME NEW vk, NEW isDown, NEW ms \in SUBSET Modifier
  PROVE  /\ Update(ms, vk, isDown) \subseteq Modifier
         /\ "alt" \in Update(ms, vk, isDown) =>
              IF vk \in Keys("alt") THEN isDown ELSE "alt" \in ms
         /\ vk \in Keys("alt") => IsMod(vk)
BY DEF Update, ModOf, IsMod, Modifier

\* handle_keyboard: the modifiers.
LEMMA TrackedKept ==
  ASSUME SinkOK, TrackedOK, up, up' = up, NEW vk \in VK, NEW isDown \in BOOLEAN,
         HandleKeyboard(vk, isDown)
  PROVE  TrackedOK'
<1>1. CASE vk = NUMLOCK /\ UNCHANGED <<kbState, swap, sink, macos>>
  BY <1>1 DEF TrackedOK, kbState, swap
<1>2. CASE ~(vk = NUMLOCK /\ UNCHANGED <<kbState, swap, sink, macos>>)
  <2>1. /\ mods' = Update(mods, vk, isDown)
        /\ mods' \subseteq Modifier
        /\ "alt" \in mods' => IF vk \in Keys("alt") THEN isDown ELSE "alt" \in mods
    BY <1>2, UpdateFacts DEF HandleKeyboard, TrackedOK
  <2>2. Code[vk] = LEFTALT <=> vk \in Keys("alt")
    BY ModifierAssumption
  <2>3. \/ cgMods' = mods'
        \/ cgMods' = cgMods /\ (vk \notin Keys("alt") \/ Code[vk] = NoCode)
    BY <1>2, UpdateFacts DEF HandleKeyboard, TellModifiers, swap, TrackedOK
  <2>4. CASE Code[vk] = NoCode
    <3>1. vk \notin Keys("alt")
      BY <2>2, <2>4, ModifierAssumption DEF ModifierCodes
    <3>2. pressed' = pressed
      BY <1>2, <2>4 DEF HandleKeyboard
    <3> QED
      BY <2>1, <2>3, <3>1, <3>2 DEF TrackedOK
  <2>5. CASE Code[vk] # NoCode
    <3>1. pressed' = IF isDown THEN pressed \cup {Code[vk]} ELSE pressed \ {Code[vk]}
      BY <1>2, <2>5 DEF HandleKeyboard, Transition
    <3> QED
      BY <2>1, <2>2, <2>3, <2>5, <3>1 DEF TrackedOK
  <2> QED
    BY <2>4, <2>5
<1> QED
  BY <1>1, <1>2

\* handle_keyboard: the sink.
LEMMA SinkKept ==
  ASSUME SinkOK, TrackedOK, up, up' = up, NEW vk \in VK, NEW isDown \in BOOLEAN,
         HandleKeyboard(vk, isDown)
  PROVE  SinkOK'
<1>1. CASE UNCHANGED <<pressed, sink, macos>>
  <2>1. UNCHANGED <<pressed, posted, rewritten, switcher, tapped, cancelled, os, stale>>
    BY <1>1 DEF sink, macos
  <2>2. SinkData' /\ Entries'
    BY <2>1 DEF SinkOK, SinkData, Entries
  <2>3. ASSUME NEW x PROVE IsOwed(x) => IsOwed(x)'
    BY <2>1 DEF IsOwed
  <2> QED
    BY <2>1, <2>2, <2>3 DEF SinkOK, AllOwed
<1>2. CASE vk # NUMLOCK /\ Code[vk] # NoCode /\ Transition(vk, Code[vk], isDown)
  <2> DEFINE code == Code[vk]
  <2>1. /\ code \in Evdev
        /\ code \in ModifierCodes \ {CAPSLOCK} => IsMod(vk)
    BY <1>2, ModifierAssumption DEF Evdev
  <2>2. pressed' = IF isDown THEN pressed \cup {code} ELSE pressed \ {code}
    BY <1>2 DEF Transition
  <2> HIDE DEF code
  <2>3. CASE isDown /\ code \in pressed /\ IsMod(vk) /\ UNCHANGED <<sink, macos>>
    BY <1>1, <2>2, <2>3
  <2>4. CASE isDown /\ code \in pressed /\ ~IsMod(vk) /\ key_repeat(code)
    BY <2>1, <2>2, <2>4, RepeatKept
  <2>5. CASE isDown /\ code \notin pressed /\ code \in ModifierCodes /\ ModifierPress(code)
    BY <2>1, <2>2, <2>5, ModifierPressKept
  <2>6. CASE ~isDown /\ code \in ModifierCodes /\ ModifierRelease(code)
    BY <2>1, <2>2, <2>6, ModifierReleaseKept
  <2>7. CASE isDown /\ code \notin pressed /\ code \notin ModifierCodes /\ KeyPress(code)
    <3>1. cgMods' \subseteq Modifier /\ ("alt" \in cgMods' => LEFTALT \in pressed')
      BY TrackedKept DEF TrackedOK
    <3>2. code # LEFTALT
      BY <2>7 DEF ModifierCodes
    <3> QED
      BY <2>1, <2>2, <2>7, <3>1, <3>2, KeyPressKept
  <2>8. CASE ~isDown /\ code \notin ModifierCodes /\ KeyRelease(code)
    BY <2>1, <2>2, <2>8, KeyReleaseKept
  <2> QED
    BY <1>2, <2>3, <2>4, <2>5, <2>6, <2>7, <2>8 DEF Transition, SinkKey, code
<1> QED
  BY <1>1, <1>2 DEF HandleKeyboard, kbState

\* reset, when a session starts.
LEMMA StartKept ==
  ASSUME SinkOK, TrackedOK, ~up, KeysStart
  PROVE  SinkOK' /\ TrackedOK'
<1>1. /\ pressed = {} /\ pressed' = {} /\ mods' = mods /\ cgMods' = {}
      /\ posted' = NothingPosted /\ rewritten' = NothingRewritten
      /\ switcher' = FALSE /\ tapped' = FALSE /\ cancelled' = FALSE
      /\ os' = os \ Released /\ stale' = stale \ Released
  BY DEF KeysStart, Reset, TrackedOK, kbState
<1>2. SinkData'
  BY <1>1 DEF SinkOK, SinkData, NothingPosted, NothingRewritten
<1>3. Entries'
  BY <1>1 DEF Entries, NothingPosted, NothingRewritten, ModifierCodes
<1>4. ASSUME NEW x \in os' PROVE IsOwed(x)'
  <2>1. x \in os /\ x \notin Released
    BY <1>1, <1>4
  <2>2. IsOwed(x)
    BY <2>1 DEF SinkOK, AllOwed
  <2>3. x \in stale
    BY <1>1, <2>1, <2>2, ReleasedOnes DEF IsOwed
  <2> QED
    BY <1>1, <2>1, <2>3 DEF IsOwed
<1>5. TrackedOK'
  BY <1>1 DEF TrackedOK
<1> QED
  BY <1>2, <1>3, <1>4, <1>5 DEF SinkOK, AllOwed

\* reset, when it ends.
LEMMA EndKept ==
  ASSUME SinkOK, KeysEnd
  PROVE  SinkOK' /\ TrackedOK'
<1>1. /\ pressed' = {} /\ mods' = {} /\ cgMods' = {}
      /\ posted' = NothingPosted /\ rewritten' = NothingRewritten
      /\ switcher' = FALSE /\ tapped' = FALSE /\ cancelled' = FALSE
      /\ os' = os \ Released
      /\ stale' = (stale \ Released) \cup ({Hid(Cg[code]) : code \in RawKeys} \cap os')
  BY DEF KeysEnd, Reset
<1>2. SinkData'
  BY <1>1 DEF SinkOK, SinkData, NothingPosted, NothingRewritten
<1>3. Entries'
  BY <1>1 DEF Entries, NothingPosted, NothingRewritten, ModifierCodes
<1>4. ASSUME NEW x \in os' PROVE IsOwed(x)'
  <2>1. x \in os /\ x \notin Released
    BY <1>1, <1>4
  <2>2. x \in Released \cup {Hid(Cg[code]) : code \in RawKeys} \cup stale
    BY <2>1, AllOwedIsHeldOwed DEF SinkOK, HeldIsOwed
  <2>3. x \in stale'
    BY <1>1, <1>4, <2>1, <2>2
  <2> QED
    BY <2>3 DEF IsOwed
<1>5. TrackedOK'
  BY <1>1 DEF TrackedOK
<1> QED
  BY <1>2, <1>3, <1>4, <1>5 DEF SinkOK, AllOwed

\* The flags of the keyboard.
KFlagsOK ==
  /\ up \in BOOLEAN /\ asCommand \in BOOLEAN /\ asControl \in BOOLEAN
  /\ switcher \in BOOLEAN /\ tapped \in BOOLEAN /\ cancelled \in BOOLEAN

\* Flags stay flags, whatever a key does.
LEMMA SinkFlags ==
  ASSUME KFlagsOK, NEW code, NEW isDown, SinkKey(code, isDown) \/ key_repeat(code)
  PROVE  switcher' \in BOOLEAN /\ tapped' \in BOOLEAN /\ cancelled' \in BOOLEAN
<1>1. CASE ModifierPress(code)
  BY <1>1 DEF KFlagsOK, ModifierPress, IsWin
<1>2. CASE ModifierRelease(code)
  BY <1>2 DEF KFlagsOK, ModifierRelease, ReleaseAs, IsWin
<1>3. CASE KeyPress(code)
  BY <1>3 DEF KFlagsOK, KeyPress
<1>4. CASE KeyRelease(code)
  BY <1>4 DEF KFlagsOK, KeyRelease
<1>5. CASE key_repeat(code)
  BY <1>5 DEF KFlagsOK, key_repeat, sink
<1> QED
  BY <1>1, <1>2, <1>3, <1>4, <1>5 DEF SinkKey

\* handle_keyboard: the flags.
LEMMA KFlagsKept ==
  ASSUME KFlagsOK, NEW vk \in VK, NEW isDown \in BOOLEAN, HandleKeyboard(vk, isDown), up' = up
  PROVE  KFlagsOK'
<1>1. asCommand' \in BOOLEAN /\ asControl' \in BOOLEAN
  <2>1. CASE UNCHANGED swap
    BY <2>1 DEF KFlagsOK, swap
  <2>2. CASE TellModifiers
    BY <2>2 DEF KFlagsOK, TellModifiers
  <2> QED
    BY <2>1, <2>2 DEF HandleKeyboard
<1>2. switcher' \in BOOLEAN /\ tapped' \in BOOLEAN /\ cancelled' \in BOOLEAN
  <2>1. CASE UNCHANGED sink
    BY <2>1 DEF KFlagsOK, sink
  <2> QED
    BY <2>1, SinkFlags DEF HandleKeyboard, Transition
<1> QED
  BY <1>1, <1>2 DEF KFlagsOK

-----------------------------------------------------------------------------
(* Both.                                                                   *)

\* The invariant of either half.
MouseInv == HeldOK /\ CursorOK /\ FlagsOK /\ ClicksOK /\ ExitsOK /\ PlacesOK

KeyInv == SinkOK /\ TrackedOK /\ KFlagsOK /\ down \subseteq VK

\* The invariant of each half, and that nothing is held without a connection.
MacInv ==
  /\ MouseInv /\ KeyInv
  /\ device \in Device /\ (here => up)
  /\ ~up => held = <<>>

\* The invariant holds at the start.
LEMMA InitInv == Init => MacInv
<1> SUFFICES ASSUME Init PROVE MacInv
  OBVIOUS
<1> USE DEF Init, MInit, KInit
<1>1. HeldOK
  BY DEF HeldOK, Once, Range
<1>2. CursorOK
  BY MouseAssumption DEF CursorOK
<1>3. FlagsOK
  BY DEF FlagsOK
<1>4. ClicksOK
  BY MouseAssumption DEF ClicksOK
<1>5. ExitsOK
  BY DEF ExitsOK, Range
<1>6. PlacesOK
  <2>1. Desk[1] \in Nat /\ Desk[2] \in Nat
    BY MouseAssumption
  <2>2. Desk[1] \div 2 \in 0 .. Desk[1] /\ Desk[2] \div 2 \in 0 .. Desk[2]
    BY <2>1
  <2> QED
    BY <2>2 DEF PlacesOK, Point
<1>7. SinkData
  BY DEF SinkData, NothingPosted, NothingRewritten
<1>8. Entries
  BY DEF Entries, NothingPosted, NothingRewritten, ModifierCodes
<1>9. AllOwed
  BY DEF AllOwed
<1>10. TrackedOK /\ KFlagsOK /\ down \subseteq VK
  BY DEF TrackedOK, KFlagsOK
<1> QED
  BY <1>1, <1>2, <1>3, <1>4, <1>5, <1>6, <1>7, <1>8, <1>9, <1>10
     DEF MacInv, MouseInv, KeyInv, SinkOK

\* Every step of the mouse keeps its half.
LEMMA MouseKept == MouseInv /\ MStep => MouseInv'
BY HeldKept, CursorKept, FlagsKept, ClicksKept, ExitsKept, PlacesKept DEF MouseInv

\* Every key event keeps the other.
LEMMA KeysKept ==
  ASSUME KeyInv, Keyboard
  PROVE  KeyInv' /\ up' = up
<1>1. PICK vk \in VK, isDown \in BOOLEAN :
        Event(vk, isDown) /\ down' \in {down, down \cup {vk}, down \ {vk}}
  BY DEF Keyboard, KeyDown, Repeat, KeyUp
<1>2. up' = up /\ down' \subseteq VK
  BY <1>1 DEF Event, KeyInv
<1>3. CASE up
  <2>1. HandleKeyboard(vk, isDown)
    BY <1>1, <1>3 DEF Event
  <2> QED
    BY <1>2, <1>3, <2>1, SinkKept, TrackedKept, KFlagsKept DEF KeyInv
<1>4. CASE ~up
  <2>1. UNCHANGED <<mods, pressed, cgMods, asCommand, asControl, posted, rewritten,
                    switcher, tapped, cancelled, os, stale, up>>
    BY <1>1, <1>2, <1>4 DEF Event, kbState, swap, sink, macos
  <2>2. SinkData' /\ Entries' /\ TrackedOK' /\ KFlagsOK'
    BY <2>1 DEF KeyInv, SinkOK, SinkData, Entries, TrackedOK, KFlagsOK
  <2>3. AllOwed'
    BY <2>1 DEF KeyInv, SinkOK, AllOwed, IsOwed
  <2> QED
    BY <1>2, <2>2, <2>3 DEF KeyInv, SinkOK
<1> QED
  BY <1>2, <1>3, <1>4

\* A step is one of the mouse, or leaves it as it is.
LEMMA StepOfMouse ==
  ASSUME [Next]_vars
  PROVE  MStep
<1>1. CASE Typing \/ UNCHANGED vars
  BY <1>1 DEF Typing, vars, MStep, Quiet
<1>2. CASE Pointing
  BY <1>2 DEF Pointing, MStep, Quiet
<1>3. CASE SessionStart \/ SessionEnd
  BY <1>3 DEF SessionStart, SessionEnd, MStep
<1> QED
  BY <1>1, <1>2, <1>3 DEF Next

\* What leaves the keyboard alone keeps its half.
LEMMA KeysAlone ==
  ASSUME KeyInv, UNCHANGED <<up, kvars>>
  PROVE  KeyInv'
<1>1. UNCHANGED <<mods, pressed, cgMods, asCommand, asControl, posted, rewritten,
                  switcher, tapped, cancelled, os, stale, up, down>>
  BY DEF kvars, kbState, swap, sink, macos
<1>2. SinkData' /\ Entries' /\ TrackedOK' /\ KFlagsOK'
  BY <1>1 DEF KeyInv, SinkOK, SinkData, Entries, TrackedOK, KFlagsOK
<1>3. AllOwed'
  BY <1>1 DEF KeyInv, SinkOK, AllOwed, IsOwed
<1> QED
  BY <1>1, <1>2, <1>3 DEF KeyInv, SinkOK

\* Every step keeps the invariant.
LEMMA NextInv == MacInv /\ [Next]_vars => MacInv'
<1> SUFFICES ASSUME MacInv, [Next]_vars PROVE MacInv'
  OBVIOUS
<1>1. MouseInv'
  BY StepOfMouse, MouseKept DEF MacInv
<1>2. CASE SessionStart
  <2>1. held' = <<>> /\ device' = device /\ here' = here /\ up' = TRUE /\ down' = down
    BY <1>2 DEF SessionStart, KeysStart, ResetButtons
  <2>2. KFlagsOK'
    BY <1>2, <2>1 DEF SessionStart, KeysStart, Reset, KFlagsOK
  <2>3. SinkOK' /\ TrackedOK'
    BY <1>2, StartKept DEF SessionStart, MacInv, KeyInv
  <2> QED
    BY <1>1, <2>1, <2>2, <2>3 DEF MacInv, KeyInv
<1>3. CASE SessionEnd
  <2>1. held' = <<>> /\ device' = device /\ here' = FALSE /\ up' = FALSE /\ down' = down
    BY <1>3 DEF SessionEnd, KeysEnd, ResetButtons
  <2>2. KFlagsOK'
    BY <1>3, <2>1 DEF SessionEnd, KeysEnd, Reset, KFlagsOK
  <2>3. SinkOK' /\ TrackedOK'
    BY <1>3, EndKept DEF SessionEnd, MacInv, KeyInv
  <2> QED
    BY <1>1, <2>1, <2>2, <2>3 DEF MacInv, KeyInv
<1>4. CASE Typing
  BY <1>1, <1>4, KeysKept DEF Typing, MacInv, mvars, buttons
<1>5. CASE Pointing
  <2>1. KeyInv' /\ device' = device /\ up' = up
    BY <1>5, KeysAlone DEF Pointing, MacInv
  <2>2. here' => up
    BY <1>5 DEF Pointing, MacInv, Leave, Enter, Move, ButtonDown, ButtonUp, HideOrShow,
         Catches, Nudge, Tick
  <2>3. ~up => held' = held
    <3> SUFFICES ASSUME ~up PROVE held' = held
      OBVIOUS
    <3>1. ~here
      BY DEF MacInv
    <3> QED
      BY <1>5, <3>1 DEF Pointing, ButtonDown, ButtonUp, Elsewhere, HideOrShow, Catches,
           Nudge, Tick, buttons
  <2> QED
    BY <1>1, <2>1, <2>2, <2>3 DEF MacInv
<1>6. CASE UNCHANGED vars
  BY <1>1, <1>6, KeysAlone DEF vars, MacInv, mvars, buttons
<1> QED
  BY <1>2, <1>3, <1>4, <1>5, <1>6 DEF Next

\* The invariant holds of every behaviour.
THEOREM MacInvariant == Spec => []MacInv
BY InitInv, NextInv, PTL DEF Spec

\* Every variable keeps to its type, and a mouse that is here has a connection.
THEOREM TypeCorrect == Spec => []TypeOK
<1>1. SinkOK /\ TrackedOK /\ KFlagsOK /\ down \subseteq VK => KTypeOK
  BY DEF KTypeOK, SinkOK, SinkData, TrackedOK, KFlagsOK, Key
<1>2. MouseInv => MTypeOK
  BY DEF MTypeOK, MouseInv, HeldOK, CursorOK, FlagsOK, ClicksOK, ExitsOK, PlacesOK
<1>3. MacInv => TypeOK
  BY <1>1, <1>2 DEF MacInv, KeyInv, TypeOK
<1> QED
  BY <1>3, MacInvariant, PTL

\* Every key down at macOS is one that CgInput, or the session, still knows it
\* has to release, or a raw key a lost connection left (cg_input.rs:143).
THEOREM HeldKeysAreOwed == Spec => []HeldIsOwed
<1>1. MacInv => HeldIsOwed
  BY AllOwedIsHeldOwed DEF MacInv, KeyInv, SinkOK
<1> QED
  BY <1>1, MacInvariant, PTL

\* What waits for a key's release waits for one that Windows still owes
\* (cg_input.rs:336-341).
THEOREM EntriesEnd == Spec => []EntryHasItsKey
<1>1. MacInv => EntryHasItsKey
  BY EntriesHaveKeys DEF MacInv, KeyInv, SinkOK
<1> QED
  BY <1>1, MacInvariant, PTL

\* Every button down at macOS was pressed once, is one CgInput releases and is
\* held at Windows, unless its release went elsewhere; none outlives its
\* connection (cg_input.rs:336-341, :553-558).
THEOREM ButtonsAreHeld == Spec => []DownIsHeld
<1>1. MacInv => DownIsHeld
  <2> SUFFICES ASSUME MacInv PROVE DownIsHeld
    OBVIOUS
  <2>1. \A b \in Button : osDown[b] = IF b \in Range(held) THEN 1 ELSE 0
    BY DEF MacInv, MouseInv, HeldOK
  <2>2. Down \subseteq Range(held)
    BY <2>1 DEF Down
  <2>3. ~up => Range(held) = {}
    BY DEF MacInv, Range
  <2> QED
    BY <2>1, <2>2, <2>3 DEF DownIsHeld, MacInv, MouseInv, HeldOK
<1> QED
  BY <1>1, MacInvariant, PTL

\* A click or a relative move starts from where the cursor is once macOS has
\* caught up, unless others have just moved it (cg_input.rs:55-62).
THEOREM MovesStartAtCursor == Spec => []StartsAtCursor
<1>1. MacInv => StartsAtCursor
  BY CursorIsStart DEF MacInv, MouseInv
<1> QED
  BY <1>1, MacInvariant, PTL

\* What is dragged, and stays down, stays what is dragged: whatever other
\* buttons do, and however often its own press is repeated (cg_input.rs:134).
THEOREM DragsGoOn == Spec => DragGoesOn
<1>1. MacInv /\ [Next]_vars =>
        [(drag \in Down /\ drag \in Down' /\ drag \notin wdown' \ wdown) => (drag' = drag)]_mvars
  BY StepOfMouse, DragStepHolds DEF MacInv, MouseInv, DragStep
<1> QED
  BY <1>1, MacInvariant, PTL DEF Spec, DragGoesOn

=============================================================================
