---------------------------- MODULE KeyboardProofs ----------------------------
(***************************************************************************)
(* The keyboard path for every set of keys and every code table that maps  *)
(* the modifiers: nothing is down at the sink that is not down at Windows  *)
(* or left over from a lost connection, and the modifiers are never ahead  *)
(* of the keys that set them.                                              *)
(***************************************************************************)
EXTENDS Keyboard, TLAPS

\* The codes of the keys held at Windows that handle_keyboard looks at.
Typed == Codes(down \ {NUMLOCK})

\* A key the session tracks as pressed is a key held at Windows; NumLock,
\* which is never forwarded, is not the one that explains it.
PressedIsTyped == up => pressed \subseteq Typed

\* HeldExplained without NumLock among the keys that explain.
HeldIsTyped == held \subseteq (IF up THEN Typed ELSE {}) \cup stale

\* The inductive invariant.  RepeatsHidNoPress and PressedIsTyped hold the
\* dedup set between the sink and the keyboard, and HeldIsTyped survives the
\* release of NumLock, which HeldExplained alone does not.
IInv ==
  /\ TypeOK
  /\ RepeatsHidNoPress
  /\ PressedIsTyped
  /\ HeldIsTyped
  /\ NoPhantomModifier
  /\ SinkMaskCurrent

\* NumLock sets no modifier, so its early return loses none.
LEMMA NumLockIsNoModifier == \A m \in Modifier : NUMLOCK \notin Keys(m)
  BY DEF Modifier, NUMLOCK, Keys, RMENU

\* ModState::update stays inside the five modifiers.
LEMMA UpdateType ==
  ASSUME NEW ms \in SUBSET Modifier, NEW vk, NEW isDown \in BOOLEAN
  PROVE  Update(ms, vk, isDown) \subseteq Modifier
  BY DEF Update, ModOf

\* A press adds only modifiers its key sets, a release removes all of them.
LEMMA UpdateAdds ==
  ASSUME NEW ms \in SUBSET Modifier, NEW vk, NEW isDown \in BOOLEAN,
         NEW m \in Update(ms, vk, isDown)
  PROVE  /\ m \in ms \/ (isDown /\ vk \in Keys(m))
         /\ ~isDown => vk \notin Keys(m)
  BY DEF Update, ModOf

\* A key that is no modifier leaves the tracked modifiers alone.
LEMMA UpdateOther ==
  ASSUME NEW ms \in SUBSET Modifier, NEW vk, NEW isDown \in BOOLEAN, ~IsMod(vk)
  PROVE  Update(ms, vk, isDown) = ms
  BY DEF Update, IsMod, ModOf, RMENU, Keys, Modifier

\* Whatever branch handle_keyboard takes for a key that is not NumLock, it
\* updates the modifiers, and the mask the sink has is theirs.
LEMMA HandleModifiers ==
  ASSUME IInv, up, up' = up, NEW vk \in VK, vk # NUMLOCK,
         NEW isDown \in BOOLEAN, HandleKeyboard(vk, isDown)
  PROVE  /\ mods' = Update(mods, vk, isDown)
         /\ mods' \subseteq Modifier
         /\ SinkMaskCurrent'
         /\ mask' \subseteq Modifier
         /\ numlock' \in BOOLEAN
         /\ synced' \in BOOLEAN
<1>1. mods' = Update(mods, vk, isDown)
  BY DEF HandleKeyboard, Tell, Transition
<1>2. mods' \subseteq Modifier
  BY <1>1, UpdateType DEF IInv, TypeOK
<1>3. CASE SinkModifiers(mods', TRUE) \/ SinkModifiers(mods', FALSE)
  <2>1. mask' = mods' /\ numlock' \in BOOLEAN /\ synced' = TRUE
    BY <1>3 DEF SinkModifiers
  <2>2. QED
    BY <1>1, <1>2, <2>1 DEF SinkMaskCurrent
<1>4. CASE KeepModifiers /\ ~IsMod(vk)
  <2>1. mods' = mods
    BY <1>1, <1>4, UpdateOther DEF IInv, TypeOK
  <2>2. QED
    BY <1>1, <1>2, <1>4, <2>1 DEF IInv, TypeOK, SinkMaskCurrent, KeepModifiers
<1>5. \/ SinkModifiers(mods', TRUE) \/ SinkModifiers(mods', FALSE)
      \/ KeepModifiers /\ ~IsMod(vk)
  <2>1. CASE Code[vk] = NoCode
    <3>1. KeepModifiers
      BY <2>1 DEF HandleKeyboard, Tell, Transition, KeepModifiers, sink
    <3>2. QED
      BY <2>1, <3>1, ModifiersMapped
  <2>2. CASE Code[vk] # NoCode
    BY <2>2 DEF HandleKeyboard, Tell, Transition
  <2>3. QED
    BY <2>1, <2>2
<1>6. QED
  BY <1>3, <1>4, <1>5

\* Handling the press of a key that is down keeps the invariant.
LEMMA PressKeeps ==
  ASSUME IInv, up, up' = up, NEW vk \in VK,
         down' \subseteq VK, down \subseteq down', vk \in down',
         HandleKeyboard(vk, TRUE)
  PROVE  IInv'
<1>0. Typed \subseteq Typed'
  BY DEF Typed, Codes
<1>1. CASE vk = NUMLOCK
  <2>1. UNCHANGED <<mods, pressed, held, mask, numlock, synced, stale>>
    BY <1>1 DEF HandleKeyboard, Tell, Transition, kbState, sink
  <2>2. QED
    BY <1>0, <2>1 DEF IInv, TypeOK, EvdevCode, Codes, RepeatsHidNoPress, PressedIsTyped,
                      HeldIsTyped, NoPhantomModifier, SinkMaskCurrent
<1>2. CASE vk # NUMLOCK
  <2>1. /\ mods' = Update(mods, vk, TRUE) /\ mods' \subseteq Modifier
        /\ SinkMaskCurrent' /\ mask' \subseteq Modifier
        /\ numlock' \in BOOLEAN /\ synced' \in BOOLEAN
    BY <1>2, HandleModifiers
  <2>2. NoPhantomModifier'
    <3>1. SUFFICES ASSUME NEW m \in mods'
                   PROVE  \E v \in down' : v \in Keys(m)
      BY DEF NoPhantomModifier
    <3>2. m \in mods \/ vk \in Keys(m)
      BY <2>1, UpdateAdds DEF IInv, TypeOK
    <3>3. QED
      BY <3>2 DEF IInv, NoPhantomModifier
  <2>3. CASE Code[vk] = NoCode
    <3>1. UNCHANGED <<pressed, held, stale>>
      BY <1>2, <2>3 DEF HandleKeyboard, Tell, Transition, sink
    <3>2. QED
      BY <1>0, <2>1, <2>2, <3>1 DEF IInv, TypeOK, EvdevCode, Codes, RepeatsHidNoPress,
                                    PressedIsTyped, HeldIsTyped
  <2>4. CASE Code[vk] # NoCode
    <3>1. /\ pressed' = pressed \cup {Code[vk]}
          /\ held' = held \cup {Code[vk]} \/ (Code[vk] \in pressed /\ held' = held)
          /\ stale' = stale
      BY <1>2, <2>4 DEF HandleKeyboard, Tell, Transition, SinkKey
    <3>2. Code[vk] \in Typed' /\ Code[vk] \in EvdevCode /\ EvdevCode' = EvdevCode
      BY <1>2, <2>4 DEF Typed, Codes, EvdevCode
    <3>3. TypeOK'
      BY <2>1, <3>1, <3>2 DEF IInv, TypeOK
    <3>4. RepeatsHidNoPress' /\ PressedIsTyped' /\ HeldIsTyped'
      BY <1>0, <3>1, <3>2 DEF IInv, RepeatsHidNoPress, PressedIsTyped, HeldIsTyped
    <3>5. QED
      BY <2>1, <2>2, <3>3, <3>4 DEF IInv
  <2>5. QED
    BY <2>3, <2>4
<1>3. QED
  BY <1>1, <1>2

\* Handling a release keeps the invariant.
LEMMA ReleaseKeeps ==
  ASSUME IInv, up, up' = up, NEW vk \in VK, down' = down \ {vk},
         HandleKeyboard(vk, FALSE)
  PROVE  IInv'
<1>1. CASE vk = NUMLOCK
  <2>1. UNCHANGED <<mods, pressed, held, mask, numlock, synced, stale>>
    BY <1>1 DEF HandleKeyboard, Tell, Transition, kbState, sink
  <2>2. Typed' = Typed
    BY <1>1 DEF Typed, Codes
  <2>3. NoPhantomModifier'
    BY <2>1, <1>1, NumLockIsNoModifier DEF IInv, TypeOK, NoPhantomModifier
  <2>4. QED
    BY <2>1, <2>2, <2>3 DEF IInv, TypeOK, EvdevCode, Codes, RepeatsHidNoPress,
                            PressedIsTyped, HeldIsTyped, SinkMaskCurrent
<1>2. CASE vk # NUMLOCK
  <2>1. /\ mods' = Update(mods, vk, FALSE) /\ mods' \subseteq Modifier
        /\ SinkMaskCurrent' /\ mask' \subseteq Modifier
        /\ numlock' \in BOOLEAN /\ synced' \in BOOLEAN
    BY <1>2, HandleModifiers
  <2>2. NoPhantomModifier'
    <3>1. SUFFICES ASSUME NEW m \in mods'
                   PROVE  \E v \in down' : v \in Keys(m)
      BY DEF NoPhantomModifier
    <3>2. m \in mods /\ vk \notin Keys(m)
      BY <2>1, UpdateAdds DEF IInv, TypeOK
    <3>3. QED
      BY <3>2 DEF IInv, NoPhantomModifier
  <2>3. Typed \ {Code[vk]} \subseteq Typed'
    BY DEF Typed, Codes
  <2>4. CASE Code[vk] = NoCode
    <3>1. UNCHANGED <<pressed, held, stale>>
      BY <1>2, <2>4 DEF HandleKeyboard, Tell, Transition, sink
    <3>2. Typed \subseteq Typed'
      BY <2>3, <2>4 DEF Typed, Codes
    <3>3. QED
      BY <2>1, <2>2, <3>1, <3>2 DEF IInv, TypeOK, EvdevCode, Codes, RepeatsHidNoPress,
                                    PressedIsTyped, HeldIsTyped
  <2>5. CASE Code[vk] # NoCode
    <3>1. /\ pressed' = pressed \ {Code[vk]}
          /\ held' = held \ {Code[vk]}
          /\ stale' = stale \ {Code[vk]}
      BY <1>2, <2>5 DEF HandleKeyboard, Tell, Transition, SinkKey
    <3>2. QED
      BY <2>1, <2>2, <2>3, <3>1 DEF IInv, TypeOK, EvdevCode, Codes, RepeatsHidNoPress,
                                    PressedIsTyped, HeldIsTyped
  <2>6. QED
    BY <2>4, <2>5
<1>3. QED
  BY <1>1, <1>2

-----------------------------------------------------------------------------
LEMMA InitInv == Init => IInv
  BY DEF Init, IInv, TypeOK, RepeatsHidNoPress, PressedIsTyped, HeldIsTyped,
         NoPhantomModifier, SinkMaskCurrent

\* Every step of the keyboard path keeps the invariant.
LEMMA NextKeeps == IInv /\ [Next]_vars => IInv'
<1> SUFFICES ASSUME IInv, [Next]_vars PROVE IInv'
  OBVIOUS
<1> USE DEF Event
<1>1. ASSUME NEW vk \in VK, KeyDown(vk) PROVE IInv'
  <2>1. CASE up
    BY <1>1, <2>1, PressKeeps DEF KeyDown, IInv, TypeOK
  <2>2. CASE ~up
    BY <1>1, <2>2 DEF KeyDown, IInv, TypeOK, EvdevCode, Codes, RepeatsHidNoPress,
                      PressedIsTyped, HeldIsTyped, NoPhantomModifier, SinkMaskCurrent,
                      kbState, sink
  <2>3. QED
    BY <2>1, <2>2
<1>2. ASSUME NEW vk \in VK, Repeat(vk) PROVE IInv'
  <2>1. CASE up
    BY <1>2, <2>1, PressKeeps DEF Repeat, IInv, TypeOK
  <2>2. CASE ~up
    BY <1>2, <2>2 DEF Repeat, IInv, TypeOK, EvdevCode, Codes, RepeatsHidNoPress,
                      PressedIsTyped, HeldIsTyped, NoPhantomModifier, SinkMaskCurrent,
                      kbState, sink
  <2>3. QED
    BY <2>1, <2>2
<1>3. ASSUME NEW vk \in VK, KeyUp(vk) PROVE IInv'
  <2>1. CASE up
    BY <1>3, <2>1, ReleaseKeeps DEF KeyUp
  <2>2. CASE ~up
    BY <1>3, <2>2 DEF KeyUp, IInv, TypeOK, EvdevCode, Codes, RepeatsHidNoPress,
                      PressedIsTyped, HeldIsTyped, NoPhantomModifier, SinkMaskCurrent,
                      kbState, sink
  <2>3. QED
    BY <2>1, <2>2
<1>4. CASE SessionStart
  BY <1>4 DEF SessionStart, IInv, TypeOK, EvdevCode, Codes, RepeatsHidNoPress,
              PressedIsTyped, HeldIsTyped, NoPhantomModifier, SinkMaskCurrent, sink
<1>5. CASE SessionEnd
  BY <1>5 DEF SessionEnd, IInv, TypeOK, EvdevCode, Codes, RepeatsHidNoPress,
              PressedIsTyped, HeldIsTyped, NoPhantomModifier, SinkMaskCurrent,
              kbState, sink
<1>6. CASE UNCHANGED vars
  BY <1>6 DEF vars, IInv, TypeOK, EvdevCode, Codes, RepeatsHidNoPress, PressedIsTyped,
              Typed, HeldIsTyped, NoPhantomModifier, SinkMaskCurrent
<1>7. QED
  BY <1>1, <1>2, <1>3, <1>4, <1>5, <1>6 DEF Next

LEMMA Invariance == Spec => []IInv
  BY InitInv, NextKeeps, PTL DEF Spec

\* Type correctness of the keyboard path.
THEOREM TypeCorrect == Spec => []TypeOK
  BY Invariance, PTL DEF IInv

\* The dedup of Windows' auto-repeat never swallows a first press.
THEOREM DedupIsSafe == Spec => []RepeatsHidNoPress
  BY Invariance, PTL DEF IInv

\* Every key down at the sink is down at Windows or was left by a lost
\* connection.
THEOREM HeldIsExplained == Spec => []HeldExplained
<1>1. IInv => HeldExplained
  BY DEF IInv, HeldIsTyped, HeldExplained, Typed, Codes
<1>2. QED
  BY <1>1, Invariance, PTL

\* A modifier is tracked as held only while one of its keys is.
THEOREM ModifiersAreReal == Spec => []NoPhantomModifier
  BY Invariance, PTL DEF IInv

\* The sink's modifier mask is the tracked one from its first request on.
THEOREM MaskIsCurrent == Spec => []SinkMaskCurrent
  BY Invariance, PTL DEF IInv

\* With nothing left over from a lost connection, letting go of the keyboard
\* releases everything here.
THEOREM IdleReleasesAll == Spec => []IdleMeansReleased
<1>1. IInv => IdleMeansReleased
  BY DEF IInv, HeldIsTyped, PressedIsTyped, NoPhantomModifier, IdleMeansReleased,
         Typed, Codes
<1>2. QED
  BY <1>1, Invariance, PTL

=============================================================================
