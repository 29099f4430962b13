------------------------------- MODULE Keyboard -------------------------------
(***************************************************************************)
(* One keyboard path of the bridge: the keys physically held at the        *)
(* Windows keyboard, handle_keyboard with its per-connection               *)
(* KeyboardState (input_handling.rs), and the Linux sink, one virtual      *)
(* keyboard that outlives every connection (wayland_input.rs).             *)
(*                                                                         *)
(* Packets of one connection reach the handler in order and nothing flows  *)
(* back, so an event and its handling are one step; what a lost connection *)
(* swallows is exactly what happens at Windows while `up` is FALSE.        *)
(***************************************************************************)
EXTENDS Modifiers, FiniteSets

CONSTANTS
  VK,      (* the Windows virtual keys the user presses              *)
  Code,    (* vk_to_evdev: the evdev code of each of them            *)
  NoCode   (* what Code gives for a key the table leaves out         *)

ASSUME CodeAssumption == DOMAIN Code = VK

VARIABLES
  up,       (* a session is running, its KeyboardState is live       *)
  down,     (* VKs physically held at Windows                        *)
  mods,     (* KeyboardState.mods: the modifiers tracked as held     *)
  pressed,  (* KeyboardState.pressed_keys: evdev codes               *)
  held,     (* sink: codes whose last key() was a press              *)
  mask,     (* sink: modifiers of the last modifiers() request       *)
  numlock,  (* sink: the NumLock bit of that request                 *)
  synced,   (* a modifiers() request was made in this session        *)
  stale     (* codes a lost connection left held, not released since *)

kbState == <<mods, pressed>>
sink    == <<held, mask, numlock>>
vars    == <<up, down, mods, pressed, held, mask, numlock, synced, stale>>

-----------------------------------------------------------------------------
\* vk_to_evdev maps every modifier key, so each is told to the sink.
ASSUME ModifiersMapped == \A vk \in VK : IsMod(vk) => Code[vk] # NoCode

Codes(vks) == {Code[vk] : vk \in vks} \ {NoCode}

-----------------------------------------------------------------------------
(* InputSink for WaylandInput: modifiers() sends the whole mask, key() one *)
(* transition, key_repeat() is the trait's default and does nothing.       *)

SinkModifiers(ms, num) ==
  /\ mask' = ms
  /\ numlock' = num
  /\ synced' = TRUE

KeepModifiers == UNCHANGED <<mask, numlock, synced>>

\* Mutant: a release is not told to the compositor.
SinkKeyPressOnly(code, isDown) ==
  /\ held' = IF isDown THEN held \cup {code} ELSE held
  /\ stale' = IF isDown THEN stale ELSE stale \ {code}

SinkKey(code, isDown) ==
  IF isDown THEN held' = held \cup {code} /\ UNCHANGED stale
            ELSE held' = held \ {code} /\ stale' = stale \ {code}

\* Mutant: the sink is told the modifiers from before the update.
TellOld(vk) ==
  CASE IsMod(vk) -> SinkModifiers(mods, FALSE)
    [] ~IsMod(vk) /\ vk \in Numpad -> SinkModifiers(mods, TRUE)
    [] OTHER -> KeepModifiers

\* sink.modifiers(): after a modifier key, and with NumLock for the numpad.
Tell(vk) ==
  CASE IsMod(vk) -> SinkModifiers(mods', FALSE)
    [] ~IsMod(vk) /\ vk \in Numpad -> SinkModifiers(mods', TRUE)
    [] OTHER -> KeepModifiers

\* Mutant: pressed_keys never shrinks.
TransitionKeepPressed(code, isDown) ==
  /\ pressed' = IF isDown THEN pressed \cup {code} ELSE pressed
  /\ IF isDown /\ code \in pressed THEN UNCHANGED <<held, stale>>
                                   ELSE SinkKey(code, isDown)

\* A press of a key already in pressed_keys is a repeat (key_repeat does
\* nothing here); everything else is forwarded.
Transition(code, isDown) ==
  /\ pressed' = IF isDown THEN pressed \cup {code} ELSE pressed \ {code}
  /\ IF isDown /\ code \in pressed THEN UNCHANGED <<held, stale>>
                                   ELSE SinkKey(code, isDown)

\* Mutant: an unmapped key does not return early.
HandleUnmapped(vk, isDown) ==
  \/ /\ vk = NUMLOCK
     /\ UNCHANGED <<kbState, sink, synced, stale>>
  \/ /\ vk # NUMLOCK
     /\ mods' = Update(mods, vk, isDown)
     /\ Tell(vk)
     /\ Transition(Code[vk], isDown)

\* handle_keyboard, for a packet of key vk.
HandleKeyboard(vk, isDown) ==
  \/ /\ vk = NUMLOCK
     /\ UNCHANGED <<kbState, sink, synced, stale>>
  \/ /\ vk # NUMLOCK
     /\ mods' = Update(mods, vk, isDown)
     /\ \/ /\ Code[vk] = NoCode
           /\ UNCHANGED <<pressed, sink, synced, stale>>
        \/ /\ Code[vk] # NoCode
           /\ Tell(vk)
           /\ Transition(Code[vk], isDown)

\* A key event at Windows: handled if a session is there to carry it.
Event(vk, isDown) ==
  /\ IF up THEN HandleKeyboard(vk, isDown)
           ELSE UNCHANGED <<kbState, sink, synced, stale>>
  /\ UNCHANGED up

-----------------------------------------------------------------------------
Init ==
  /\ up = FALSE
  /\ down = {}
  /\ mods = {} /\ pressed = {}
  /\ held = {} /\ mask = {} /\ numlock = FALSE
  /\ synced = FALSE
  /\ stale = {}

KeyDown(vk) ==
  /\ vk \notin down
  /\ down' = down \cup {vk}
  /\ Event(vk, TRUE)

\* Windows' auto-repeat of a held key.
Repeat(vk) ==
  /\ vk \in down
  /\ UNCHANGED down
  /\ Event(vk, TRUE)

KeyUp(vk) ==
  /\ vk \in down
  /\ down' = down \ {vk}
  /\ Event(vk, FALSE)

\* Mutant: the KeyboardState survives from one connection to the next.
SessionStartKeepsState ==
  /\ ~up
  /\ up' = TRUE
  /\ synced' = FALSE
  /\ UNCHANGED <<down, kbState, sink, stale>>

\* run_session starts: a fresh KeyboardState; the sink is not touched.
SessionStart ==
  /\ ~up
  /\ up' = TRUE
  /\ mods' = {} /\ pressed' = {}
  /\ synced' = FALSE
  /\ UNCHANGED <<down, sink, stale>>

\* Any I/O error ends run_session: its KeyboardState is dropped, and the
\* sink keeps what it was told last.
SessionEnd ==
  /\ up
  /\ up' = FALSE
  /\ stale' = held
  /\ UNCHANGED <<down, kbState, sink, synced>>

Next ==
  \/ \E vk \in VK : KeyDown(vk) \/ Repeat(vk) \/ KeyUp(vk)
  \/ SessionStart
  \/ SessionEnd

Spec == Init /\ [][Next]_vars

-----------------------------------------------------------------------------
EvdevCode == Codes(VK)

\* Types of the nine variables.
TypeOK ==
  /\ up \in BOOLEAN
  /\ down \subseteq VK
  /\ mods \subseteq Modifier
  /\ pressed \subseteq EvdevCode
  /\ held \subseteq EvdevCode
  /\ mask \subseteq Modifier
  /\ numlock \in BOOLEAN
  /\ synced \in BOOLEAN
  /\ stale \subseteq EvdevCode

\* A down packet is swallowed as a repeat only for a key the compositor
\* already has down: the dedup never hides a first press
\* (input_handling.rs:455-461).
RepeatsHidNoPress == up => pressed \subseteq held

\* What the compositor has down is held at Windows, or was left down when a
\* connection died: a release is forwarded whatever is tracked (input_handling.rs:453).
HeldExplained == held \subseteq (IF up THEN Codes(down) ELSE {}) \cup stale

\* No tracked modifier outlives the keys that set it, whatever the order of
\* left, right, generic and AltGr events.
NoPhantomModifier ==
  up => \A m \in mods : \E vk \in down : vk \in Keys(m)

\* Once a session has told the sink its modifiers, the sink's mask never
\* falls behind them.
SinkMaskCurrent == up /\ synced => mask = mods

\* Hands off the keyboard and nothing left over from a lost connection:
\* nothing is down here.
IdleMeansReleased ==
  up /\ down = {} /\ stale = {} => held = {} /\ pressed = {} /\ mods = {}

=============================================================================
