------------------------------ MODULE Modifiers ------------------------------
(***************************************************************************)
(* ModState (input_handling.rs): the modifiers a receiving machine tracks  *)
(* from the virtual keys (VK) Windows sends.  Both machines' sinks are     *)
(* told these; the five booleans of ModifierState are a set of names here. *)
(***************************************************************************)
EXTENDS Naturals

Modifier == {"shift", "ctrl", "alt", "super", "level3"}

NUMLOCK  == 144                    \* VK_NUMLOCK, 0x90
RMENU    == 165                    \* VK_RMENU, AltGr, 0xA5
Numpad   == 96 .. 111              \* 0x60 ..= 0x6F

Keys(m) ==                         \* the VKs whose press sets modifier m
  CASE m = "shift"  -> {16, 160, 161}
    [] m = "ctrl"   -> {17, 162, 163}
    [] m = "alt"    -> {18, 164}
    [] m = "super"  -> {91, 92}
    [] m = "level3" -> {RMENU}

IsMod(vk) == \E m \in Modifier : vk \in Keys(m)

ModOf(vk) == {m \in Modifier : vk \in Keys(m)}

\* ModState::update.  AltGr also clears ctrl: Windows precedes it with a
\* synthetic left Control.
Update(ms, vk, isDown) ==
  LET rest == ms \ (ModOf(vk) \cup IF vk = RMENU THEN {"ctrl"} ELSE {})
  IN  IF isDown THEN rest \cup ModOf(vk) ELSE rest

=============================================================================
