------------------------------ MODULE MCKeyboard ------------------------------
(***************************************************************************)
(* Keyboard on a small set of keys with the codes the real table gives     *)
(* them: a numpad digit, a key without an evdev code, NumLock, both        *)
(* Shifts, left Control and AltGr, whose presses Windows precedes with a   *)
(* fake left Control.                                                      *)
(***************************************************************************)
EXTENDS Keyboard

Table == INSTANCE VkKeycode

Keys7 == {96, 108, 144, 160, 161, 162, 165}

MCCode == [vk \in VK |-> Table!vk_to_evdev(vk)]

=============================================================================
