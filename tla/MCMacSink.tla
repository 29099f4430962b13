------------------------------ MODULE MCMacSink ------------------------------
(***************************************************************************)
(* MacSink with the codes of the real tables: left Ctrl and AltGr, the     *)
(* Win key, Alt and Tab for the switcher, and Home, which is rewritten or  *)
(* not as the focus and the modifiers say.  Two buttons; three pixels in a *)
(* row, so that a pixel may be at one edge, at the other or at both.       *)
(***************************************************************************)
EXTENDS MacSink

VkTable  == INSTANCE VkKeycode
MacTable == INSTANCE MacKeycode

\* Tab, Home, left Win, left Control, left Alt, AltGr
Keys6 == {9, 36, 91, 162, 164, 165}

MCCode == [vk \in VK |-> VkTable!vk_to_evdev(vk)]
MCCg   == [code \in Evdev \cup ModifierCodes |-> MacTable!evdev_to_cgkeycode(code)]

Pixels    == <<3, 1>>
Fractions == {<<0, 0>>, <<3, 0>>}
Deltas    == {<<1, 0>>, <<-3, 0>>, <<-3, 1>>}
All       == {"keys", "buttons", "hiding"}

\* Room for a pixel near one edge and away from the next, and moves past both.
Square  == <<4, 4>>
Corners == {<<0, 0>>, <<4, 4>>}
Slanted == {<<1, 0>>, <<-3, -2>>}
Hiding  == {"hiding"}

=============================================================================
