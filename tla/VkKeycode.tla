------------------------------ MODULE VkKeycode ------------------------------
(***************************************************************************)
(* daemon/protocol/src/vk_keycode.rs: the Windows virtual-key codes (VK)   *)
(* the bridge types, and the Linux evdev code of each.  A table, not a     *)
(* computation: it is written as the list of the ranges and of the single  *)
(* codes the Rust match has, and everything else is unmapped.              *)
(***************************************************************************)
EXTENDS Naturals, Sequences

\* vk_to_evdev's None.
Unmapped == 0

\* Rows <<first VK, evdev codes of that VK and of the ones after it>>.  A 0
\* inside a row is a VK the match leaves out.
Rows ==
  << << 8, <<14, 15, 0, 0, 0, 28>> >>,                      \* Back, Tab, Return
     <<16, <<42, 29, 56, 0, 58>> >>,                        \* Shift, Control, Menu, Capital
     <<27, <<1>> >>,                                        \* Escape
     <<32, <<57, 104, 109, 107, 102, 105, 103, 106, 108>> >>, \* Space .. Down
     <<45, <<110, 111>> >>,                                 \* Insert, Delete
     <<48, <<11, 2, 3, 4, 5, 6, 7, 8, 9, 10>> >>,           \* 0 .. 9
     <<65, <<30, 48, 46, 32, 18, 33, 34, 35, 23, 36, 37, 38, 50, 49, 24,
             25, 16, 19, 31, 20, 22, 47, 17, 45, 44, 21, 125, 126>> >>,
                                                            \* A .. Z, LWin, RWin
     <<96, <<82, 79, 80, 81, 75, 76, 77, 71, 72, 73, 55, 78, 0, 74, 83, 98,
             59, 60, 61, 62, 63, 64, 65, 66, 67, 68, 87, 88>> >>,
                                                            \* numpad, F1 .. F12
     <<144, <<69>> >>,                                      \* NumLock
     <<160, <<42, 54, 29, 97, 56, 100>> >>,                 \* L/R Shift, Control, Menu
     <<186, <<39, 13, 51, 53, 52, 12, 41>> >>,              \* OEM 1 .. OEM 3
     <<219, <<26, 43, 27, 40>> >>,                          \* OEM 4 .. OEM 7
     <<226, <<86>> >> >>                                    \* OEM 102

RowOf(vk) == {r \in DOMAIN Rows : vk \in Rows[r][1] .. Rows[r][1] + Len(Rows[r][2]) - 1}

vk_to_evdev(vk) ==
  IF RowOf(vk) = {} THEN Unmapped
  ELSE LET row == Rows[CHOOSE r \in RowOf(vk) : TRUE] IN row[2][vk - row[1] + 1]

=============================================================================
