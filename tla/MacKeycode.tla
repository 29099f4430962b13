------------------------------ MODULE MacKeycode ------------------------------
(***************************************************************************)
(* daemon/macos/src/keycode_macos.rs: the CGKeyCode at the physical        *)
(* position of each evdev code.  Written like VkKeycode, as rows of        *)
(* neighbouring evdev codes; -1 is a code the match leaves out.            *)
(***************************************************************************)
EXTENDS Integers, Sequences

\* evdev_to_cgkeycode's None.
NoKeycode == -1

MacRows ==
  << << 1, <<53, 18, 19, 20, 21, 23, 22, 26, 28, 25, 29, 27, 24>> >>, \* Esc, digits, - =
     <<14, <<51, 48, 12, 13, 14, 15, 17, 16, 32, 34, 31, 35, 33, 30>> >>,
                                                     \* Backspace, Tab, Q .. ]
     <<28, <<36, 59, 0, 1, 2, 3, 5, 4, 38, 40, 37, 41, 39, 50>> >>,
                                                     \* Enter, left Ctrl, A .. `
     <<42, <<56, 42, 6, 7, 8, 9, 11, 45, 46, 43, 47, 44, 60>> >>,
                                                     \* left Shift, \, Z .. right Shift
     <<55, <<67, 58, 49, 57>> >>,                    \* KP*, left Alt, Space, CapsLock
     <<59, <<122, 120, 99, 118, 96, 97, 98, 100, 101, 109>> >>,  \* F1 .. F10
     <<69, <<71, -1, 89, 91, 92, 78, 86, 87, 88, 69, 83, 84, 85, 82, 65>> >>,
                                                     \* NumLock, keypad
     <<86, <<10, 103, 111>> >>,                      \* 102nd, F11, F12
     <<97, <<62, 75, -1, 61>> >>,                    \* right Ctrl, KP/, right Alt
     <<102, <<115, 126, 116, 123, 124, 119, 125, 121, 114, 117>> >>,
                                                     \* Home .. Delete
     <<125, <<55, 54>> >> >>                         \* left and right Meta

MacRowOf(code) ==
  {r \in DOMAIN MacRows :
     code \in MacRows[r][1] .. MacRows[r][1] + Len(MacRows[r][2]) - 1}

evdev_to_cgkeycode(code) ==
  IF MacRowOf(code) = {} THEN NoKeycode
  ELSE LET row == MacRows[CHOOSE r \in MacRowOf(code) : TRUE]
       IN  row[2][code - row[1] + 1]

=============================================================================
