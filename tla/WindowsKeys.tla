----------------------------- MODULE WindowsKeys -----------------------------
(***************************************************************************)
(* daemon/macos/src/windows_keys.rs: what a key typed at the Windows       *)
(* keyboard becomes on a Mac with Windows-style keys on.  A key posted to  *)
(* macOS is a pair <<CGKeyCode, tap>>; the flags it carries are not        *)
(* modelled.                                                               *)
(***************************************************************************)
EXTENDS Naturals

\* evdev codes
BACKSPACE    == 14
TAB          == 15
ENTER        == 28
LEFTCTRL     == 29
RIGHTCTRL    == 97
LEFTMETA     == 125
RIGHTMETA    == 126
LEFTALT      == 56
RIGHTALT     == 100
LEFTSHIFT    == 42
RIGHTSHIFT   == 54
CAPSLOCK     == 58
DELETE       == 111
F2           == 60
F4           == 62
HOME         == 102
END          == 107
UP           == 103
DOWN         == 108
LEFT         == 105
RIGHT        == 106
LetterC      == 46
LetterV      == 47
LetterE      == 18
LetterS      == 31

\* CGKeyCodes
Command      == 55
RightCommand == 54
Control      == 59
RightControl == 62

Hid(kc)     == <<kc, "hid">>
Session(kc) == <<kc, "session">>

\* The Command key of the Command+Tab switcher.
Switcher == Session(Command)

IsWin(code) == code \in {LEFTMETA, RIGHTMETA}

ModifierCodes ==
  {LEFTCTRL, RIGHTCTRL, LEFTMETA, RIGHTMETA, LEFTALT, RIGHTALT, LEFTSHIFT,
   RIGHTSHIFT, CAPSLOCK}

\* What a modifier becomes when Ctrl and Win are swapped.
Swapped ==
  [code \in {LEFTCTRL, RIGHTCTRL, LEFTMETA, RIGHTMETA} |->
     CASE code = LEFTCTRL -> Command  [] code = RIGHTCTRL -> RightCommand
       [] code = LEFTMETA -> Control  [] code = RIGHTMETA -> RightControl]

AppKind == {"terminal", "finder", "other"}

\* Without a modifier, only these keys are looked at.
needs_context(code, ms) ==
  \/ ms \cap {"ctrl", "alt", "super"} # {}
  \/ code \in {HOME, END, ENTER, BACKSPACE, DELETE, F2}

\* Ctrl with these keys: words, paragraphs, the ends of the document.
CtrlKey ==
  [code \in {LEFT, RIGHT, UP, DOWN, BACKSPACE, DELETE, HOME, END} |->
     CASE code = LEFT -> 123      [] code = RIGHT -> 124
       [] code \in {UP, HOME} -> 126
       [] code \in {DOWN, END} -> 125
       [] code = BACKSPACE -> 51  [] code = DELETE -> 117]

\* Finder: open, go up, move to Trash, rename.
FinderKey ==
  [code \in {ENTER, BACKSPACE, DELETE, F2} |->
     CASE code = ENTER -> 125     [] code = BACKSPACE -> 126
       [] code = DELETE -> 51     [] code = F2 -> 36]

Raw      == [act |-> "raw", posts |-> {}]
Posts(p) == [act |-> "key", posts |-> {p}]

\* rewrite: what the press of a key that is no modifier becomes.
rewrite(code, ms, app, inText) ==
  LET held  == ms \ {"shift"}
      shift == "shift" \in ms
  IN  CASE held = {"alt"} /\ code = TAB ->
             [act |-> "switch", posts |-> {Session(48)}]
        [] held = {"alt"} /\ code = F4 /\ ~shift -> Posts(Hid(12))
        [] held = {"super"} /\ code = LetterE /\ ~shift ->
             [act |-> "finder", posts |-> {}]
        [] held = {"super"} /\ code = LetterS /\ shift -> Posts(Session(21))
        [] app = "terminal" /\ held = {"ctrl"} /\ shift /\ code = LetterC -> Posts(Hid(8))
        [] app = "terminal" /\ held = {"ctrl"} /\ shift /\ code = LetterV -> Posts(Hid(9))
        [] app # "terminal" /\ held = {"ctrl"} /\ code \in DOMAIN CtrlKey ->
             Posts(Hid(CtrlKey[code]))
        [] app # "terminal" /\ held = {} /\ code = HOME /\ inText -> Posts(Hid(123))
        [] app # "terminal" /\ held = {} /\ code = END /\ inText -> Posts(Hid(124))
        [] app = "finder" /\ ms = {} /\ code \in DOMAIN FinderKey /\ ~inText ->
             Posts(Hid(FinderKey[code]))
        [] OTHER -> Raw

=============================================================================
