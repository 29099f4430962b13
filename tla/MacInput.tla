------------------------------- MODULE MacInput -------------------------------
(***************************************************************************)
(* The keyboard path of the macOS daemon: handle_keyboard with its         *)
(* per-connection KeyboardState (input_handling.rs) and CgInput, which     *)
(* outlives connections, swaps Ctrl and Win, rewrites Windows shortcuts    *)
(* and holds the Command+Tab switcher open (cg_input.rs, windows_keys.rs). *)
(*                                                                         *)
(* Two things change under the daemon's feet: the focused application, and *)
(* ENABLED, which the menu bar's thread toggles.  Every read of either may *)
(* give anything, so the operators that read them give a set.              *)
(***************************************************************************)
EXTENDS Modifiers, WindowsKeys, FiniteSets

CONSTANTS
  VK,     (* the Windows virtual keys the user presses                *)
  Code,   (* vk_to_evdev of each; NoCode for a key it leaves out      *)
  Cg,     (* evdev_to_cgkeycode of each evdev code                    *)
  NoCode, \* None of vk_to_evdev
  None    \* an absent entry of a HashMap

Evdev == {Code[vk] : vk \in VK} \ {NoCode}

\* What is typed and what a modifier is swapped for has a CGKeyCode.
ASSUME CgAssumption ==
  /\ DOMAIN Code = VK
  /\ DOMAIN Cg = Evdev \cup ModifierCodes
  /\ \A code \in DOMAIN Cg : Cg[code] \in Nat

\* None is no keycode, and nothing that a rewritten key posts.
ASSUME NoneAssumption ==
  /\ None \notin Nat
  /\ \A code \in Evdev, ms \in SUBSET Modifier, app \in AppKind, inText \in BOOLEAN :
       rewrite(code, ms, app, inText).posts # None

\* vk_to_evdev's rows of modifiers: left Alt is Windows' Alt and nothing else,
\* and a modifier's code is typed by a key the daemon tracks, or by Caps Lock.
ASSUME ModifierAssumption ==
  /\ NoCode \notin ModifierCodes
  /\ \A vk \in VK :
       /\ Code[vk] = LEFTALT <=> vk \in Keys("alt")
       /\ Code[vk] \in ModifierCodes \ {CAPSLOCK} => IsMod(vk)

VARIABLES
  up,         (* a session is running                                    *)
  down,       (* VKs physically held at Windows                          *)
  mods,       (* KeyboardState.mods                                      *)
  pressed,    (* KeyboardState.pressed_keys                              *)
  cgMods,     (* CgInput.mods: the modifiers as last told                *)
  asCommand,  (* ctrl_as_command                                         *)
  asControl,  (* win_as_control                                          *)
  posted,     (* posted_modifiers: modifier -> CGKeyCode, None if absent *)
  rewritten,  (* rewritten: key -> posts, None if absent                 *)
  switcher,   (* app_switch_open                                         *)
  tapped,     (* win_tapped                                              *)
  cancelled,  (* altgr_ctrl_cancelled                                    *)
  os,         (* macOS: <<CGKeyCode, tap>> posted down and not up since  *)
  stale       (* raw keys a lost session left down, not released since   *)

kbState == <<mods, pressed>>
swap    == <<cgMods, asCommand, asControl>>
sink    == <<posted, rewritten, switcher, tapped, cancelled>>
macos   == <<os, stale>>
kvars   == <<down, kbState, swap, sink, macos>>

-----------------------------------------------------------------------------
\* post_key: first the releases, then the presses of one packet.
PostKeys(ups, downs) ==
  /\ os' = (os \ ups) \cup downs
  /\ stale' = stale \ ups

\* CgInput::modifiers: where each of Ctrl and Win goes is decided when it
\* goes down, by whether a terminal has the focus.
TellModifiers ==
  LET decided(m, old) ==
        {old} \cup {app # "terminal" : app \in {a \in AppKind : m \in mods' \ cgMods}}
  IN  /\ cgMods' = mods'
      /\ asCommand' \in decided("ctrl", asCommand)
      /\ asControl' \in decided("super", asControl)

\* Mutant: a modifier that is not swapped has no keycode and is posted.
KeycodeOfSwappedOnly(code) ==
  {IF code \in DOMAIN Swapped /\ (IF IsWin(code) THEN asControl' ELSE asCommand')
     THEN Swapped[code] ELSE None}

\* What modifier_keycode gives, with Windows-style keys on or off.
modifier_keycode(code) ==
  {Cg[code]} \cup
    {Swapped[c] : c \in {c \in {code} \cap DOMAIN Swapped :
                          IF IsWin(c) THEN asControl' ELSE asCommand'}}

\* AltGr releases the fake left Ctrl Windows pressed before it.
ModifierPress(code) ==
  LET fakes == {c \in {LEFTCTRL} : code = RIGHTALT /\ posted[c] # None}
  IN  \E kc \in modifier_keycode(code) :
        /\ posted' = [c \in ModifierCodes |->
                        IF c = code THEN kc ELSE IF c \in fakes THEN None ELSE posted[c]]
        /\ cancelled' = (cancelled \/ fakes # {})
        /\ tapped' = IsWin(code)
        /\ PostKeys({Hid(posted[c]) : c \in fakes}, {Hid(kc)})
        /\ UNCHANGED <<rewritten, switcher>>

\* Mutant: the release of Alt leaves the switcher open.
ReleaseKeepsSwitcher(code, kcs) ==
  /\ posted' = [posted EXCEPT ![code] = None]
  /\ tapped' = (tapped /\ ~IsWin(code))
  /\ cancelled' = (cancelled /\ code # LEFTCTRL)
  /\ \E kc \in kcs : PostKeys({Hid(kc)}, {})
  /\ UNCHANGED <<rewritten, switcher>>

\* The release of a modifier, posted as that of one of the keycodes kcs.  The
\* release of a Ctrl that AltGr has released is dropped.  Alt closes the
\* switcher.  A Win key tapped alone opens Spotlight, which needs no closing.
ReleaseAs(code, kcs) ==
  \/ /\ code = LEFTCTRL /\ cancelled
     /\ cancelled' = FALSE
     /\ UNCHANGED <<posted, rewritten, switcher, tapped, macos>>
  \/ /\ ~(code = LEFTCTRL /\ cancelled)
     /\ posted' = [posted EXCEPT ![code] = None]
     /\ switcher' = (switcher /\ code # LEFTALT)
     /\ tapped' = (tapped /\ ~IsWin(code))
     /\ \E kc \in kcs :
          PostKeys({Hid(kc)} \cup IF switcher /\ code = LEFTALT THEN {Switcher} ELSE {}, {})
     /\ UNCHANGED <<rewritten, cancelled>>

\* Mutant: a modifier is released as what it would be pressed as now.
ModifierReleaseAsNow(code) == ReleaseAs(code, modifier_keycode(code))

\* A modifier is released as what it was pressed as.
ModifierRelease(code) ==
  ReleaseAs(code, IF posted[code] # None THEN {posted[code]} ELSE modifier_keycode(code))

\* What windows_rewrite gives, with Windows-style keys on or off.
windows_rewrite(code) ==
  {Raw} \cup {rewrite(code, cgMods', app, inText) :
                app \in {a \in AppKind : needs_context(code, cgMods')}, inText \in BOOLEAN}

KeyPress(code) ==
  /\ \E r \in windows_rewrite(code) :
       \/ /\ r.act = "raw"
          /\ PostKeys({}, {Hid(Cg[code])})
          /\ UNCHANGED <<rewritten, switcher>>
       \/ /\ r.act # "raw"
          /\ rewritten' = [rewritten EXCEPT ![code] = r.posts]
          /\ switcher' = (switcher \/ r.act = "switch")
          /\ PostKeys({}, r.posts \cup IF r.act = "switch" /\ ~switcher THEN {Switcher} ELSE {})
  /\ tapped' = FALSE
  /\ UNCHANGED <<posted, cancelled>>

\* A rewritten key is released, and repeated, as what it was rewritten to.
KeyRelease(code) ==
  /\ rewritten' = [rewritten EXCEPT ![code] = None]
  /\ PostKeys(IF rewritten[code] = None THEN {Hid(Cg[code])} ELSE rewritten[code], {})
  /\ UNCHANGED <<posted, switcher, tapped, cancelled>>

key_repeat(code) ==
  /\ PostKeys({}, IF rewritten[code] = None THEN {Hid(Cg[code])} ELSE rewritten[code])
  /\ UNCHANGED sink

-----------------------------------------------------------------------------
\* CgInput::key.
SinkKey(code, isDown) ==
  \/ isDown /\ code \in ModifierCodes /\ ModifierPress(code)
  \/ ~isDown /\ code \in ModifierCodes /\ ModifierRelease(code)
  \/ isDown /\ code \notin ModifierCodes /\ KeyPress(code)
  \/ ~isDown /\ code \notin ModifierCodes /\ KeyRelease(code)

\* handle_keyboard: the dedup swallows the repeat of a modifier, and passes
\* any other repeat on as one.
Transition(vk, code, isDown) ==
  /\ pressed' = IF isDown THEN pressed \cup {code} ELSE pressed \ {code}
  /\ \/ isDown /\ code \in pressed /\ IsMod(vk) /\ UNCHANGED <<sink, macos>>
     \/ isDown /\ code \in pressed /\ ~IsMod(vk) /\ key_repeat(code)
     \/ ~(isDown /\ code \in pressed) /\ SinkKey(code, isDown)

\* handle_keyboard, for a packet of key vk.
HandleKeyboard(vk, isDown) ==
  \/ vk = NUMLOCK /\ UNCHANGED <<kbState, swap, sink, macos>>
  \/ /\ vk # NUMLOCK
     /\ mods' = Update(mods, vk, isDown)
     /\ \/ /\ Code[vk] = NoCode
           /\ UNCHANGED <<pressed, swap, sink, macos>>
        \/ /\ Code[vk] # NoCode
           /\ IF IsMod(vk) \/ vk \in Numpad THEN TellModifiers ELSE UNCHANGED swap
           /\ Transition(vk, Code[vk], isDown)

Event(vk, isDown) ==
  /\ IF up THEN HandleKeyboard(vk, isDown)
           ELSE UNCHANGED <<kbState, swap, sink, macos>>
  /\ UNCHANGED up

-----------------------------------------------------------------------------
NothingPosted    == [code \in ModifierCodes |-> None]
NothingRewritten == [code \in Evdev |-> None]

KInit ==
  /\ up = FALSE /\ down = {}
  /\ mods = {} /\ pressed = {}
  /\ cgMods = {} /\ asCommand = TRUE /\ asControl = TRUE
  /\ posted = NothingPosted /\ rewritten = NothingRewritten
  /\ switcher = FALSE /\ tapped = FALSE /\ cancelled = FALSE
  /\ os = {} /\ stale = {}

KeyDown(vk) ==
  /\ vk \notin down
  /\ down' = down \cup {vk}
  /\ Event(vk, TRUE)

\* Windows' auto-repeat of a held key.
Repeat(vk) ==
  /\ vk \in down
  /\ UNCHANGED down
  /\ Event(vk, TRUE)

KeyUp(vk) ==
  /\ vk \in down
  /\ down' = down \ {vk}
  /\ Event(vk, FALSE)

\* What reset releases: posted modifiers, rewritten keys, the switcher.
Released ==
  {Hid(posted[code]) : code \in {c \in ModifierCodes : posted[c] # None}}
    \cup (UNION {rewritten[code] : code \in {c \in Evdev : rewritten[c] # None}})
    \cup (IF switcher THEN {Switcher} ELSE {})

\* A raw key is in no book of CgInput's: only pressed_keys knows of it.
RawKeys == {code \in pressed \ ModifierCodes : rewritten[code] = None}

\* CgInput::reset.
Reset ==
  /\ cgMods' = {} /\ asCommand' = TRUE /\ asControl' = TRUE
  /\ posted' = NothingPosted /\ rewritten' = NothingRewritten
  /\ switcher' = FALSE /\ tapped' = FALSE /\ cancelled' = FALSE
  /\ os' = os \ Released

\* The keyboard's part of a connection's start: reset, a fresh KeyboardState.
KeysStart ==
  /\ Reset
  /\ stale' = stale \ Released
  /\ UNCHANGED <<down, kbState>>

\* The keyboard's part of its end: KeyboardState is dropped, and reset.
KeysEnd ==
  /\ mods' = {} /\ pressed' = {}
  /\ Reset
  /\ stale' = (stale \ Released) \cup ({Hid(Cg[code]) : code \in RawKeys} \cap os')
  /\ UNCHANGED down

Keyboard == \E vk \in VK : KeyDown(vk) \/ Repeat(vk) \/ KeyUp(vk)

-----------------------------------------------------------------------------
KeyCodes == {Cg[code] : code \in DOMAIN Cg} \cup {Command, RightCommand, Control, RightControl}

\* Types of the fourteen variables.
KTypeOK ==
  /\ {up, asCommand, asControl, switcher, tapped, cancelled} \subseteq BOOLEAN
  /\ down \subseteq VK
  /\ mods \subseteq Modifier /\ cgMods \subseteq Modifier
  /\ pressed \subseteq Evdev
  /\ posted \in [ModifierCodes -> KeyCodes \cup {None}]
  /\ DOMAIN rewritten = Evdev
  /\ os \subseteq Nat \X {"hid", "session"}
  /\ stale \subseteq os

\* Every key down at macOS is one that CgInput or the session still knows it
\* has to release, or a raw key a lost connection left: "remembered per
\* posted modifier key so its release always matches its press"
\* (cg_input.rs:143), whatever became of the focus and the menu since.
HeldIsOwed ==
  os \subseteq Released \cup {Hid(Cg[code]) : code \in RawKeys} \cup stale

\* What waits for a release waits for one that Windows still owes: the
\* switcher for Alt's, a cancelled Ctrl for its own, and so on.  No entry
\* outlives its key or its connection (cg_input.rs:336-341).
EntryHasItsKey ==
  /\ \A code \in ModifierCodes : posted[code] # None => code \in pressed
  /\ \A code \in Evdev : rewritten[code] # None => code \in pressed
  /\ switcher => posted[LEFTALT] # None
  /\ tapped => \E code \in ModifierCodes : IsWin(code) /\ posted[code] # None
  /\ cancelled => LEFTCTRL \in pressed /\ posted[LEFTCTRL] = None

=============================================================================
