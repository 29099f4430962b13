------------------------------- MODULE MacSink -------------------------------
(***************************************************************************)
(* CgInput whole, over connections that come and go: the keyboard of       *)
(* MacInput and the mouse of MacMouse, which run_session feeds and which   *)
(* one reset releases when a connection starts and when it ends (main.rs,  *)
(* cg_input.rs).                                                           *)
(***************************************************************************)
EXTENDS MacInput, MacMouse

\* A bound: a behaviour has keys, or buttons, or a cursor that hides.
CONSTANT Device

ASSUME DeviceAssumption == Device \subseteq {"keys", "buttons", "hiding"}

VARIABLE device

vars == <<up, kvars, mvars, device>>

Init == KInit /\ MInit /\ device \in Device

\* run_client: connected; reset, and a run_session.
SessionStart ==
  /\ ~up /\ up' = TRUE
  /\ KeysStart /\ ResetButtons
  /\ UNCHANGED <<here, wdown, device>>

\* run_session returns; reset.
SessionEnd ==
  /\ up /\ up' = FALSE
  /\ KeysEnd /\ ResetButtons
  /\ here' = FALSE
  /\ UNCHANGED <<wdown, device>>

\* A Keyboard package, or a key that is pressed without a connection.
Typing == device = "keys" /\ Keyboard /\ UNCHANGED <<mvars, device>>

\* A Mouse package, or what else happens to the mouse.
Pointing ==
  /\ device # "keys"
  /\ \/ up /\ (Leave \/ (\E f \in Fraction : Enter(f)) \/ (\E d \in Delta : Move(d)))
     \/ device = "buttons" /\ \E b \in Button : ButtonDown(b) \/ ButtonUp(b)
     \/ device = "hiding" /\ HideOrShow
     \/ Catches \/ Nudge \/ Tick
  /\ UNCHANGED <<up, kvars, device>>

Next == Typing \/ Pointing \/ SessionStart \/ SessionEnd

Spec == Init /\ [][Next]_vars

-----------------------------------------------------------------------------
\* Types of all variables; a mouse that is here has a connection.
TypeOK == KTypeOK /\ MTypeOK /\ device \in Device /\ (here => up)

\* Every button down at macOS is one that CgInput knows to release, was
\* pressed once and is still held at Windows, unless its release went to
\* another machine; and none outlives its connection (cg_input.rs:336-341,
\* :553-558).
DownIsHeld ==
  /\ \A b \in Button : osDown[b] = IF b \in Range(held) THEN 1 ELSE 0
  /\ Down \subseteq wdown \cup missed
  /\ ~up => Down = {}

=============================================================================
