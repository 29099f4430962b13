----------------------------- MODULE LinkStatus -----------------------------
(***************************************************************************)
(* What status.json promises the user about the connection to Windows,     *)
(* whatever the daemon goes through: "connected" is written only when the  *)
(* challenge is proven, in one step with it, and a status that says so     *)
(* after the session is over is replaced before the next one is up.        *)
(***************************************************************************)
VARIABLES
  up,     \* the session is there and its challenge was answered correctly
  shown   \* what status.json says

lvars == <<up, shown>>

Shown == {"unconfigured", "connecting", "connected", "rejected", "disconnected"}

LInit == up = FALSE /\ shown \in Shown     \* left by an earlier process

\* The peer proves the key.
Prove == up' = TRUE /\ shown' = "connected"

\* The peer answers the challenge wrongly.
Refuse == up' = FALSE /\ shown' = "rejected"

\* The session ends; the status still says what it said.
Drop == up /\ up' = FALSE /\ UNCHANGED shown

\* The daemon says how its attempts go.
Tell ==
  /\ ~up /\ UNCHANGED up
  /\ shown' \in {"unconfigured", "connecting", "disconnected"}

LNext == Prove \/ Refuse \/ Drop \/ Tell

Corrected == ~up /\ shown # "connected"

LSafe == LInit /\ [][LNext]_lvars
LSpec == LSafe /\ []<>(up \/ Corrected)

=============================================================================
