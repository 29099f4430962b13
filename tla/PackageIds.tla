------------------------------ MODULE PackageIds ------------------------------
(***************************************************************************)
(* The ids of outgoing packages (mwb_protocol.rs, daemon.rs).  Windows     *)
(* drops, without a word, a package whose id it finds among the last ones  *)
(* it processed, and it remembers them over our reconnects.  Each session  *)
(* therefore starts its counter at the wall clock; NextMachine takes one   *)
(* id, a clipboard text or image one for each of its packages.             *)
(*                                                                         *)
(* Time is counted in the clock's milliseconds.                            *)
(***************************************************************************)
EXTENDS Integers

CONSTANTS
  Modulus,    (* 0x3FFF_0000                                              *)
  Base,       (* 0x1_0000                                                 *)
  RetryDelay, (* the pause before a reconnect; systemd's RestartSec too   *)
  RestartDelay, (* the time a restart of the service takes                *)
  Slots,      (* how many ids Windows remembers: 50                       *)
  Chunk,      (* CLIPBOARD_CHUNK_SIZE                                     *)
  Payloads,   (* lengths of what the clipboard sends                      *)
  MaxClock,   (* bound on time                                            *)
  MaxUsed     (* bound on the ids of a session                            *)

ASSUME IdAssumption ==
  /\ {Modulus, Base, Slots, Chunk} \subseteq Nat \ {0}
  /\ {RetryDelay, RestartDelay, MaxClock, MaxUsed} \subseteq Nat
  /\ Payloads \subseteq Nat

VARIABLES
  clock,        (* SystemTime::now                                        *)
  session,      (* "up", "down"                                           *)
  since,        (* when it came up                                        *)
  until,        (* down: when the next attempt is made                    *)
  next_clip_id, (* the session's counter                                  *)
  used,         (* how many ids it has handed out                         *)
  pushed,       (* a request to switch was sent less than the throttle ago *)
  ring, at,     (* Windows: the ids it remembers, and the slot used next  *)
  dropped,      (* Windows has dropped a package for its id               *)
  outrun        (* a session ended with more ids handed out than          *)
                (* milliseconds until the next one                        *)

vars == <<clock, session, since, until, next_clip_id, used, pushed, ring, at, dropped, outrun>>
windows == <<ring, at, dropped>>

Slot == 0 .. Slots - 1

\* An unused slot, and an id drawn at random, which no counter hits.
Random == 0

Init ==
  /\ clock = 0
  /\ session = "down" /\ since = 0 /\ until = 0
  /\ next_clip_id = Base /\ used = 0 /\ pushed = FALSE
  /\ ring = [s \in Slot |-> Random] /\ at = 0
  /\ dropped = FALSE /\ outrun = FALSE

-----------------------------------------------------------------------------
(* Windows: Receiver.PreProcess.                                           *)

Received(id) ==
  IF \E s \in Slot : ring[s] = id
  THEN dropped' = TRUE /\ UNCHANGED <<ring, at>>
  ELSE /\ ring' = [ring EXCEPT ![at] = id]
       /\ at' = (at + 1) % Slots
       /\ UNCHANGED dropped

-----------------------------------------------------------------------------
Tick ==
  /\ clock < MaxClock
  /\ clock' = clock + 1
  /\ pushed' = FALSE
  /\ UNCHANGED <<session, since, until, next_clip_id, used, outrun, windows>>

\* Mutant: the counter of every session starts at the same value.
FixedPackageId == Base

\* Mutant: the milliseconds as they are.
UnboundedPackageId == clock + Base

initial_package_id == (clock % Modulus) + Base

Connect ==
  /\ session = "down" /\ clock >= until
  /\ session' = "up" /\ since' = clock
  /\ next_clip_id' = initial_package_id /\ used' = 0 /\ pushed' = FALSE
  /\ UNCHANGED <<clock, until, outrun, windows>>

\* The cursor is pushed off the edge: one package, one id, no more often
\* than the throttle allows.
NextMachine ==
  /\ session = "up" /\ used < MaxUsed
  /\ ~pushed /\ pushed' = TRUE
  /\ next_clip_id' = next_clip_id + 1 /\ used' = used + 1
  /\ Received(next_clip_id)
  /\ UNCHANGED <<clock, session, since, until, outrun>>

\* The packages for a payload: its chunks, at least one, and DataEnd.
Packages(len) ==
  (IF len = 0 THEN 1 ELSE (len + Chunk - 1) \div Chunk) + 1

\* Windows exempts them from its check, and does not remember their ids.
SendClipboard(len) ==
  /\ session = "up" /\ used + Packages(len) <= MaxUsed
  /\ next_clip_id' = next_clip_id + Packages(len)
  /\ used' = used + Packages(len)
  /\ UNCHANGED <<clock, session, since, until, pushed, outrun, windows>>

\* The beat, and HideMouse and MachineSwitched if the peer is known: each
\* with an id drawn at random.
AnnounceBigPath(n) ==
  /\ session = "up"
  /\ LET hit == {(at + i) % Slots : i \in 0 .. n - 1}
     IN  ring' = [s \in Slot |-> IF s \in hit THEN Random ELSE ring[s]]
  /\ at' = (at + n) % Slots
  /\ UNCHANGED <<clock, session, since, until, next_clip_id, used, pushed, dropped, outrun>>

\* The session is over; the next attempt comes no sooner than `pause` later.
End(pause) ==
  /\ session = "up"
  /\ session' = "down" /\ until' = clock + pause /\ until' <= MaxClock
  /\ outrun' = (outrun \/ used > (clock - since) + pause)
  /\ UNCHANGED <<clock, since, next_clip_id, used, pushed, windows>>

\* main's loop after an error, and systemd after a crash.
Fails == End(RetryDelay)

\* `systemctl restart`, as the widget does when settings were saved.
ServiceRestart == End(RestartDelay)

Next ==
  \/ Tick \/ Connect \/ NextMachine
  \/ (\E len \in Payloads : SendClipboard(len))
  \/ (\E n \in {1, 3} : AnnounceBigPath(n))
  \/ Fails \/ ServiceRestart

Spec == Init /\ [][Next]_vars

-----------------------------------------------------------------------------
\* Types, and a session's first id: "Positive i32 range [...] and well above
\* the handshake's id=1" (mwb_protocol.rs:358), whatever the clock says.
TypeOK ==
  /\ clock \in 0 .. MaxClock /\ since \in 0 .. clock /\ until \in Nat
  /\ session \in {"up", "down"}
  /\ used \in 0 .. MaxUsed /\ next_clip_id \in Nat
  /\ next_clip_id - used \in Base .. Base + Modulus - 1
  /\ ring \in [Slot -> Nat] /\ at \in Slot
  /\ pushed \in BOOLEAN /\ dropped \in BOOLEAN /\ outrun \in BOOLEAN

\* No package is dropped for its id, over any number of reconnects, unless
\* the clock passed Modulus or a session handed out more ids than there were
\* milliseconds until the next one (mwb_protocol.rs:346-352).
DroppedOnlyIfOutrun == dropped => outrun \/ clock >= Modulus

=============================================================================
