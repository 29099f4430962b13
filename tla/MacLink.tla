------------------------------ MODULE MacLink ------------------------------
(***************************************************************************)
(* The macOS daemon's watch_for_wake, which notices a sleep by comparing   *)
(* two clocks (main.rs), and the two daemons together: the platform is     *)
(* chosen at the start and stays.                                          *)
(***************************************************************************)
EXTENDS ClientLink

-----------------------------------------------------------------------------
(* The wall clock and the awake clock, read every TICK.                    *)

\* The machine wakes up: the interval being measured is now more than SLEPT
\* longer by the wall clock; or the sleep was shorter than that, or began
\* after one reading and before the next, or no thread is measuring.
Wake ==
  /\ os = "macos" /\ ~Awake
  /\ power' = "awake"
  /\ \/ watching /\ signals' = 1 /\ UNCHANGED missed
     \/ missed' = TRUE /\ UNCHANGED signals
  /\ UNCHANGED <<os, session, file, watching, faults>>

\* The wall clock is set forward by more than SLEPT.
ClockSet ==
  /\ os = "macos" /\ Awake /\ watching /\ Fault
  /\ signals' = 1
  /\ UNCHANGED <<os, session, file, watching, missed, power>>

\* Mutant: the stream is looked at, as on Linux, and not shut down.
WakeTickLetsGo ==
  /\ os = "macos" /\ Awake /\ watching /\ signals > 0
  /\ signals' = 0
  /\ missed' = (missed \/ ~pub)
  /\ UNCHANGED <<os, session, file, watching, power, faults>>

\* The end of a tick that holds a sleep: the stream is taken out of
\* CURRENT_STREAM and shut down.
WakeTick ==
  /\ os = "macos" /\ Awake /\ watching /\ signals > 0
  /\ signals' = 0
  /\ pub' = FALSE
  /\ conn' = IF pub /\ conn # "none" THEN "broken" ELSE conn
  /\ missed' = (missed \/ ~pub)
  /\ UNCHANGED <<os, pc, acked, idle, file, watching, power, faults>>

watch_for_wake == WakeTick \/ Wake \/ ClockSet

-----------------------------------------------------------------------------
Next == Connecting \/ Receiving \/ World \/ ResumeWatcher \/ watch_for_wake

SafeSpec == Init /\ [][Next]_vars

\* The threads are scheduled, timers and sleeps end, systemd and launchd
\* restart, the machine wakes up.  Strong fairness is Windows' part: a peer
\* that is there does not let every connection time out before its first
\* block, nor every session before it has answered a Handshake.
Fairness ==
  /\ WF_vars(BeginConnect) /\ WF_vars(ConnectOk) /\ WF_vars(Publish)
  /\ WF_vars(Unpublish) /\ WF_vars(Report) /\ WF_vars(Retry)
  /\ SF_vars(Opened) /\ SF_vars(~acked /\ RecvAck(TRUE))
  /\ WF_vars(ReadFails) /\ WF_vars(Tick) /\ WF_vars(Watcher)
  /\ WF_vars(WakeTick) /\ WF_vars(Resume) /\ WF_vars(Wake) /\ WF_vars(Restart)

Spec == SafeSpec /\ Fairness

=============================================================================
