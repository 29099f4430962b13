----------------------------- MODULE ClientLink -----------------------------
(***************************************************************************)
(* The outbound connection to Windows as both daemons make it: the loop of *)
(* main (Linux) and network_thread (macOS), run_client, the handshake and  *)
(* the blocked reads of run_session, the session Windows opens in the      *)
(* other direction, and status.json (daemon.rs, main.rs, config.rs).  The  *)
(* resume watcher of Linux is here too; MacLink adds that of macOS and     *)
(* puts the two daemons together.  Meanwhile the peer goes away, the       *)
(* network goes silent, the machine sleeps, and the process dies and is    *)
(* restarted by systemd or launchd.                                        *)
(***************************************************************************)
EXTENDS Integers

CONSTANTS
  TimeoutTicks,   (* SOCKET_TIMEOUT                                       *)
  MaxFaults,      (* bound on what goes wrong in one behaviour            *)
  Matches,        (* the outcomes of the challenge comparison             *)
  Platforms       (* the daemons considered                               *)

ASSUME LinkAssumption ==
  /\ TimeoutTicks \in Nat \ {0}
  /\ MaxFaults \in Nat
  /\ Matches \subseteq BOOLEAN
  /\ Platforms \subseteq {"linux", "macos"}

VARIABLES
  os,        (* which daemon this is                                      *)
  pc,        (* where the thread of the outbound connection is            *)
  conn,      (* what the connection really is                             *)
  pub,       (* current_stream, CURRENT_STREAM: holds a clone of it       *)
  acked,     (* the last HandshakeAck of this session matched             *)
  idle,      (* how long the read has been blocked, up to TimeoutTicks    *)
  told,      (* what the outbound connection last wrote to status.json    *)
  status,    (* what status.json says                                     *)
  signals,   (* resumes the watcher has noticed and not handled           *)
  watching,  (* the watcher runs                                          *)
  power,     (* the machine is awake or asleep                            *)
  missed,    (* a resume passed that could not touch this connection      *)
  faults     (* faults so far                                             *)

session == <<pc, conn, pub, acked, idle>>
file    == <<told, status>>
watch   == <<signals, watching, missed>>

vars == <<os, session, file, watch, power, faults>>

\* "boot": main before its loop.  "connected": connect has returned, the
\* stream is not published.  "opening": waiting for the peer's first block.
\* "session": the receive loop.  "ended": run_session has returned, the clone
\* is still published.  "failed": run_client has returned its error.
\* "sleeping": the 3 s before the next attempt.  "dead": no process.
Places == {"boot", "start", "connecting", "connected", "opening", "session",
           "ended", "failed", "sleeping", "dead"}

\* "foreign": the peer has another security key.  "silent": the peer is gone
\* without a word.  "stale": the machine slept under it.  "broken": the next
\* read fails at once.
Conns == {"none", "live", "foreign", "silent", "stale", "broken"}

Shown == {"unconfigured", "connecting", "connected", "rejected", "disconnected"}

HasConn == pc \in {"connected", "opening", "session"}
Reading == pc \in {"opening", "session"}
Awake   == power = "awake"

Init ==
  /\ os \in Platforms
  /\ pc = "boot" /\ conn = "none" /\ pub = FALSE
  /\ acked = FALSE /\ idle = 0
  /\ status \in Shown /\ told = status
  /\ signals = 0 /\ watching = FALSE
  /\ power = "awake" /\ missed = FALSE
  /\ faults = 0

Fault == faults < MaxFaults /\ faults' = faults + 1

\* write_status, called for the outbound connection.
Write(s) == told' = s /\ status' = s

-----------------------------------------------------------------------------
(* main, network_thread and run_client.                                    *)

\* There is no config.json that parses: says so, looks again in 5 s.
NotConfigured ==
  /\ Awake /\ pc = "boot" /\ Fault
  /\ Write("unconfigured")
  /\ UNCHANGED <<os, session, watch, power>>

\* Mutant: the status of the last attempt is left as it is.
BeginConnectSilently ==
  /\ Awake /\ pc \in {"boot", "start"}
  /\ pc' = "connecting"
  /\ watching' = (watching \/ pc = "boot")
  /\ UNCHANGED <<os, conn, pub, acked, idle, file, signals, missed, power, faults>>

BeginConnect ==
  /\ Awake /\ pc \in {"boot", "start"}
  /\ pc' = "connecting"
  /\ Write("connecting")
  /\ watching' = (watching \/ pc = "boot")    \* started before the loop
  /\ UNCHANGED <<os, conn, pub, acked, idle, signals, missed, power, faults>>

ConnectOk ==
  /\ Awake /\ pc = "connecting"
  /\ pc' = "connected" /\ conn' = "live"
  /\ idle' = 0 /\ missed' = FALSE
  /\ UNCHANGED <<os, pub, acked, file, signals, watching, power, faults>>

\* The peer, or whoever answers at its address, has another key.
ConnectForeign ==
  /\ Awake /\ pc = "connecting" /\ Fault
  /\ pc' = "connected" /\ conn' = "foreign"
  /\ idle' = 0 /\ missed' = FALSE
  /\ UNCHANGED <<os, pub, acked, file, signals, watching, power>>

ConnectFail ==
  /\ Awake /\ pc = "connecting" /\ Fault
  /\ pc' = "failed"
  /\ UNCHANGED <<os, conn, pub, acked, idle, file, watch, power>>

\* try_clone, and its clone in current_stream; it may fail.
Publish ==
  /\ Awake /\ pc = "connected"
  /\ pc' = "opening" /\ pub' = TRUE
  /\ UNCHANGED <<os, conn, acked, idle, file, watch, power, faults>>

PublishFails ==
  /\ Awake /\ pc = "connected" /\ Fault
  /\ pc' = "opening"
  /\ UNCHANGED <<os, conn, pub, acked, idle, file, watch, power>>

\* Mutant: the clone of the last session stays published.
UnpublishNever ==
  /\ Awake /\ pc = "ended"
  /\ pc' = "failed"
  /\ UNCHANGED <<os, conn, pub, acked, idle, file, watch, power, faults>>

\* The clone is dropped; the error goes up to the loop.
Unpublish ==
  /\ Awake /\ pc = "ended"
  /\ pc' = "failed" /\ pub' = FALSE
  /\ UNCHANGED <<os, conn, acked, idle, file, watch, power, faults>>

Report ==
  /\ Awake /\ pc = "failed"
  /\ pc' = "sleeping" /\ Write("disconnected")
  /\ UNCHANGED <<os, conn, pub, acked, idle, watch, power, faults>>

Retry ==
  /\ Awake /\ pc = "sleeping"
  /\ pc' = "start"
  /\ UNCHANGED <<os, conn, pub, acked, idle, file, watch, power, faults>>

-----------------------------------------------------------------------------
(* run_session.                                                            *)

\* The peer's first block is in, ours and the ten Handshakes are out.
Opened ==
  /\ Awake /\ pc = "opening" /\ conn \in {"live", "foreign"}
  /\ pc' = "session"
  /\ acked' = FALSE /\ idle' = 0
  /\ UNCHANGED <<os, conn, pub, file, watch, power, faults>>

\* Mutant: the status does not look at the comparison's outcome.
RecvAckTrusts(m) ==
  /\ Awake /\ pc = "session" /\ conn = "live"
  /\ acked' = m /\ idle' = 0
  /\ Write("connected")
  /\ UNCHANGED <<os, pc, conn, pub, watch, power, faults>>

\* HandshakeAck: matched or not, the client's session goes on.
RecvAck(m) ==
  /\ Awake /\ pc = "session" /\ conn = "live"
  /\ acked' = m /\ idle' = 0
  /\ Write(IF m THEN "connected" ELSE "rejected")
  /\ UNCHANGED <<os, pc, conn, pub, watch, power, faults>>

\* Any other package: the read returned, the timer starts anew.
RecvOther ==
  /\ Awake /\ pc = "session" /\ conn = "live"
  /\ idle' = 0
  /\ UNCHANGED <<os, pc, conn, pub, acked, file, watch, power, faults>>

\* Packages that do not decrypt.  Linux drops them; macOS says so when it has
\* had five of them in a session.
RecvInvalid ==
  /\ Awake /\ pc = "session" /\ conn = "foreign" /\ Fault
  /\ idle' = 0
  /\ IF os = "macos" THEN Write("rejected") ELSE UNCHANGED file
  /\ UNCHANGED <<os, pc, conn, pub, acked, watch, power>>

\* The session of a connection Windows has opened to us gets its answer to the
\* Handshake, or packages that do not decrypt.  On Linux its role keeps it
\* from writing; on macOS nothing does.
ReverseRecv(m) ==
  /\ Awake /\ pc \notin {"dead", "boot"}
  /\ IF os = "linux" THEN UNCHANGED status
     ELSE status' = IF m THEN "connected" ELSE "rejected"
  /\ UNCHANGED <<os, session, told, watch, power, faults>>

\* Mutant: a read that timed out is tried again.
ReadFailsTryAgain ==
  /\ Awake /\ Reading
  /\ conn = "broken" \/ idle = TimeoutTicks
  /\ IF conn = "broken" THEN pc' = "ended" /\ conn' = "none" /\ UNCHANGED idle
                        ELSE UNCHANGED <<pc, conn>> /\ idle' = 0
  /\ UNCHANGED <<os, pub, acked, file, watch, power, faults>>

\* The read returns an error or has been blocked for SOCKET_TIMEOUT.
ReadFails ==
  /\ Awake /\ Reading
  /\ conn = "broken" \/ idle = TimeoutTicks
  /\ pc' = "ended" /\ conn' = "none"
  /\ UNCHANGED <<os, pub, acked, idle, file, watch, power, faults>>

\* Mutant: the read is blocked for longer than its timeout.
TickNoTimeout ==
  /\ Awake /\ Reading /\ conn # "broken"
  /\ signals = 0
  /\ idle' = idle + 1
  /\ UNCHANGED <<os, pc, conn, pub, acked, file, watch, power, faults>>

\* Time passes in a blocked read; the watcher handles a line in less than a
\* tick.
Tick ==
  /\ Awake /\ Reading /\ conn # "broken"
  /\ signals = 0
  /\ idle < TimeoutTicks
  /\ idle' = idle + 1
  /\ UNCHANGED <<os, pc, conn, pub, acked, file, watch, power, faults>>

-----------------------------------------------------------------------------
(* run_resume_watcher, on Linux.                                           *)

\* Mutant: the published stream is not shut down.
WatcherLetsGo ==
  /\ os = "linux" /\ Awake /\ watching /\ signals > 0
  /\ signals' = signals - 1
  /\ missed' = (missed \/ ~pub)
  /\ UNCHANGED <<os, session, file, watching, power, faults>>

\* One "boolean false" line: the published stream is shut down.
Watcher ==
  /\ os = "linux" /\ Awake /\ watching /\ signals > 0
  /\ signals' = signals - 1
  /\ conn' = IF pub /\ conn # "none" THEN "broken" ELSE conn
  /\ missed' = (missed \/ ~pub)
  /\ UNCHANGED <<os, pc, pub, acked, idle, file, watching, power, faults>>

\* dbus-monitor cannot be started or goes away: the thread is over.
WatcherExits ==
  /\ os = "linux" /\ Awake /\ watching /\ Fault
  /\ watching' = FALSE
  /\ signals' = 0
  /\ missed' = (missed \/ signals > 0)
  /\ UNCHANGED <<os, session, file, power>>

-----------------------------------------------------------------------------
(* The world around.                                                       *)

PeerCloses ==
  /\ conn \in {"live", "foreign", "silent", "stale"} /\ Fault
  /\ conn' = "broken"
  /\ UNCHANGED <<os, pc, pub, acked, idle, file, watch, power>>

PeerVanishes ==
  /\ conn = "live" /\ Fault
  /\ conn' = "silent"
  /\ UNCHANGED <<os, pc, pub, acked, idle, file, watch, power>>

\* A connection may survive a short sleep.
Suspend ==
  /\ Awake /\ Fault
  /\ power' = "asleep"
  /\ conn' \in IF conn = "live" THEN {"live", "stale"} ELSE {conn}
  /\ UNCHANGED <<os, pc, pub, acked, idle, file, watch>>

\* PrepareForSleep(false): a line of dbus-monitor, if that runs.
Resume ==
  /\ os = "linux" /\ ~Awake
  /\ power' = "awake"
  /\ signals' = IF watching THEN signals + 1 ELSE signals
  /\ missed' = (missed \/ ~watching)
  /\ UNCHANGED <<os, session, file, watching, faults>>

\* A panic of the main thread (Linux) or the menu's Quit and Restart (macOS)
\* end the process ...
Crash ==
  /\ Awake /\ pc # "dead" /\ Fault
  /\ pc' = "dead" /\ conn' = "none" /\ pub' = FALSE
  /\ watching' = FALSE /\ signals' = 0
  /\ UNCHANGED <<os, acked, idle, file, power, missed>>

\* ... and systemd or launchd starts it again.
Restart ==
  /\ Awake /\ pc = "dead"
  /\ pc' = "boot"
  /\ acked' = FALSE /\ idle' = 0 /\ missed' = FALSE
  /\ UNCHANGED <<os, conn, pub, file, signals, watching, power, faults>>

-----------------------------------------------------------------------------
(* What both daemons do in their main loops, and what happens to both.     *)

Connecting ==
  \/ NotConfigured
  \/ BeginConnect \/ ConnectOk \/ ConnectForeign \/ ConnectFail
  \/ Publish \/ PublishFails \/ Unpublish \/ Report \/ Retry

Receiving ==
  \/ Opened \/ (\E m \in Matches : RecvAck(m)) \/ RecvOther \/ RecvInvalid
  \/ ReadFails \/ Tick
  \/ (\E m \in Matches : ReverseRecv(m))

World == PeerCloses \/ PeerVanishes \/ Suspend \/ Crash \/ Restart

\* The resume watcher of Linux, and what it waits for.
ResumeWatcher == Watcher \/ WatcherExits \/ Resume

-----------------------------------------------------------------------------
TypeOK ==
  /\ os \in {"linux", "macos"}
  /\ pc \in Places /\ conn \in Conns /\ status \in Shown /\ told \in Shown
  /\ pub \in BOOLEAN /\ acked \in BOOLEAN /\ watching \in BOOLEAN
  /\ missed \in BOOLEAN
  /\ idle \in 0 .. TimeoutTicks
  /\ signals \in Nat
  /\ power \in {"awake", "asleep"}
  /\ faults \in 0 .. MaxFaults

\* What the resume watcher finds in current_stream belongs to the connection
\* the main thread is using, or to the one it has just lost: never to an
\* earlier one (daemon.rs:889-893, main.rs:351-359).
PublishedIsCurrent == pub => pc \in {"opening", "session", "ended"}

\* The outbound connection says "connected" only in a session whose challenge
\* matched, on the way from it to the next attempt, and while a process that
\* died in one has not been replaced by one that tries again (daemon.rs:897,
\* 1051; main.rs:355, 469).
ConnectedMeansProven ==
  told = "connected" =>
    \/ pc = "session" /\ acked
    \/ pc \in {"ended", "failed", "dead", "boot"}

\* Once the watcher has handled a resume, a connection the machine slept under
\* is left to SOCKET_TIMEOUT only if the resume could not touch it: the
\* watcher was gone or did not notice, or the stream was not yet published
\* (daemon.rs:959-967, main.rs:381-388).
StaleOnlyIfMissed ==
  conn = "stale" /\ Awake /\ signals = 0 /\ HasConn => missed

\* The same as ConnectedMeansProven of the file itself: the reverse side "only
\* needs to complete the protocol" (main.rs:121), so nobody is shown a
\* connection that carries no input.
ShownMeansProven ==
  status = "connected" =>
    \/ pc = "session" /\ acked
    \/ pc \in {"ended", "failed", "dead", "boot"}

\* When faults stop, the daemon is connected again and again: it outlives
\* silent peers, sleeps, crashes and its own idle timeouts (daemon.rs:33-57).
KeepsReconnecting == []<>(pc = "session" /\ conn = "live" /\ told = "connected")

\* What the outbound connection writes to status.json keeps its promise.
Promise == INSTANCE LinkStatus WITH up <- pc = "session" /\ acked, shown <- told
StatusPromise == Promise!LSpec

=============================================================================
