----------------------------- MODULE FileTransfer -----------------------------
(***************************************************************************)
(* Both directions of the file transfer of either daemon, over one         *)
(* clipboard: the watcher that feeds FileServe also sees what FilePull has *)
(* put there, and sends back what it does not take for an echo.            *)
(***************************************************************************)
EXTENDS FileServe, FilePull

CONSTANTS
  Platforms,  (* the daemons considered                            *)
  Splits      (* how many copies a user makes on each side: a bound *)

ASSUME PlatformsAssumption == Platforms \subseteq {"linux", "macos"}
ASSUME SplitsAssumption == Splits \subseteq [{"here", "windows"} -> Nat]

VARIABLES
  left,  (* copies the user has yet to make, by side            *)
  seen   (* last_seen_file and last_seen_image, of what was pulled *)

vars == <<os, svars, pvars, left, seen>>

Init ==
  /\ os \in Platforms
  /\ SInit /\ PInit
  /\ left \in Splits
  /\ seen = [file |-> Nothing, image |-> 0]

\* A copy on this side, found by the watcher, if it looks for such a thing.
CopyHere ==
  /\ left.here > 0 /\ left' = [left EXCEPT !.here = @ - 1]
  /\ \/ Detect("file") \/ Detect("text") \/ DetectImage
     \/ Skipped("file") /\ UNCHANGED svars
  /\ shown' = Nothing
  /\ UNCHANGED <<os, offer, beats, pull, disk, applied, crossed, seen>>

CopyOnWindows ==
  /\ left.windows > 0 /\ left' = [left EXCEPT !.windows = @ - 1]
  /\ \/ \E n \in Name, size \in Size : WindowsCopy("file", n, size)
     \/ WindowsCopy("image", "image", "ok")
     \/ \E p \in Puller : ImageReceived(p)
  /\ UNCHANGED <<os, svars, seen>>

\* The watcher finds what a pull has put on the clipboard.
Poll ==
  /\ writing = 0
  /\ shown # Nothing /\ ~Skipped(shown.kind) /\ Mark(shown) # seen[shown.kind]
  /\ seen' = [seen EXCEPT ![shown.kind] = Mark(shown)]
  /\ IF applied[shown.kind] = Mark(shown) THEN UNCHANGED svars
     ELSE IF shown.kind = "file" THEN Detect("file") ELSE DetectImage
  /\ UNCHANGED <<os, pvars, left>>

Serving == ImageWritten \/ Drain \/ Announce
             \/ \E s \in Server : Accept(s) \/ PeerAnswers(s) \/ PeerTakes(s) \/ ServeStep(s)

Pulling == BeatsLost \/ \E p \in Puller : Beat(p) \/ Header(p) \/ Body(p) \/ PullStep(p)

Next ==
  \/ CopyHere \/ CopyOnWindows \/ Poll
  \/ Serving /\ UNCHANGED <<os, pvars, left, seen>>
  \/ Pulling /\ UNCHANGED <<os, svars, left, seen>>

\* A thread of either kind goes on as far as it can without its peer.
Fairness ==
  /\ \A s \in Server : WF_vars(ServeStep(s) /\ UNCHANGED <<os, pvars, left, seen>>)
  /\ \A p \in Puller : WF_vars(PullStep(p) /\ UNCHANGED <<os, svars, left, seen>>)

Spec == Init /\ [][Next]_vars /\ Fairness

-----------------------------------------------------------------------------
\* Types of all variables of both directions.
TypeOK ==
  /\ os \in Platforms /\ STypeOK /\ PTypeOK
  /\ left \in [{"here", "windows"} -> Nat]
  /\ seen.file \in Name \cup {Nothing} /\ seen.image \in Nat

\* No thread outlives a silent or half-open peer: set_socket_timeouts is
\* called before the first read of a pull and of an accepted peer
\* (daemon.rs:751, :872).
ThreadsEnd ==
  /\ \A s \in Server : serve[s].pc = "handshake" ~> serve[s].pc = "idle"
  /\ \A p \in Puller : pull[p].pc = "header" ~> pull[p].pc = "idle"

=============================================================================
