------------------------------ MODULE FileServe ------------------------------
(***************************************************************************)
(* Files and big images copied here, on their way to Windows: the          *)
(* clipboard watcher writes an image to the one file outbound-image.png    *)
(* and queues an event, the session makes the last event pending_outbound  *)
(* and announces it, and a thread of run_file_server_listener serves what  *)
(* is pending to each peer that connects (daemon.rs).  The macOS daemon    *)
(* does the same with images too big to be shrunk, and leaves files alone  *)
(* (clipboard.rs).                                                         *)
(*                                                                         *)
(* Copies are numbered in the order of their detection.  A copied file     *)
(* keeps its content, an image's file has that of the last image written   *)
(* to it.                                                                  *)
(***************************************************************************)
EXTENDS Files, Naturals, Sequences, SequencesExt

CONSTANT Server  (* threads of the file server: a bound, the code spawns one per peer *)

ASSUME EventAssumption == Nothing \notin [kind : {"file", "image", "text"}, copy : Nat]

VARIABLES
  made,     (* copies detected so far                                     *)
  writing,  (* the image the watcher is writing to its file, 0 if none    *)
  image,    (* outbound-image.png: a copy, Torn, or 0 if absent           *)
  queue,    (* the channel from the watcher to the session                *)
  pending,  (* pending_outbound                                           *)
  beat,     (* the event being announced: pending, its beat not yet sent  *)
  told,     (* the copy of the last beat sent to Windows, 0 if none       *)
  serve     (* the server threads                                         *)

outbound == <<made, writing, image, queue, pending, beat, told>>
svars    == <<outbound, serve>>

Idle == [pc |-> "idle", since |-> 0, item |-> Nothing, data |-> 0]

SInit ==
  /\ made = 0 /\ writing = 0 /\ image = 0
  /\ queue = <<>> /\ pending = Nothing /\ beat = Nothing /\ told = 0
  /\ serve = [s \in Server |-> Idle]

-----------------------------------------------------------------------------
(* run_clipboard_watcher *)

\* What the watcher does not read: files, on macOS.
Skipped(kind) == os = "macos" /\ kind = "file"

\* A file, or a text, which is sent at once and has nothing to be served.
Detect(kind) ==
  /\ writing = 0 /\ ~Skipped(kind)
  /\ made' = made + 1
  /\ queue' = Append(queue, [kind |-> kind, copy |-> made + 1])
  /\ UNCHANGED <<writing, image, pending, beat, told, serve>>

\* Mutant: the event is sent before the file is written.
DetectImageFirst ==
  /\ writing = 0
  /\ made' = made + 1 /\ writing' = made + 1
  /\ image' = Torn
  /\ queue' = Append(queue, [kind |-> "image", copy |-> made + 1])
  /\ UNCHANGED <<pending, beat, told, serve>>

DetectImage ==
  /\ writing = 0
  /\ made' = made + 1 /\ writing' = made + 1
  /\ image' = Torn
  /\ UNCHANGED <<queue, pending, beat, told, serve>>

\* The event is sent when the file is written, and not if that fails.
ImageWritten ==
  /\ writing # 0 /\ writing' = 0
  /\ \/ image' = writing /\ queue' = Append(queue, [kind |-> "image", copy |-> writing])
     \/ UNCHANGED <<image, queue>>
  /\ UNCHANGED <<made, pending, beat, told, serve>>

-----------------------------------------------------------------------------
(* run_session *)

\* Mutant: what is pending stays pending.
DrainOnce ==
  /\ beat = Nothing /\ queue # <<>>
  /\ queue' = <<>>
  /\ IF Last(queue).kind = "text"
       THEN UNCHANGED <<pending, beat>>
       ELSE /\ pending' = IF pending = Nothing THEN Last(queue) ELSE pending
            /\ beat' = Last(queue)
  /\ UNCHANGED <<made, writing, image, told, serve>>

\* The last event of the queue counts; a file or an image becomes pending.
Drain ==
  /\ beat = Nothing /\ queue # <<>>
  /\ queue' = <<>>
  /\ IF Last(queue).kind = "text" THEN UNCHANGED <<pending, beat>>
                                  ELSE pending' = Last(queue) /\ beat' = Last(queue)
  /\ UNCHANGED <<made, writing, image, told, serve>>

\* announce_big_path: the beat is sent, or the write fails and the session
\* ends; pending_outbound outlives it.
Announce ==
  /\ beat # Nothing /\ beat' = Nothing
  /\ told' \in {told, beat.copy}
  /\ UNCHANGED <<made, writing, image, queue, pending, serve>>

-----------------------------------------------------------------------------
(* run_file_server_listener, serve_file_to_peer *)

\* The next step of a server thread.
Serves(s, from, to) ==
  /\ serve[s].pc = from
  /\ serve' = [serve EXCEPT ![s] = to]
  /\ UNCHANGED outbound

Accept(s) ==
  Serves(s, "idle", [pc |-> "handshake", since |-> told, item |-> Nothing, data |-> 0])

\* The stream is primed, the handshakes are exchanged; then the thread looks
\* what is pending.
PeerAnswers(s) == Serves(s, "handshake", [serve[s] EXCEPT !.pc = "pick"])

\* Nothing pending: an empty header, and the thread ends.
Pick(s) ==
  Serves(s, "pick", IF pending = Nothing
                      THEN Idle ELSE [serve[s] EXCEPT !.pc = "read", !.item = pending])

\* The whole file is read before its header is sent; a file that cannot be
\* read ends the thread.
Read(s) ==
  /\ serve[s].pc = "read"
  /\ LET data == IF serve[s].item.kind = "file" THEN serve[s].item.copy ELSE image
     IN  serve' \in {[serve EXCEPT ![s] = Idle],
                     [serve EXCEPT ![s] = [@ EXCEPT !.pc = "send", !.data = data]]}
  /\ UNCHANGED outbound

\* Header and body are written: the thread ends.
PeerTakes(s) == Serves(s, "send", Idle)

\* A read or a write fails, or SOCKET_TIMEOUT ends it.
ServeFails(s) ==
  /\ serve[s].pc \in {"handshake", "send"}
  /\ Serves(s, serve[s].pc, Idle)

\* Mutant: without timeouts, only what the peer does ends a read.
ServeStepNoTimeout(s) == Pick(s) \/ Read(s)

\* What a server thread does in the end, whatever the peer does.
ServeStep(s) == Pick(s) \/ Read(s) \/ ServeFails(s)

-----------------------------------------------------------------------------
Kinds == {"file", "image", "text"}

\* What the eight variables hold.
STypeOK ==
  /\ {made, writing, told} \subseteq Nat /\ image \in Nat \cup {Torn}
  /\ \A e \in Range(queue) : e.kind \in Kinds /\ e.copy \in 1 .. made
  /\ \A e \in {pending, beat} :
       e # Nothing => e.kind \in Kinds \ {"text"} /\ e.copy \in 1 .. made
  /\ \A s \in Server : serve[s].pc \in {"idle", "handshake", "pick", "read", "send"}

\* A peer that comes because of a beat is not served anything older than what
\* the beat announced: pending is set before the beat is sent, read after the
\* peer has come, and an image's file only moves on (daemon.rs:577, :832).
ServedNotOlder ==
  \A s \in Server : serve[s].pc = "send" /\ serve[s].data # Torn =>
                      serve[s].data >= serve[s].since

\* An image is served half written only when the user has copied another one
\* since it was made pending: its own file was whole by then (daemon.rs:424).
TornIsSuperseded ==
  \A s \in Server : serve[s].pc = "send" /\ serve[s].data = Torn =>
                      serve[s].item.kind = "image" /\ serve[s].item.copy < made

=============================================================================
