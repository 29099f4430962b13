------------------------------- MODULE FilePull -------------------------------
(***************************************************************************)
(* Files and big images copied on Windows: every beat starts a thread that *)
(* runs pull_file_from_windows (pull_from_windows in clipboard.rs of       *)
(* macOS), fetches what Windows offers by then, and applies it to the      *)
(* clipboard.  Threads of several beats run at the same time and share the *)
(* directory, the clipboard and the record of what was applied last.  They *)
(* share the last two with the thread of a session, which applies small    *)
(* images itself.                                                          *)
(***************************************************************************)
EXTENDS Files, Naturals, FiniteSets

CONSTANTS
  Puller,  (* threads that apply something: a bound, the code spawns one *)
           (* per beat, and a session's is one for each small image       *)
  Name     (* file names                                             *)

VARIABLES
  offer,    (* Windows' last copy, which it serves unless it is small      *)
  beats,    (* beats sent and not yet received                             *)
  pull,     (* what the threads are at                                     *)
  disk,     (* the content of each name below clipboard_files_dir          *)
  shown,    (* the clipboard here: what was applied last                   *)
  applied,  (* last_applied_file_uri and last_applied_image, newest values *)
  crossed   (* two have been between wl-copy and the record at once        *)

pvars == <<offer, beats, pull, disk, shown, applied, crossed>>

\* The sizes a header may give: 1 .. MAX_CLIPBOARD_FILE_SIZE, or anything else.
Size == {"ok", "refused"}

\* A small image comes over the session.
Item == [kind : {"file"}, name : Name, size : Size, copy : Nat]
          \cup [kind : {"image"}, name : {"image"}, size : {"ok", "small"}, copy : Nat]

ASSUME ItemAssumption == Nothing \notin Item

\* By what the watcher knows an item again: a file's uri, an image's bytes.
Mark(item) == IF item.kind = "file" THEN item.name ELSE item.copy

Resting == [pc |-> "idle", item |-> Nothing, mixed |-> FALSE]

PInit ==
  /\ offer = Nothing /\ beats = 0
  /\ pull = [p \in Puller |-> Resting]
  /\ disk = [n \in Name |-> 0]
  /\ shown = Nothing
  /\ applied = [file |-> Nothing, image |-> 0]
  /\ crossed = FALSE

Copied == IF offer = Nothing THEN 0 ELSE offer.copy

\* Windows: something big is copied; it may be empty, or above the limit.
WindowsCopy(kind, name, size) ==
  /\ offer' = [kind |-> kind, name |-> name, size |-> size, copy |-> Copied + 1]
  /\ beats' = beats + 1
  /\ UNCHANGED <<pull, disk, shown, applied, crossed>>

\* Windows: a small image is copied, and is all received (ClipboardDataEnd).
\* The session applies one at a time.
ImageReceived(p) ==
  /\ pull[p].pc = "idle"
  /\ \A q \in Puller : pull[q].item # Nothing => pull[q].item.size # "small"
  /\ offer' = [kind |-> "image", name |-> "image", size |-> "small", copy |-> Copied + 1]
  /\ pull' = [pull EXCEPT ![p] = [@ EXCEPT !.pc = "paste", !.item = offer']]
  /\ UNCHANGED <<beats, disk, shown, applied, crossed>>

\* The connection ends with its beats unread.
BeatsLost ==
  /\ beats > 0 /\ beats' = 0
  /\ UNCHANGED <<offer, pull, disk, shown, applied, crossed>>

-----------------------------------------------------------------------------
(* pull_file_from_windows, by one thread p *)

Goes(p, from, to) ==
  /\ pull[p].pc = from
  /\ pull' = [pull EXCEPT ![p].pc = to]

Ends(p) == pull' = [pull EXCEPT ![p] = Resting]

\* run_session receives a beat and spawns the thread.
Beat(p) ==
  /\ beats > 0 /\ beats' = beats - 1
  /\ Goes(p, "idle", "header")
  /\ UNCHANGED <<offer, disk, shown, applied, crossed>>

\* Mutant: a header is believed whatever size it gives.
HeaderUnchecked(p) ==
  /\ pull[p].pc = "header" /\ offer # Nothing
  /\ pull' = [pull EXCEPT ![p] = [@ EXCEPT !.pc = "body", !.item = offer]]
  /\ UNCHANGED <<offer, beats, disk, shown, applied, crossed>>

\* Connected and primed, handshakes exchanged; the header is that of what
\* Windows has by now.  An empty or too big one, or none, ends the thread.
Header(p) ==
  /\ pull[p].pc = "header" /\ offer # Nothing
  /\ IF offer.size = "ok"
       THEN pull' = [pull EXCEPT ![p] = [@ EXCEPT !.pc = "body", !.item = offer]]
       ELSE Ends(p)
  /\ UNCHANGED <<offer, beats, disk, shown, applied, crossed>>

\* read_padded_body has all of it.
Body(p) ==
  /\ Goes(p, "body", IF pull[p].item.kind = "image" THEN "paste" ELSE "create")
  /\ UNCHANGED <<offer, beats, disk, shown, applied, crossed>>

\* connect, a read or a write fails; SOCKET_TIMEOUT ends a read, and the
\* system a connect.
PullFails(p) ==
  /\ pull[p].pc \in {"header", "body"}
  /\ Ends(p)
  /\ UNCHANGED <<offer, beats, disk, shown, applied, crossed>>

WritingAs(n) == {p \in Puller : pull[p].item # Nothing /\ pull[p].item.name = n
                                /\ pull[p].pc \in {"write", "paste"}}

\* Mutant: the clipboard is told before the file is written.
CreateAfterPaste(p) ==
  /\ pull[p].pc = "create"
  /\ pull' = [pull EXCEPT ![p].pc = "paste"]
  /\ disk' = [disk EXCEPT ![pull[p].item.name] = Torn]
  /\ UNCHANGED <<offer, beats, shown, applied, crossed>>

\* std::fs::write truncates the file, also under another thread's hands.
Create(p) ==
  LET n == pull[p].item.name
  IN  /\ pull[p].pc = "create"
      /\ pull' = [q \in Puller |->
                    IF q = p THEN [pull[q] EXCEPT !.pc = "write", !.mixed = WritingAs(n) # {}]
                    ELSE IF q \in WritingAs(n) THEN [pull[q] EXCEPT !.mixed = TRUE]
                    ELSE pull[q]]
      /\ disk' = [disk EXCEPT ![n] = Torn]
      /\ UNCHANGED <<offer, beats, shown, applied, crossed>>

\* ... and it is written: whole, if no other thread has had it open.
Write(p) ==
  /\ Goes(p, "write", "paste")
  /\ \E data \in {pull[p].item.copy} \cup IF pull[p].mixed THEN {Torn} ELSE {} :
       disk' = [disk EXCEPT ![pull[p].item.name] = data]
  /\ UNCHANGED <<offer, beats, shown, applied, crossed>>

\* The directory or the file cannot be written, wl-copy cannot be started.
DiskFails(p) ==
  /\ pull[p].pc \in {"create", "write", "paste"}
  /\ Ends(p)
  /\ UNCHANGED <<offer, beats, disk, shown, applied, crossed>>

\* What is applied is recorded, but for a file on macOS: nobody reads it back.
Recorded(item) == ~(os = "macos" /\ item.kind = "file")

\* The clipboard has taken the image, or the uri of the file.
Paste(p) ==
  /\ pull[p].pc = "paste"
  /\ IF Recorded(pull[p].item) THEN Goes(p, "paste", "record") ELSE Ends(p)
  /\ shown' = pull[p].item
  /\ crossed' = (crossed \/ \E q \in Puller : pull[q].pc = "record")
  /\ UNCHANGED <<offer, beats, disk, applied>>

\* Mutant: a file is not recorded.
RecordImage(p) ==
  /\ pull[p].pc = "record"
  /\ Ends(p)
  /\ applied' = [applied EXCEPT !.image = IF pull[p].item.kind = "image" THEN Mark(pull[p].item) ELSE @]
  /\ UNCHANGED <<offer, beats, disk, shown, crossed>>

\* last_applied is set: the thread ends.
Record(p) ==
  /\ pull[p].pc = "record"
  /\ Ends(p)
  /\ applied' = [applied EXCEPT ![pull[p].item.kind] = Mark(pull[p].item)]
  /\ UNCHANGED <<offer, beats, disk, shown, crossed>>

\* What a thread does in the end, whatever Windows does.
PullStep(p) ==
  PullFails(p) \/ Create(p) \/ Write(p) \/ DiskFails(p) \/ Paste(p) \/ Record(p)

-----------------------------------------------------------------------------
\* What the seven variables hold.
PTypeOK ==
  /\ offer \in Item \cup {Nothing}
  /\ beats \in Nat
  /\ \A p \in Puller :
       /\ pull[p].pc \in {"idle", "header", "body", "create", "write", "paste", "record"}
       /\ pull[p].item # Nothing => pull[p].item \in Item /\ pull[p].item.size # "refused"
  /\ disk \in [Name -> Nat \cup {Torn}]
  /\ shown # Nothing => shown \in Item
  /\ applied.file \in Name \cup {Nothing} /\ applied.image \in Nat

\* "fully flushed before the clipboard is touched" (daemon.rs:807): a pull
\* goes to the clipboard with the file whole and its own, unless another has
\* opened the same name since.
FlushedBeforePaste ==
  \A p \in Puller :
    pull[p].pc = "paste" /\ pull[p].item.kind = "file" /\ ~pull[p].mixed =>
      disk[pull[p].item.name] = pull[p].item.copy

\* What the clipboard shows is what the watcher will take for an echo.
Armed == shown # Nothing /\ Recorded(shown) => applied[shown.kind] = Mark(shown)

\* Outside the few instructions between wl-copy and the record, the echo guard
\* is armed for what the clipboard shows, unless two threads have crossed there.
ArmedUnlessCrossed ==
  Armed \/ crossed \/ \E p \in Puller : pull[p].pc = "record"

\* "each side tracks what it just applied from its peer and skips re-sending
\* an exact echo of it" (README.md:246-247), once no pull is under way.
ArmedAtRest == (\A p \in Puller : pull[p].pc = "idle") => Armed

=============================================================================
