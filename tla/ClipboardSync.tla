---------------------------- MODULE ClipboardSync ----------------------------
(***************************************************************************)
(* Text, image and file clipboard sync of both daemons (daemon.rs, and     *)
(* main.rs with clipboard.rs): the watcher thread polls the local          *)
(* clipboard and queues what is new; the client's receive loop drains the  *)
(* queue when a package wakes it, and applies what Windows copied.  They   *)
(* share only the queue, last_applied and the clipboard itself.  On Linux  *)
(* the session of the connection that Windows opens applies too; on macOS  *)
(* it has no clipboard, and the watcher leaves copied files alone.         *)
(*                                                                         *)
(* A big image or a file is announced, not sent: Windows is "told" of it.  *)
(* What Windows then pulls is not part of this module, nor is what is      *)
(* pulled from Windows, which crosses a session's apply in FilePull.       *)
(***************************************************************************)
EXTENDS Integers, Sequences

CONSTANTS
  Platforms,      (* the daemons considered                               *)
  Value,          (* what can be copied                                   *)
  LocalContents,  (* local copies: for each kind the value offered        *)
  WindowsItems,   (* <<kind, value>> that Windows can copy                *)
  MaxCopies,      (* bound on copies, of both sides together              *)
  MaxOnWindows,   (* ... and of Windows alone                             *)
  MaxFaults       (* bound on failures, of the connection or of an image  *)

Kind    == {"file", "image", "text"}
Nothing == "nothing"
Content == [Kind -> Value \cup {Nothing}]

ASSUME ClipboardAssumption ==
  /\ Platforms \subseteq {"linux", "macos"}
  /\ Nothing \notin Value
  /\ LocalContents \subseteq Content
  /\ WindowsItems \subseteq {"image", "text"} \X Value
  /\ {MaxCopies, MaxOnWindows, MaxFaults} \subseteq Nat

Side == {"local", "windows"}

\* The connection we open, and the one Windows opens (run_session's role).
Role == {"client", "server"}

VARIABLES
  os,           (* which of the two daemons this is                       *)
  clip,         (* the local clipboard: content, which copy it is, and    *)
                (* whether the watcher can tell it from what it knew      *)
  told,         (* the copy that Windows last heard of or made itself     *)
  last_seen,    (* the watcher's last_seen_file, _image and _text         *)
  last_applied, (* ClipboardShared.last_applied_file_uri, _image, _text   *)
  look,         (* the watcher: what it looks at, what it has read        *)
  chan,         (* the mpsc channel                                       *)
  session,      (* the client's receive loop                              *)
  inhand,       (* by role: the item put on the clipboard, not recorded   *)
  inbound,      (* by role: clipboard items on their way from Windows     *)
  outbound,     (* ... and on their way to Windows                        *)
  crossed,      (* what is shown was put there while the other role had   *)
                (* put one of its kind there and not recorded it          *)
  lost,         (* the local copies that a dying connection took along or *)
                (* the watcher could not encode or write                  *)
  copies,       (* copies so far, by side                                 *)
  faults        (* failures so far                                        *)

vars == <<os, clip, told, last_seen, last_applied, look, chan, session, inhand,
          inbound, outbound, crossed, lost, copies, faults>>
watcher == <<os, last_seen, look>>
link    == <<session, inhand, inbound, outbound, crossed>>

\* An item names the side it was copied on, and here the copy: the n-th one.
Item(k, v, side, n) == [kind |-> k, val |-> v, side |-> side, n |-> n]
NoItem == Item("text", Nothing, "local", 0)
Empty  == [k \in Kind |-> Nothing]
Only(k, v) == [Empty EXCEPT ![k] = v]

\* The kind read next ("file" after the sleep), or "check": last_applied is next.
Looking(at, item) == [at |-> at, item |-> item]

Init ==
  /\ os \in Platforms
  /\ clip = [what |-> Empty, side |-> "local", n |-> 0, fresh |-> FALSE]
  /\ told = NoItem
  /\ last_seen = clip.what
  /\ last_applied = Empty
  /\ look = Looking("file", NoItem)
  /\ chan = <<>>
  /\ session = "down" /\ outbound = <<>>
  /\ inhand = [r \in Role |-> NoItem] /\ inbound = [r \in Role |-> <<>>]
  /\ crossed = FALSE
  /\ lost = {} /\ copies = [side \in Side |-> 0] /\ faults = 0

-----------------------------------------------------------------------------
(* The users.                                                              *)

\* The kind of what is on the clipboard that Windows should hear of.
FirstKind(what) ==
  IF what["file"] # Nothing THEN "file"
  ELSE IF what["image"] # Nothing THEN "image" ELSE "text"

\* The watcher has nothing to mistake c for: it neither saw that value last
\* nor was it applied, nor is it being applied.
Fresh(c) ==
  LET k == FirstKind(c)
  IN  /\ c[k] \notin {Nothing, last_seen[k], last_applied[k]}
      /\ \A r \in Role : <<inhand[r].kind, inhand[r].val>> # <<k, c[k]>>

Copies == copies["local"] + copies["windows"]

\* Somebody copies.
Copy(side) ==
  /\ Copies < MaxCopies
  /\ copies' = [copies EXCEPT ![side] = @ + 1]

LocalCopy(c) ==
  /\ Copy("local")
  /\ clip' = [what |-> c, side |-> "local", n |-> Copies + 1, fresh |-> Fresh(c)]
  /\ UNCHANGED <<told, last_applied, chan, lost, faults, watcher, link>>

\* The sessions that handle what Windows copies.
Handling == {r \in Role : IF r = "client" THEN session # "down" ELSE os = "linux"}

\* Windows sends what is copied there over a connection of its choice, if
\* there is one.
WindowsCopy(k, v) ==
  /\ copies["windows"] < MaxOnWindows /\ Copy("windows")
  /\ told' = Item(k, v, "windows", 0)
  /\ IF Handling = {} THEN UNCHANGED inbound
     ELSE \E r \in Handling : inbound' = [inbound EXCEPT ![r] = Append(@, told')]
  /\ UNCHANGED <<clip, last_applied, chan, session, inhand, outbound, crossed, lost, faults, watcher>>

-----------------------------------------------------------------------------
(* run_clipboard_watcher.                                                  *)

After(k) == CASE k = "file" -> "image" [] k = "image" -> "text" [] OTHER -> "file"

\* Mutant: an empty answer of wl-paste is taken for a new value.
PollSendsNothing(k) ==
  /\ look.at = k
  /\ last_seen' = [last_seen EXCEPT ![k] = clip.what[k]]
  /\ look' = IF clip.what[k] = last_seen[k] THEN Looking(After(k), NoItem)
             ELSE Looking("check", Item(k, clip.what[k], clip.side, clip.n))
  /\ UNCHANGED <<os, clip, told, last_applied, chan, lost, copies, faults, link>>

\* Files on the clipboard are not sent from macOS.
Skipped(k) == os = "macos" /\ k = "file"

\* The clipboard is read for one kind: if it is there, the kinds after it are
\* not read in this tick; what differs from last_seen is remembered and
\* checked.
Poll(k) ==
  LET v == clip.what[k]
  IN  /\ look.at = k
      /\ \/ /\ v = Nothing
            /\ look' = Looking(After(k), NoItem)
            /\ UNCHANGED last_seen
         \/ /\ v # Nothing /\ (Skipped(k) \/ v = last_seen[k])
            /\ look' = Looking("file", NoItem)
            /\ UNCHANGED last_seen
         \/ /\ v # Nothing /\ ~Skipped(k) /\ v # last_seen[k]
            /\ look' = Looking("check", Item(k, v, clip.side, clip.n))
            /\ last_seen' = [last_seen EXCEPT ![k] = v]
      /\ UNCHANGED <<os, clip, told, last_applied, chan, lost, copies, faults, link>>

\* Mutant: the newest change goes to the front of the queue.
CheckPushFront ==
  /\ look.at = "check"
  /\ chan' = IF last_applied[look.item.kind] = look.item.val THEN chan
             ELSE <<look.item>> \o chan
  /\ look' = Looking("file", NoItem)
  /\ UNCHANGED <<os, clip, told, last_seen, last_applied, lost, copies, faults, link>>

\* Something fails.
Fault == faults < MaxFaults /\ faults' = faults + 1

\* The local copies that items of s are of.
CopiesIn(s) == {s[i].n : i \in {i \in DOMAIN s : s[i].side = "local"}}

\* The echo check, and the send into the channel: not of an image that cannot
\* be encoded or, too big to be sent, not be written to its file.
Check ==
  /\ look.at = "check"
  /\ IF last_applied[look.item.kind] = look.item.val THEN UNCHANGED <<chan, lost, faults>>
     ELSE \/ chan' = Append(chan, look.item) /\ UNCHANGED <<lost, faults>>
          \/ /\ look.item.kind = "image" /\ Fault
             /\ lost' = lost \cup CopiesIn(<<look.item>>) /\ UNCHANGED chan
  /\ look' = Looking("file", NoItem)
  /\ UNCHANGED <<os, clip, told, last_seen, last_applied, copies, link>>

-----------------------------------------------------------------------------
(* run_session.                                                            *)

\* Mutant: a new connection begins with an empty queue.
ConnectAfresh ==
  /\ session = "down"
  /\ session' = "top"
  /\ chan' = <<>>
  /\ UNCHANGED <<clip, told, last_applied, inhand, inbound, outbound, crossed, lost, copies, faults, watcher>>

Connect ==
  /\ session = "down"
  /\ session' = "top"
  /\ UNCHANGED <<clip, told, last_applied, chan, inhand, inbound, outbound, crossed, lost, copies, faults, watcher>>

\* Mutant: of several queued changes the first is sent.
DrainFirst ==
  /\ session = "top"
  /\ outbound' = IF chan = <<>> THEN outbound ELSE Append(outbound, chan[1])
  /\ chan' = <<>>
  /\ session' = "read"
  /\ UNCHANGED <<clip, told, last_applied, inhand, inbound, crossed, lost, copies, faults, watcher>>

\* The queue is emptied and its last change written; then the loop blocks.
Drain ==
  /\ session = "top"
  /\ outbound' = IF chan = <<>> THEN outbound ELSE Append(outbound, chan[Len(chan)])
  /\ chan' = <<>>
  /\ session' = "read"
  /\ UNCHANGED <<clip, told, last_applied, inhand, inbound, crossed, lost, copies, faults, watcher>>

\* Our connection is gone, and with it what was written to it, and `taken`.
Lost(taken) ==
  /\ session' = "down" /\ inbound' = [inbound EXCEPT !["client"] = <<>>] /\ outbound' = <<>>
  /\ lost' = lost \cup CopiesIn(outbound \o taken)

\* The write fails: the queue is already empty.
WriteFails ==
  /\ session = "top" /\ chan # <<>>
  /\ Fault
  /\ chan' = <<>>
  /\ Lost(chan)
  /\ UNCHANGED <<clip, told, last_applied, inhand, crossed, copies, watcher>>

\* The loop waits for a package; inside an apply it does not.
Reading(r) == inhand[r] = NoItem /\ (r = "client" => session = "read")

ReadFails ==
  /\ Reading("client")
  /\ Fault
  /\ Lost(<<>>)
  /\ UNCHANGED <<clip, told, last_applied, chan, inhand, crossed, copies, watcher>>

\* What the loop does after it has handled a package.
Loops(r) == session' = IF r = "client" THEN "top" ELSE session

\* ClipboardDataEnd: what was received goes to the clipboard ...
Apply(r) ==
  /\ Reading(r) /\ inbound[r] # <<>>
  /\ LET i == Head(inbound[r])
     IN  /\ clip' = [what |-> Only(i.kind, i.val), side |-> "windows", n |-> i.n, fresh |-> FALSE]
         /\ inhand' = [inhand EXCEPT ![r] = i]
         /\ crossed' = \E o \in Role \ {r} : inhand[o].val # Nothing /\ inhand[o].kind = i.kind
  /\ inbound' = [inbound EXCEPT ![r] = Tail(@)]
  /\ UNCHANGED <<told, last_applied, chan, session, outbound, lost, copies, faults, watcher>>

\* ... or does not: it cannot be decoded, the clipboard refuses it, or Windows'
\* connection has ended.
NotApplied(r) ==
  /\ Reading(r) /\ inbound[r] # <<>>
  /\ inbound' = [inbound EXCEPT ![r] = Tail(@)]
  /\ Loops(r)
  /\ UNCHANGED <<clip, told, last_applied, chan, inhand, outbound, crossed, lost, copies, faults, watcher>>

\* Mutant: only text is remembered as applied.
RecordText(r) ==
  /\ inhand[r] # NoItem
  /\ last_applied' = IF inhand[r].kind # "text" THEN last_applied
                     ELSE [last_applied EXCEPT !["text"] = inhand[r].val]
  /\ inhand' = [inhand EXCEPT ![r] = NoItem]
  /\ Loops(r)
  /\ UNCHANGED <<clip, told, chan, inbound, outbound, crossed, lost, copies, faults, watcher>>

\* last_applied is set after the clipboard has it.
Record(r) ==
  /\ inhand[r] # NoItem
  /\ last_applied' = [last_applied EXCEPT ![inhand[r].kind] = inhand[r].val]
  /\ inhand' = [inhand EXCEPT ![r] = NoItem]
  /\ Loops(r)
  /\ UNCHANGED <<clip, told, chan, inbound, outbound, crossed, lost, copies, faults, watcher>>

\* Any other package wakes our loop.
RecvOther ==
  /\ Reading("client")
  /\ session' = "top"
  /\ UNCHANGED <<clip, told, last_applied, chan, inhand, inbound, outbound, crossed, lost, copies, faults, watcher>>

\* Windows receives what was written.
Deliver ==
  /\ outbound # <<>>
  /\ told' = Head(outbound)
  /\ outbound' = Tail(outbound)
  /\ UNCHANGED <<clip, last_applied, chan, session, inhand, inbound, crossed, lost, copies, faults, watcher>>

-----------------------------------------------------------------------------
Next ==
  \/ \E c \in LocalContents : LocalCopy(c)
  \/ \E i \in WindowsItems : WindowsCopy(i[1], i[2])
  \/ (\E k \in Kind : Poll(k)) \/ Check
  \/ Connect \/ Drain \/ WriteFails \/ ReadFails
  \/ \E r \in Role : Apply(r) \/ NotApplied(r) \/ Record(r)
  \/ RecvOther \/ Deliver

SafeSpec == Init /\ [][Next]_vars

\* Both threads are scheduled, the daemon reconnects, and Windows keeps
\* sending packages (Hi, Heartbeat) and reading ours.
Fairness ==
  /\ WF_vars(\E k \in Kind : Poll(k)) /\ WF_vars(Check)
  /\ WF_vars(Connect) /\ WF_vars(Drain) /\ WF_vars(RecvOther) /\ WF_vars(Deliver)
  /\ \A r \in Role : WF_vars(Apply(r) \/ NotApplied(r)) /\ WF_vars(Record(r))

Spec == SafeSpec /\ Fairness

-----------------------------------------------------------------------------
ItemType == [kind : Kind, val : Value, side : Side, n : 0 .. MaxCopies]

TypeOK ==
  /\ os \in Platforms /\ crossed \in BOOLEAN
  /\ clip \in [what : Content, side : Side,
              n : 0 .. MaxCopies, fresh : BOOLEAN]
  /\ told \in ItemType \cup {NoItem} /\ inhand \in [Role -> ItemType \cup {NoItem}]
  /\ last_seen \in Content /\ last_applied \in Content
  /\ look.at \in Kind \cup {"check"}
  /\ look.item \in ItemType \cup {NoItem}
  /\ look.at = "check" => look.item # NoItem
  /\ {chan, outbound} \subseteq Seq(ItemType) /\ inbound \in [Role -> Seq(ItemType)]
  /\ session \in {"down", "top", "read"}
  /\ lost \subseteq 0 .. MaxCopies /\ copies \in [Side -> 0 .. MaxCopies] /\ faults \in 0 .. MaxFaults

\* While the clipboard shows what Windows copied, the guard against its echo
\* is armed, except inside an apply, before the assignment (daemon.rs:165-167,
\* clipboard.rs:131-133), and when the two sessions crossed there.
EchoGuardArmed ==
  clip.side = "windows" /\ ~crossed /\ (\A r \in Role : inhand[r] = NoItem) =>
    \A k \in Kind : clip.what[k] # Nothing => last_applied[k] = clip.what[k]

\* What is on its way to Windows, oldest first.
OnTheWay == outbound \o chan \o (IF look.at = "check" THEN <<look.item>> ELSE <<>>)

\* Windows never hears of a local copy after a later one, whatever is
\* coalesced, lost or read in the middle of a change.
LocalOrder ==
  /\ \A i, j \in 1 .. Len(OnTheWay) :
       i < j /\ OnTheWay[i].side = "local" /\ OnTheWay[j].side = "local" =>
         OnTheWay[i].n <= OnTheWay[j].n
  /\ \A i \in 1 .. Len(OnTheWay) :
       told.side = "local" /\ OnTheWay[i].side = "local" => told.n <= OnTheWay[i].n

\* The copy made last, here, that the watcher could tell from what it knew,
\* and that no dying connection and no failed write took.  Files copied on a
\* Mac stay there.
FreshCopy ==
  /\ clip.side = "local" /\ clip.n = Copies /\ clip.fresh /\ clip.n \notin lost
  /\ ~Skipped(FirstKind(clip.what))

\* What Windows will have heard of last, if nothing more is read or lost.
LastHeard == IF OnTheWay = <<>> THEN told ELSE OnTheWay[Len(OnTheWay)]

\* Once the watcher has seen such a copy, it stays the last that Windows hears
\* of: neither the coalescing nor a copy read in two kinds nor a reconnect
\* drops it or puts another after it (daemon.rs:382-386, :557).
FreshCopyComesLast ==
  LET k == FirstKind(clip.what)
  IN  FreshCopy /\ last_seen[k] = clip.what[k] =>
        LastHeard = Item(k, clip.what[k], "local", clip.n)

Told ==
  /\ told.kind = FirstKind(clip.what)
  /\ told.val = clip.what[told.kind]

\* When the copying is over, such a copy is known at Windows: coalescing, a
\* read in the middle of a change and whatever Windows copied before do not
\* lose it (daemon.rs:382-386).
FreshCopyTold == <>[](FreshCopy => Told)

\* "copy here and it's sent to Windows" (README.md:239-240), new to the
\* watcher or not.
LastCopyTold == <>[](clip.side = "local" /\ clip.n = Copies /\ Copies # 0 /\ lost = {} => Told)

=============================================================================
