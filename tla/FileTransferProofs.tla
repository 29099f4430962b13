-------------------------- MODULE FileTransferProofs --------------------------
(***************************************************************************)
(* What holds of the file transfer of both daemons for any number of       *)
(* server and pulling threads, of names and of copies.  The invariant is   *)
(* that of each direction: first what FileServe's own actions preserve,    *)
(* then what FilePull's do, and then that the only step in which both act  *)
(* is Poll, where the pulls stay as they are.                              *)
(***************************************************************************)
EXTENDS FileTransfer, TLAPS

-----------------------------------------------------------------------------
(* Serving (FileServe).                                                    *)

Event   == [kind : Kinds, copy : Nat]
Offered == [kind : {"file", "image"}, copy : Nat]
Thread  == [pc : {"idle", "handshake", "pick", "read", "send"}, since : Nat,
            item : Offered \cup {Nothing}, data : Nat \cup {Torn}]

SData ==
  /\ made \in Nat /\ told \in Nat /\ writing \in {0, made}
  /\ image \in Nat \cup {Torn}
  /\ queue \in Seq(Event)
  /\ pending \in Offered \cup {Nothing} /\ beat \in Offered \cup {Nothing}
  /\ serve \in [Server -> Thread]

\* An event e that has been sent when m copies are made, w is being written
\* and f is in the image's file: its copy was made before w, and the file
\* holds that copy, a later one or, half written, something later.
SentAt(e, m, w, f) ==
  /\ e.copy \in 1 .. m
  /\ w # 0 => e.copy < m
  /\ e.kind = "image" => IF f = Torn THEN e.copy < m ELSE e.copy <= f

Sent(e) == SentAt(e, made, writing, image)
SentNext(e) == SentAt(e, made', writing', image')

AllSent ==
  /\ \A i \in 1 .. Len(queue) : Sent(queue[i])
  /\ pending # Nothing => Sent(pending)
  /\ \A s \in Server : serve[s].item # Nothing => Sent(serve[s].item)

\* Windows was told of nothing newer than what is pending, and that is not
\* newer than what is queued.
InOrder ==
  /\ beat # Nothing => beat = pending
  /\ IF pending = Nothing THEN told = 0
     ELSE /\ told <= pending.copy
          /\ \A i \in 1 .. Len(queue) : pending.copy <= queue[i].copy

\* A thread has picked what is not older than what brought its peer, and sends
\* what it has read.
ThreadOK(s) ==
  /\ serve[s].since <= told
  /\ serve[s].item # Nothing => serve[s].since <= serve[s].item.copy
  /\ serve[s].pc \in {"read", "send"} => serve[s].item # Nothing
  /\ serve[s].pc = "send" =>
       IF serve[s].data = Torn
         THEN serve[s].item.kind = "image" /\ serve[s].item.copy < made
         ELSE serve[s].since <= serve[s].data

SInv == SData /\ AllSent /\ InOrder /\ \A s \in Server : ThreadOK(s)

\* What happens to the variables of FileServe.
SNext ==
  \/ \E kind \in {"file", "text"} : Detect(kind)
  \/ DetectImage \/ ImageWritten \/ Drain \/ Announce
  \/ \E s \in Server : Accept(s) \/ PeerAnswers(s) \/ PeerTakes(s) \/ ServeStep(s)

\* Nothing has been copied, nobody is served.
LEMMA SInitInv == SInit => SInv
BY DEF SInit, SInv, SData, AllSent, InOrder, ThreadOK, Thread, Event, Idle

\* What the watcher does.
Watching == (\E kind \in {"file", "text"} : Detect(kind)) \/ DetectImage \/ ImageWritten

\* It leaves what was sent before as it was.
LEMMA SentStays ==
  ASSUME SData, Watching PROVE \A e \in Event : Sent(e) => SentNext(e)
<1>1. /\ made \in Nat /\ writing \in {0, made} /\ image \in Nat \cup {Torn}
      /\ \/ made' = made + 1 /\ writing = 0 /\ writing' = 0 /\ image' = image
         \/ made' = made + 1 /\ writing = 0 /\ writing' = made' /\ image' = Torn
         \/ made' = made /\ writing # 0 /\ writing' = 0 /\ image' \in {writing, image}
  BY DEF SData, Watching, Detect, DetectImage, ImageWritten
<1> QED
  BY <1>1, TornAssumption DEF Sent, SentNext, SentAt, Event

\* The watcher.
LEMMA WatcherInv ==
  ASSUME SInv, Watching PROVE SInv'
<1> USE DEF Watching
<1>1. SData'
  <2>1. ASSUME NEW kind \in {"file", "text"}, Detect(kind) PROVE SData'
    BY <2>1 DEF SInv, SData, Detect, Event, Kinds
  <2>2. CASE DetectImage
    BY <2>2 DEF SInv, SData, DetectImage
  <2>3. CASE ImageWritten
    <3>1. [kind |-> "image", copy |-> writing] \in Event
      BY DEF SInv, SData, Event, Kinds
    <3> QED
      BY <2>3, <3>1 DEF SInv, SData, ImageWritten
  <2> QED
    BY <2>1, <2>2, <2>3
<1>2. UNCHANGED <<pending, beat, told, serve>>
  BY DEF Detect, DetectImage, ImageWritten
<1>3. made \in Nat /\ writing \in {0, made} /\ queue \in Seq(Event)
  BY DEF SInv, SData
<1>4. \E new \in Event :
        \/ queue' = queue
        \/ queue' = Append(queue, new) /\ SentNext(new) /\ new.copy = made'
  <2>1. ASSUME NEW kind \in {"file", "text"}, Detect(kind)
        PROVE  LET new == [kind |-> kind, copy |-> made + 1]
               IN  new \in Event /\ queue' = Append(queue, new) /\ SentNext(new) /\ new.copy = made'
    <3> DEFINE new == [kind |-> kind, copy |-> made + 1]
    <3>1. new \in Event /\ new.copy = made + 1 /\ new.kind = kind
      BY <1>3 DEF Event, Kinds
    <3>2. made' = made + 1 /\ writing' = 0 /\ queue' = Append(queue, new)
      BY <2>1 DEF Detect
    <3> HIDE DEF new
    <3>3. SentNext(new)
      BY <1>3, <3>1, <3>2 DEF SentNext, SentAt
    <3> QED
      BY <3>1, <3>2, <3>3 DEF new
  <2>2. CASE ImageWritten /\ queue' = Append(queue, [kind |-> "image", copy |-> writing]) /\ image' = writing
    <3> DEFINE new == [kind |-> "image", copy |-> writing]
    <3>1. new \in Event /\ new.copy = made' /\ new.kind = "image"
      BY <1>3, <2>2 DEF ImageWritten, Event, Kinds
    <3>2. made' = made /\ writing = made /\ writing # 0 /\ writing' = 0
          /\ image' = made /\ queue' = Append(queue, new)
      BY <1>3, <2>2 DEF ImageWritten
    <3> HIDE DEF new
    <3>3. SentNext(new)
      BY <1>3, <3>1, <3>2, TornAssumption DEF SentNext, SentAt
    <3> QED
      BY <3>1, <3>2, <3>3
  <2>3. CASE queue' = queue
    <3>1. [kind |-> "text", copy |-> 0] \in Event
      BY DEF Event, Kinds
    <3> QED
      BY <2>3, <3>1
  <2>4. CASE \E kind \in {"file", "text"} : Detect(kind)
    BY <2>1, <2>4
  <2> QED
    BY <2>2, <2>3, <2>4 DEF DetectImage, ImageWritten
<1>5. PICK new \in Event :
        \/ queue' = queue
        \/ queue' = Append(queue, new) /\ SentNext(new) /\ new.copy = made'
  BY <1>4
<1>6. \A i \in 1 .. Len(queue') :
        \/ i \in 1 .. Len(queue) /\ queue'[i] = queue[i]
        \/ queue'[i] = new /\ SentNext(new) /\ new.copy = made'
  BY <1>3, <1>5
<1>7. \A i \in 1 .. Len(queue) : queue[i] \in Event /\ Sent(queue[i]) /\ SentNext(queue[i])
  <2>1. \A i \in 1 .. Len(queue) : queue[i] \in Event /\ Sent(queue[i])
    BY <1>3 DEF SInv, AllSent
  <2> QED
    BY <2>1, SentStays DEF SInv
<1>8. AllSent'
  <2>1. \A e \in Offered : Sent(e) => SentNext(e)
    <3>1. Offered \subseteq Event
      BY DEF Offered, Event, Kinds
    <3> QED
      BY <3>1, SentStays DEF SInv
  <2>2. \A i \in 1 .. Len(queue') : SentNext(queue'[i])
    BY <1>6, <1>7
  <2>3. /\ pending # Nothing => SentNext(pending)
        /\ \A s \in Server : serve[s].item # Nothing => SentNext(serve[s].item)
    BY <2>1 DEF SInv, SData, AllSent, Thread
  <2>4. pending' = pending /\ serve' = serve
    BY <1>2
  <2> QED
    BY <2>2, <2>3, <2>4 DEF AllSent, Sent, SentNext
<1>9. made <= made' /\ made' \in Nat
  BY <1>1, <1>3 DEF SData, Detect, DetectImage, ImageWritten
<1>10. InOrder'
  <2>1. pending # Nothing => pending.copy \in Nat /\ pending.copy <= made
    BY <1>3 DEF SInv, SData, AllSent, Sent, SentAt, Offered
  <2>2. pending # Nothing => \A i \in 1 .. Len(queue') : pending.copy <= queue'[i].copy
    BY <1>6, <1>3, <1>9, <2>1 DEF SInv, InOrder
  <2> QED
    BY <1>2, <2>2 DEF SInv, InOrder
<1>11. \A s \in Server : ThreadOK(s)'
  <2> SUFFICES ASSUME NEW s \in Server PROVE ThreadOK(s)'
    OBVIOUS
  <2>1. serve[s] \in Thread /\ ThreadOK(s) /\ serve'[s] = serve[s] /\ told' = told
    BY <1>2 DEF SInv, SData
  <2> QED
    BY <1>3, <1>9, <2>1 DEF ThreadOK, Thread, Offered
<1> QED
  BY <1>1, <1>8, <1>10, <1>11 DEF SInv

\* The session.
LEMMA SessionInv ==
  ASSUME SInv, Drain \/ Announce PROVE SInv'
<1>1. CASE Drain
  <2>1. Len(queue) \in Nat \ {0} /\ Last(queue) = queue[Len(queue)] /\ Last(queue) \in Event
    BY <1>1 DEF Drain, SInv, SData, Last
  <2>2. Sent(Last(queue))
    BY <2>1 DEF SInv, AllSent
  <2>3. pending # Nothing => pending.copy <= Last(queue).copy
    BY <2>1 DEF SInv, InOrder
  <2>4. SData'
    BY <1>1, <2>1 DEF Drain, SInv, SData, Event, Offered, Kinds
  <2>5. AllSent'
    BY <1>1, <2>2 DEF Drain, SInv, SData, AllSent, Sent, SentAt
  <2>6. InOrder'
    <3>1. CASE Last(queue).kind = "text"
      BY <1>1, <3>1 DEF Drain, SInv, SData, InOrder
    <3>2. CASE Last(queue).kind # "text"
      <4>1. /\ queue' = <<>> /\ told' = told
            /\ pending' = Last(queue) /\ beat' = Last(queue) /\ Last(queue) # Nothing
        BY <1>1, <2>1, <3>2, EventAssumption DEF Drain, Event, Kinds
      <4>2. told <= Last(queue).copy
        BY <2>1, <2>2, <2>3 DEF SInv, SData, InOrder, Offered, Event, Sent, SentAt
      <4> QED
        BY <4>1, <4>2 DEF InOrder
    <3> QED
      BY <3>1, <3>2
  <2>7. \A s \in Server : ThreadOK(s)'
    BY <1>1 DEF Drain, SInv, ThreadOK
  <2> QED
    BY <2>4, <2>5, <2>6, <2>7 DEF SInv
<1>2. CASE Announce
  <2>1. told' \in Nat /\ told <= told'
    BY <1>2 DEF Announce, SInv, SData, InOrder, Offered
  <2>2. SData' /\ AllSent' /\ InOrder'
    BY <1>2 DEF Announce, SInv, SData, AllSent, Sent, SentAt, InOrder, Offered
  <2>3. \A s \in Server : ThreadOK(s)'
    BY <1>2, <2>1 DEF Announce, SInv, SData, ThreadOK, Thread
  <2> QED
    BY <2>2, <2>3 DEF SInv
<1> QED
  BY <1>1, <1>2

\* A thread that becomes `to` keeps the invariant if `to` itself does.
LEMMA ThreadInv ==
  ASSUME SInv, UNCHANGED outbound, NEW s \in Server, NEW to \in Thread,
         serve' = [serve EXCEPT ![s] = to],
         to.item # Nothing => Sent(to.item),
         to.since <= told,
         to.item # Nothing => to.since <= to.item.copy,
         to.pc \in {"read", "send"} => to.item # Nothing,
         to.pc = "send" => IF to.data = Torn THEN to.item.kind = "image" /\ to.item.copy < made
                                             ELSE to.since <= to.data
  PROVE  SInv'
BY DEF SInv, SData, AllSent, Sent, SentAt, InOrder, ThreadOK, outbound

\* The threads of the file server.
LEMMA ServerInv ==
  ASSUME SInv, NEW s \in Server, Accept(s) \/ PeerAnswers(s) \/ PeerTakes(s) \/ ServeStep(s)
  PROVE  SInv'
<1> USE DEF Serves
<1>1. serve[s] \in Thread /\ ThreadOK(s) /\ told \in Nat
      /\ (serve[s].item # Nothing => Sent(serve[s].item))
  BY DEF SInv, SData, AllSent
<1>2. ASSUME serve' = [serve EXCEPT ![s] = Idle], UNCHANGED outbound PROVE SInv'
  <2>1. Idle \in Thread /\ Idle.pc = "idle" /\ Idle.item = Nothing /\ Idle.since <= told
    BY <1>1 DEF Idle, Thread
  <2> QED
    BY <1>2, <2>1, ThreadInv
<1>3. CASE Accept(s)
  <2> DEFINE to == [pc |-> "handshake", since |-> told, item |-> Nothing, data |-> 0]
  <2>1. to \in Thread /\ to.pc = "handshake" /\ to.item = Nothing /\ to.since <= told
    BY <1>1 DEF Thread
  <2>2. serve' = [serve EXCEPT ![s] = to] /\ UNCHANGED outbound
    BY <1>3 DEF Accept
  <2> HIDE DEF to
  <2> QED
    BY <2>1, <2>2, ThreadInv
<1>4. CASE PeerAnswers(s)
  <2> DEFINE to == [serve[s] EXCEPT !.pc = "pick"]
  <2>1. to \in Thread /\ to.pc = "pick" /\ to.item = serve[s].item /\ to.since = serve[s].since
    BY <1>1 DEF Thread
  <2>2. serve' = [serve EXCEPT ![s] = to] /\ UNCHANGED outbound
    BY <1>4 DEF PeerAnswers
  <2> HIDE DEF to
  <2> QED
    BY <1>1, <2>1, <2>2, ThreadInv DEF ThreadOK
<1>5. CASE Pick(s) /\ pending # Nothing
  <2> DEFINE to == [serve[s] EXCEPT !.pc = "read", !.item = pending]
  <2>1. /\ to \in Thread /\ to.pc = "read"
        /\ to.item = pending /\ to.since = serve[s].since
    BY <1>1, <1>5 DEF Thread, SInv, SData
  <2>2. serve' = [serve EXCEPT ![s] = to] /\ UNCHANGED outbound
    BY <1>5 DEF Pick
  <2>3. Sent(pending) /\ serve[s].since <= told /\ serve[s].since <= pending.copy
    BY <1>1, <1>5 DEF SInv, SData, AllSent, InOrder, ThreadOK, Thread, Offered
  <2> HIDE DEF to
  <2> QED
    BY <1>5, <2>1, <2>2, <2>3, ThreadInv
<1>6. CASE Read(s) /\ serve' # [serve EXCEPT ![s] = Idle]
  <2> DEFINE data == IF serve[s].item.kind = "file" THEN serve[s].item.copy ELSE image
             to   == [serve[s] EXCEPT !.pc = "send", !.data = data]
  <2>1. serve' = [serve EXCEPT ![s] = to] /\ UNCHANGED outbound /\ serve[s].pc = "read"
    BY <1>6 DEF Read
  <2>2. serve[s].item \in Offered /\ Sent(serve[s].item) /\ image \in Nat \cup {Torn} /\ made \in Nat
    BY <1>1, <2>1 DEF ThreadOK, Thread, SInv, SData
  <2>3. to \in Thread /\ to.pc = "send" /\ to.data = data
        /\ to.item = serve[s].item /\ to.since = serve[s].since
    BY <1>1, <2>2 DEF Thread, Offered
  <2>4. IF data = Torn THEN serve[s].item.kind = "image" /\ serve[s].item.copy < made
                       ELSE serve[s].since <= data
    <3>1. serve[s].since \in Nat /\ serve[s].since <= serve[s].item.copy /\ serve[s].item.copy \in Nat
      BY <1>1, <2>1, <2>2 DEF ThreadOK, Thread, Offered
    <3>2. CASE serve[s].item.kind = "file"
      BY <3>1, <3>2, TornAssumption
    <3>3. CASE serve[s].item.kind = "image"
      BY <2>2, <3>1, <3>3 DEF Sent, SentAt
    <3> QED
      BY <2>2, <3>2, <3>3 DEF Offered
  <2> HIDE DEF to, data
  <2> QED
    BY <1>1, <2>1, <2>2, <2>3, <2>4, ThreadInv DEF ThreadOK
<1>7. CASE \/ Pick(s) /\ pending = Nothing
           \/ Read(s) /\ serve' = [serve EXCEPT ![s] = Idle]
           \/ PeerTakes(s) \/ ServeFails(s)
  BY <1>2, <1>7 DEF Pick, Read, PeerTakes, ServeFails
<1> QED
  BY <1>3, <1>4, <1>5, <1>6, <1>7 DEF ServeStep

\* Every step of FileServe keeps the invariant.
LEMMA SNextInv == ASSUME SInv, SNext \/ UNCHANGED svars PROVE SInv'
<1>1. CASE UNCHANGED svars
  BY <1>1 DEF SInv, SData, AllSent, Sent, SentAt, InOrder, ThreadOK, svars, outbound
<1> QED
  BY <1>1, WatcherInv, SessionInv, ServerInv DEF SNext, Watching

\* What the runs check follows from it.
LEMMA SInvImplies == SInv => STypeOK /\ ServedNotOlder /\ TornIsSuperseded
<1> SUFFICES ASSUME SInv PROVE STypeOK /\ ServedNotOlder /\ TornIsSuperseded
  OBVIOUS
<1>1. STypeOK
  <2>1. \A e \in Range(queue) : e.kind \in Kinds /\ e.copy \in 1 .. made
    <3> SUFFICES ASSUME NEW i \in DOMAIN queue
                 PROVE  queue[i].kind \in Kinds /\ queue[i].copy \in 1 .. made
      BY DEF Range
    <3>1. i \in 1 .. Len(queue) /\ queue[i] \in Event
      BY DEF SInv, SData
    <3> QED
      BY <3>1 DEF SInv, AllSent, Sent, SentAt, Event
  <2>2. \A e \in {pending, beat} : e # Nothing => e.kind \in Kinds \ {"text"} /\ e.copy \in 1 .. made
    BY DEF SInv, SData, AllSent, Sent, SentAt, InOrder, Offered, Kinds
  <2> QED
    BY <2>1, <2>2 DEF STypeOK, SInv, SData, Thread
<1>2. ServedNotOlder /\ TornIsSuperseded
  BY DEF SInv, SData, ThreadOK, Thread, ServedNotOlder, TornIsSuperseded
<1> QED
  BY <1>1, <1>2

-----------------------------------------------------------------------------
(* Pulling (FilePull).                                                     *)

\* What a thread may have in hand: an item that no header refuses, or a small
\* image.
Taken == [kind : {"file"}, name : Name, size : {"ok"}, copy : Nat]
           \cup [kind : {"image"}, name : {"image"}, size : {"ok", "small"}, copy : Nat]

Pull == [pc : {"idle", "header", "body", "create", "write", "paste", "record"},
         item : Taken \cup {Nothing}, mixed : BOOLEAN]

PData ==
  /\ offer \in Item \cup {Nothing} /\ beats \in Nat
  /\ pull \in [Puller -> Pull]
  /\ disk \in [Name -> Nat \cup {Torn}]
  /\ shown \in Item \cup {Nothing}
  /\ applied \in [file : Name \cup {Nothing}, image : Nat]

\* Past its header a thread knows what it pulls; only files are written.
ItemOK(t) ==
  /\ t.pc \in {"body", "create", "write", "paste", "record"} => t.item # Nothing
  /\ t.pc \in {"create", "write"} => t.item.kind = "file"

\* The thread has had the file of its item open, or goes on to show it.
Opened(t) == t.pc \in {"write", "paste"} /\ t.item.kind = "file"

\* Two threads with one file open both know it.
Apart ==
  \A p, q \in Puller :
    p # q /\ Opened(pull[p]) /\ Opened(pull[q]) /\ pull[p].item.name = pull[q].item.name =>
      pull[p].mixed

Flushed(t) ==
  t.pc = "paste" /\ t.item.kind = "file" /\ ~t.mixed => disk[t.item.name] = t.item.copy

\* Without a crossing at most one thread is about to record, and it is what
\* it has put on the clipboard, if that is still shown.
Guard ==
  \/ crossed
  \/ /\ \A p, q \in Puller : pull[p].pc = "record" /\ pull[q].pc = "record" => p = q
     /\ \A p \in Puller : pull[p].pc = "record" => shown \in {Nothing, pull[p].item}
     /\ Armed \/ \E p \in Puller : pull[p].pc = "record"

PInv ==
  /\ PData /\ Apart /\ Guard
  /\ \A p \in Puller : ItemOK(pull[p]) /\ Flushed(pull[p])

\* What happens to the variables of FilePull: its actions, and a copy made here.
Cleared == shown' = Nothing /\ UNCHANGED <<offer, beats, pull, disk, applied, crossed>>

OnWindows ==
  \/ \E n \in Name, size \in Size : WindowsCopy("file", n, size)
  \/ WindowsCopy("image", "image", "ok")

\* The first three change no thread.
PNext ==
  \/ Cleared \/ OnWindows \/ BeatsLost
  \/ \E p \in Puller : ImageReceived(p) \/ Beat(p) \/ Header(p) \/ Body(p) \/ PullStep(p)

\* Nothing is pulled, nothing is shown.
LEMMA PInitInv == PInit => PInv
<1> SUFFICES ASSUME PInit PROVE PInv
  OBVIOUS
<1>1. PData
  BY DEF PInit, PData, Pull, Resting
<1>2. \A p \in Puller : pull[p].pc = "idle"
  BY DEF PInit, Resting
<1>3. shown = Nothing
  BY DEF PInit
<1> QED
  BY <1>1, <1>2, <1>3 DEF PInv, Apart, Guard, ItemOK, Flushed, Opened, Armed

\* Whatever leaves the threads, the files and the record alone.
LEMMA OthersInv ==
  ASSUME PInv, os' = os, Cleared \/ OnWindows \/ BeatsLost \/ UNCHANGED pvars PROVE PInv'
<1>1. /\ UNCHANGED <<pull, disk, applied, crossed>>
      /\ shown' \in {shown, Nothing}
  BY DEF Cleared, OnWindows, WindowsCopy, BeatsLost, pvars
<1>2. PData'
  <2>1. beats' \in Nat
    BY DEF PInv, PData, Cleared, OnWindows, WindowsCopy, BeatsLost, pvars
  <2>2. Copied \in Nat
    BY DEF PInv, PData, Copied, Item
  <2>3. offer' \in Item \cup {Nothing}
    BY <2>2 DEF PInv, PData, Cleared, OnWindows, WindowsCopy, BeatsLost, pvars, Item, Size
  <2> QED
    BY <1>1, <2>1, <2>3 DEF PInv, PData
<1>3. Apart' /\ (\A p \in Puller : ItemOK(pull[p])' /\ Flushed(pull[p])')
  BY <1>1 DEF PInv, Apart, Flushed, ItemOK, Opened
<1>4. Guard'
  BY <1>1 DEF PInv, Guard, Armed, Recorded, Mark
<1> QED
  BY <1>2, <1>3, <1>4 DEF PInv

\* A thread whose next state `to` has no file open and nothing to record.
LEMMA PrivateInv ==
  ASSUME PInv, UNCHANGED <<os, disk, shown, applied, crossed>>,
         offer' \in Item \cup {Nothing}, beats' \in Nat,
         NEW p \in Puller, NEW to \in Pull, pull' = [pull EXCEPT ![p] = to],
         pull[p].pc # "record", to.pc # "record", ItemOK(to), ~Opened(to)
  PROVE  PInv'
<1>1. /\ \A q \in Puller \ {p} : pull'[q] = pull[q]
      /\ pull'[p] = to
  BY DEF PInv, PData
<1>2. PData'
  BY DEF PInv, PData
<1>3. Apart'
  BY <1>1 DEF PInv, Apart
<1>4. Guard'
  BY <1>1 DEF PInv, Guard, Armed, Recorded, Mark
<1>5. \A q \in Puller : ItemOK(pull[q])' /\ Flushed(pull[q])'
  BY <1>1 DEF PInv, ItemOK, Flushed, Opened
<1> QED
  BY <1>2, <1>3, <1>4, <1>5 DEF PInv

\* The session has a small image: no file is open for it.
LEMMA ReceivedInv == ASSUME PInv, os' = os, NEW p \in Puller, ImageReceived(p) PROVE PInv'
<1> DEFINE i  == [kind |-> "image", name |-> "image", size |-> "small", copy |-> Copied + 1]
           to == [pull[p] EXCEPT !.pc = "paste", !.item = i]
<1>1. pull[p] \in Pull /\ pull[p].pc = "idle"
  BY DEF PInv, PData, ImageReceived
<1>2. Copied \in Nat
  BY DEF PInv, PData, Copied, Item
<1>3. i \in Taken /\ i \in Item /\ i # Nothing /\ i.kind = "image"
  <2>1. i \in Taken /\ i \in Item /\ i.kind = "image"
    BY <1>2 DEF Taken, Item
  <2> QED
    BY <2>1, ItemAssumption
<1>4. offer' = i /\ pull' = [pull EXCEPT ![p] = to] /\ UNCHANGED <<beats, disk, shown, applied, crossed>>
  BY DEF ImageReceived
<1> HIDE DEF i
<1>5. to \in Pull /\ to.pc = "paste" /\ to.item = i
  BY <1>1, <1>3 DEF Pull
<1> HIDE DEF to
<1>6. ItemOK(to) /\ ~Opened(to)
  BY <1>3, <1>5 DEF ItemOK, Opened
<1>7. beats' \in Nat
  BY <1>4 DEF PInv, PData
<1> QED
  BY <1>1, <1>3, <1>4, <1>5, <1>6, <1>7, PrivateInv

\* The steps of a thread up to the file, and those that end it early.
LEMMA PrivateSteps ==
  ASSUME PInv, os' = os, NEW p \in Puller,
         Beat(p) \/ Header(p) \/ Body(p) \/ PullFails(p) \/ DiskFails(p)
  PROVE  PInv'
<1>1. pull[p] \in Pull /\ ItemOK(pull[p]) /\ beats \in Nat /\ offer \in Item \cup {Nothing}
  BY DEF PInv, PData
<1>2. Resting \in Pull /\ Resting.pc = "idle" /\ ItemOK(Resting) /\ ~Opened(Resting)
  BY DEF Resting, Pull, ItemOK, Opened
<1>3. UNCHANGED <<os, disk, shown, applied, crossed>> /\ offer' \in Item \cup {Nothing}
  BY <1>1 DEF Beat, Header, Body, PullFails, DiskFails
<1>4. beats' \in Nat
  BY <1>1 DEF Beat, Header, Body, PullFails, DiskFails
<1>5. CASE pull' = [pull EXCEPT ![p] = Resting] /\ pull[p].pc # "record"
  BY <1>2, <1>3, <1>4, <1>5, PrivateInv
<1>6. CASE Beat(p)
  <2> DEFINE to == [pull[p] EXCEPT !.pc = "header"]
  <2>1. to \in Pull /\ to.pc = "header" /\ ItemOK(to) /\ ~Opened(to)
    BY <1>1 DEF Pull, ItemOK, Opened
  <2>2. pull' = [pull EXCEPT ![p] = to] /\ pull[p].pc # "record"
    BY <1>6 DEF Beat, Goes
  <2> HIDE DEF to
  <2> QED
    BY <1>3, <1>4, <2>1, <2>2, PrivateInv
<1>7. CASE Header(p) /\ offer.size = "ok"
  <2> DEFINE to == [pull[p] EXCEPT !.pc = "body", !.item = offer]
  <2>1. offer \in Taken /\ offer # Nothing
    BY <1>1, <1>7 DEF Header, Item, Taken
  <2>2. to \in Pull /\ to.pc = "body" /\ to.item = offer
    BY <1>1, <2>1 DEF Pull
  <2>3. ItemOK(to) /\ ~Opened(to)
    BY <2>1, <2>2 DEF ItemOK, Opened
  <2>4. pull' = [pull EXCEPT ![p] = to] /\ pull[p].pc # "record"
    BY <1>7 DEF Header
  <2> HIDE DEF to
  <2> QED
    BY <1>3, <1>4, <2>2, <2>3, <2>4, PrivateInv
<1>8. CASE Body(p)
  <2> DEFINE pc == IF pull[p].item.kind = "image" THEN "paste" ELSE "create"
             to == [pull[p] EXCEPT !.pc = pc]
  <2>1. pull[p].pc = "body" /\ pull[p].item \in Taken /\ pull[p].item # Nothing
    BY <1>1, <1>8 DEF Body, Goes, ItemOK, Pull
  <2>2. to \in Pull /\ to.pc = pc /\ to.item = pull[p].item
    BY <1>1 DEF Pull
  <2>3. ItemOK(to) /\ ~Opened(to)
    BY <2>1, <2>2 DEF ItemOK, Opened, Taken
  <2>4. pull' = [pull EXCEPT ![p] = to]
    BY <1>8 DEF Body, Goes
  <2>5. to.pc # "record" /\ pull[p].pc # "record"
    BY <2>1, <2>2
  <2> HIDE DEF to
  <2> QED
    BY <1>3, <1>4, <2>2, <2>3, <2>4, <2>5, PrivateInv
<1>9. CASE (Header(p) /\ offer.size # "ok") \/ PullFails(p) \/ DiskFails(p)
  BY <1>5, <1>9 DEF Header, PullFails, DiskFails, Ends
<1> QED
  BY <1>6, <1>7, <1>8, <1>9

\* The file is truncated, under the hands of whoever has it open.
LEMMA CreateInv == ASSUME PInv, os' = os, NEW p \in Puller, Create(p) PROVE PInv'
<1> DEFINE n == pull[p].item.name
<1>1. /\ pull[p] \in Pull /\ pull[p].pc = "create" /\ pull[p].item \in Taken
      /\ pull[p].item # Nothing /\ pull[p].item.kind = "file" /\ n \in Name
  BY DEF PInv, PData, Create, ItemOK, Pull, Taken
<1>2. UNCHANGED <<os, offer, beats, shown, applied, crossed>> /\ disk' = [disk EXCEPT ![n] = Torn]
  BY DEF Create
<1>3. pull'[p] = [pull[p] EXCEPT !.pc = "write", !.mixed = WritingAs(n) # {}]
  BY DEF Create
<1>4. \A q \in Puller \ {p} : pull'[q] = IF q \in WritingAs(n) THEN [pull[q] EXCEPT !.mixed = TRUE]
                                          ELSE pull[q]
  BY DEF Create
<1>5. pull' \in [Puller -> Pull]
  <2>1. DOMAIN pull' = Puller /\ pull' = [q \in Puller |-> pull'[q]]
    BY DEF Create
  <2>2. pull'[p] \in Pull
    BY <1>1, <1>3 DEF Pull
  <2>3. ASSUME NEW q \in Puller \ {p} PROVE pull'[q] \in Pull
    <3>1. pull[q] \in Pull
      BY DEF PInv, PData
    <3>2. [pull[q] EXCEPT !.mixed = TRUE] \in Pull
      BY <3>1 DEF Pull
    <3> QED
      BY <1>4, <3>1, <3>2
  <2> QED
    BY <2>1, <2>2, <2>3
<1>6. PData'
  BY <1>1, <1>2, <1>5 DEF PInv, PData
<1>7. /\ pull'[p].pc = "write" /\ pull'[p].item = pull[p].item
      /\ pull'[p].mixed = (WritingAs(n) # {})
  BY <1>1, <1>3 DEF Pull
<1>8. ASSUME NEW q \in Puller \ {p}
      PROVE  /\ pull'[q].pc = pull[q].pc /\ pull'[q].item = pull[q].item
             /\ pull[q].mixed => pull'[q].mixed
             /\ q \in WritingAs(n) => pull'[q].mixed
  BY <1>4, <1>8 DEF PInv, PData, Pull
<1>9. ASSUME NEW q \in Puller \ {p}, Opened(pull[q]), pull[q].item.name = n
      PROVE  q \in WritingAs(n)
  <2>1. pull[q].item # Nothing
    BY <1>9 DEF PInv, PData, Pull, ItemOK, Opened
  <2> QED
    BY <1>9, <2>1 DEF WritingAs, Opened
<1>10. Apart'
  <2> SUFFICES ASSUME NEW q \in Puller, NEW r \in Puller, q # r, Opened(pull[q])', Opened(pull[r])',
                      pull'[q].item.name = pull'[r].item.name
               PROVE  pull'[q].mixed
    BY DEF Apart
  <2>1. CASE q # p /\ r # p
    BY <1>8, <2>1 DEF PInv, Apart, Opened
  <2>2. CASE q = p
    <3>1. r \in WritingAs(n)
      BY <1>7, <1>8, <1>9, <2>2 DEF Opened
    <3> QED
      BY <1>7, <2>2, <3>1
  <2>3. CASE r = p
    BY <1>7, <1>8, <1>9, <2>3 DEF Opened
  <2> QED
    BY <2>1, <2>2, <2>3
<1>11. \A q \in Puller : ItemOK(pull[q])' /\ Flushed(pull[q])'
  <2>1. ItemOK(pull[p])' /\ Flushed(pull[p])'
    BY <1>1, <1>7 DEF ItemOK, Flushed
  <2>2. ASSUME NEW q \in Puller \ {p} PROVE ItemOK(pull[q])' /\ Flushed(pull[q])'
    <3>1. ItemOK(pull[q])'
      BY <1>8 DEF PInv, ItemOK
    <3>2. CASE pull[q].item.name = n
      <4>1. CASE Opened(pull[q])
        <5>1. pull'[q].mixed
          BY <1>8, <1>9, <3>2, <4>1
        <5> QED
          BY <3>1, <5>1 DEF Flushed
      <4>2. CASE ~Opened(pull[q])
        <5>1. ~(pull'[q].pc = "paste" /\ pull'[q].item.kind = "file")
          BY <1>8, <4>2 DEF Opened
        <5> QED
          BY <3>1, <5>1 DEF Flushed
      <4> QED
        BY <4>1, <4>2
    <3>3. CASE pull[q].item.name # n
      <4>1. disk'[pull[q].item.name] = disk[pull[q].item.name]
        BY <1>2, <3>3 DEF PInv, PData
      <4>2. /\ pull'[q].pc = pull[q].pc /\ pull'[q].item = pull[q].item
            /\ pull[q].mixed => pull'[q].mixed
        BY <1>8
      <4>3. Flushed(pull[q])
        BY DEF PInv
      <4> QED
        BY <3>1, <4>1, <4>2, <4>3 DEF Flushed
    <3> QED
      BY <3>1, <3>2, <3>3
  <2> QED
    BY <2>1, <2>2
<1>12. Guard'
  <2>1. \A q \in Puller : pull'[q].pc = "record" <=> pull[q].pc = "record"
    BY <1>1, <1>7, <1>8
  <2>2. \A q \in Puller : pull'[q].item = pull[q].item
    BY <1>7, <1>8
  <2> QED
    BY <1>2, <2>1, <2>2 DEF PInv, Guard, Armed, Recorded, Mark
<1> QED
  BY <1>6, <1>10, <1>11, <1>12 DEF PInv

\* The file is written: whole, if nobody else has opened it.
LEMMA WriteInv == ASSUME PInv, os' = os, NEW p \in Puller, Write(p) PROVE PInv'
<1> DEFINE n  == pull[p].item.name
           to == [pull[p] EXCEPT !.pc = "paste"]
<1>1. /\ pull[p] \in Pull /\ pull[p].pc = "write" /\ pull[p].item \in Taken
      /\ pull[p].item # Nothing /\ pull[p].item.kind = "file" /\ n \in Name
  BY DEF PInv, PData, Write, Goes, ItemOK, Pull, Taken
<1>2. PICK data \in Nat \cup {Torn} :
        /\ disk' = [disk EXCEPT ![n] = data]
        /\ ~pull[p].mixed => data = pull[p].item.copy
  <2>1. pull[p].item.copy \in Nat
    BY <1>1 DEF Taken
  <2> QED
    BY <2>1 DEF Write
<1>3. UNCHANGED <<os, offer, beats, shown, applied, crossed>> /\ pull' = [pull EXCEPT ![p] = to]
  BY DEF Write, Goes
<1>4. to \in Pull /\ to.pc = "paste" /\ to.item = pull[p].item /\ to.mixed = pull[p].mixed
  BY <1>1 DEF Pull
<1> HIDE DEF to
<1>5. pull'[p] = to /\ \A q \in Puller \ {p} : pull'[q] = pull[q]
  BY <1>3 DEF PInv, PData
<1>6. PData'
  BY <1>2, <1>3, <1>4 DEF PInv, PData
<1>7. Opened(pull[p]) /\ Opened(to)
  BY <1>1, <1>4 DEF Opened
<1>8. Apart'
  BY <1>4, <1>5, <1>7 DEF PInv, Apart
<1>9. Guard'
  BY <1>1, <1>3, <1>4, <1>5 DEF PInv, Guard, Armed, Recorded, Mark
<1>10. \A q \in Puller : ItemOK(pull[q])' /\ Flushed(pull[q])'
  <2>1. disk'[n] = data
    BY <1>1, <1>2 DEF PInv, PData
  <2>2. ItemOK(pull[p])' /\ Flushed(pull[p])'
    BY <1>1, <1>2, <1>4, <1>5, <2>1 DEF ItemOK, Flushed
  <2>3. ASSUME NEW q \in Puller \ {p} PROVE ItemOK(pull[q])' /\ Flushed(pull[q])'
    <3>1. pull'[q] = pull[q] /\ ItemOK(pull[q]) /\ Flushed(pull[q])
      BY <1>5 DEF PInv
    <3>2. CASE Opened(pull[q]) /\ pull[q].item.name = n
      <4>1. pull[q].mixed
        BY <1>7, <3>2 DEF PInv, Apart
      <4> QED
        BY <3>1, <4>1 DEF ItemOK, Flushed
    <3>3. CASE Opened(pull[q]) /\ pull[q].item.name # n
      <4>1. disk'[pull[q].item.name] = disk[pull[q].item.name]
        BY <1>2, <3>3 DEF PInv, PData
      <4> QED
        BY <3>1, <4>1 DEF ItemOK, Flushed
    <3>4. CASE ~Opened(pull[q])
      BY <3>1, <3>4 DEF ItemOK, Flushed, Opened
    <3> QED
      BY <3>2, <3>3, <3>4
  <2> QED
    BY <2>2, <2>3
<1> QED
  BY <1>6, <1>8, <1>9, <1>10 DEF PInv

\* The item is shown, and to be recorded unless it is a file on macOS.
LEMMA PasteInv == ASSUME PInv, os' = os, NEW p \in Puller, Paste(p) PROVE PInv'
<1> DEFINE to == IF Recorded(pull[p].item) THEN [pull[p] EXCEPT !.pc = "record"] ELSE Resting
<1>1. /\ pull[p] \in Pull /\ pull[p].pc = "paste"
      /\ pull[p].item \in Taken /\ pull[p].item # Nothing
  BY DEF PInv, PData, Paste, ItemOK, Pull
<1>2. /\ UNCHANGED <<os, offer, beats, disk, applied>>
      /\ pull' = [pull EXCEPT ![p] = to] /\ shown' = pull[p].item
      /\ crossed' = (crossed \/ \E q \in Puller : pull[q].pc = "record")
  BY DEF Paste, Goes, Ends
<1>3. /\ to \in Pull /\ ItemOK(to) /\ to.pc \in {"record", "idle"}
      /\ to.pc = "record" => to.item = pull[p].item
      /\ to.pc = "idle" => ~Recorded(pull[p].item)
  BY <1>1 DEF Pull, ItemOK, Resting
<1> HIDE DEF to
<1>4. pull'[p] = to /\ \A q \in Puller \ {p} : pull'[q] = pull[q]
  BY <1>2 DEF PInv, PData
<1>5. PData'
  <2>1. Taken \subseteq Item
    BY DEF Taken, Item, Size
  <2> QED
    BY <1>1, <1>2, <1>3, <2>1 DEF PInv, PData
<1>6. Apart' /\ \A q \in Puller : ItemOK(pull[q])' /\ Flushed(pull[q])'
  BY <1>2, <1>3, <1>4 DEF PInv, Apart, Opened, ItemOK, Flushed
<1>7. Guard'
  <2>1. CASE crossed'
    BY <2>1 DEF Guard
  <2>2. CASE ~crossed'
    <3>1. \A q \in Puller : pull[q].pc # "record"
      BY <1>2, <2>2
    <3>2. \A q \in Puller : pull'[q].pc = "record" => q = p
      BY <1>4, <3>1
    <3>3. pull'[p].pc = "record" => shown' = pull'[p].item
      BY <1>2, <1>3, <1>4
    <3>4. pull'[p].pc # "record" => Armed'
      BY <1>2, <1>3, <1>4 DEF Armed, Recorded
    <3> QED
      BY <3>2, <3>3, <3>4 DEF Guard
  <2> QED
    BY <2>1, <2>2
<1> QED
  BY <1>5, <1>6, <1>7 DEF PInv

\* The item is recorded: whatever is shown now is taken for an echo.
LEMMA RecordInv == ASSUME PInv, os' = os, NEW p \in Puller, Record(p) PROVE PInv'
<1>1. /\ pull[p] \in Pull /\ pull[p].pc = "record"
      /\ pull[p].item \in Taken /\ pull[p].item # Nothing
  BY DEF PInv, PData, Record, ItemOK, Pull
<1>2. /\ UNCHANGED <<os, offer, beats, disk, shown, crossed>>
      /\ pull' = [pull EXCEPT ![p] = Resting]
      /\ applied' = [applied EXCEPT ![pull[p].item.kind] = Mark(pull[p].item)]
  BY DEF Record, Ends
<1>3. Resting \in Pull /\ ItemOK(Resting) /\ Resting.pc = "idle"
  BY DEF Resting, Pull, ItemOK
<1>4. pull'[p] = Resting /\ \A q \in Puller \ {p} : pull'[q] = pull[q]
  BY <1>2 DEF PInv, PData
<1>5. /\ applied' \in [file : Name \cup {Nothing}, image : Nat]
      /\ applied'[pull[p].item.kind] = Mark(pull[p].item)
  <2>1. CASE pull[p].item.kind = "file"
    BY <1>1, <1>2, <2>1 DEF PInv, PData, Taken, Mark
  <2>2. CASE pull[p].item.kind = "image"
    BY <1>1, <1>2, <2>2 DEF PInv, PData, Taken, Mark
  <2> QED
    BY <1>1, <2>1, <2>2 DEF Taken
<1>6. PData'
  BY <1>2, <1>3, <1>5 DEF PInv, PData
<1>7. Apart' /\ \A q \in Puller : ItemOK(pull[q])' /\ Flushed(pull[q])'
  BY <1>2, <1>3, <1>4 DEF PInv, Apart, Opened, ItemOK, Flushed
<1>8. Guard'
  <2>1. CASE crossed
    BY <1>2, <2>1 DEF Guard
  <2>2. CASE ~crossed
    <3>1. \A q \in Puller : pull'[q].pc # "record"
      BY <1>1, <1>3, <1>4, <2>2 DEF PInv, Guard
    <3>2. shown' \in {Nothing, pull[p].item}
      BY <1>1, <1>2, <2>2 DEF PInv, Guard
    <3>3. Armed'
      BY <1>5, <3>2 DEF Armed
    <3> QED
      BY <3>1, <3>3 DEF Guard
  <2> QED
    BY <2>1, <2>2
<1> QED
  BY <1>6, <1>7, <1>8 DEF PInv

\* Every step of FilePull keeps the invariant.
LEMMA PNextInv == ASSUME PInv, os' = os, PNext \/ UNCHANGED pvars PROVE PInv'
BY OthersInv, ReceivedInv, PrivateSteps, CreateInv, WriteInv, PasteInv, RecordInv DEF PNext, PullStep

\* What the runs check follows from it.
LEMMA PInvImplies == PInv => PTypeOK /\ FlushedBeforePaste /\ ArmedUnlessCrossed
<1> SUFFICES ASSUME PInv PROVE PTypeOK /\ FlushedBeforePaste /\ ArmedUnlessCrossed
  OBVIOUS
<1>1. Taken \subseteq Item /\ \A i \in Taken : i.size # "refused"
  BY DEF Taken, Item, Size
<1>2. PTypeOK
  BY <1>1 DEF PInv, PData, Pull, PTypeOK
<1>3. FlushedBeforePaste
  BY DEF PInv, Flushed, FlushedBeforePaste
<1>4. ArmedUnlessCrossed
  BY DEF PInv, Guard, ArmedUnlessCrossed
<1> QED
  BY <1>2, <1>3, <1>4

-----------------------------------------------------------------------------
(* Both.                                                                   *)

FInv ==
  /\ os \in Platforms
  /\ SInv /\ PInv
  /\ left \in [{"here", "windows"} -> Nat]
  /\ seen \in [file : Name \cup {Nothing}, image : Nat]

\* The invariant holds at the start.
LEMMA InitInv == Init => FInv
<1> SUFFICES ASSUME Init PROVE FInv
  OBVIOUS
<1>1. SInv /\ PInv
  BY SInitInv, PInitInv DEF Init
<1> QED
  BY <1>1, SplitsAssumption DEF Init, FInv

\* A step is one of each direction at most.
LEMMA StepOfEach ==
  ASSUME [Next]_vars
  PROVE  os' = os /\ (SNext \/ UNCHANGED svars) /\ (PNext \/ UNCHANGED pvars)
<1>1. CASE CopyHere
  <2>1. SNext \/ UNCHANGED svars
    BY <1>1 DEF CopyHere, SNext
  <2>2. Cleared /\ os' = os
    BY <1>1 DEF CopyHere, Cleared
  <2> QED
    BY <2>1, <2>2 DEF PNext
<1>2. CASE CopyOnWindows
  BY <1>2 DEF CopyOnWindows, PNext, OnWindows
<1>3. CASE Poll
  BY <1>3 DEF Poll, SNext
<1>4. CASE Serving /\ UNCHANGED <<os, pvars, left, seen>>
  BY <1>4 DEF Serving, SNext
<1>5. CASE Pulling /\ UNCHANGED <<os, svars, left, seen>>
  BY <1>5 DEF Pulling, PNext
<1>6. CASE UNCHANGED vars
  BY <1>6 DEF vars
<1> QED
  BY <1>1, <1>2, <1>3, <1>4, <1>5, <1>6 DEF Next

\* Every step keeps the invariant.
LEMMA NextInv == FInv /\ [Next]_vars => FInv'
<1> SUFFICES ASSUME FInv, [Next]_vars PROVE FInv'
  OBVIOUS
<1>1. os' = os /\ SInv' /\ PInv'
  BY StepOfEach, SNextInv, PNextInv DEF FInv
<1>2. left' \in [{"here", "windows"} -> Nat]
  BY DEF FInv, Next, CopyHere, CopyOnWindows, Poll, vars
<1>3. seen' \in [file : Name \cup {Nothing}, image : Nat]
  <2>1. CASE Poll
    <3>1. shown \in Item /\ shown # Nothing
      BY <2>1 DEF Poll, FInv, PInv, PData
    <3>2. CASE shown.kind = "file"
      BY <2>1, <3>1, <3>2 DEF Poll, FInv, Item, Mark
    <3>3. CASE shown.kind = "image"
      BY <2>1, <3>1, <3>3 DEF Poll, FInv, Item, Mark
    <3> QED
      BY <3>1, <3>2, <3>3 DEF Item
  <2>2. CASE ~Poll
    BY <2>2 DEF FInv, Next, CopyHere, CopyOnWindows, vars
  <2> QED
    BY <2>1, <2>2
<1> QED
  BY <1>1, <1>2, <1>3 DEF FInv

\* The invariant holds of every behaviour.
THEOREM TransferInvariant == Spec => []FInv
BY InitInv, NextInv, PTL DEF Spec

\* Every variable keeps to its type.
THEOREM TypesHold == Spec => []TypeOK
<1>1. FInv => TypeOK
  BY SInvImplies, PInvImplies DEF FInv, TypeOK
<1> QED
  BY <1>1, TransferInvariant, PTL

\* A peer that a beat has brought is served nothing older than what the beat
\* announced (daemon.rs:577, :832).
THEOREM NothingOlderIsServed == Spec => []ServedNotOlder
<1>1. FInv => ServedNotOlder
  BY SInvImplies DEF FInv
<1> QED
  BY <1>1, TransferInvariant, PTL

\* Only an image that the user has already replaced is served half written
\* (daemon.rs:424).
THEOREM OnlySupersededIsTorn == Spec => []TornIsSuperseded
<1>1. FInv => TornIsSuperseded
  BY SInvImplies DEF FInv
<1> QED
  BY <1>1, TransferInvariant, PTL

\* The clipboard is touched when the file is whole, unless another pull has
\* the same name open (daemon.rs:807).
THEOREM FlushedFirst == Spec => []FlushedBeforePaste
<1>1. FInv => FlushedBeforePaste
  BY PInvImplies DEF FInv
<1> QED
  BY <1>1, TransferInvariant, PTL

\* The record keeps up with the clipboard, unless two threads cross between
\* wl-copy and the record (daemon.rs:796, :811).
THEOREM GuardKeepsUp == Spec => []ArmedUnlessCrossed
<1>1. FInv => ArmedUnlessCrossed
  BY PInvImplies DEF FInv
<1> QED
  BY <1>1, TransferInvariant, PTL

=============================================================================
