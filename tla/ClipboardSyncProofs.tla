------------------------- MODULE ClipboardSyncProofs -------------------------
(***************************************************************************)
(* What holds of the clipboard sync for all contents, any number of copies *)
(* and failures: its types, the order in which Windows hears of what was   *)
(* copied here, the guard against the echo of what Windows copied, and     *)
(* that the copy made last is the last that Windows hears of.  The four    *)
(* parts of the invariant are shown to be inductive one after the other.   *)
(***************************************************************************)
EXTENDS ClipboardSync, SequenceTheorems, TLAPS

-----------------------------------------------------------------------------
(* The types.                                                              *)

\* What Windows copies is an item, and so is what the watcher reads.
LEMMA ItemIsTyped ==
  ASSUME NEW k \in Kind, NEW v \in Value, NEW side \in Side, NEW n \in 0 .. MaxCopies
  PROVE  Item(k, v, side, n) \in ItemType /\ Item(k, v, side, n) # NoItem
<1>1. Nothing \notin Value
  BY ClipboardAssumption
<1> QED
  BY <1>1 DEF Item, NoItem, ItemType

LEMMA ItemIsNotNoItem ==
  ASSUME NEW i \in ItemType
  PROVE  i # NoItem /\ i.val # Nothing
BY ClipboardAssumption DEF Item, NoItem, ItemType

LEMMA OnlyIsContent ==
  ASSUME NEW k \in Kind, NEW v \in Value
  PROVE  /\ Only(k, v) \in Content
         /\ \A l \in Kind : Only(k, v)[l] = IF l = k THEN v ELSE Nothing
BY DEF Only, Empty, Content

LEMMA FreshIsBoolean == ASSUME NEW c PROVE Fresh(c) \in BOOLEAN
BY DEF Fresh

LEMMA CopyTyped ==
  ASSUME TypeOK, NEW side \in Side, Copy(side)
  PROVE  copies' \in [Side -> 0 .. MaxCopies] /\ Copies + 1 \in 0 .. MaxCopies
<1>1. /\ copies["local"] \in 0 .. MaxCopies /\ copies["windows"] \in 0 .. MaxCopies
      /\ MaxCopies \in Nat /\ copies \in [Side -> 0 .. MaxCopies]
  BY ClipboardAssumption DEF TypeOK, Side
<1>2. copies["local"] + copies["windows"] < MaxCopies
  BY DEF Copy, Copies
<1>3. copies[side] + 1 \in 0 .. MaxCopies
  BY <1>1, <1>2 DEF Side
<1>4. copies' = [copies EXCEPT ![side] = @ + 1]
  BY DEF Copy
<1> QED
  BY <1>1, <1>2, <1>3, <1>4 DEF Copies

LEMMA InitTyped == Init => TypeOK
<1> SUFFICES ASSUME Init PROVE TypeOK
  OBVIOUS
<1>1. Empty \in Content
  BY DEF Empty, Content
<1>2. MaxCopies \in Nat /\ MaxFaults \in Nat
  BY ClipboardAssumption
<1>3. clip \in [what : Content, side : Side, n : 0 .. MaxCopies, fresh : BOOLEAN]
  BY <1>1, <1>2 DEF Init, Side
<1>4. last_seen \in Content /\ last_applied \in Content
  BY <1>1 DEF Init
<1>5. chan \in Seq(ItemType) /\ outbound \in Seq(ItemType) /\ inbound \in [Role -> Seq(ItemType)]
  BY DEF Init
<1>6. inhand \in [Role -> ItemType \cup {NoItem}]
  BY DEF Init
<1>7. copies \in [Side -> 0 .. MaxCopies] /\ faults \in 0 .. MaxFaults
  BY <1>2 DEF Init
<1>8. look.at = "file" /\ look.item = NoItem
  BY DEF Init, Looking
<1> QED
  BY <1>3, <1>4, <1>5, <1>6, <1>7, <1>8 DEF Init, TypeOK, Kind

\* The watcher remembers what it read; what it has yet to check is an item.
LEMMA PollTyped == ASSUME TypeOK, NEW k \in Kind, Poll(k) PROVE TypeOK'
<1> DEFINE v == clip.what[k]
<1>1. v \in Value \cup {Nothing} /\ clip.side \in Side /\ clip.n \in 0 .. MaxCopies
  BY DEF TypeOK, Content
<1>2. After(k) \in Kind /\ "file" \in Kind
  BY DEF After, Kind
<1>3. UNCHANGED <<os, clip, told, last_applied, chan, lost, copies, faults, link>>
  BY DEF Poll
<1>4. CASE look' = Looking(After(k), NoItem) /\ UNCHANGED last_seen
  BY <1>2, <1>3, <1>4 DEF TypeOK, Looking, link, Kind
<1>5. CASE look' = Looking("file", NoItem) /\ UNCHANGED last_seen
  BY <1>2, <1>3, <1>5 DEF TypeOK, Looking, link, Kind
<1>6. CASE /\ v # Nothing /\ last_seen' = [last_seen EXCEPT ![k] = v]
           /\ look' = Looking("check", Item(k, v, clip.side, clip.n))
  <2>1. last_seen' \in Content
    BY <1>1, <1>6 DEF TypeOK, Content
  <2>2. /\ look'.at = "check"
        /\ look'.item \in ItemType /\ look'.item # NoItem
    BY <1>1, <1>6, ItemIsTyped DEF Looking
  <2> QED
    BY <1>3, <2>1, <2>2 DEF TypeOK, link
<1> QED
  BY <1>4, <1>5, <1>6 DEF Poll

LEMMA CopiesInTyped ==
  ASSUME NEW s \in Seq(ItemType)
  PROVE  CopiesIn(s) \subseteq 0 .. MaxCopies
<1>1. \A i \in DOMAIN s : s[i].n \in 0 .. MaxCopies
  <2>1. \A i \in DOMAIN s : s[i] \in ItemType
    OBVIOUS
  <2> QED
    BY <2>1 DEF ItemType
<1> QED
  BY <1>1 DEF CopiesIn

LEMMA LostTyped ==
  ASSUME TypeOK, NEW taken \in Seq(ItemType), Lost(taken)
  PROVE  /\ session' = "down" /\ outbound' \in Seq(ItemType)
         /\ inbound' \in [Role -> Seq(ItemType)] /\ lost' \subseteq 0 .. MaxCopies
<1>1. outbound \o taken \in Seq(ItemType)
  BY ConcatProperties DEF TypeOK
<1>2. lost' = lost \cup CopiesIn(outbound \o taken) /\ lost \subseteq 0 .. MaxCopies
  BY DEF Lost, TypeOK
<1>3. lost' \subseteq 0 .. MaxCopies
  BY <1>1, <1>2, CopiesInTyped
<1>4. session' = "down" /\ inbound' = [inbound EXCEPT !["client"] = <<>>] /\ outbound' = <<>>
  BY DEF Lost
<1>5. <<>> \in Seq(ItemType)
  OBVIOUS
<1>6. inbound' \in [Role -> Seq(ItemType)]
  BY <1>4, <1>5 DEF TypeOK
<1> QED
  BY <1>3, <1>4, <1>5, <1>6

LEMMA StepTyped == TypeOK /\ [Next]_vars => TypeOK'
<1> SUFFICES ASSUME TypeOK, [Next]_vars PROVE TypeOK'
  OBVIOUS
<1> USE DEF watcher, link
<1>1. CASE UNCHANGED vars
  BY <1>1 DEF TypeOK, vars
<1>2. ASSUME NEW c \in LocalContents, LocalCopy(c) PROVE TypeOK'
  <2>1. Copy("local") /\ "local" \in Side
    BY <1>2 DEF LocalCopy, Side
  <2>2. c \in Content /\ Fresh(c) \in BOOLEAN
    BY ClipboardAssumption, FreshIsBoolean
  <2>3. copies' \in [Side -> 0 .. MaxCopies] /\ Copies + 1 \in 0 .. MaxCopies
    BY <2>1, CopyTyped
  <2>4. clip' \in [what : Content, side : Side, n : 0 .. MaxCopies, fresh : BOOLEAN]
    BY <1>2, <2>1, <2>2, <2>3 DEF LocalCopy
  <2> QED
    BY <1>2, <2>3, <2>4 DEF LocalCopy, TypeOK
<1>3. ASSUME NEW i \in WindowsItems, WindowsCopy(i[1], i[2]) PROVE TypeOK'
  <2>1. Copy("windows") /\ "windows" \in Side
    BY <1>3 DEF WindowsCopy, Side
  <2>2. i[1] \in Kind /\ i[2] \in Value /\ 0 \in 0 .. MaxCopies
    BY ClipboardAssumption DEF Kind
  <2>3. told' \in ItemType
    BY <1>3, <2>1, <2>2, ItemIsTyped DEF WindowsCopy
  <2>4. inbound' \in [Role -> Seq(ItemType)]
    <3>1. ASSUME NEW r \in Role, inbound' = [inbound EXCEPT ![r] = Append(@, told')]
          PROVE  inbound' \in [Role -> Seq(ItemType)]
      BY <2>3, <3>1, AppendProperties DEF TypeOK
    <3> QED
      BY <1>3, <3>1 DEF WindowsCopy, Handling, TypeOK
  <2>5. copies' \in [Side -> 0 .. MaxCopies]
    BY <2>1, CopyTyped
  <2> QED
    BY <1>3, <2>3, <2>4, <2>5 DEF WindowsCopy, TypeOK
<1>4. ASSUME NEW k \in Kind, Poll(k) PROVE TypeOK'
  BY <1>4, PollTyped
<1>5. CASE Check
  <2>1. look.item \in ItemType
    BY <1>5 DEF Check, TypeOK
  <2>2. chan' \in Seq(ItemType)
    <3>1. chan' \in {chan, Append(chan, look.item)} /\ chan \in Seq(ItemType)
      BY <1>5 DEF Check, TypeOK
    <3> QED
      BY <2>1, <3>1, AppendProperties
  <2>3. lost' \subseteq 0 .. MaxCopies
    <3>1. <<look.item>> \in Seq(ItemType)
      BY <2>1
    <3> QED
      BY <1>5, <3>1, CopiesInTyped DEF Check, TypeOK
  <2>4. faults' \in 0 .. MaxFaults
    BY <1>5, ClipboardAssumption DEF Check, Fault, TypeOK
  <2> QED
    BY <1>5, <2>2, <2>3, <2>4 DEF Check, Looking, TypeOK, Kind
<1>6. CASE Connect
  BY <1>6 DEF Connect, TypeOK
<1>7. CASE Drain
  <2>1. chan # <<>> => chan[Len(chan)] \in ItemType
    BY DEF TypeOK
  <2>2. outbound' \in Seq(ItemType) /\ chan' \in Seq(ItemType)
    BY <1>7, <2>1, AppendProperties DEF Drain, TypeOK
  <2> QED
    BY <1>7, <2>2 DEF Drain, TypeOK
<1>8. CASE WriteFails
  <2>1. chan' \in Seq(ItemType) /\ faults' \in 0 .. MaxFaults
    BY <1>8, ClipboardAssumption DEF WriteFails, Fault, TypeOK
  <2> QED
    BY <1>8, <2>1, LostTyped DEF WriteFails, TypeOK
<1>9. CASE ReadFails
  <2>1. <<>> \in Seq(ItemType) /\ faults' \in 0 .. MaxFaults
    BY <1>9, ClipboardAssumption DEF ReadFails, Fault, TypeOK
  <2> QED
    BY <1>9, <2>1, LostTyped DEF ReadFails, TypeOK
<1>10. ASSUME NEW r \in Role, Apply(r) PROVE TypeOK'
  <2> DEFINE i == Head(inbound[r])
  <2>1. i \in ItemType /\ Tail(inbound[r]) \in Seq(ItemType)
    BY <1>10, HeadTailProperties DEF Apply, TypeOK
  <2>2. i.kind \in Kind /\ i.val \in Value /\ i.n \in 0 .. MaxCopies
    BY <2>1 DEF ItemType
  <2>3. clip' \in [what : Content, side : Side, n : 0 .. MaxCopies, fresh : BOOLEAN]
    <3>1. clip' = [what |-> Only(i.kind, i.val), side |-> "windows", n |-> i.n, fresh |-> FALSE]
      BY <1>10 DEF Apply
    <3>2. Only(i.kind, i.val) \in Content /\ "windows" \in Side
      BY <2>2, OnlyIsContent DEF Side
    <3> QED
      BY <2>2, <3>1, <3>2
  <2>4. inhand' \in [Role -> ItemType \cup {NoItem}] /\ inbound' \in [Role -> Seq(ItemType)]
    BY <1>10, <2>1 DEF Apply, TypeOK
  <2>5. crossed' \in BOOLEAN
    BY <1>10 DEF Apply
  <2> QED
    BY <1>10, <2>3, <2>4, <2>5 DEF Apply, TypeOK
<1>11. ASSUME NEW r \in Role, NotApplied(r) PROVE TypeOK'
  <2>1. Tail(inbound[r]) \in Seq(ItemType)
    BY <1>11, HeadTailProperties DEF NotApplied, TypeOK
  <2> QED
    BY <1>11, <2>1 DEF NotApplied, Loops, TypeOK
<1>12. ASSUME NEW r \in Role, Record(r) PROVE TypeOK'
  <2>1. inhand[r].kind \in Kind /\ inhand[r].val \in Value
    BY <1>12 DEF Record, TypeOK, ItemType
  <2>2. last_applied' \in Content
    BY <1>12, <2>1 DEF Record, TypeOK, Content
  <2>3. inhand' \in [Role -> ItemType \cup {NoItem}]
    BY <1>12 DEF Record, TypeOK
  <2> QED
    BY <1>12, <2>2, <2>3 DEF Record, Loops, TypeOK
<1>13. CASE RecvOther
  BY <1>13 DEF RecvOther, TypeOK
<1>14. CASE Deliver
  <2>1. Head(outbound) \in ItemType /\ Tail(outbound) \in Seq(ItemType)
    BY <1>14, HeadTailProperties DEF Deliver, TypeOK
  <2> QED
    BY <1>14, <2>1 DEF Deliver, TypeOK
<1> QED
  BY <1>1, <1>2, <1>3, <1>4, <1>5, <1>6, <1>7, <1>8, <1>9, <1>10, <1>11, <1>12, <1>13, <1>14
     DEF Next

-----------------------------------------------------------------------------
(* The order.  Along the way to Windows (heard of, written, queued, read    *)
(* and not yet checked) the local copies are in the order they were made,  *)
(* and none is newer than the clipboard's: so what is read next is not     *)
(* older than anything before it.                                          *)

Pending == look.at = "check"

Later(x, y) == x.side = "local" /\ y.side = "local" => x.n <= y.n

Sorted(s) == \A i, j \in 1 .. Len(s) : i < j => Later(s[i], s[j])

\* All of s is later than x; all of s is earlier than x.
AfterAll(s, x)  == \A i \in 1 .. Len(s) : Later(s[i], x)
BeforeAll(x, s) == \A i \in 1 .. Len(s) : Later(x, s[i])

WrittenOK ==
  /\ Sorted(outbound) /\ Sorted(chan)
  /\ \A j \in 1 .. Len(chan) : AfterAll(outbound, chan[j])
  /\ BeforeAll(told, outbound) /\ BeforeAll(told, chan)

PendingOK ==
  Pending => AfterAll(outbound, look.item) /\ AfterAll(chan, look.item) /\ Later(told, look.item)

\* x is of a copy already made, and not of one after the clipboard's.
Known(x) == x.side = "local" => x.n <= Copies /\ (clip.side = "local" => x.n <= clip.n)

KnownOK ==
  /\ clip.side = "local" => clip.n <= Copies
  /\ \A i \in 1 .. Len(outbound) : Known(outbound[i])
  /\ \A i \in 1 .. Len(chan) : Known(chan[i])
  /\ Known(told)
  /\ Pending => Known(look.item)

OrderOK == WrittenOK /\ PendingOK /\ KnownOK

\* The types the order needs: every item has a number, and so have the copies.
LEMMA ItemNumbers ==
  ASSUME TypeOK
  PROVE  /\ outbound \in Seq(ItemType) /\ chan \in Seq(ItemType)
         /\ \A i \in 1 .. Len(outbound) : outbound[i] \in ItemType /\ outbound[i].n \in Int
         /\ \A i \in 1 .. Len(chan) : chan[i] \in ItemType /\ chan[i].n \in Int
         /\ told.n \in Int /\ look.item.n \in Int /\ clip.n \in Int /\ Copies \in Int
<1>1. ItemType \cup {NoItem} \subseteq {i \in ItemType \cup {NoItem} : i.n \in Int}
  BY DEF ItemType, NoItem, Item
<1>2. outbound \in Seq(ItemType) /\ chan \in Seq(ItemType)
  BY DEF TypeOK
<1>3. told \in ItemType \cup {NoItem} /\ look.item \in ItemType \cup {NoItem}
  BY DEF TypeOK
<1>4. clip.n \in Int /\ Copies \in Int
  BY DEF TypeOK, Copies, Side
<1> QED
  BY <1>1, <1>2, <1>3, <1>4

LEMMA InitOrdered == Init => OrderOK
BY DEF Init, OrderOK, WrittenOK, PendingOK, KnownOK, Pending, Sorted, AfterAll, BeforeAll, Later,
       Known, Looking, NoItem, Item, Copies, Side

\* What the order is about, and the actions that leave it alone.
order == <<clip, told, look, chan, outbound, copies>>

LEMMA OrderUnchanged == ASSUME OrderOK, UNCHANGED order PROVE OrderOK'
BY DEF order, OrderOK, WrittenOK, PendingOK, KnownOK, Pending, Sorted, AfterAll, BeforeAll, Later,
       Known, Copies

\* A copy made now is later than all others.
LEMMA CopyOrdered ==
  ASSUME TypeOK, OrderOK, NEW side \in Side, Copy(side),
         UNCHANGED <<look, chan, outbound>>,
         \/ UNCHANGED told /\ clip'.side = "local" /\ clip'.n = Copies + 1
         \/ told'.side = "windows" /\ UNCHANGED clip
  PROVE  OrderOK'
<1>1. Copies' = Copies + 1
  BY DEF Copy, Copies, TypeOK, Side
<1>2. WrittenOK' /\ PendingOK'
  BY DEF OrderOK, WrittenOK, PendingOK, Pending, Sorted, AfterAll, BeforeAll, Later
<1>3. KnownOK'
  BY <1>1, ItemNumbers DEF OrderOK, KnownOK, Known, Pending
<1> QED
  BY <1>2, <1>3 DEF OrderOK

\* What is read is the clipboard's, and no copy known before is later.
LEMMA PollOrdered == ASSUME TypeOK, OrderOK, NEW k \in Kind, Poll(k) PROVE OrderOK'
<1>1. UNCHANGED <<clip, told, chan, outbound, copies>>
  BY DEF Poll, link
<1>2. Pending' => look'.item.side = clip.side /\ look'.item.n = clip.n
  BY DEF Poll, Pending, Looking, Item, After
<1>3. WrittenOK'
  BY <1>1 DEF OrderOK, WrittenOK, Sorted, AfterAll, BeforeAll, Later
<1>4. PendingOK'
  BY <1>1, <1>2, ItemNumbers DEF OrderOK, KnownOK, Known, PendingOK, AfterAll, Later
<1>5. KnownOK'
  BY <1>1, <1>2, ItemNumbers DEF OrderOK, KnownOK, Known, Pending, Copies
<1> QED
  BY <1>3, <1>4, <1>5 DEF OrderOK

LEMMA CheckOrdered == ASSUME TypeOK, OrderOK, Check PROVE OrderOK'
<1>1. UNCHANGED <<clip, told, outbound, copies>> /\ ~Pending' /\ Pending
  BY DEF Check, link, Pending, Looking
<1>2. PendingOK'
  BY <1>1 DEF PendingOK
<1>3. CASE UNCHANGED chan
  BY <1>1, <1>2, <1>3 DEF OrderOK, WrittenOK, KnownOK, Known, Sorted, AfterAll, BeforeAll, Later, Copies
<1>4. CASE chan' = Append(chan, look.item)
  <2>1. look.item \in ItemType
    BY <1>1 DEF Pending, TypeOK
  <2>2. /\ Len(chan') = Len(chan) + 1
        /\ \A i \in 1 .. Len(chan) : chan'[i] = chan[i]
        /\ chan'[Len(chan) + 1] = look.item
    BY <1>4, <2>1, ItemNumbers, AppendProperties
  <2>3. \A i \in 1 .. Len(chan') : i \in 1 .. Len(chan) \/ i = Len(chan) + 1
    BY <2>2, ItemNumbers
  <2>4. Sorted(chan')
    BY <1>1, <2>2, <2>3, ItemNumbers DEF OrderOK, WrittenOK, PendingOK, Sorted, AfterAll
  <2>5. \A j \in 1 .. Len(chan') : AfterAll(outbound, chan'[j])
    BY <1>1, <2>2, <2>3 DEF OrderOK, WrittenOK, PendingOK
  <2>6. BeforeAll(told, chan')
    BY <1>1, <2>2, <2>3 DEF OrderOK, WrittenOK, PendingOK, BeforeAll
  <2>7. \A i \in 1 .. Len(chan') : Known(chan'[i])
    BY <1>1, <2>2, <2>3 DEF OrderOK, KnownOK
  <2>8. WrittenOK'
    BY <1>1, <2>4, <2>5, <2>6 DEF OrderOK, WrittenOK, Sorted, AfterAll, BeforeAll, Later
  <2>9. KnownOK'
    BY <1>1, <2>7 DEF OrderOK, KnownOK, Known, Copies
  <2> QED
    BY <1>2, <2>8, <2>9 DEF OrderOK
<1> QED
  BY <1>3, <1>4 DEF Check

\* The last of the queue is later than all that was written before it.
LEMMA DrainOrdered == ASSUME TypeOK, OrderOK, Drain PROVE OrderOK'
<1>1. UNCHANGED <<clip, told, look, copies>> /\ chan' = <<>>
  BY DEF Drain, watcher
<1>2. CASE UNCHANGED outbound
  BY <1>1, <1>2 DEF OrderOK, WrittenOK, PendingOK, KnownOK, Known, Pending, Sorted, AfterAll, BeforeAll,
                    Later, Copies
<1>3. CASE chan # <<>> /\ outbound' = Append(outbound, chan[Len(chan)])
  <2> DEFINE last == chan[Len(chan)]
  <2>1. Len(chan) \in 1 .. Len(chan) /\ last \in ItemType
    BY <1>3, ItemNumbers
  <2>2. /\ Len(outbound') = Len(outbound) + 1
        /\ \A i \in 1 .. Len(outbound) : outbound'[i] = outbound[i]
        /\ outbound'[Len(outbound) + 1] = last
    BY <1>3, <2>1, ItemNumbers, AppendProperties
  <2>3. \A i \in 1 .. Len(outbound') : i \in 1 .. Len(outbound) \/ i = Len(outbound) + 1
    BY <2>2, ItemNumbers
  <2>4. /\ AfterAll(outbound, last) /\ Later(told, last) /\ Known(last)
        /\ Pending => Later(last, look.item)
    BY <2>1 DEF OrderOK, WrittenOK, PendingOK, KnownOK, AfterAll, BeforeAll
  <2> HIDE DEF last
  <2>5. Sorted(outbound')
    BY <2>2, <2>3, <2>4, ItemNumbers DEF OrderOK, WrittenOK, Sorted, AfterAll
  <2>6. BeforeAll(told, outbound')
    BY <2>2, <2>3, <2>4 DEF OrderOK, WrittenOK, BeforeAll
  <2>7. Pending => AfterAll(outbound', look.item)
    BY <2>2, <2>3, <2>4 DEF OrderOK, PendingOK, AfterAll
  <2>8. \A i \in 1 .. Len(outbound') : Known(outbound'[i])
    BY <2>2, <2>3, <2>4 DEF OrderOK, KnownOK
  <2>9. WrittenOK' /\ PendingOK'
    BY <1>1, <2>5, <2>6, <2>7 DEF OrderOK, WrittenOK, PendingOK, Pending, Sorted, AfterAll, BeforeAll, Later
  <2>10. KnownOK'
    BY <1>1, <2>8 DEF OrderOK, KnownOK, Known, Copies, Pending
  <2> QED
    BY <2>9, <2>10 DEF OrderOK
<1> QED
  BY <1>2, <1>3 DEF Drain

\* A connection that dies takes away what was written; the rest keeps its order.
LEMMA LossOrdered ==
  ASSUME OrderOK, outbound' = <<>>, chan' \in {<<>>, chan}, UNCHANGED <<clip, told, look, copies>>
  PROVE  OrderOK'
BY DEF OrderOK, WrittenOK, PendingOK, KnownOK, Known, Pending, Sorted, AfterAll, BeforeAll, Later, Copies

LEMMA DeliverOrdered == ASSUME TypeOK, OrderOK, Deliver PROVE OrderOK'
<1>1. UNCHANGED <<clip, look, chan, copies>> /\ outbound # <<>>
  BY DEF Deliver, watcher
<1>2. told' = outbound[1] /\ 1 \in 1 .. Len(outbound)
  BY <1>1, ItemNumbers DEF Deliver
<1>3. /\ Len(outbound') = Len(outbound) - 1
      /\ \A i \in 1 .. Len(outbound') : outbound'[i] = outbound[i + 1]
  BY <1>1, ItemNumbers, HeadTailProperties DEF Deliver
<1>4. \A i \in 1 .. Len(outbound') : i + 1 \in 1 .. Len(outbound) /\ 1 < i + 1
  BY <1>3, ItemNumbers
<1>5. Sorted(outbound') /\ BeforeAll(told', outbound')
  <2>1. ASSUME NEW i \in 1 .. Len(outbound'), NEW j \in 1 .. Len(outbound'), i < j
        PROVE  Later(outbound'[i], outbound'[j])
    <3>1. i + 1 < j + 1
      BY <2>1, <1>3, ItemNumbers
    <3> QED
      BY <3>1, <1>3, <1>4 DEF OrderOK, WrittenOK, Sorted
  <2>2. ASSUME NEW i \in 1 .. Len(outbound') PROVE Later(told', outbound'[i])
    BY <1>2, <1>3, <1>4 DEF OrderOK, WrittenOK, Sorted
  <2> QED
    BY <2>1, <2>2 DEF Sorted, BeforeAll
<1>6. (\A j \in 1 .. Len(chan) : AfterAll(outbound', chan[j])) /\ BeforeAll(told', chan)
  BY <1>2, <1>3, <1>4 DEF OrderOK, WrittenOK, AfterAll, BeforeAll
<1>7. Pending => AfterAll(outbound', look.item) /\ Later(told', look.item)
  BY <1>2, <1>3, <1>4 DEF OrderOK, PendingOK, AfterAll
<1>8. (\A i \in 1 .. Len(outbound') : Known(outbound'[i])) /\ Known(told')
  BY <1>2, <1>3, <1>4 DEF OrderOK, KnownOK
<1>9. WrittenOK' /\ PendingOK'
  BY <1>1, <1>5, <1>6, <1>7 DEF OrderOK, WrittenOK, PendingOK, Pending, Sorted, AfterAll, BeforeAll, Later
<1>10. KnownOK'
  BY <1>1, <1>8 DEF OrderOK, KnownOK, Known, Copies, Pending
<1> QED
  BY <1>9, <1>10 DEF OrderOK

\* What Windows copied shows: no local copy is known to be later than it.
LEMMA ApplyOrdered == ASSUME OrderOK, NEW r \in Role, Apply(r) PROVE OrderOK'
BY DEF Apply, watcher, OrderOK, WrittenOK, PendingOK, KnownOK, Known, Pending, Sorted, AfterAll, BeforeAll,
       Later, Copies

LEMMA StepOrdered == TypeOK /\ OrderOK /\ [Next]_vars => OrderOK'
<1> SUFFICES ASSUME TypeOK, OrderOK, [Next]_vars PROVE OrderOK'
  OBVIOUS
<1>1. CASE UNCHANGED vars
  BY <1>1, OrderUnchanged DEF vars, order
<1>2. ASSUME NEW c \in LocalContents, LocalCopy(c) PROVE OrderOK'
  <2>1. Copy("local") /\ "local" \in Side /\ UNCHANGED <<told, look, chan, outbound>>
    BY <1>2 DEF LocalCopy, Side, watcher, link
  <2>2. clip'.side = "local" /\ clip'.n = Copies + 1
    BY <1>2 DEF LocalCopy
  <2> QED
    BY <2>1, <2>2, CopyOrdered
<1>3. ASSUME NEW i \in WindowsItems, WindowsCopy(i[1], i[2]) PROVE OrderOK'
  <2>1. Copy("windows") /\ "windows" \in Side /\ UNCHANGED <<clip, look, chan, outbound>>
    BY <1>3 DEF WindowsCopy, Side, watcher
  <2>2. told'.side = "windows"
    BY <1>3 DEF WindowsCopy, Item
  <2> QED
    BY <2>1, <2>2, CopyOrdered
<1>4. ASSUME NEW k \in Kind, Poll(k) PROVE OrderOK'
  BY <1>4, PollOrdered
<1>5. CASE Check
  BY <1>5, CheckOrdered
<1>6. CASE Connect \/ RecvOther
  BY <1>6, OrderUnchanged DEF Connect, RecvOther, order, watcher
<1>7. CASE Drain
  BY <1>7, DrainOrdered
<1>8. CASE WriteFails
  BY <1>8, LossOrdered DEF WriteFails, Lost, watcher
<1>9. CASE ReadFails
  BY <1>9, LossOrdered DEF ReadFails, Lost, watcher
<1>10. ASSUME NEW r \in Role, Apply(r) PROVE OrderOK'
  BY <1>10, ApplyOrdered
<1>11. ASSUME NEW r \in Role, NotApplied(r) \/ Record(r) PROVE OrderOK'
  BY <1>11, OrderUnchanged DEF NotApplied, Record, order, watcher
<1>12. CASE Deliver
  BY <1>12, DeliverOrdered
<1> QED
  BY <1>1, <1>2, <1>3, <1>4, <1>5, <1>6, <1>7, <1>8, <1>9, <1>10, <1>11, <1>12 DEF Next

\* The order is that of what is on its way, seen as one sequence.
LEMMA OrderIsLocalOrder == TypeOK /\ OrderOK => LocalOrder
<1> SUFFICES ASSUME TypeOK, OrderOK PROVE LocalOrder
  OBVIOUS
<1> DEFINE read == IF Pending THEN <<look.item>> ELSE <<>>
           written == outbound \o chan
<1>1. /\ read \in Seq(ItemType) /\ Len(read) = IF Pending THEN 1 ELSE 0
      /\ \A i \in 1 .. Len(read) : Pending /\ i = 1 /\ read[i] = look.item
  BY DEF TypeOK, Pending
<1>2. /\ written \in Seq(ItemType) /\ Len(written) = Len(outbound) + Len(chan)
      /\ \A i \in 1 .. Len(outbound) + Len(chan) :
           written[i] = IF i <= Len(outbound) THEN outbound[i] ELSE chan[i - Len(outbound)]
  BY ItemNumbers, ConcatProperties
<1>3. OnTheWay = written \o read
  BY DEF OnTheWay, Pending
<1> HIDE DEF read, written
<1>4. /\ Len(OnTheWay) = Len(written) + Len(read)
      /\ \A i \in 1 .. Len(written) + Len(read) :
           OnTheWay[i] = IF i <= Len(written) THEN written[i] ELSE read[i - Len(written)]
  <2>1. /\ Len(written \o read) = Len(written) + Len(read)
        /\ \A i \in 1 .. Len(written) + Len(read) :
             (written \o read)[i] = IF i <= Len(written) THEN written[i] ELSE read[i - Len(written)]
    <3>1. read \in Seq(ItemType) /\ written \in Seq(ItemType)
      BY <1>1, <1>2
    <3> QED
      BY <3>1, ConcatProperties
  <2> QED
    BY <1>3, <2>1, Zenon
<1>5. ASSUME NEW i \in 1 .. Len(written)
      PROVE  \/ i \in 1 .. Len(outbound) /\ written[i] = outbound[i]
             \/ i - Len(outbound) \in 1 .. Len(chan) /\ written[i] = chan[i - Len(outbound)]
  <2>1. Len(outbound) \in Nat /\ Len(chan) \in Nat
    BY ItemNumbers
  <2>2. CASE i <= Len(outbound)
    BY <1>2, <2>1, <2>2
  <2>3. CASE ~(i <= Len(outbound))
    <3>1. i - Len(outbound) \in 1 .. Len(chan)
      BY <1>2, <2>1, <2>3
    <3> QED
      BY <1>2, <2>3, <3>1
  <2> QED
    BY <2>2, <2>3
<1>6. Sorted(written) /\ BeforeAll(told, written)
  <2>1. BeforeAll(told, written)
    BY <1>5 DEF OrderOK, WrittenOK, BeforeAll
  <2>2. ASSUME NEW i \in 1 .. Len(written), NEW j \in 1 .. Len(written), i < j
        PROVE  Later(written[i], written[j])
    <3>1. CASE j \in 1 .. Len(outbound)
      <4>1. i \in 1 .. Len(outbound)
        BY <2>2, <3>1, ItemNumbers
      <4>2. written[i] = outbound[i] /\ written[j] = outbound[j]
        BY <1>2, <3>1, <4>1, ItemNumbers
      <4> QED
        BY <2>2, <3>1, <4>1, <4>2 DEF OrderOK, WrittenOK, Sorted
    <3>2. CASE i \in 1 .. Len(outbound) /\ j \notin 1 .. Len(outbound)
      <4>1. written[i] = outbound[i]
        BY <1>2, <3>2, ItemNumbers
      <4>2. j - Len(outbound) \in 1 .. Len(chan) /\ written[j] = chan[j - Len(outbound)]
        BY <1>5, <3>2
      <4>3. \A k \in 1 .. Len(chan) : Later(outbound[i], chan[k])
        BY <3>2 DEF OrderOK, WrittenOK, AfterAll
      <4> QED
        BY <4>1, <4>2, <4>3
    <3>3. CASE i \notin 1 .. Len(outbound)
      <4>1. i > Len(outbound) /\ j > Len(outbound) /\ i - Len(outbound) < j - Len(outbound)
        BY <1>2, <2>2, <3>3, ItemNumbers
      <4>2. /\ i - Len(outbound) \in 1 .. Len(chan) /\ written[i] = chan[i - Len(outbound)]
            /\ j - Len(outbound) \in 1 .. Len(chan) /\ written[j] = chan[j - Len(outbound)]
        BY <1>5, <4>1, ItemNumbers
      <4> QED
        BY <4>1, <4>2 DEF OrderOK, WrittenOK, Sorted
    <3> QED
      BY <3>1, <3>2, <3>3
  <2> QED
    BY <2>1, <2>2 DEF Sorted
<1>7. ASSUME Pending PROVE AfterAll(written, look.item) /\ Later(told, look.item)
  <2>1. AfterAll(outbound, look.item) /\ AfterAll(chan, look.item) /\ Later(told, look.item)
    BY <1>7 DEF OrderOK, PendingOK
  <2> QED
    BY <1>5, <2>1 DEF AfterAll
<1>8. ASSUME NEW i \in 1 .. Len(OnTheWay)
      PROVE  \/ i \in 1 .. Len(written) /\ OnTheWay[i] = written[i]
             \/ Pending /\ i = Len(written) + 1 /\ OnTheWay[i] = look.item
  <2>1. Len(written) \in Nat /\ Len(read) \in {0, 1}
    BY <1>1, <1>2
  <2>2. CASE i <= Len(written)
    BY <1>4, <2>1, <2>2
  <2>3. CASE i > Len(written)
    <3>1. i = Len(written) + 1 /\ i - Len(written) = 1 /\ Len(read) = 1
      BY <1>4, <2>1, <2>3
    <3> QED
      BY <1>1, <1>4, <2>1, <3>1
  <2> QED
    BY <2>1, <2>2, <2>3, <1>4
<1>9. \A i, j \in 1 .. Len(OnTheWay) : i < j => Later(OnTheWay[i], OnTheWay[j])
  <2> SUFFICES ASSUME NEW i \in 1 .. Len(OnTheWay), NEW j \in 1 .. Len(OnTheWay), i < j
               PROVE  Later(OnTheWay[i], OnTheWay[j])
    OBVIOUS
  <2>1. i \in 1 .. Len(written) /\ OnTheWay[i] = written[i]
    <3>1. Len(written) \in Nat /\ j <= Len(written) + 1
      BY <1>2, <1>8
    <3> QED
      BY <1>8, <3>1
  <2> QED
    BY <1>6, <1>7, <1>8, <2>1 DEF Sorted, AfterAll
<1>10. \A i \in 1 .. Len(OnTheWay) : Later(told, OnTheWay[i])
  BY <1>6, <1>7, <1>8 DEF BeforeAll
<1> QED
  BY <1>9, <1>10 DEF LocalOrder, Later

-----------------------------------------------------------------------------
(* The echo guard.                                                         *)

Holds(r, k) == inhand[r] # NoItem /\ inhand[r].kind = k

\* Until the sessions cross, whoever put what is shown on the clipboard has it
\* in hand or has recorded it, and no other item of its kind is in hand.
EchoOK ==
  clip.side = "windows" /\ ~crossed =>
    \A k \in Kind : clip.what[k] # Nothing =>
      /\ \A r \in Role : Holds(r, k) => inhand[r].val = clip.what[k]
      /\ last_applied[k] = clip.what[k] \/ \E r \in Role : Holds(r, k)

LEMMA EchoUnchanged ==
  ASSUME EchoOK, UNCHANGED <<clip, last_applied, inhand, crossed>> PROVE EchoOK'
BY DEF EchoOK, Holds

LEMMA ApplyArms == ASSUME TypeOK, NEW r \in Role, Apply(r) PROVE EchoOK'
<1> DEFINE i == Head(inbound[r])
<1>1. i \in ItemType
  BY HeadTailProperties DEF Apply, TypeOK
<1>2. i.kind \in Kind /\ i.val \in Value /\ i # NoItem
  BY <1>1, ItemIsNotNoItem DEF ItemType
<1>3. /\ clip'.what = Only(i.kind, i.val)
      /\ inhand' = [inhand EXCEPT ![r] = i]
      /\ crossed' = \E o \in Role \ {r} : inhand[o].val # Nothing /\ inhand[o].kind = i.kind
  BY DEF Apply
<1> HIDE DEF i
<1> SUFFICES ASSUME ~crossed', NEW k \in Kind, clip'.what[k] # Nothing
             PROVE  /\ \A o \in Role : Holds(o, k)' => inhand'[o].val = clip'.what[k]
                    /\ \E o \in Role : Holds(o, k)'
  BY DEF EchoOK
<1>4. k = i.kind /\ clip'.what[k] = i.val
  BY <1>2, <1>3, OnlyIsContent
<1>5. inhand'[r] = i
  BY <1>3 DEF TypeOK
<1>6. ASSUME NEW o \in Role \ {r} PROVE ~Holds(o, k)'
  <2>1. inhand'[o] = inhand[o] /\ inhand[o] \in ItemType \cup {NoItem}
    BY <1>3 DEF TypeOK
  <2>2. inhand[o].val = Nothing \/ inhand[o].kind # k
    BY <1>3, <1>4
  <2> QED
    BY <2>1, <2>2, ItemIsNotNoItem DEF Holds
<1> QED
  BY <1>2, <1>4, <1>5, <1>6 DEF Holds

LEMMA RecordArms == ASSUME TypeOK, EchoOK, NEW r \in Role, Record(r) PROVE EchoOK'
<1> DEFINE i == inhand[r]
<1>1. i \in ItemType /\ i # NoItem /\ i.kind \in Kind
  BY DEF Record, TypeOK, ItemType
<1>2. /\ last_applied' = [last_applied EXCEPT ![i.kind] = i.val]
      /\ inhand' = [inhand EXCEPT ![r] = NoItem]
      /\ UNCHANGED <<clip, crossed>>
  BY DEF Record
<1>3. \A o \in Role : inhand'[o] = IF o = r THEN NoItem ELSE inhand[o]
  BY <1>2 DEF TypeOK
<1>4. \A k \in Kind : last_applied'[k] = IF k = i.kind THEN i.val ELSE last_applied[k]
  BY <1>1, <1>2 DEF TypeOK, Content
<1> SUFFICES ASSUME clip.side = "windows", ~crossed, NEW k \in Kind, clip.what[k] # Nothing
             PROVE  /\ \A o \in Role : Holds(o, k)' => inhand'[o].val = clip.what[k]
                    /\ last_applied'[k] = clip.what[k] \/ \E o \in Role : Holds(o, k)'
  BY <1>2 DEF EchoOK
<1>5. /\ \A o \in Role : Holds(o, k) => inhand[o].val = clip.what[k]
      /\ last_applied[k] = clip.what[k] \/ \E o \in Role : Holds(o, k)
  BY DEF EchoOK
<1>6. \A o \in Role : Holds(o, k)' <=> o # r /\ Holds(o, k)
  BY <1>3 DEF Holds
<1>7. \A o \in Role : Holds(o, k)' => inhand'[o].val = clip.what[k]
  BY <1>3, <1>5, <1>6
<1>8. CASE k = i.kind
  BY <1>1, <1>4, <1>5, <1>7, <1>8 DEF Holds
<1>9. CASE k # i.kind
  <2>1. ~Holds(r, k)
    BY <1>9 DEF Holds
  <2> QED
    BY <1>4, <1>5, <1>6, <1>7, <1>9, <2>1
<1> QED
  BY <1>8, <1>9

LEMMA StepArmed == TypeOK /\ EchoOK /\ [Next]_vars => EchoOK'
<1> SUFFICES ASSUME TypeOK, EchoOK, [Next]_vars PROVE EchoOK'
  OBVIOUS
<1>1. CASE UNCHANGED vars
  BY <1>1, EchoUnchanged DEF vars
<1>2. ASSUME NEW c \in LocalContents, LocalCopy(c) PROVE EchoOK'
  <2>1. clip'.side = "local"
    BY <1>2 DEF LocalCopy
  <2> QED
    BY <2>1 DEF EchoOK
<1>3. ASSUME NEW i \in WindowsItems, WindowsCopy(i[1], i[2]) PROVE EchoOK'
  BY <1>3, EchoUnchanged DEF WindowsCopy
<1>4. CASE (\E k \in Kind : Poll(k)) \/ Check
  BY <1>4, EchoUnchanged DEF Poll, Check, link
<1>5. CASE Connect \/ Drain \/ WriteFails \/ ReadFails \/ RecvOther \/ Deliver
  BY <1>5, EchoUnchanged DEF Connect, Drain, WriteFails, ReadFails, RecvOther, Deliver
<1>6. ASSUME NEW r \in Role, Apply(r) PROVE EchoOK'
  BY <1>6, ApplyArms
<1>7. ASSUME NEW r \in Role, NotApplied(r) PROVE EchoOK'
  BY <1>7, EchoUnchanged DEF NotApplied
<1>8. ASSUME NEW r \in Role, Record(r) PROVE EchoOK'
  BY <1>8, RecordArms
<1> QED
  BY <1>1, <1>2, <1>3, <1>4, <1>5, <1>6, <1>7, <1>8 DEF Next

-----------------------------------------------------------------------------
(* The copy made last.  While it is the clipboard's, nothing puts its value  *)
(* into last_applied, so that the watcher takes it for no echo; and when it  *)
(* has seen it, it reads none of the kinds that come after, so that nothing  *)
(* else gets behind it.                                                      *)

\* What the clipboard has for Windows.
Key    == FirstKind(clip.what)
Newest == Item(Key, clip.what[Key], "local", clip.n)

\* Of the kinds, those read after k.
Below(k) == CASE k = "file" -> {"image", "text"} [] k = "image" -> {"text"} [] OTHER -> {}

\* LastHeard, without the one sequence.
Behind ==
  IF Pending THEN look.item
  ELSE IF chan # <<>> THEN chan[Len(chan)]
  ELSE IF outbound # <<>> THEN outbound[Len(outbound)] ELSE told

Current == clip.side = "local" /\ clip.n = Copies /\ clip.fresh

Unmistaken ==
  /\ clip.what[Key] \notin {Nothing, last_applied[Key]}
  /\ \A r \in Role : <<inhand[r].kind, inhand[r].val>> # <<Key, clip.what[Key]>>

Seen == last_seen[Key] = clip.what[Key] /\ clip.n \notin lost /\ ~Skipped(Key)

NewestOK ==
  Current => Unmistaken /\ (Seen => Behind = Newest /\ look.at \notin Below(Key))

\* What is read before the kind that Windows should hear of is not there.
LEMMA FirstKindIsFirst ==
  ASSUME NEW what
  PROVE  /\ FirstKind(what) \in Kind
         /\ \A l \in Kind : l = FirstKind(what) \/ l \in Below(FirstKind(what)) \/ what[l] = Nothing
BY DEF FirstKind, Kind, Below

LEMMA HasCopy ==
  ASSUME NEW s \in Seq(ItemType), NEW i \in 1 .. Len(s), s[i].side = "local"
  PROVE  s[i].n \in CopiesIn(s)
BY DEF CopiesIn

LEMMA NewestUnchanged ==
  ASSUME NewestOK, UNCHANGED <<os, clip, last_seen, last_applied, inhand, copies>>, lost \subseteq lost',
         Current /\ Seen /\ clip.n \notin lost' =>
           (Behind = Newest => Behind' = Newest) /\ (look.at \notin Below(Key) => look'.at \notin Below(Key))
  PROVE  NewestOK'
<1>1. Current' = Current /\ Key' = Key /\ Newest' = Newest /\ (Unmistaken <=> Unmistaken')
  BY DEF Current, Copies, Key, Newest, Unmistaken
<1>2. Seen' => Seen /\ clip.n \notin lost'
  BY <1>1 DEF Seen, Skipped
<1> QED
  BY <1>1, <1>2 DEF NewestOK

\* The watcher finds the newest copy, or passes over kinds that are not there.
LEMMA PollNewest == ASSUME TypeOK, NewestOK, NEW k \in Kind, Poll(k) PROVE NewestOK'
<1>1. /\ UNCHANGED <<os, clip, told, last_applied, chan, outbound, inhand, lost, copies>>
      /\ look.at = k /\ ~Pending
  BY DEF Poll, link, Pending, Kind
<1>2. /\ Key' = Key /\ Newest' = Newest /\ (Current <=> Current') /\ (Unmistaken <=> Unmistaken')
      /\ Key \in Kind
  BY <1>1, FirstKindIsFirst DEF Current, Copies, Key, Newest, Unmistaken
<1> SUFFICES ASSUME Current, Seen', Unmistaken PROVE Behind' = Newest /\ look'.at \notin Below(Key)
  BY <1>2 DEF NewestOK
<1>3. CASE Seen
  <2>1. k \notin Below(Key) /\ Behind = Newest
    BY <1>1, <1>3 DEF NewestOK
  <2>2. k = Key \/ clip.what[k] = Nothing
    BY <2>1, FirstKindIsFirst DEF Key
  <2>3. UNCHANGED last_seen /\ ~Pending' /\ look'.at \notin Below(Key)
    <3>1. CASE k = Key
      <4>1. look' = Looking("file", NoItem) /\ UNCHANGED last_seen
        BY <1>3, <3>1 DEF Poll, Seen, Unmistaken
      <4> QED
        BY <4>1, <1>2 DEF Looking, Pending, Below, Kind
    <3>2. CASE k # Key
      <4>1. look' = Looking(After(k), NoItem) /\ UNCHANGED last_seen
        BY <2>2, <3>2 DEF Poll
      <4> QED
        BY <1>2, <2>1, <3>2, <4>1 DEF Looking, Pending, After, Below, Kind
    <3> QED
      BY <3>1, <3>2
  <2> QED
    BY <1>1, <2>1, <2>3 DEF Behind
<1>4. CASE ~Seen
  <2>1. last_seen[Key] # clip.what[Key] /\ last_seen'[Key] = clip.what[Key]
    BY <1>1, <1>2, <1>4 DEF Seen, Skipped
  <2>2. k = Key /\ look' = Looking("check", Item(k, clip.what[k], clip.side, clip.n))
    <3>1. last_seen' # last_seen
      BY <2>1
    <3>2. /\ last_seen' = [last_seen EXCEPT ![k] = clip.what[k]]
          /\ look' = Looking("check", Item(k, clip.what[k], clip.side, clip.n))
      BY <3>1 DEF Poll
    <3> QED
      BY <1>2, <2>1, <3>2 DEF TypeOK, Content
  <2>3. Pending' /\ look'.item = Newest /\ look'.at = "check"
    BY <2>2 DEF Looking, Pending, Newest, Current
  <2> QED
    BY <1>2, <2>3 DEF Behind, Below, Kind
<1> QED
  BY <1>3, <1>4

\* The newest copy is no echo: it is queued, or lost.
LEMMA CheckNewest == ASSUME TypeOK, NewestOK, Check PROVE NewestOK'
<1>1. /\ UNCHANGED <<os, clip, told, last_seen, last_applied, outbound, inhand, copies>>
      /\ Pending /\ look'.at = "file" /\ look.item \in ItemType /\ chan \in Seq(ItemType)
  BY DEF Check, link, Pending, Looking, TypeOK
<1>2. lost \subseteq lost'
  BY DEF Check
<1>3. "file" \notin Below(Key)
  BY DEF Below
<1>4. ASSUME Current, Seen, clip.n \notin lost', Behind = Newest PROVE Behind' = Newest
  <2>1. look.item = Newest /\ look.item.kind = Key /\ look.item.val = clip.what[Key]
        /\ look.item.side = "local" /\ look.item.n = clip.n
    BY <1>1, <1>4 DEF Behind, Newest, Item
  <2>2. last_applied[look.item.kind] # look.item.val
    BY <1>4, <2>1 DEF NewestOK, Unmistaken
  <2>3. ~(lost' = lost \cup CopiesIn(<<look.item>>))
    <3>1. <<look.item>> \in Seq(ItemType) /\ 1 \in 1 .. Len(<<look.item>>) /\ <<look.item>>[1] = look.item
      BY <1>1
    <3>2. look.item.n \in CopiesIn(<<look.item>>)
      BY <2>1, <3>1, HasCopy
    <3> QED
      BY <1>4, <2>1, <3>2
  <2>4. chan' = Append(chan, look.item)
    BY <2>2, <2>3 DEF Check
  <2>5. chan' # <<>> /\ chan'[Len(chan')] = look.item
    BY <1>1, <2>4, AppendProperties
  <2> QED
    BY <1>1, <2>1, <2>5 DEF Behind, Pending
<1> QED
  BY <1>1, <1>2, <1>3, <1>4, NewestUnchanged

\* The last of the queue is written last.
LEMMA DrainNewest == ASSUME TypeOK, NewestOK, Drain PROVE NewestOK'
<1>1. UNCHANGED <<os, clip, told, look, last_seen, last_applied, inhand, lost, copies>> /\ chan' = <<>>
  BY DEF Drain, watcher
<1>2. chan \in Seq(ItemType) /\ outbound \in Seq(ItemType)
  BY DEF TypeOK
<1>3. Behind' = Behind
  <2>1. CASE chan = <<>>
    BY <1>1, <2>1 DEF Drain, Behind, Pending
  <2>2. CASE chan # <<>>
    <3>1. outbound' = Append(outbound, chan[Len(chan)]) /\ chan[Len(chan)] \in ItemType
      BY <1>2, <2>2 DEF Drain
    <3>2. outbound' # <<>> /\ outbound'[Len(outbound')] = chan[Len(chan)]
      BY <1>2, <3>1, AppendProperties
    <3> QED
      BY <1>1, <2>2, <3>2 DEF Behind, Pending
  <2> QED
    BY <2>1, <2>2
<1> QED
  BY <1>1, <1>3, NewestUnchanged

\* What a dying connection takes is lost.
LEMMA LossNewest == ASSUME TypeOK, NewestOK, WriteFails \/ ReadFails PROVE NewestOK'
<1>1. /\ UNCHANGED <<os, clip, told, look, last_seen, last_applied, inhand, copies>>
      /\ outbound' = <<>> /\ lost \subseteq lost'
  BY DEF WriteFails, ReadFails, Lost, watcher
<1>2. chan \in Seq(ItemType) /\ outbound \in Seq(ItemType)
  BY DEF TypeOK
<1>3. ASSUME Current, clip.n \notin lost', Behind = Newest PROVE Behind' = Newest
  <2>1. Newest.side = "local" /\ Newest.n = clip.n
    BY DEF Newest, Item
  <2>2. CASE Pending
    BY <1>1, <1>3, <2>2 DEF Behind, Pending
  <2>3. CASE ~Pending /\ WriteFails
    <3>1. chan # <<>> /\ chan[Len(chan)] = Newest
      BY <1>3, <2>3 DEF WriteFails, Behind
    <3>2. LET s == outbound \o chan
          IN  s \in Seq(ItemType) /\ Len(s) \in 1 .. Len(s) /\ s[Len(s)] = chan[Len(chan)]
      BY <1>2, <3>1, ConcatProperties
    <3>3. Newest.n \in CopiesIn(outbound \o chan)
      BY <2>1, <3>1, <3>2, HasCopy
    <3> QED
      BY <1>3, <2>1, <2>3, <3>3 DEF WriteFails, Lost
  <2>4. CASE ~Pending /\ ReadFails
    <3>1. chan' = chan /\ lost' = lost \cup CopiesIn(outbound \o <<>>) /\ outbound \o <<>> = outbound
      BY <1>2, <2>4 DEF ReadFails, Lost
    <3>2. CASE chan # <<>>
      BY <1>1, <1>3, <2>4, <3>1, <3>2 DEF Behind, Pending
    <3>3. CASE chan = <<>> /\ outbound # <<>>
      <4>1. Len(outbound) \in 1 .. Len(outbound) /\ outbound[Len(outbound)] = Newest
        BY <1>2, <1>3, <2>4, <3>3 DEF Behind
      <4>2. Newest.n \in CopiesIn(outbound)
        BY <1>2, <2>1, <4>1, HasCopy
      <4> QED
        BY <1>3, <2>1, <3>1, <4>2
    <3>4. CASE chan = <<>> /\ outbound = <<>>
      BY <1>1, <1>3, <2>4, <3>1, <3>4 DEF Behind, Pending
    <3> QED
      BY <3>2, <3>3, <3>4
  <2> QED
    BY <2>2, <2>3, <2>4
<1> QED
  BY <1>1, <1>3, NewestUnchanged

LEMMA DeliverNewest == ASSUME TypeOK, NewestOK, Deliver PROVE NewestOK'
<1>1. /\ UNCHANGED <<os, clip, look, last_seen, last_applied, chan, inhand, lost, copies>>
      /\ outbound # <<>> /\ told' = Head(outbound) /\ outbound' = Tail(outbound)
      /\ outbound \in Seq(ItemType)
  BY DEF Deliver, watcher, TypeOK
<1>2. Behind' = Behind
  <2>1. /\ Len(outbound') = Len(outbound) - 1 /\ told' = outbound[1]
        /\ \A i \in 1 .. Len(outbound') : outbound'[i] = outbound[i + 1]
        /\ Len(outbound) \in Nat /\ Len(outbound) # 0 /\ outbound' \in Seq(ItemType)
    BY <1>1, HeadTailProperties
  <2>2. CASE outbound' = <<>>
    BY <1>1, <2>1, <2>2 DEF Behind, Pending
  <2>3. CASE outbound' # <<>>
    <3>1. Len(outbound') \in 1 .. Len(outbound')
      BY <2>1, <2>3
    <3>2. outbound'[Len(outbound')] = outbound[Len(outbound)]
      BY <2>1, <3>1
    <3> QED
      BY <1>1, <2>3, <3>2 DEF Behind, Pending
  <2> QED
    BY <2>2, <2>3
<1> QED
  BY <1>1, <1>2, NewestUnchanged

\* What is recorded is not the newest copy's.
LEMMA RecordNewest == ASSUME TypeOK, NewestOK, NEW r \in Role, Record(r) PROVE NewestOK'
<1>1. /\ UNCHANGED <<os, clip, told, look, last_seen, chan, outbound, lost, copies>>
      /\ last_applied' = [last_applied EXCEPT ![inhand[r].kind] = inhand[r].val]
      /\ inhand' = [inhand EXCEPT ![r] = NoItem]
  BY DEF Record, watcher
<1>2. /\ Key' = Key /\ Newest' = Newest /\ Behind' = Behind
      /\ (Current <=> Current') /\ (Seen <=> Seen') /\ Key \in Kind
  BY <1>1, FirstKindIsFirst DEF Current, Copies, Key, Newest, Behind, Pending, Seen, Skipped
<1>3. ASSUME Unmistaken PROVE Unmistaken'
  <2>1. last_applied'[Key] # clip.what[Key]
    BY <1>1, <1>2, <1>3 DEF Unmistaken, TypeOK, Content
  <2>2. \A o \in Role : inhand'[o] = IF o = r THEN NoItem ELSE inhand[o]
    BY <1>1 DEF TypeOK
  <2>3. NoItem.val = Nothing /\ clip.what[Key] # Nothing
    BY <1>3 DEF Unmistaken, NoItem, Item
  <2> QED
    BY <1>1, <1>2, <1>3, <2>1, <2>2, <2>3 DEF Unmistaken
<1> QED
  BY <1>1, <1>2, <1>3 DEF NewestOK

LEMMA StepNewest == TypeOK /\ OrderOK /\ NewestOK /\ [Next]_vars => NewestOK'
<1> SUFFICES ASSUME TypeOK, OrderOK, NewestOK, [Next]_vars PROVE NewestOK'
  OBVIOUS
<1>1. CASE UNCHANGED <<os, clip, told, last_seen, last_applied, look, chan, outbound, inhand, lost, copies>>
  BY <1>1 DEF NewestOK, Current, Copies, Key, Newest, Behind, Pending, Unmistaken, Seen, Skipped
<1>2. ASSUME NEW c \in LocalContents, LocalCopy(c) PROVE NewestOK'
  <2>1. clip'.what = c /\ clip'.fresh = Fresh(c) /\ UNCHANGED <<last_seen, last_applied, inhand>>
    BY <1>2 DEF LocalCopy, watcher, link
  <2> QED
    BY <2>1 DEF NewestOK, Current, Unmistaken, Seen, Key, Fresh
<1>3. ASSUME NEW i \in WindowsItems, WindowsCopy(i[1], i[2]) PROVE NewestOK'
  <2>1. Copy("windows") /\ UNCHANGED clip
    BY <1>3 DEF WindowsCopy
  <2>2. Copies' = Copies + 1
    BY <2>1 DEF Copy, Copies, TypeOK, Side
  <2>3. clip.side = "local" => clip.n <= Copies
    BY DEF OrderOK, KnownOK
  <2> QED
    BY <2>1, <2>2, <2>3, ItemNumbers DEF NewestOK, Current
<1>4. ASSUME NEW k \in Kind, Poll(k) PROVE NewestOK'
  BY <1>4, PollNewest
<1>5. ASSUME NEW r \in Role, Apply(r) PROVE NewestOK'
  BY <1>5 DEF Apply, NewestOK, Current
<1>6. ASSUME NEW r \in Role, Record(r) PROVE NewestOK'
  BY <1>6, RecordNewest
<1>7. CASE UNCHANGED vars \/ Connect \/ RecvOther \/ \E r \in Role : NotApplied(r)
  BY <1>1, <1>7 DEF vars, Connect, RecvOther, NotApplied, watcher
<1> QED
  BY <1>2, <1>3, <1>4, <1>5, <1>6, <1>7, CheckNewest, DrainNewest, LossNewest, DeliverNewest DEF Next

\* Behind is the end of what is on its way.
LEMMA BehindIsLastHeard == TypeOK => LastHeard = Behind
<1> SUFFICES ASSUME TypeOK PROVE LastHeard = Behind
  OBVIOUS
<1> DEFINE read == IF Pending THEN <<look.item>> ELSE <<>>
           written == outbound \o chan
<1>1. outbound \in Seq(ItemType) /\ chan \in Seq(ItemType) /\ (Pending => look.item \in ItemType)
  BY DEF TypeOK, Pending
<1>2. /\ written \in Seq(ItemType)
      /\ written = <<>> <=> outbound = <<>> /\ chan = <<>>
      /\ chan # <<>> => written[Len(written)] = chan[Len(chan)]
      /\ chan = <<>> => written = outbound
  BY <1>1, ConcatProperties
<1>3. OnTheWay = written \o read
  BY DEF OnTheWay, Pending
<1> HIDE DEF written
<1>4. CASE Pending
  <2>1. OnTheWay = Append(written, look.item)
    BY <1>1, <1>2, <1>3, <1>4
  <2>2. OnTheWay # <<>> /\ OnTheWay[Len(OnTheWay)] = look.item
    BY <1>1, <1>2, <1>4, <2>1, AppendProperties
  <2> QED
    BY <1>4, <2>2 DEF LastHeard, Behind
<1>5. CASE ~Pending
  <2>1. OnTheWay = written
    BY <1>2, <1>3, <1>5
  <2> QED
    BY <1>2, <1>5, <2>1 DEF LastHeard, Behind
<1> QED
  BY <1>4, <1>5

-----------------------------------------------------------------------------
(* The theorems.                                                           *)

ClipInv == TypeOK /\ OrderOK /\ EchoOK /\ NewestOK

\* The four parts hold together in every reachable state.
THEOREM ClipInvariant == Spec => []ClipInv
<1>1. Init => ClipInv
  <2>1. Init => EchoOK
    BY DEF Init, EchoOK
  <2>2. Init => NewestOK
    BY DEF Init, NewestOK, Current
  <2> QED
    BY <2>1, <2>2, InitTyped, InitOrdered DEF ClipInv
<1>2. ClipInv /\ [Next]_vars => ClipInv'
  BY StepTyped, StepOrdered, StepArmed, StepNewest DEF ClipInv
<1> QED
  BY <1>1, <1>2, PTL DEF Spec, SafeSpec

\* The clipboard, the queue, the connection and the items on them are what the
\* code's types say (daemon.rs:75-105, clipboard.rs:50-67).
THEOREM TypeCorrect == Spec => []TypeOK
<1>1. ClipInv => TypeOK
  BY DEF ClipInv
<1> QED
  BY <1>1, ClipInvariant, PTL

\* Windows never hears of a local copy after a later one, however many copies
\* are made, coalesced or lost on the way (daemon.rs:382-386).
THEOREM CopiesInOrder == Spec => []LocalOrder
<1>1. ClipInv => LocalOrder
  BY OrderIsLocalOrder DEF ClipInv
<1> QED
  BY <1>1, ClipInvariant, PTL

\* A new copy that the watcher has seen stays the last that Windows will hear
\* of, until another is made or it is lost (daemon.rs:382-386, :557).
THEOREM NewCopyStaysLast == Spec => []FreshCopyComesLast
<1>1. ClipInv => FreshCopyComesLast
  BY BehindIsLastHeard
     DEF ClipInv, NewestOK, Current, Seen, Newest, Key, FreshCopy, FreshCopyComesLast
<1> QED
  BY <1>1, ClipInvariant, PTL

\* Between the applies, what Windows copied is guarded against being sent back
\* while it shows (daemon.rs:165-167, clipboard.rs:131-133).
THEOREM GuardIsArmed == Spec => []EchoGuardArmed
<1>1. ClipInv => EchoGuardArmed
  BY DEF ClipInv, EchoOK, EchoGuardArmed, Holds
<1> QED
  BY <1>1, ClipInvariant, PTL

=============================================================================
