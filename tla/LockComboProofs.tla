---------------------------- MODULE LockComboProofs ----------------------------
(***************************************************************************)
(* What holds of the lock combination for every capacity and window, any   *)
(* keys typed before a burst, and every combination with one Win key and   *)
(* one L.                                                                  *)
(*                                                                         *)
(* The ring is a suffix of the log, and what was dropped from it is too    *)
(* old or has Cap events after it; it is never complete, since it is       *)
(* cleared when it is.  Of a burst, the events sent are the ring's last    *)
(* ones until it fires; after that, Win or L has no press in the ring and  *)
(* none to come.                                                           *)
(***************************************************************************)
EXTENDS LockCombo, SequenceTheorems, WellFoundedInduction, TLAPS

EventType == [vk : Key, down : BOOLEAN, at : Int]

\* In order of time, none after now.
Timely(s) ==
  /\ \A i, j \in 1 .. Len(s) : i <= j => s[i].at <= s[j].at
  /\ \A i \in 1 .. Len(s) : s[i].at \in 0 .. now

Dropped == Len(log) - Len(recent)

RingOK ==
  /\ recent \in Seq(EventType) /\ log \in Seq(EventType) /\ fired \in Seq(EventType)
  /\ now \in Nat /\ Timely(recent) /\ Timely(log) /\ Timely(fired)
  /\ Len(recent) <= Cap /\ Len(recent) <= Len(log)

SuffixOK ==
  /\ \A i \in 1 .. Len(recent) : recent[i] = log[Dropped + i]
  /\ \A i \in 1 .. Dropped : i + Cap <= Len(log) \/ log[Len(log)].at - log[i].at > Window
  /\ ~Complete(recent)

-----------------------------------------------------------------------------
(* One observation.                                                        *)

LEMMA Bounds ==
  /\ Cap \in Nat \ {0} /\ Window \in Nat
  /\ MaxNatural \in Nat /\ MaxBursts \in Nat /\ MaxTime \in Nat
BY ConstantsAssumption

LEMMA EventTyped ==
  ASSUME now \in Nat, NEW vk \in Key, NEW isDown \in BOOLEAN
  PROVE  /\ Event(vk, isDown) \in EventType /\ Event(vk, isDown).at = now
         /\ Event(vk, isDown).vk = vk /\ Event(vk, isDown).down = isDown
BY DEF Event, EventType

LEMMA TimelyAppend ==
  ASSUME now \in Nat, NEW s \in Seq(EventType), Timely(s), NEW e \in EventType, e.at = now
  PROVE  Append(s, e) \in Seq(EventType) /\ Timely(Append(s, e))
<1> DEFINE t == Append(s, e)
<1>1. /\ t \in Seq(EventType) /\ Len(t) = Len(s) + 1
      /\ \A i \in 1 .. Len(s) : t[i] = s[i]
      /\ t[Len(s) + 1] = e
  BY AppendProperties
<1> HIDE DEF t
<1>2. Len(s) \in Nat
  OBVIOUS
<1>3. \A i \in 1 .. Len(t) : i \in 1 .. Len(s) \/ i = Len(s) + 1
  BY <1>1, <1>2
<1>4. \A i \in 1 .. Len(t) : t[i].at \in 0 .. now
  BY <1>1, <1>3 DEF Timely
<1>5. ASSUME NEW i \in 1 .. Len(t), NEW j \in 1 .. Len(t), i <= j PROVE t[i].at <= t[j].at
  <2>1. CASE j \in 1 .. Len(s)
    BY <1>1, <1>2, <1>5, <2>1 DEF Timely
  <2>2. CASE j = Len(s) + 1
    BY <1>1, <1>4, <2>2
  <2> QED
    BY <1>3, <2>1, <2>2
<1> QED
  BY <1>1, <1>4, <1>5 DEF Timely, t

\* Some number of a set of natural numbers is the least.
LEMMA Least ==
  ASSUME NEW T \in SUBSET Nat, T # {}
  PROVE  \E x \in T : \A y \in T : x <= y
<1> DEFINE R == OpToRel(<, Nat)
<1>1. IsWellFoundedOn(R, Nat)
  BY NatLessThanWellFounded
<1> HIDE DEF R
<1>2. PICK x \in T : \A y \in T : <<y, x>> \notin R
  BY <1>1, WFMin
<1>3. \A y \in T : y < x => <<y, x>> \in R
  BY DEF R, OpToRel
<1>4. ASSUME NEW y \in T PROVE x <= y
  <2>1. x \in Nat /\ y \in Nat
    OBVIOUS
  <2>2. ~(y < x)
    BY <1>2, <1>3
  <2> QED
    BY <2>1, <2>2
<1> QED
  BY <1>4

\* What is left of s after d events were dropped at its front, none but old
\* ones and those with Cap after them.
Kept(s, t, d) ==
  /\ t \in Seq(EventType) /\ Len(t) = Len(s) - d
  /\ \A i \in 1 .. Len(t) : t[i] = s[d + i]
  /\ \A i \in 1 .. d : i + Cap <= Len(s) \/ now - s[i].at > Window

LEMMA CappedKeeps ==
  ASSUME NEW s \in Seq(EventType), s # <<>>
  PROVE  \E d \in 0 .. Len(s) - 1 : Kept(s, Capped(s), d) /\ Len(Capped(s)) <= Cap
<1>1. Len(s) \in Nat \ {0} /\ Cap \in Nat \ {0}
  BY Bounds
<1>2. CASE Len(s) <= Cap
  <2>1. Capped(s) = s
    BY <1>1, <1>2 DEF Capped
  <2>2. Kept(s, s, 0)
    BY <1>1 DEF Kept
  <2>3. 0 \in 0 .. Len(s) - 1
    BY <1>1
  <2> QED
    BY <1>2, <2>1, <2>2, <2>3
<1>3. CASE Len(s) > Cap
  <2> DEFINE d == Len(s) - Cap
             t == SubSeq(s, Len(s) - Cap + 1, Len(s))
  <2>1. Capped(s) = t
    BY <1>3 DEF Capped, Last
  <2>2. \A i \in Len(s) - Cap + 1 .. Len(s) : s[i] \in EventType
    BY <1>1, <1>3
  <2>3. /\ t \in Seq(EventType) /\ Len(t) = Cap
        /\ \A i \in 1 .. Cap : t[i] = s[(Len(s) - Cap + 1) + i - 1]
    BY <1>1, <1>3, <2>2, SubSeqProperties
  <2> HIDE DEF t
  <2>4. d \in 0 .. Len(s) - 1 /\ Len(t) = Len(s) - d
    BY <1>1, <1>3, <2>3
  <2>5. \A i \in 1 .. Len(t) : t[i] = s[d + i]
    BY <1>1, <1>3, <2>3
  <2>6. \A i \in 1 .. d : i + Cap <= Len(s)
    BY <1>1, <1>3
  <2> HIDE DEF d
  <2>7. Kept(s, t, d)
    BY <2>3, <2>4, <2>5, <2>6 DEF Kept
  <2>8. Len(t) <= Cap
    BY <1>1, <2>3
  <2> QED
    BY <2>1, <2>4, <2>7, <2>8
<1> QED
  BY <1>1, <1>2, <1>3

\* The newest is in the window, so some front is; what comes after it is too.
LEMMA FreshKeeps ==
  ASSUME now \in Nat, NEW s \in Seq(EventType), s # <<>>, Timely(s), s[Len(s)].at = now
  PROVE  \E d \in 0 .. Len(s) - 1 :
           /\ Fresh(s) \in Seq(EventType) /\ Len(Fresh(s)) = Len(s) - d
           /\ \A i \in 1 .. Len(s) - d : Fresh(s)[i] = s[d + i]
           /\ \A i \in 1 .. d : now - s[i].at > Window
           /\ \A i \in 1 .. Len(s) - d : now - s[d + i].at <= Window
<1> DEFINE InWindow(i) == now - s[i].at <= Window
           Front(i) == InWindow(i) /\ \A j \in 1 .. i - 1 : ~InWindow(j)
           front == CHOOSE i \in DOMAIN s : Front(i)
           d == front - 1
<1>1. Len(s) \in Nat \ {0} /\ Window \in Nat /\ DOMAIN s = 1 .. Len(s)
  BY Bounds
<1>2. ASSUME NEW i \in 1 .. Len(s) PROVE s[i] \in EventType /\ s[i].at \in Int
  <2>1. s[i] \in EventType
    OBVIOUS
  <2> QED
    BY <2>1 DEF EventType
<1>3. \E i \in 1 .. Len(s) : Front(i)
  <2> DEFINE T == {i \in 1 .. Len(s) : InWindow(i)}
  <2>1. T \in SUBSET Nat
    BY <1>1
  <2>2. Len(s) \in T
    BY <1>1
  <2>3. PICK i \in T : \A j \in T : i <= j
    BY <2>1, <2>2, Least
  <2>4. i \in 1 .. Len(s) /\ InWindow(i)
    BY <2>3
  <2>5. ASSUME NEW j \in 1 .. i - 1 PROVE ~InWindow(j)
    <3>1. j \in 1 .. Len(s) /\ ~(i <= j)
      BY <1>1, <2>4
    <3> QED
      BY <2>3, <3>1
  <2> QED
    BY <2>4, <2>5
<1>4. front \in 1 .. Len(s) /\ Front(front)
  BY <1>1, <1>3
<1>5. Fresh(s) = SubSeq(s, front, Len(s))
  BY DEF Fresh
<1> HIDE DEF front
<1>6. d \in 0 .. Len(s) - 1 /\ front = d + 1
  BY <1>1, <1>4
<1>7. \A i \in front .. Len(s) : s[i] \in EventType
  BY <1>1, <1>2, <1>4
<1>8. /\ Fresh(s) \in Seq(EventType) /\ Len(Fresh(s)) = Len(s) - d
      /\ \A i \in 1 .. Len(s) - d : Fresh(s)[i] = s[d + i]
  <2>1. /\ Fresh(s) \in Seq(EventType) /\ Len(Fresh(s)) = Len(s) - front + 1
        /\ \A i \in 1 .. Len(s) - front + 1 : Fresh(s)[i] = s[front + i - 1]
    BY <1>1, <1>4, <1>5, <1>7, SubSeqProperties
  <2>2. Len(s) - front + 1 = Len(s) - d /\ \A i \in 1 .. Len(s) - d : front + i - 1 = d + i
    BY <1>1, <1>6
  <2> QED
    BY <2>1, <2>2
<1>9. \A i \in 1 .. d : now - s[i].at > Window
  <2> SUFFICES ASSUME NEW i \in 1 .. d PROVE now - s[i].at > Window
    OBVIOUS
  <2>1. i \in 1 .. front - 1 /\ i \in 1 .. Len(s)
    BY <1>1, <1>4, <1>6
  <2>2. ~InWindow(i)
    BY <1>4, <2>1
  <2> QED
    BY <1>1, <1>2, <2>1, <2>2
<1>10. \A i \in 1 .. Len(s) - d : now - s[d + i].at <= Window
  <2> SUFFICES ASSUME NEW i \in 1 .. Len(s) - d PROVE now - s[d + i].at <= Window
    OBVIOUS
  <2>1. d + i \in 1 .. Len(s) /\ front <= d + i
    BY <1>1, <1>4, <1>6
  <2>2. s[front].at <= s[d + i].at
    BY <1>4, <2>1 DEF Timely
  <2>3. now - s[front].at <= Window
    BY <1>4
  <2> QED
    BY <1>1, <1>2, <1>4, <2>1, <2>2, <2>3
<1> QED
  BY <1>6, <1>8, <1>9, <1>10

\* What the detector sees when it has pushed an event: that event, and before
\* it what the ring held but for d events.
LEMMA SeenKeeps ==
  ASSUME RingOK, NEW vk \in Key, NEW isDown \in BOOLEAN
  PROVE  LET all  == Append(recent, Event(vk, isDown))
             seen == Fresh(Capped(all))
         IN  \E d \in 0 .. Len(recent) :
               /\ Kept(all, seen, d) /\ Len(seen) <= Cap
               /\ \A i \in 1 .. Len(seen) : now - seen[i].at <= Window
<1> DEFINE e == Event(vk, isDown)
           all == Append(recent, e)
           ring == Capped(all)
           seen == Fresh(ring)
<1>1. e \in EventType /\ e.at = now /\ now \in Nat
  BY EventTyped DEF RingOK
<1>2. /\ all \in Seq(EventType) /\ Timely(all)
      /\ all # <<>> /\ Len(all) = Len(recent) + 1 /\ all[Len(recent) + 1] = e
  BY <1>1, TimelyAppend, AppendProperties DEF RingOK
<1>3. Len(recent) \in Nat /\ Cap \in Nat /\ Window \in Nat
  BY Bounds DEF RingOK
<1> HIDE DEF e, all
<1>4. PICK c \in 0 .. Len(all) - 1 : Kept(all, ring, c) /\ Len(ring) <= Cap
  BY <1>2, CappedKeeps
<1> HIDE DEF ring
<1>5. /\ ring \in Seq(EventType) /\ Len(ring) = Len(all) - c
      /\ \A i \in 1 .. Len(ring) : ring[i] = all[c + i]
      /\ \A i \in 1 .. c : i + Cap <= Len(all) \/ now - all[i].at > Window
  BY <1>4 DEF Kept
<1>6. Timely(ring) /\ ring # <<>> /\ ring[Len(ring)].at = now
  <2>1. \A i \in 1 .. Len(ring) : c + i \in 1 .. Len(all) /\ ring[i] = all[c + i]
    BY <1>2, <1>3, <1>5
  <2>2. Timely(ring)
    <3>1. \A i \in 1 .. Len(ring) : ring[i].at \in 0 .. now
      BY <1>2, <2>1 DEF Timely
    <3>2. ASSUME NEW i \in 1 .. Len(ring), NEW j \in 1 .. Len(ring), i <= j
          PROVE  ring[i].at <= ring[j].at
      <4>1. c + i <= c + j
        BY <3>2
      <4> QED
        BY <1>2, <2>1, <4>1 DEF Timely
    <3> QED
      BY <3>1, <3>2 DEF Timely
  <2>3. Len(ring) \in 1 .. Len(ring) /\ c + Len(ring) = Len(recent) + 1
    BY <1>2, <1>3, <1>5
  <2> QED
    BY <1>1, <1>2, <2>1, <2>2, <2>3
<1>7. PICK f \in 0 .. Len(ring) - 1 :
        /\ seen \in Seq(EventType) /\ Len(seen) = Len(ring) - f
        /\ \A i \in 1 .. Len(ring) - f : seen[i] = ring[f + i]
        /\ \A i \in 1 .. f : now - ring[i].at > Window
        /\ \A i \in 1 .. Len(ring) - f : now - ring[f + i].at <= Window
  BY <1>1, <1>5, <1>6, FreshKeeps
<1> HIDE DEF seen
<1> DEFINE d == c + f
<1>8. d \in 0 .. Len(recent) /\ Len(seen) = Len(all) - d /\ Len(seen) <= Cap
  BY <1>2, <1>3, <1>4, <1>5, <1>7
<1>9. \A i \in 1 .. Len(seen) : seen[i] = all[d + i]
  <2> SUFFICES ASSUME NEW i \in 1 .. Len(seen) PROVE seen[i] = all[d + i]
    OBVIOUS
  <2>1. f + i \in 1 .. Len(ring) /\ i \in 1 .. Len(ring) - f /\ c + (f + i) = d + i
    BY <1>2, <1>3, <1>5, <1>7
  <2> QED
    BY <1>5, <1>7, <2>1
<1>10. \A i \in 1 .. d : i + Cap <= Len(all) \/ now - all[i].at > Window
  <2> SUFFICES ASSUME NEW i \in 1 .. d PROVE i + Cap <= Len(all) \/ now - all[i].at > Window
    OBVIOUS
  <2>1. CASE i \in 1 .. c
    BY <1>5, <2>1
  <2>2. CASE i \notin 1 .. c
    <3>1. i - c \in 1 .. f /\ i - c \in 1 .. Len(ring) /\ c + (i - c) = i
      BY <1>2, <1>3, <1>5, <1>7, <2>2
    <3>2. ring[i - c] = all[i]
      BY <1>5, <3>1
    <3> QED
      BY <1>7, <3>1, <3>2
  <2> QED
    BY <2>1, <2>2
<1>11. \A i \in 1 .. Len(seen) : now - seen[i].at <= Window
  BY <1>7
<1> HIDE DEF d
<1>12. Kept(all, seen, d)
  BY <1>7, <1>8, <1>9, <1>10 DEF Kept
<1> QED
  BY <1>8, <1>11, <1>12 DEF all, seen, ring, e

-----------------------------------------------------------------------------
(* The ring and the log.                                                   *)

LogInv == RingOK /\ SuffixOK /\ FiredWithinWindow

LEMMA HasIsIn ==
  ASSUME NEW s, NEW keys, NEW isDown
  PROVE  Has(s, keys, isDown) <=> \E i \in DOMAIN s : s[i].vk \in keys /\ s[i].down = isDown
BY DEF Has

\* The log with the event, against what the detector sees of it.
LEMMA SeenIsSuffix ==
  ASSUME RingOK, SuffixOK, NEW e \in EventType, e.at = now,
         NEW t, NEW d \in 0 .. Len(recent), Kept(Append(recent, e), t, d)
  PROVE  LET all == Append(log, e)
             gone == Dropped + d
         IN  /\ all \in Seq(EventType) /\ Len(all) = Len(log) + 1 /\ all[Len(all)] = e
             /\ gone \in 0 .. Len(all) /\ Len(t) = Len(all) - gone
             /\ \A i \in 1 .. Len(t) : gone + i \in 1 .. Len(all) /\ t[i] = all[gone + i]
             /\ \A i \in 1 .. gone : i + Cap <= Len(all) \/ now - all[i].at > Window
<1> DEFINE all == Append(log, e)
           ring == Append(recent, e)
           gone == Dropped + d
<1>1. /\ Len(recent) \in Nat /\ Len(log) \in Nat /\ Dropped \in Nat /\ Len(recent) <= Len(log)
      /\ Dropped + Len(recent) = Len(log) /\ Cap \in Nat /\ Window \in Nat /\ now \in Nat
  BY Bounds DEF RingOK, Dropped
<1>2. /\ all \in Seq(EventType) /\ Len(all) = Len(log) + 1 /\ all[Len(log) + 1] = e
      /\ \A i \in 1 .. Len(log) : all[i] = log[i]
  BY AppendProperties DEF RingOK
<1>3. /\ Len(ring) = Len(recent) + 1 /\ ring[Len(recent) + 1] = e
      /\ \A i \in 1 .. Len(recent) : ring[i] = recent[i]
  BY AppendProperties DEF RingOK
<1> HIDE DEF all, ring
<1>4. /\ Len(t) = Len(ring) - d
      /\ \A i \in 1 .. Len(t) : t[i] = ring[d + i]
      /\ \A i \in 1 .. d : i + Cap <= Len(ring) \/ now - ring[i].at > Window
  BY DEF Kept, ring
<1>5. \A i \in 1 .. Len(ring) : Dropped + i \in 1 .. Len(all) /\ ring[i] = all[Dropped + i]
  <2> SUFFICES ASSUME NEW i \in 1 .. Len(ring)
               PROVE  Dropped + i \in 1 .. Len(all) /\ ring[i] = all[Dropped + i]
    OBVIOUS
  <2>1. CASE i \in 1 .. Len(recent)
    <3>1. Dropped + i \in 1 .. Len(log)
      BY <1>1, <2>1
    <3>2. recent[i] = log[Dropped + i]
      BY <2>1 DEF SuffixOK
    <3>3. all[Dropped + i] = log[Dropped + i] /\ ring[i] = recent[i]
      BY <1>2, <1>3, <2>1, <3>1
    <3>4. Dropped + i \in 1 .. Len(all)
      BY <1>1, <1>2, <3>1
    <3> QED
      BY <3>2, <3>3, <3>4
  <2>2. CASE i = Len(recent) + 1
    BY <1>1, <1>2, <1>3, <2>2
  <2> QED
    BY <1>1, <1>3, <2>1, <2>2
<1>6. gone \in 0 .. Len(all) /\ Len(t) = Len(all) - gone
  BY <1>1, <1>2, <1>3, <1>4
<1>7. \A i \in 1 .. Len(t) : gone + i \in 1 .. Len(all) /\ t[i] = all[gone + i]
  <2> SUFFICES ASSUME NEW i \in 1 .. Len(t)
               PROVE  gone + i \in 1 .. Len(all) /\ t[i] = all[gone + i]
    OBVIOUS
  <2>1. d + i \in 1 .. Len(ring) /\ Dropped + (d + i) = gone + i
    BY <1>1, <1>3, <1>4
  <2> QED
    BY <1>4, <1>5, <2>1
<1>8. \A i \in 1 .. gone : i + Cap <= Len(all) \/ now - all[i].at > Window
  <2> SUFFICES ASSUME NEW i \in 1 .. gone PROVE i + Cap <= Len(all) \/ now - all[i].at > Window
    OBVIOUS
  <2>1. CASE i \in 1 .. Dropped
    <3>1. i \in 1 .. Len(log) /\ all[i] = log[i]
      BY <1>1, <1>2, <2>1
    <3>2. Len(log) \in 1 .. Len(log)
      BY <1>1, <3>1
    <3>3. i + Cap <= Len(log) \/ log[Len(log)].at - log[i].at > Window
      BY <2>1 DEF SuffixOK
    <3>4. log[Len(log)].at \in 0 .. now /\ log[i].at \in 0 .. now
      BY <3>1, <3>2 DEF RingOK, Timely
    <3>5. CASE i + Cap <= Len(log)
      BY <1>1, <1>2, <3>5
    <3>6. CASE log[Len(log)].at - log[i].at > Window
      <4> DEFINE last == log[Len(log)].at
                 at == log[i].at
      <4>1. last \in 0 .. now /\ at \in 0 .. now /\ last - at > Window
        BY <3>4, <3>6
      <4> HIDE DEF last, at
      <4>2. now - at > Window
        BY <1>1, <4>1
      <4> QED
        BY <3>1, <4>2 DEF at
    <3> QED
      BY <3>3, <3>5, <3>6
  <2>2. CASE i \notin 1 .. Dropped
    <3>1. i - Dropped \in 1 .. d /\ i - Dropped \in 1 .. Len(ring) /\ Dropped + (i - Dropped) = i
      BY <1>1, <1>3, <2>2
    <3>2. ring[i - Dropped] = all[i]
      BY <1>5, <3>1
    <3>3. (i - Dropped) + Cap <= Len(ring) \/ now - ring[i - Dropped].at > Window
      BY <1>4, <3>1
    <3> QED
      BY <1>1, <1>2, <1>3, <3>2, <3>3
  <2> QED
    BY <2>1, <2>2
<1>9. all[Len(all)] = e
  BY <1>2
<1> QED
  BY <1>2, <1>6, <1>7, <1>8, <1>9 DEF all

LEMMA ObserveKeepsLog ==
  ASSUME LogInv, NEW vk \in Key, NEW isDown \in BOOLEAN, Observe(vk, isDown), UNCHANGED now
  PROVE  LogInv'
<1> DEFINE e == Event(vk, isDown)
           seen == Fresh(Capped(Append(recent, e)))
           all == Append(log, e)
<1>1. RingOK /\ SuffixOK
  BY DEF LogInv
<1>2. e \in EventType /\ e.at = now /\ now \in Nat
  BY <1>1, EventTyped DEF RingOK
<1>3. /\ recent' = IF Complete(seen) THEN <<>> ELSE seen
      /\ log' = IF Complete(seen) THEN <<>> ELSE all
      /\ fired' = IF Complete(seen) THEN all ELSE <<>>
  BY DEF Observe
<1>4. PICK d \in 0 .. Len(recent) :
        /\ Kept(Append(recent, e), seen, d) /\ Len(seen) <= Cap
        /\ \A i \in 1 .. Len(seen) : now - seen[i].at <= Window
  BY <1>1, SeenKeeps
<1> HIDE DEF e, seen
<1> DEFINE gone == Dropped + d
<1>5. /\ all \in Seq(EventType) /\ Len(all) = Len(log) + 1 /\ all[Len(all)] = e
      /\ gone \in 0 .. Len(all) /\ Len(seen) = Len(all) - gone
      /\ \A i \in 1 .. Len(seen) : gone + i \in 1 .. Len(all) /\ seen[i] = all[gone + i]
      /\ \A i \in 1 .. gone : i + Cap <= Len(all) \/ now - all[i].at > Window
  BY <1>1, <1>2, <1>4, SeenIsSuffix
<1>6. Timely(all)
  BY <1>1, <1>2, TimelyAppend DEF RingOK
<1>7. seen \in Seq(EventType)
  BY <1>4 DEF Kept
<1>8. /\ Len(seen) \in Nat /\ Len(all) \in Nat /\ Len(log) \in Nat /\ Cap \in Nat /\ Window \in Nat
      /\ gone \in Nat
  BY <1>1, <1>5, <1>7, Bounds DEF RingOK
<1> HIDE DEF all, gone
<1>9. Timely(seen)
  BY <1>5, <1>6, <1>8 DEF Timely
<1>10. Timely(<<>>) /\ <<>> \in Seq(EventType) /\ Len(<<>>) = 0
  BY DEF Timely
<1>11. CASE Complete(seen)
  <2>1. recent' = <<>> /\ log' = <<>> /\ fired' = all
    BY <1>3, <1>11
  <2>2. RingOK'
    BY <1>2, <1>5, <1>6, <1>8, <1>10, <2>1 DEF RingOK, Timely
  <2>3. SuffixOK'
    BY <1>10, <2>1 DEF SuffixOK, Dropped, Complete, Has
  <2>4. CompleteWithin(all)
    <3> SUFFICES ASSUME NEW keys \in {Win, {L}}, NEW down \in BOOLEAN
                 PROVE  \E i \in Within(all) : all[i].vk \in keys /\ all[i].down = down
      BY DEF CompleteWithin
    <3>1. PICK i \in DOMAIN seen : seen[i].vk \in keys /\ seen[i].down = down
      BY <1>11 DEF Complete, Has
    <3>2. i \in 1 .. Len(seen)
      BY <1>7
    <3>3. gone + i \in 1 .. Len(all) /\ seen[i] = all[gone + i] /\ now - seen[i].at <= Window
      BY <1>4, <1>5, <3>2
    <3>4. gone + i \in Within(all)
      BY <1>2, <1>5, <3>3 DEF Within
    <3> QED
      BY <3>1, <3>3, <3>4
  <2>5. FiredWithinWindow'
    BY <2>1, <2>4 DEF FiredWithinWindow, CompleteWithin, Within
  <2> QED
    BY <2>2, <2>3, <2>5 DEF LogInv
<1>12. CASE ~Complete(seen)
  <2>1. recent' = seen /\ log' = all /\ fired' = <<>>
    BY <1>3, <1>12
  <2>2. RingOK'
    <3>1. Timely(recent)' /\ Timely(log)' /\ Timely(fired)'
      BY <1>6, <1>9, <1>10, <2>1 DEF Timely
    <3>2. Len(seen) <= Len(all)
      BY <1>5, <1>8
    <3> QED
      BY <1>2, <1>4, <1>5, <1>7, <1>10, <2>1, <3>1, <3>2 DEF RingOK
  <2>3. Dropped' = gone
    BY <1>5, <1>8, <2>1 DEF Dropped
  <2>4. SuffixOK'
    BY <1>2, <1>5, <1>12, <2>1, <2>3 DEF SuffixOK, Complete, Has
  <2>5. FiredWithinWindow'
    BY <2>1 DEF FiredWithinWindow
  <2> QED
    BY <2>2, <2>4, <2>5 DEF LogInv
<1> QED
  BY <1>11, <1>12

\* Time only passes.
LEMMA LaterKeepsLog ==
  ASSUME LogInv, now' \in Nat, now <= now', UNCHANGED <<recent, log, fired>>
  PROVE  LogInv'
<1>1. RingOK /\ now \in Nat
  BY DEF LogInv, RingOK
<1>2. ASSUME NEW n \in 0 .. now PROVE n \in 0 .. now'
  BY <1>1
<1>3. Timely(recent)' /\ Timely(log)' /\ Timely(fired)'
  BY <1>1, <1>2 DEF RingOK, Timely
<1> QED
  BY <1>1, <1>3 DEF LogInv, RingOK, SuffixOK, Dropped, Complete, Has, FiredWithinWindow, CompleteWithin,
                    Within

-----------------------------------------------------------------------------
(* The burst.                                                              *)

LEMMA ComboFacts ==
  ASSUME NEW c \in Combos
  PROVE  /\ c \in Seq(Key) /\ Len(c) \in Nat \ {0} /\ DOMAIN c = 1 .. Len(c)
         /\ \A k \in 1 .. Len(c) : c[k] \in Key
         /\ \E i, j \in 1 .. Len(c) : \A k \in 1 .. Len(c) :
              (c[k] \in Win <=> k = i) /\ (c[k] = L <=> k = j)
<1>1. c \in Seq({c[i] : i \in DOMAIN c}) /\ OneWinAndOneL(c)
  BY ConstantsAssumption
<1>2. Len(c) \in Nat /\ DOMAIN c = 1 .. Len(c)
  BY <1>1
<1>3. \A k \in 1 .. Len(c) : c[k] \in Key
  BY <1>2 DEF Key
<1>4. c \in Seq(Key)
  BY <1>1, <1>2, <1>3
<1>5. PICK i \in DOMAIN c, j \in DOMAIN c :
        \A k \in DOMAIN c : (c[k] \in Win <=> k = i) /\ (c[k] = L <=> k = j)
  BY <1>1 DEF OneWinAndOneL
<1>6. Len(c) \in Nat \ {0} /\ i \in 1 .. Len(c) /\ j \in 1 .. Len(c)
  BY <1>2
<1>7. \A k \in 1 .. Len(c) : (c[k] \in Win <=> k = i) /\ (c[k] = L <=> k = j)
  BY <1>2, <1>5
<1> QED
  BY <1>2, <1>3, <1>4, <1>6, <1>7

\* Event e is the m-th of the burst of c.
IsNth(c, m, e) ==
  /\ m <= Len(c) => e.vk = c[m] /\ e.down = TRUE
  /\ m > Len(c) => e.vk = c[m - Len(c)] /\ e.down = FALSE

BurstTyped ==
  /\ burst \in [combo : Combos \cup {<<>>}, sent : Nat, start : Nat, locks : Nat]
  /\ burst = NoBurst \/ burst.combo \in Combos
  /\ burst.start <= now
  /\ Bursting => now - burst.start <= Window

\* The last events of s are those of the burst so far.
EndsWith(s, n) ==
  /\ n <= Len(s)
  /\ \A m \in 1 .. n :
       /\ IsNth(burst.combo, m, s[Len(s) - n + m])
       /\ s[Len(s) - n + m].at >= burst.start

KeptOK ==
  Bursting /\ burst.locks = 0 /\ 2 * Len(burst.combo) <= Cap => EndsWith(recent, burst.sent)

\* No press of one of the two keys is in the ring, nor is one to come.
Spent(keys) ==
  /\ ~Has(recent, keys, TRUE)
  /\ \A m \in 1 .. Len(burst.combo) : m > burst.sent => burst.combo[m] \notin keys

SpentOK == Bursting /\ burst.locks > 0 => \E keys \in {Win, {L}} : Spent(keys)

BurstInv == BurstTyped /\ KeptOK /\ SpentOK /\ BurstLocksOnce

\* A ring that ends with a whole burst is complete.
LEMMA WholeBurstIsComplete ==
  ASSUME BurstTyped, burst.combo \in Combos, NEW s \in Seq(EventType),
         EndsWith(s, 2 * Len(burst.combo))
  PROVE  Complete(s)
<1> DEFINE c == burst.combo
           n == Len(burst.combo)
           from == Len(s) - 2 * n
<1>1. n \in Nat \ {0} /\ Len(s) \in Nat /\ from \in Nat /\ DOMAIN s = 1 .. Len(s)
  BY ComboFacts DEF EndsWith
<1>2. PICK w \in 1 .. n, l \in 1 .. n : \A k \in 1 .. n : (c[k] \in Win <=> k = w) /\ (c[k] = L <=> k = l)
  BY ComboFacts
<1>3. c[w] \in Win /\ c[l] \in {L}
  BY <1>2
<1>4. \A m \in 1 .. 2 * n : from + m \in DOMAIN s /\ IsNth(c, m, s[from + m])
  <2>1. \A m \in 1 .. 2 * n : IsNth(c, m, s[from + m])
    BY DEF EndsWith
  <2>2. \A m \in 1 .. 2 * n : from + m \in 1 .. Len(s)
    BY <1>1
  <2> QED
    BY <1>1, <2>1, <2>2
<1> HIDE DEF c, n, from
<1>5. ASSUME NEW k \in 1 .. n
      PROVE  /\ \E i \in DOMAIN s : s[i].vk = c[k] /\ s[i].down = TRUE
             /\ \E i \in DOMAIN s : s[i].vk = c[k] /\ s[i].down = FALSE
  <2>1. k \in 1 .. 2 * n /\ n + k \in 1 .. 2 * n /\ k <= n /\ n + k > n /\ (n + k) - n = k
    BY <1>1
  <2>2. s[from + k].vk = c[k] /\ s[from + k].down = TRUE
    BY <1>4, <2>1 DEF IsNth, n, c
  <2>3. s[from + (n + k)].vk = c[k] /\ s[from + (n + k)].down = FALSE
    BY <1>4, <2>1 DEF IsNth, n, c
  <2>4. from + k \in DOMAIN s /\ from + (n + k) \in DOMAIN s
    BY <1>4, <2>1
  <2> QED
    BY <2>2, <2>3, <2>4
<1>6. \A isDown \in BOOLEAN : Has(s, Win, isDown) /\ Has(s, {L}, isDown)
  <2> SUFFICES ASSUME NEW keys, NEW k \in 1 .. n, c[k] \in keys
               PROVE  Has(s, keys, TRUE) /\ Has(s, keys, FALSE)
    BY <1>3
  <2>1. Has(s, keys, TRUE)
    BY <1>5 DEF Has
  <2>2. Has(s, keys, FALSE)
    BY <1>5 DEF Has
  <2> QED
    BY <2>1, <2>2
<1> QED
  BY <1>6 DEF Complete

\* What the detector sees was in the ring or is the new event.
LEMMA SeenHas ==
  ASSUME RingOK, NEW e \in EventType, NEW t, NEW d \in 0 .. Len(recent),
         Kept(Append(recent, e), t, d), NEW keys, NEW isDown, Has(t, keys, isDown)
  PROVE  Has(recent, keys, isDown) \/ (e.vk \in keys /\ e.down = isDown)
<1>1. /\ Len(recent) \in Nat /\ DOMAIN recent = 1 .. Len(recent)
      /\ Len(Append(recent, e)) = Len(recent) + 1 /\ Append(recent, e)[Len(recent) + 1] = e
      /\ \A i \in 1 .. Len(recent) : Append(recent, e)[i] = recent[i]
  BY AppendProperties DEF RingOK
<1>2. PICK i \in 1 .. Len(t) : t[i].vk \in keys /\ t[i].down = isDown
  BY DEF Has, Kept
<1>3. d + i \in 1 .. Len(recent) + 1 /\ t[i] = Append(recent, e)[d + i]
  BY <1>1, <1>2 DEF Kept
<1>4. CASE d + i \in 1 .. Len(recent)
  BY <1>1, <1>2, <1>3, <1>4 DEF Has
<1>5. CASE d + i = Len(recent) + 1
  BY <1>1, <1>2, <1>3, <1>5
<1> QED
  BY <1>1, <1>3, <1>4, <1>5

\* The burst's events are neither too old nor too many to be kept.
LEMMA BurstIsKept ==
  ASSUME RingOK, BurstTyped, Bursting, burst.combo \in Combos,
         2 * Len(burst.combo) <= Cap, EndsWith(recent, burst.sent),
         NEW e \in EventType, e.at = now, IsNth(burst.combo, burst.sent + 1, e),
         NEW t, NEW d \in 0 .. Len(recent), Kept(Append(recent, e), t, d)
  PROVE  EndsWith(t, burst.sent + 1)
<1> DEFINE all == Append(recent, e)
           sent == burst.sent
           from == Len(recent) - burst.sent
<1>1. /\ Len(recent) \in Nat /\ Cap \in Nat /\ Window \in Nat /\ now \in Nat
      /\ Len(burst.combo) \in Nat /\ sent \in Nat /\ burst.start \in Nat
      /\ sent <= Len(recent) /\ from \in Nat /\ sent + 1 <= Cap
      /\ burst.start <= now /\ now - burst.start <= Window
  <2>1. Len(burst.combo) \in Nat
    BY ComboFacts
  <2>2. burst.sent \in Nat /\ burst.start \in Nat /\ burst.start <= now /\ now - burst.start <= Window
    BY DEF BurstTyped
  <2>3. Len(recent) \in Nat /\ now \in Nat /\ burst.sent <= Len(recent)
    BY DEF RingOK, EndsWith
  <2>4. burst.sent < 2 * Len(burst.combo)
    BY DEF Bursting
  <2> QED
    BY <2>1, <2>2, <2>3, <2>4, Bounds
<1>2. /\ Len(all) = Len(recent) + 1 /\ all[Len(recent) + 1] = e
      /\ \A i \in 1 .. Len(recent) : all[i] = recent[i]
  BY AppendProperties DEF RingOK
<1>3. \A i \in 1 .. Len(recent) : recent[i].at \in 0 .. now
  BY DEF RingOK, Timely
<1>4. /\ Len(t) = Len(all) - d
      /\ \A i \in 1 .. Len(t) : t[i] = all[d + i]
      /\ \A i \in 1 .. d : i + Cap <= Len(all) \/ now - all[i].at > Window
  BY DEF Kept
<1>5. \A m \in 1 .. sent : IsNth(burst.combo, m, recent[from + m]) /\ recent[from + m].at >= burst.start
  BY DEF EndsWith
<1> HIDE DEF all, sent, from
<1>6. \A m \in 1 .. sent : from + m \in 1 .. Len(recent)
  <2> SUFFICES ASSUME NEW m \in 1 .. sent PROVE from + m \in 1 .. Len(recent)
    OBVIOUS
  <2>1. from = Len(recent) - sent
    BY DEF from, sent
  <2> QED
    BY <1>1, <2>1
<1>7. \A m \in 1 .. sent + 1 :
        /\ from + m \in 1 .. Len(all)
        /\ IsNth(burst.combo, m, all[from + m]) /\ all[from + m].at >= burst.start
  <2> SUFFICES ASSUME NEW m \in 1 .. sent + 1
               PROVE  /\ from + m \in 1 .. Len(all)
                      /\ IsNth(burst.combo, m, all[from + m]) /\ all[from + m].at >= burst.start
    OBVIOUS
  <2>1. CASE m \in 1 .. sent
    <3> DEFINE k == from + m
    <3>1. k \in 1 .. Len(recent) /\ Len(recent) \in Nat
      BY <1>1, <1>6, <2>1
    <3>2. IsNth(burst.combo, m, recent[k]) /\ recent[k].at >= burst.start
      BY <1>5, <2>1
    <3> HIDE DEF k
    <3>3. all[k] = recent[k]
      BY <1>2, <3>1
    <3>4. k \in 1 .. Len(all)
      BY <1>2, <3>1
    <3>5. IsNth(burst.combo, m, all[k]) /\ all[k].at >= burst.start
      BY <3>2, <3>3 DEF IsNth
    <3> QED
      BY <3>4, <3>5 DEF k
  <2>2. CASE m = sent + 1
    <3>1. from + m = Len(recent) + 1
      BY <1>1, <2>2 DEF from, sent
    <3>2. IsNth(burst.combo, m, e)
      BY <2>2 DEF sent
    <3> QED
      BY <1>1, <1>2, <3>1, <3>2
  <2> QED
    BY <1>1, <2>1, <2>2
<1>8. d <= from
  <2> SUFFICES ASSUME d > from PROVE FALSE
    BY <1>1
  <2>1. from + 1 \in 1 .. d /\ 1 \in 1 .. sent + 1
    BY <1>1
  <2>2. from + 1 + Cap <= Len(all) \/ now - all[from + 1].at > Window
    BY <1>4, <2>1
  <2>3. from + 1 + Cap > Len(all)
    BY <1>1, <1>2 DEF from, sent
  <2>4. all[from + 1].at >= burst.start /\ all[from + 1].at \in Int
    <3>1. all[from + 1].at \in Int
      <4> DEFINE k == from + 1
      <4>1. k \in 1 .. Len(recent)
        BY <1>1, <2>1
      <4> HIDE DEF k
      <4>2. all[k].at \in 0 .. now
        BY <1>2, <1>3, <4>1
      <4>3. all[k].at \in Int
        BY <1>1, <4>2
      <4> QED
        BY <4>3 DEF k
    <3> QED
      BY <1>7, <2>1, <3>1
  <2>5. now - all[from + 1].at <= Window
    <3> DEFINE at == all[from + 1].at
    <3>1. at \in Int /\ at >= burst.start
      BY <2>4
    <3> HIDE DEF at
    <3>2. now - at <= Window
      BY <1>1, <3>1
    <3> QED
      BY <3>2 DEF at
  <2> QED
    BY <1>1, <1>2, <2>2, <2>3, <2>4, <2>5
<1>9. sent + 1 <= Len(t) /\ \A m \in 1 .. sent + 1 : t[Len(t) - (sent + 1) + m] = all[from + m]
  <2>1. Len(t) = Len(recent) + 1 - d /\ Len(t) - (sent + 1) = from - d
    BY <1>1, <1>2, <1>4 DEF from, sent
  <2>2. sent + 1 <= Len(t)
    BY <1>1, <1>8, <2>1 DEF from, sent
  <2>3. \A m \in 1 .. sent + 1 : (from - d) + m \in 1 .. Len(t) /\ d + ((from - d) + m) = from + m
    <3>1. Len(t) = (from - d) + (sent + 1)
      BY <1>1, <2>1 DEF from, sent
    <3>2. from - d \in Nat /\ d \in Nat
      BY <1>1, <1>8
    <3> QED
      BY <1>1, <3>1, <3>2
  <2> QED
    BY <1>4, <2>1, <2>2, <2>3
<1> QED
  BY <1>7, <1>9 DEF EndsWith, sent

\* The next event of a burst is a key of the combination.
LEMMA BurstEventObserves ==
  ASSUME BurstInv, BurstEvent
  PROVE  \E vk \in Key, isDown \in BOOLEAN : Observe(vk, isDown)
<1> DEFINE n == Len(burst.combo)
           i == burst.sent + 1
           isDown == i <= n
           vk == burst.combo[IF isDown THEN i ELSE i - n]
<1>1. Observe(vk, isDown) /\ burst.sent < 2 * n
  BY DEF BurstEvent, Bursting
<1>2. burst.combo \in Combos /\ burst.sent \in Nat
  BY <1>1 DEF BurstInv, BurstTyped, NoBurst
<1>3. n \in Nat \ {0} /\ i \in 1 .. 2 * n
  BY <1>1, <1>2, ComboFacts
<1>4. vk \in Key
  BY <1>2, <1>3, ComboFacts
<1>5. isDown \in BOOLEAN
  OBVIOUS
<1> HIDE DEF isDown, vk
<1> QED
  BY <1>1, <1>4, <1>5

LEMMA BurstEventKeepsBurst ==
  ASSUME LogInv, BurstInv, BurstEvent
  PROVE  BurstInv'
<1> DEFINE c == burst.combo
           n == Len(burst.combo)
           i == burst.sent + 1
           isDown == i <= n
           vk == burst.combo[IF isDown THEN i ELSE i - n]
           e == Event(vk, isDown)
           seen == Fresh(Capped(Append(recent, e)))
<1>1. Bursting /\ burst.sent < 2 * n /\ UNCHANGED now
  BY DEF BurstEvent, Bursting
<1>2. /\ Observe(vk, isDown)
      /\ burst' = [burst EXCEPT !.sent = i, !.locks = IF Complete(seen) THEN @ + 1 ELSE @]
  BY DEF BurstEvent, Fires
<1>3. /\ burst \in [combo : Combos \cup {<<>>}, sent : Nat, start : Nat, locks : Nat]
      /\ burst = NoBurst \/ burst.combo \in Combos
      /\ burst.start <= now /\ now - burst.start <= Window
  BY <1>1 DEF BurstInv, BurstTyped
<1>4. burst.combo \in Combos
  BY <1>1, <1>3 DEF NoBurst
<1>5. /\ n \in Nat \ {0} /\ burst.sent \in Nat /\ i \in 1 .. 2 * n
      /\ burst.locks \in Nat
  BY <1>1, <1>3, <1>4, ComboFacts
<1>6. vk \in Key /\ isDown \in BOOLEAN /\ (isDown => vk = c[i]) /\ (~isDown => vk = c[i - n])
  <2>1. CASE i <= n
    <3>1. i \in 1 .. n /\ vk = c[i] /\ isDown = TRUE
      BY <1>5, <2>1
    <3> QED
      BY <1>4, <3>1, ComboFacts
  <2>2. CASE ~(i <= n)
    <3>1. i - n \in 1 .. n /\ vk = c[i - n] /\ isDown = FALSE
      BY <1>5, <2>2
    <3> QED
      BY <1>4, <3>1, ComboFacts
  <2> QED
    BY <2>1, <2>2
<1>7. RingOK /\ SuffixOK /\ now \in Nat
  BY DEF LogInv, RingOK
<1>8. e \in EventType /\ e.at = now /\ e.vk = vk /\ e.down = isDown
  BY <1>6, <1>7, EventTyped
<1>9. IsNth(c, i, e)
  <2>1. CASE i <= n
    <3>1. isDown = TRUE /\ ~(i > n)
      BY <1>5, <2>1
    <3> QED
      BY <1>6, <1>8, <3>1 DEF IsNth
  <2>2. CASE i > n
    <3>1. isDown = FALSE /\ ~(i <= n)
      BY <1>5, <2>2
    <3> QED
      BY <1>6, <1>8, <3>1 DEF IsNth
  <2> QED
    BY <1>5, <2>1, <2>2
<1>10. PICK d \in 0 .. Len(recent) : Kept(Append(recent, e), seen, d)
  BY <1>6, <1>7, SeenKeeps
<1>11. recent' = IF Complete(seen) THEN <<>> ELSE seen
  BY <1>2 DEF Observe
<1>12. /\ burst' \in [combo : Combos \cup {<<>>}, sent : Nat, start : Nat, locks : Nat]
       /\ burst'.combo = c /\ burst'.sent = i /\ burst'.start = burst.start
       /\ burst'.locks = IF Complete(seen) THEN burst.locks + 1 ELSE burst.locks
  <2>1. burst.locks + 1 \in Nat /\ i \in Nat
    BY <1>5
  <2> HIDE DEF seen, i, isDown, vk, e
  <2> QED
    BY <1>2, <1>3, <2>1
<1>13. seen \in Seq(EventType)
  BY <1>10 DEF Kept
<1> HIDE DEF e, seen, vk
<1>14. ASSUME NEW keys, NEW down, Has(seen, keys, down)
       PROVE  Has(recent, keys, down) \/ (e.vk \in keys /\ e.down = down)
  BY <1>7, <1>8, <1>10, <1>14, SeenHas
\* A press of this event is one still to come.
<1>15. ASSUME NEW keys, e.vk \in keys, e.down = TRUE PROVE ~Spent(keys)
  <2>0. isDown
    BY <1>8, <1>15
  <2>1. i \in 1 .. n /\ i > burst.sent
    BY <1>5, <2>0
  <2>2. c[i] \in keys
    BY <1>6, <1>8, <1>15, <2>0
  <2> QED
    BY <2>1, <2>2 DEF Spent
<1>16. ASSUME NEW keys, Spent(keys) PROVE ~Has(seen, keys, TRUE)
  BY <1>14, <1>15, <1>16 DEF Spent
<1>17. (Bursting' <=> i < 2 * n) /\ ~Has(<<>>, Win, TRUE) /\ ~Has(<<>>, {L}, TRUE)
  BY <1>12 DEF Bursting, Has
<1>18. BurstTyped'
  BY <1>1, <1>3, <1>4, <1>12 DEF BurstTyped
<1>19. CASE Complete(seen)
  <2>1. PICK keys \in {Win, {L}} : e.vk \in keys
    <3> SUFFICES ASSUME \A keys \in {Win, {L}} : e.vk \notin keys PROVE Complete(recent)
      BY <1>7 DEF SuffixOK
    <3>1. \A keys \in {Win, {L}}, down \in BOOLEAN : Has(seen, keys, down)
      BY <1>19 DEF Complete
    <3>2. \A keys \in {Win, {L}}, down \in BOOLEAN : Has(recent, keys, down)
      BY <1>14, <3>1
    <3> QED
      BY <3>2 DEF Complete
  <2>2. burst.locks = 0
    <3> SUFFICES ASSUME burst.locks > 0 PROVE FALSE
      BY <1>5
    <3>1. PICK spent \in {Win, {L}} : Spent(spent)
      BY <1>1 DEF BurstInv, SpentOK
    <3>2. Has(seen, spent, TRUE)
      BY <1>19 DEF Complete
    <3> QED
      BY <1>16, <3>1, <3>2
  <2>3. burst'.locks = 1 /\ recent' = <<>>
    BY <1>11, <1>12, <1>19, <2>2
  <2>4. KeptOK' /\ BurstLocksOnce'
    BY <2>3 DEF KeptOK, BurstLocksOnce
  <2>5. \A m \in 1 .. n : m > i => c[m] \notin keys
    <3> SUFFICES ASSUME NEW m \in 1 .. n, m > i, c[m] \in keys PROVE FALSE
      OBVIOUS
    <3>1. i \in 1 .. n /\ i # m
      BY <1>5
    <3>2. c[i] \in keys
      BY <1>6, <1>8, <2>1, <3>1
    <3> QED
      BY <1>4, <3>1, <3>2, ComboFacts
  <2>6. SpentOK'
    <3>1. ~Has(recent', keys, TRUE)
      BY <1>17, <2>3
    <3>2. Spent(keys)'
      BY <1>12, <2>5, <3>1 DEF Spent, Has
    <3> QED
      BY <3>2 DEF SpentOK
  <2> QED
    BY <1>18, <2>4, <2>6 DEF BurstInv
<1>20. CASE ~Complete(seen)
  <2>1. burst'.locks = burst.locks /\ recent' = seen /\ burst.locks \in {0, 1}
    BY <1>5, <1>11, <1>12, <1>20 DEF BurstInv, BurstLocksOnce
  <2>2. ASSUME burst.locks = 0, 2 * n <= Cap PROVE EndsWith(seen, i)
    <3>1. EndsWith(recent, burst.sent)
      BY <1>1, <2>2 DEF BurstInv, KeptOK
    <3> QED
      BY <1>1, <1>4, <1>7, <1>8, <1>9, <1>10, <2>2, <3>1, BurstIsKept DEF BurstInv
  <2>3. KeptOK'
    <3> SUFFICES ASSUME burst.locks = 0, 2 * n <= Cap PROVE EndsWith(recent, burst.sent)'
      BY <1>12, <2>1 DEF KeptOK
    <3> QED
      BY <1>12, <2>1, <2>2 DEF EndsWith
  <2>4. SpentOK'
    <3> SUFFICES ASSUME burst.locks > 0 PROVE \E keys \in {Win, {L}} : Spent(keys)'
      BY <2>1 DEF SpentOK
    <3>1. PICK keys \in {Win, {L}} : Spent(keys)
      BY <1>1 DEF BurstInv, SpentOK
    <3>2. ~Has(recent', keys, TRUE)
      BY <1>16, <2>1, <3>1
    <3>3. \A m \in 1 .. n : m > i => c[m] \notin keys
      BY <1>5, <3>1 DEF Spent
    <3>4. Spent(keys)'
      BY <1>12, <3>2, <3>3 DEF Spent, Has
    <3> QED
      BY <3>4
  <2>5. BurstLocksOnce'
    <3> SUFFICES ASSUME ~(i < 2 * n), 2 * n <= Cap PROVE burst.locks # 0
      BY <1>12, <1>17, <2>1 DEF BurstLocksOnce
    <3>1. i = 2 * n
      BY <1>5
    <3>2. burst.locks = 0 => Complete(seen)
      BY <1>4, <1>13, <2>2, <3>1, WholeBurstIsComplete DEF BurstInv
    <3> QED
      BY <1>20, <3>2
  <2> QED
    BY <1>18, <2>3, <2>4, <2>5 DEF BurstInv
<1> QED
  BY <1>19, <1>20

-----------------------------------------------------------------------------
(* The theorems.                                                           *)

Counted == now \in 0 .. MaxTime /\ naturals \in 0 .. MaxNatural /\ bursts \in 0 .. MaxBursts

LockInv == Counted /\ LogInv /\ BurstInv

LEMMA InitLockInv == Init => LockInv
<1> SUFFICES ASSUME Init PROVE LockInv
  OBVIOUS
<1>1. Counted
  BY Bounds DEF Init, Counted
<1>2. RingOK
  BY Bounds DEF Init, RingOK, Timely
<1>3. SuffixOK /\ FiredWithinWindow
  <2>1. recent = <<>> /\ log = <<>> /\ fired = <<>> /\ Len(<<>>) = 0 /\ 1 .. 0 = {}
    BY DEF Init
  <2>2. ~Has(recent, {L}, TRUE)
    BY <2>1 DEF Has
  <2>3. ~Complete(recent)
    BY <2>2 DEF Complete
  <2>4. Dropped = 0
    BY <2>1 DEF Dropped
  <2> QED
    BY <2>1, <2>3, <2>4 DEF SuffixOK, FiredWithinWindow
<1>4. ~Bursting /\ burst = NoBurst
  BY DEF Init, Bursting, NoBurst
<1>5. BurstTyped
  BY <1>4 DEF Init, BurstTyped, NoBurst
<1>6. KeptOK /\ SpentOK /\ BurstLocksOnce
  BY <1>4 DEF KeptOK, SpentOK, BurstLocksOnce, NoBurst
<1> QED
  BY <1>1, <1>2, <1>3, <1>5, <1>6 DEF LockInv, LogInv, BurstInv

LEMMA BurstUnchanged ==
  ASSUME BurstInv, UNCHANGED <<now, burst, recent>> \/ (UNCHANGED <<now, burst>> /\ ~Bursting)
  PROVE  BurstInv'
BY DEF BurstInv, BurstTyped, KeptOK, SpentOK, BurstLocksOnce, Bursting, EndsWith, IsNth, Spent, Has

LEMMA StepKeepsLockInv == LockInv /\ [Next]_vars => LockInv'
<1> SUFFICES ASSUME LockInv, [Next]_vars PROVE LockInv'
  OBVIOUS
<1>1. Counted /\ LogInv /\ BurstInv /\ now \in Nat
  BY Bounds DEF LockInv, Counted
<1>2. CASE Tick
  <2>1. Counted' /\ now' \in Nat /\ now <= now' /\ UNCHANGED <<recent, log, fired, burst>>
    BY <1>1, <1>2, Bounds DEF Tick, Counted
  <2>2. LogInv'
    BY <1>1, <2>1, LaterKeepsLog
  <2>3. BurstTyped'
    <3>1. BurstTyped
      BY <1>1 DEF BurstInv
    <3>2. burst.start \in Nat /\ burst.start <= now /\ now' = now + 1
      BY <1>2, <3>1 DEF BurstTyped, Tick
    <3>3. Bursting => now' - burst.start <= Window
      BY <1>1, <1>2, <3>2, Bounds DEF Tick
    <3>4. burst.start <= now'
      BY <1>1, <3>2
    <3> QED
      BY <2>1, <3>1, <3>3, <3>4 DEF BurstTyped, Bursting
  <2>4. KeptOK' /\ SpentOK' /\ BurstLocksOnce'
    BY <1>1, <2>1 DEF BurstInv, KeptOK, SpentOK, BurstLocksOnce, Bursting, EndsWith, IsNth, Spent, Has
  <2> QED
    BY <2>1, <2>2, <2>3, <2>4 DEF LockInv, BurstInv
<1>3. ASSUME NEW vk \in NaturalKeys, NEW isDown \in BOOLEAN, Natural(vk, isDown) PROVE LockInv'
  <2>1. vk \in Key /\ Observe(vk, isDown) /\ UNCHANGED <<now, bursts, burst>> /\ ~Bursting
    BY <1>3 DEF Natural, Key
  <2>2. LogInv'
    BY <1>1, <2>1, ObserveKeepsLog
  <2>3. BurstInv'
    BY <1>1, <2>1, BurstUnchanged
  <2>4. Counted'
    BY <1>1, <1>3, <2>1, Bounds DEF Natural, Counted
  <2> QED
    BY <2>2, <2>3, <2>4 DEF LockInv
<1>4. ASSUME NEW c \in Combos, BurstStart(c) PROVE LockInv'
  <2>1. /\ burst' = [combo |-> c, sent |-> 0, start |-> now, locks |-> 0]
        /\ UNCHANGED <<now, recent, log, fired, naturals>>
    BY <1>4 DEF BurstStart
  <2>2. Counted'
    BY <1>1, <1>4, <2>1, Bounds DEF BurstStart, Counted
  <2>3. LogInv'
    BY <1>1, <2>1, LaterKeepsLog
  <2>4. Bursting'
    BY <2>1, ComboFacts DEF Bursting
  <2>5. BurstTyped'
    BY <1>1, <2>1, Bounds DEF BurstTyped
  <2>6. SpentOK' /\ BurstLocksOnce'
    BY <2>1, <2>4 DEF SpentOK, BurstLocksOnce
  <2>7. KeptOK'
    BY <1>1, <2>1 DEF KeptOK, EndsWith, LogInv, RingOK
  <2> QED
    BY <2>2, <2>3, <2>5, <2>6, <2>7 DEF LockInv, BurstInv
<1>5. CASE BurstEvent
  <2>1. BurstInv'
    BY <1>1, <1>5, BurstEventKeepsBurst
  <2>2. PICK vk \in Key, isDown \in BOOLEAN : Observe(vk, isDown)
    BY <1>1, <1>5, BurstEventObserves
  <2>3. UNCHANGED <<now, naturals, bursts>>
    BY <1>5 DEF BurstEvent
  <2>4. LogInv'
    BY <1>1, <2>2, <2>3, ObserveKeepsLog
  <2> QED
    BY <1>1, <2>1, <2>3, <2>4 DEF LockInv, Counted
<1>6. CASE UNCHANGED vars
  <2>1. UNCHANGED <<now, recent, log, fired, naturals, bursts, burst>>
    BY <1>6 DEF vars
  <2> QED
    BY <1>1, <2>1, LaterKeepsLog, BurstUnchanged DEF LockInv, Counted
<1> QED
  BY <1>2, <1>3, <1>4, <1>5, <1>6 DEF Next

\* Of the ring, the log and the burst, in every reachable state.
THEOREM LockInvariant == Spec => []LockInv
BY InitLockInv, StepKeepsLockInv, PTL DEF Spec

\* The ring holds at most Cap events, in order of time (input_handling.rs:294-300).
THEOREM TypeCorrect == Spec => []TypeOK
<1>1. LockInv => TypeOK
  <2> SUFFICES ASSUME LockInv PROVE TypeOK
    OBVIOUS
  <2>1. Counted /\ RingOK
    BY DEF LockInv, LogInv
  <2>2. ASSUME NEW s \in Seq(EventType), Timely(s), NEW i \in DOMAIN s
        PROVE  /\ s[i].vk \in Key /\ s[i].down \in BOOLEAN /\ s[i].at \in 0 .. now
               /\ i > 1 => s[i-1].at <= s[i].at
    <3>1. i \in 1 .. Len(s) /\ s[i] \in EventType
      OBVIOUS
    <3>2. s[i].vk \in Key /\ s[i].down \in BOOLEAN
      BY <3>1 DEF EventType
    <3>3. s[i].at \in 0 .. now
      BY <2>2, <3>1 DEF Timely
    <3>4. i > 1 => i - 1 \in 1 .. Len(s) /\ i - 1 <= i
      BY <3>1
    <3>5. i > 1 => s[i-1].at <= s[i].at
      BY <2>2, <3>1, <3>4 DEF Timely
    <3> QED
      BY <3>2, <3>3, <3>5
  <2> QED
    BY <2>1, <2>2 DEF TypeOK, Counted, RingOK
<1> QED
  BY <1>1, LockInvariant, PTL

\* A combination that is complete within one window and does not fire has been
\* pushed out by later events (input_handling.rs:294-308).
THEOREM MissesOnlyWhenFull == Spec => []MissedOnlyWhenFull
<1>1. LockInv => MissedOnlyWhenFull
  <2> SUFFICES ASSUME LockInv, \A i \in Within(log) : ~(i + Cap <= Len(log)), CompleteWithin(log)
               PROVE  Complete(recent)
    BY DEF MissedOnlyWhenFull, LockInv, LogInv, SuffixOK
  <2>1. RingOK /\ SuffixOK
    BY DEF LockInv, LogInv
  <2>2. ASSUME NEW i \in Within(log)
        PROVE  i - Dropped \in DOMAIN recent /\ recent[i - Dropped] = log[i]
    <3>1. /\ i \in 1 .. Len(log) /\ log[Len(log)].at - log[i].at <= Window
          /\ Len(log) \in Nat /\ Len(recent) \in Nat /\ Window \in Nat
          /\ Dropped \in Nat /\ Dropped + Len(recent) = Len(log) /\ DOMAIN recent = 1 .. Len(recent)
      BY <2>1, Bounds DEF Within, RingOK, Dropped
    <3>2. Len(log) \in 1 .. Len(log)
      BY <3>1
    <3>3. log[Len(log)].at \in Int /\ log[i].at \in Int
      BY <2>1, <3>1, <3>2 DEF RingOK, Timely
    <3>4. i \notin 1 .. Dropped
      BY <2>1, <3>1, <3>3 DEF SuffixOK
    <3>5. i - Dropped \in 1 .. Len(recent) /\ Dropped + (i - Dropped) = i
      BY <3>1, <3>4
    <3> QED
      BY <2>1, <3>1, <3>5 DEF SuffixOK
  <2>3. ASSUME NEW keys \in {Win, {L}}, NEW isDown \in BOOLEAN PROVE Has(recent, keys, isDown)
    <3>1. PICK i \in Within(log) : log[i].vk \in keys /\ log[i].down = isDown
      BY DEF CompleteWithin
    <3> QED
      BY <2>2, <3>1 DEF Has
  <2> QED
    BY <2>3 DEF Complete
<1> QED
  BY <1>1, LockInvariant, PTL

\* The detector fires only on Win and L both down and up within one window
\* (input_handling.rs:276-280).
THEOREM FiresWithinWindow == Spec => []FiredWithinWindow
<1>1. LockInv => FiredWithinWindow
  BY DEF LockInv, LogInv
<1> QED
  BY <1>1, LockInvariant, PTL

\* A burst locks at most once, and exactly once if it fits the ring, whatever
\* was typed before it (input_handling.rs:290, README.md:295-298).
THEOREM BurstsLockOnce == Spec => []BurstLocksOnce
<1>1. LockInv => BurstLocksOnce
  BY DEF LockInv, BurstInv
<1> QED
  BY <1>1, LockInvariant, PTL

=============================================================================
