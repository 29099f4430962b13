------------------------------ MODULE LockCombo ------------------------------
(***************************************************************************)
(* LockComboDetector (input_handling.rs): a ring of the last Cap keyboard  *)
(* events, no older than Window, that fires once Win and L have both gone  *)
(* down and up in it.  The events are what Windows sends: any key events   *)
(* the user makes, and the burst of HotKeyLockMachine, which is every key  *)
(* of the configured combination down and then up, in the same order.      *)
(*                                                                         *)
(* `log` is the ring without capacity or window: every event since the     *)
(* last firing.                                                            *)
(***************************************************************************)
EXTENDS Integers, Sequences

CONSTANTS
  Cap,        (* the ring's capacity, 8 in the code                     *)
  Window,     (* LOCK_COMBO_WINDOW in ticks                             *)
  NaturalKeys,(* keys the user may press outside a burst                *)
  Combos,     (* the HotKeyLockMachine combinations, sequences of keys  *)
  MaxNatural, (* bound: events of the user in a behaviour               *)
  MaxBursts,  (* bound: bursts in a behaviour                           *)
  MaxTime     (* bound: the clock                                       *)

Win == {"lwin", "rwin"}
L   == "l"

\* A hotkey is one key with modifiers, of which Win is one.
OneWinAndOneL(c) ==
  \E i, j \in DOMAIN c : \A k \in DOMAIN c : (c[k] \in Win <=> k = i) /\ (c[k] = L <=> k = j)

ASSUME ConstantsAssumption ==
  /\ Cap \in Nat \ {0} /\ Window \in Nat
  /\ MaxNatural \in Nat /\ MaxBursts \in Nat /\ MaxTime \in Nat
  /\ \A c \in Combos : c \in Seq({c[i] : i \in DOMAIN c}) /\ OneWinAndOneL(c)

VARIABLES
  now,      (* the monotonic clock                                       *)
  recent,   (* LockComboDetector.recent                                  *)
  log,      (* every event since the last firing                         *)
  fired,    (* if the last event fired, the log that made it fire        *)
  naturals, (* how many events the user made                             *)
  bursts,   (* how many bursts were sent                                 *)
  burst     (* the burst under way: its combination, events sent, start, *)
            (* and how often the detector fired in it                    *)

vars == <<now, recent, log, fired, naturals, bursts, burst>>

NoBurst == [combo |-> <<>>, sent |-> 0, start |-> 0, locks |-> 0]

Last(n, s) == SubSeq(s, Len(s) - n + 1, Len(s))

-----------------------------------------------------------------------------
(* LockComboDetector::observe, for an event at time now.                   *)

\* Mutant: at most Cap - 1 events are kept.
CappedShort(s) == IF Len(s) >= Cap THEN Last(Cap - 1, s) ELSE s

\* Mutant: the ring grows without bound.
CappedNever(s) == s

\* VecDeque at its capacity: pop_front until at most Cap are left.
Capped(s) == IF Len(s) > Cap THEN Last(Cap, s) ELSE s

\* Mutant: old events are never dropped.
FreshNever(s) == s

\* pop_front while the front is too old; the newest is not.
Fresh(s) ==
  LET InWindow(i) == now - s[i].at <= Window
      front == CHOOSE i \in DOMAIN s : InWindow(i) /\ \A j \in 1 .. i - 1 : ~InWindow(j)
  IN  SubSeq(s, front, Len(s))

Has(s, keys, isDown) == \E i \in DOMAIN s : s[i].vk \in keys /\ s[i].down = isDown

\* Win and L have both gone down and up.
Complete(s) ==
  \A keys \in {Win, {L}}, isDown \in BOOLEAN : Has(s, keys, isDown)

Event(vk, isDown) == [vk |-> vk, down |-> isDown, at |-> now]

\* Mutant: the buffer is not cleared when it fires.
ObserveNoClear(vk, isDown) ==
  LET e == Event(vk, isDown)
      seen == Fresh(Capped(Append(recent, e)))
  IN  /\ recent' = seen
      /\ log' = IF Complete(seen) THEN <<>> ELSE Append(log, e)
      /\ fired' = IF Complete(seen) THEN Append(log, e) ELSE <<>>

Observe(vk, isDown) ==
  LET e == Event(vk, isDown)
      seen == Fresh(Capped(Append(recent, e)))
  IN  /\ recent' = IF Complete(seen) THEN <<>> ELSE seen
      /\ log' = IF Complete(seen) THEN <<>> ELSE Append(log, e)
      /\ fired' = IF Complete(seen) THEN Append(log, e) ELSE <<>>

\* observe() returned true.
Fires(vk, isDown) ==
  Complete(Fresh(Capped(Append(recent, Event(vk, isDown)))))

-----------------------------------------------------------------------------
Init ==
  /\ now = 0
  /\ recent = <<>> /\ log = <<>> /\ fired = <<>>
  /\ naturals = 0 /\ bursts = 0
  /\ burst = NoBurst

Bursting == burst.sent < 2 * Len(burst.combo)

\* Time passes; a burst is "back-to-back", so it is over within the window.
Tick ==
  /\ now < MaxTime
  /\ Bursting => now - burst.start < Window
  /\ now' = now + 1
  /\ UNCHANGED <<recent, log, fired, naturals, bursts, burst>>

\* A key event of the user, never inside a burst: Windows' hook swallows the
\* physical keys of the double tap.
Natural(vk, isDown) ==
  /\ ~Bursting
  /\ naturals < MaxNatural
  /\ naturals' = naturals + 1
  /\ Observe(vk, isDown)
  /\ UNCHANGED <<now, bursts, burst>>

BurstStart(c) ==
  /\ ~Bursting
  /\ bursts < MaxBursts
  /\ bursts' = bursts + 1
  /\ burst' = [combo |-> c, sent |-> 0, start |-> now, locks |-> 0]
  /\ UNCHANGED <<now, recent, log, fired, naturals>>

\* The next event of the burst: the first half is downs, the second ups.
BurstEvent ==
  LET n == Len(burst.combo)
      i == burst.sent + 1
      isDown == i <= n
      vk == burst.combo[IF isDown THEN i ELSE i - n]
  IN  /\ Bursting
      /\ Observe(vk, isDown)
      /\ burst' = [burst EXCEPT !.sent = i,
                                !.locks = IF Fires(vk, isDown) THEN @ + 1 ELSE @]
      /\ UNCHANGED <<now, naturals, bursts>>

Next ==
  \/ Tick
  \/ \E vk \in NaturalKeys, isDown \in BOOLEAN : Natural(vk, isDown)
  \/ \E c \in Combos : BurstStart(c)
  \/ BurstEvent

Spec == Init /\ [][Next]_vars

-----------------------------------------------------------------------------
Key == Win \cup {L} \cup NaturalKeys \cup UNION {{c[i] : i \in DOMAIN c} : c \in Combos}

\* Types; the ring holds at most Cap events, in order of time.
TypeOK ==
  /\ now \in 0 .. MaxTime
  /\ naturals \in 0 .. MaxNatural /\ bursts \in 0 .. MaxBursts
  /\ Len(recent) <= Cap
  /\ \A s \in {recent, log, fired} : \A i \in DOMAIN s :
       /\ s[i].vk \in Key /\ s[i].down \in BOOLEAN /\ s[i].at \in 0 .. now
       /\ i > 1 => s[i-1].at <= s[i].at

\* Where the events of a log are that lie within one window of its last one,
\* and whether Win and L have both gone down and up there.
Within(s) == {i \in DOMAIN s : s[Len(s)].at - s[i].at <= Window}
CompleteWithin(s) ==
  \A keys \in {Win, {L}}, isDown \in BOOLEAN :
    \E i \in Within(s) : s[i].vk \in keys /\ s[i].down = isDown

\* A combination that is complete in the window and did not fire was pushed
\* out by Cap later events: the detector itself misses none.
MissedOnlyWhenFull ==
  CompleteWithin(log) => \E i \in Within(log) : i + Cap <= Len(log)

\* The detector fires only on Win and L both down and up within one window
\* of each other, never on presses spread over several
\* (input_handling.rs:276-280).
FiredWithinWindow == fired # <<>> => CompleteWithin(fired)

\* README.md:295-298 promises a lock for every combination with Win and L, and
\* observe "returns true (once)" (input_handling.rs:290).  Whatever was typed
\* before a burst, even just before it, it locks at most once, and exactly
\* once if its downs and ups fit the ring.
BurstLocksOnce ==
  /\ burst.locks <= 1
  /\ burst # NoBurst /\ ~Bursting /\ 2 * Len(burst.combo) <= Cap => burst.locks = 1

=============================================================================
