--------------------------- MODULE PackageIdsProofs ---------------------------
(***************************************************************************)
(* Proofs about PackageIds for every modulus, delay, memory and payload.   *)
(***************************************************************************)
EXTENDS PackageIds, TLAPS

\* While nothing outran the clock, the counter is where the session's start
\* and its packages put it, and what Windows remembers lies below every id
\* still to come: below the counter, or below the next session's start.
Ahead == IF session = "up" THEN next_clip_id ELSE Base + until

Fresh ==
  clock < Modulus /\ ~outrun =>
    /\ ~dropped
    /\ session = "up" => next_clip_id = Base + since + used
    /\ \A s \in Slot : ring[s] < Ahead

\* The two halves of TypeOK.
FlagsOK == pushed \in BOOLEAN /\ dropped \in BOOLEAN /\ outrun \in BOOLEAN

DataOK ==
  /\ clock \in 0 .. MaxClock /\ since \in 0 .. clock /\ until \in Nat
  /\ session \in {"up", "down"}
  /\ used \in 0 .. MaxUsed /\ next_clip_id \in Nat
  /\ next_clip_id - used \in Base .. Base + Modulus - 1
  /\ ring \in [Slot -> Nat] /\ at \in Slot

IInv == FlagsOK /\ DataOK /\ Fresh

\* The halves make the whole.
LEMMA TypeHalves == TypeOK <=> FlagsOK /\ DataOK
  BY Zenon DEF TypeOK, FlagsOK, DataOK

\* Every action keeps the flags Boolean.
LEMMA NextFlags == FlagsOK /\ [Next]_vars => FlagsOK'
<1> SUFFICES ASSUME FlagsOK, [Next]_vars PROVE FlagsOK'
  OBVIOUS
<1> USE DEF FlagsOK, windows
<1>1. CASE Tick \/ Connect
  BY ZenonT(30), <1>1 DEF Tick, Connect
<1>2. CASE NextMachine
  BY ZenonT(30), <1>2 DEF NextMachine, Received
<1>3. CASE \E len \in Payloads : SendClipboard(len)
  BY ZenonT(30), <1>3 DEF SendClipboard
<1>4. CASE \E n \in {1, 3} : AnnounceBigPath(n)
  BY ZenonT(30), <1>4 DEF AnnounceBigPath
<1>5. CASE Fails \/ ServiceRestart
  BY ZenonT(30), <1>5 DEF Fails, ServiceRestart, End
<1>6. CASE UNCHANGED vars
  BY ZenonT(30), <1>6 DEF vars
<1> QED
  BY ZenonT(30), <1>1, <1>2, <1>3, <1>4, <1>5, <1>6 DEF Next

\* A payload takes at least two packages.
LEMMA PackagesNat == ASSUME NEW len \in Nat PROVE Packages(len) \in Nat \ {0}
<1>1. Chunk \in Nat \ {0}
  BY IdAssumption
<1>2. (len + Chunk - 1) \div Chunk \in Nat
  BY <1>1
<1> QED
  BY <1>2 DEF Packages

\* The first id of a session lies where MWB reads it as a positive int, and
\* is the clock's while the clock has not passed the modulus.
LEMMA FirstId ==
  ASSUME clock \in Nat
  PROVE  /\ initial_package_id \in Base .. Base + Modulus - 1
         /\ clock < Modulus => initial_package_id = Base + clock
<1>1. Modulus \in Nat \ {0} /\ Base \in Nat \ {0}
  BY IdAssumption
<1>2. clock % Modulus \in 0 .. Modulus - 1
  BY <1>1
<1>3. clock < Modulus => clock % Modulus = clock
  BY <1>1
<1> QED
  BY <1>1, <1>2, <1>3 DEF initial_package_id

\* A slot is followed by a slot.
LEMMA SlotNext == ASSUME NEW k \in Nat, at \in Slot PROVE (at + k) % Slots \in Slot
  BY IdAssumption DEF Slot

\* At the start there is no session and nothing remembered.
LEMMA InitIInv == Init => IInv
<1> SUFFICES ASSUME Init PROVE IInv
  OBVIOUS
<1>1. FlagsOK
  BY DEF Init, FlagsOK
<1>2. DataOK
  BY IdAssumption DEF Init, DataOK, Slot, Random
<1>3. Fresh
  BY IdAssumption DEF Init, Fresh, Ahead, Random
<1> QED
  BY <1>1, <1>2, <1>3 DEF IInv

\* The invariant without the flags.
Core == DataOK /\ Fresh

\* Time passes.
LEMMA TickCore == Core /\ Tick => Core'
<1> SUFFICES ASSUME Core, Tick PROVE Core'
  OBVIOUS
<1> USE IdAssumption DEF Core, Tick, windows
<1>1. DataOK'
  BY DEF DataOK
<1>2. Fresh'
  BY DEF DataOK, Fresh, Ahead
<1> QED
  BY <1>1, <1>2

\* A session starts where the last one cannot have been.
LEMMA ConnectCore == Core /\ Connect => Core'
<1> SUFFICES ASSUME Core, Connect PROVE Core'
  OBVIOUS
<1> USE IdAssumption DEF Core, Connect, windows
<1>1. clock \in Nat /\ Base \in Nat /\ Modulus \in Nat
  BY DEF DataOK
<1>2. /\ next_clip_id' \in Base .. Base + Modulus - 1
      /\ clock < Modulus => next_clip_id' = Base + clock
  BY <1>1, FirstId
<1>3. DataOK'
  BY <1>1, <1>2 DEF DataOK
<1>4. Fresh'
  BY <1>1, <1>2 DEF DataOK, Fresh, Ahead
<1> QED
  BY <1>3, <1>4

\* An id handed out is one that Windows does not remember.
LEMMA NextMachineCore == Core /\ NextMachine => Core'
<1> SUFFICES ASSUME Core, NextMachine PROVE Core'
  OBVIOUS
<1> USE IdAssumption DEF Core, NextMachine
<1>1. next_clip_id \in Nat /\ used \in Nat
  BY DEF DataOK
<1>2. ring' \in [Slot -> Nat] /\ at' \in Slot
  <2>1. CASE \E s \in Slot : ring[s] = next_clip_id
    BY <2>1 DEF Received, DataOK
  <2>2. CASE ~ \E s \in Slot : ring[s] = next_clip_id
    BY <1>1, <2>2, SlotNext DEF Received, DataOK
  <2> QED
    BY <2>1, <2>2
<1>3. DataOK'
  BY <1>1, <1>2 DEF DataOK
<1>4. Fresh'
  <2> SUFFICES ASSUME clock < Modulus, ~outrun
               PROVE  /\ ~dropped'
                      /\ next_clip_id' = Base + since + used'
                      /\ \A s \in Slot : ring'[s] < next_clip_id'
    BY DEF Fresh, Ahead
  <2>1. /\ ~dropped /\ next_clip_id = Base + since + used
        /\ \A s \in Slot : ring[s] < next_clip_id
    BY DEF Fresh, Ahead
  <2>2. ~ \E s \in Slot : ring[s] = next_clip_id
    BY <2>1, <1>1 DEF DataOK
  <2>3. ~dropped' /\ ring' = [ring EXCEPT ![at] = next_clip_id]
    BY <2>1, <2>2 DEF Received
  <2>4. \A s \in Slot : ring'[s] < next_clip_id'
    BY <2>1, <2>3, <1>1 DEF DataOK
  <2> QED
    BY <2>1, <2>3, <2>4, <1>1 DEF DataOK
<1> QED
  BY <1>3, <1>4

\* A payload only moves the counter on.
LEMMA SendCore == ASSUME NEW len \in Payloads PROVE Core /\ SendClipboard(len) => Core'
<1> SUFFICES ASSUME Core, SendClipboard(len) PROVE Core'
  OBVIOUS
<1> USE IdAssumption DEF Core, SendClipboard, windows
<1>1. Packages(len) \in Nat
  BY PackagesNat
<1>2. DataOK'
  BY <1>1 DEF DataOK
<1>3. Fresh'
  BY <1>1 DEF DataOK, Fresh, Ahead
<1> QED
  BY <1>2, <1>3

\* Random ids push remembered ones out.
LEMMA AnnounceCore == ASSUME NEW n \in {1, 3} PROVE Core /\ AnnounceBigPath(n) => Core'
<1> SUFFICES ASSUME Core, AnnounceBigPath(n) PROVE Core'
  OBVIOUS
<1> USE IdAssumption DEF Core, AnnounceBigPath
<1>1. at' \in Slot
  BY SlotNext DEF DataOK
<1>2. /\ ring' \in [Slot -> Nat]
      /\ \A s \in Slot : ring'[s] \in {Random, ring[s]}
  BY DEF DataOK, Random
<1>3. DataOK'
  BY <1>1, <1>2 DEF DataOK
<1>4. Fresh'
  BY <1>2 DEF DataOK, Fresh, Ahead, Random
<1> QED
  BY <1>3, <1>4

\* A session ends, and its counter has not outrun the next attempt.
LEMMA EndCore == ASSUME NEW pause \in Nat PROVE Core /\ End(pause) => Core'
<1> SUFFICES ASSUME Core, End(pause) PROVE Core'
  OBVIOUS
<1> USE IdAssumption DEF Core, End, windows
<1>1. DataOK'
  BY DEF DataOK
<1>2. Fresh'
  <2> SUFFICES ASSUME clock < Modulus, ~outrun'
               PROVE  ~dropped' /\ \A s \in Slot : ring'[s] < Base + until'
    BY DEF Fresh, Ahead
  <2>1. ~outrun /\ ~(used > (clock - since) + pause)
    BY Zenon
  <2>2. /\ ~dropped /\ next_clip_id = Base + since + used
        /\ \A s \in Slot : ring[s] < next_clip_id
    BY <2>1 DEF Fresh, Ahead
  <2>3. next_clip_id <= Base + until'
    BY <2>1, <2>2 DEF DataOK
  <2> QED
    BY <2>2, <2>3 DEF DataOK
<1> QED
  BY <1>1, <1>2

\* Every step keeps it.
LEMMA NextIInv == IInv /\ [Next]_vars => IInv'
<1> SUFFICES ASSUME IInv, [Next]_vars PROVE IInv'
  OBVIOUS
<1> USE DEF IInv, Core
<1>0. FlagsOK'
  BY NextFlags
<1>1. CASE Tick
  BY <1>0, <1>1, TickCore
<1>2. CASE Connect
  BY <1>0, <1>2, ConnectCore
<1>3. CASE NextMachine
  BY <1>0, <1>3, NextMachineCore
<1>4. CASE \E len \in Payloads : SendClipboard(len)
  BY <1>0, <1>4, SendCore
<1>5. CASE \E n \in {1, 3} : AnnounceBigPath(n)
  BY <1>0, <1>5, AnnounceCore
<1>6. CASE Fails \/ ServiceRestart
  BY <1>0, <1>6, EndCore, IdAssumption DEF Fails, ServiceRestart
<1>7. CASE UNCHANGED vars
  BY <1>0, <1>7 DEF vars, DataOK, Fresh, Ahead
<1> QED
  BY <1>1, <1>2, <1>3, <1>4, <1>5, <1>6, <1>7 DEF Next

\* The inductive invariant holds in every reachable state.
THEOREM Invariant == Spec => []IInv
  BY InitIInv, NextIInv, PTL DEF Spec

\* Types, and every session's first id within a positive i32
\* (mwb_protocol.rs:353-360), for every modulus and clock.
THEOREM TypeCorrect == Spec => []TypeOK
<1>1. IInv => TypeOK
  BY TypeHalves DEF IInv
<1> QED
  BY Invariant, <1>1, PTL

\* No package is dropped for its id unless a session outran the clock
\* (mwb_protocol.rs:346-352), for every number of slots and every delay.
THEOREM IdsStayFresh == Spec => []DroppedOnlyIfOutrun
<1>1. IInv => DroppedOnlyIfOutrun
  BY IdAssumption DEF IInv, DataOK, Fresh, DroppedOnlyIfOutrun
<1> QED
  BY Invariant, <1>1, PTL

=============================================================================
