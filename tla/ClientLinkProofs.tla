-------------------------- MODULE ClientLinkProofs --------------------------
(***************************************************************************)
(* Proofs about the connections of both daemons, for every timeout, number *)
(* of faults, answer of the peer and choice of platforms.                  *)
(***************************************************************************)
EXTENDS MacLink, TLAPS

\* The two halves of TypeOK: the flags, and everything else.
FlagsOK ==
  /\ pub \in BOOLEAN /\ acked \in BOOLEAN
  /\ watching \in BOOLEAN /\ missed \in BOOLEAN

DataOK ==
  /\ os \in {"linux", "macos"}
  /\ pc \in Places /\ conn \in Conns /\ status \in Shown /\ told \in Shown
  /\ idle \in 0 .. TimeoutTicks /\ signals \in Nat
  /\ power \in {"awake", "asleep"} /\ faults \in 0 .. MaxFaults

\* A peer with another key has not answered the challenge of this session.
ForeignUnproven == conn = "foreign" /\ pc = "session" => ~acked

IInv ==
  /\ TypeOK
  /\ PublishedIsCurrent
  /\ ConnectedMeansProven
  /\ StaleOnlyIfMissed
  /\ ForeignUnproven

\* The halves make the whole.
LEMMA TypeHalves == TypeOK <=> FlagsOK /\ DataOK
  BY Zenon DEF TypeOK, FlagsOK, DataOK

\* The invariant holds at first: there is neither connection nor clone.
LEMMA InitIInv == Init => IInv
<1> SUFFICES ASSUME Init PROVE IInv
  OBVIOUS
<1>1. FlagsOK
  BY DEF Init, FlagsOK
<1>2. DataOK
  BY LinkAssumption DEF Init, DataOK, Places, Conns, Shown
<1>3. PublishedIsCurrent /\ ConnectedMeansProven /\ StaleOnlyIfMissed
  BY DEF Init, PublishedIsCurrent, ConnectedMeansProven, StaleOnlyIfMissed
<1>4. ForeignUnproven
  BY DEF Init, ForeignUnproven
<1> QED
  BY <1>1, <1>2, <1>3, <1>4, TypeHalves DEF IInv

\* Every action keeps the flags Boolean.
LEMMA NextFlags == FlagsOK /\ [Next]_vars => FlagsOK'
<1> SUFFICES ASSUME FlagsOK, [Next]_vars PROVE FlagsOK'
  OBVIOUS
<1> USE LinkAssumption DEF FlagsOK, session, file, watch
<1>1. CASE NotConfigured \/ BeginConnect \/ ConnectOk \/ ConnectForeign \/ ConnectFail
  BY ZenonT(30), <1>1 DEF NotConfigured, BeginConnect, ConnectOk, ConnectForeign, ConnectFail
<1>2. CASE Publish \/ PublishFails \/ Unpublish \/ Report \/ Retry
  BY ZenonT(30), <1>2 DEF Publish, PublishFails, Unpublish, Report, Retry
<1>3. CASE Opened \/ RecvOther \/ RecvInvalid
  BY ZenonT(30), <1>3 DEF Opened, RecvOther, RecvInvalid
<1>4. CASE \E m \in Matches : RecvAck(m)
  BY ZenonT(30), <1>4 DEF RecvAck
<1>5. CASE \E m \in Matches : ReverseRecv(m)
  BY ZenonT(30), <1>5 DEF ReverseRecv
<1>6. CASE ReadFails \/ Tick
  BY ZenonT(30), <1>6 DEF ReadFails, Tick
<1>7. CASE PeerCloses \/ PeerVanishes \/ Suspend
  BY ZenonT(30), <1>7 DEF PeerCloses, PeerVanishes, Suspend
<1>8. CASE Crash \/ Restart
  BY ZenonT(30), <1>8 DEF Crash, Restart
<1>9. CASE Watcher \/ WatcherExits \/ Resume
  BY ZenonT(30), <1>9 DEF Watcher, WatcherExits, Resume
<1>10. CASE WakeTick \/ Wake \/ ClockSet
  BY ZenonT(30), <1>10 DEF WakeTick, Wake, ClockSet
<1>11. CASE UNCHANGED vars
  BY ZenonT(30), <1>11 DEF vars
<1> QED
  BY ZenonT(30), <1>1, <1>2, <1>3, <1>4, <1>5, <1>6, <1>7, <1>8, <1>9, <1>10, <1>11
     DEF Next, Connecting, Receiving, World, ResumeWatcher, watch_for_wake

\* Every action keeps the other variables in their sets.
LEMMA NextData == DataOK /\ [Next]_vars => DataOK'
<1> SUFFICES ASSUME DataOK, [Next]_vars PROVE DataOK'
  OBVIOUS
<1> USE LinkAssumption DEF DataOK, Places, Conns, Shown, Fault, Write, session, file, watch
<1>1. CASE NotConfigured \/ BeginConnect \/ ConnectOk \/ ConnectForeign \/ ConnectFail
  BY <1>1 DEF NotConfigured, BeginConnect, ConnectOk, ConnectForeign, ConnectFail
<1>2. CASE Publish \/ PublishFails \/ Unpublish \/ Report \/ Retry
  BY <1>2 DEF Publish, PublishFails, Unpublish, Report, Retry
<1>3. CASE Opened \/ RecvOther \/ RecvInvalid
  BY <1>3 DEF Opened, RecvOther, RecvInvalid
<1>4. CASE \E m \in Matches : RecvAck(m)
  BY <1>4 DEF RecvAck
<1>5. CASE \E m \in Matches : ReverseRecv(m)
  BY <1>5 DEF ReverseRecv
<1>6. CASE ReadFails \/ Tick
  BY <1>6 DEF ReadFails, Tick
<1>7. CASE PeerCloses \/ PeerVanishes \/ Suspend
  BY <1>7 DEF PeerCloses, PeerVanishes, Suspend
<1>8. CASE Crash \/ Restart
  BY <1>8 DEF Crash, Restart
<1>9. CASE Watcher \/ WatcherExits \/ Resume
  BY <1>9 DEF Watcher, WatcherExits, Resume
<1>10. CASE WakeTick \/ Wake \/ ClockSet
  BY <1>10 DEF WakeTick, Wake, ClockSet
<1>11. CASE UNCHANGED vars
  BY <1>11 DEF vars
<1> QED
  BY <1>1, <1>2, <1>3, <1>4, <1>5, <1>6, <1>7, <1>8, <1>9, <1>10, <1>11
     DEF Next, Connecting, Receiving, World, ResumeWatcher, watch_for_wake

\* Types: every action keeps its variables in their sets.
LEMMA NextTypeOK == TypeOK /\ [Next]_vars => TypeOK'
<1> SUFFICES ASSUME TypeOK, [Next]_vars PROVE TypeOK'
  OBVIOUS
<1>1. FlagsOK /\ DataOK
  BY TypeHalves
<1>2. FlagsOK' /\ DataOK'
  BY <1>1, NextFlags, NextData
<1> QED
  BY Zenon, <1>2 DEF TypeOK, FlagsOK, DataOK

\* The clone is published after the connection is made and withdrawn before
\* the error leaves run_client.
LEMMA NextPublished ==
  PublishedIsCurrent /\ [Next]_vars => PublishedIsCurrent'
<1> SUFFICES ASSUME PublishedIsCurrent, [Next]_vars PROVE PublishedIsCurrent'
  OBVIOUS
<1> USE DEF PublishedIsCurrent, Reading, session, file, watch
<1>1. CASE NotConfigured \/ BeginConnect \/ ConnectOk \/ ConnectForeign \/ ConnectFail
  BY <1>1 DEF NotConfigured, BeginConnect, ConnectOk, ConnectForeign, ConnectFail
<1>2. CASE Publish \/ PublishFails \/ Unpublish \/ Report \/ Retry
  BY <1>2 DEF Publish, PublishFails, Unpublish, Report, Retry
<1>3. CASE Opened \/ RecvOther \/ RecvInvalid
  BY <1>3 DEF Opened, RecvOther, RecvInvalid
<1>4. CASE \E m \in Matches : RecvAck(m)
  BY <1>4 DEF RecvAck
<1>5. CASE \E m \in Matches : ReverseRecv(m)
  BY <1>5 DEF ReverseRecv
<1>6. CASE ReadFails \/ Tick
  BY <1>6 DEF ReadFails, Tick
<1>7. CASE PeerCloses \/ PeerVanishes \/ Suspend
  BY <1>7 DEF PeerCloses, PeerVanishes, Suspend
<1>8. CASE Crash \/ Restart
  BY <1>8 DEF Crash, Restart
<1>9. CASE Watcher \/ WatcherExits \/ Resume
  BY <1>9 DEF Watcher, WatcherExits, Resume
<1>10. CASE WakeTick \/ Wake \/ ClockSet
  BY <1>10 DEF WakeTick, Wake, ClockSet
<1>11. CASE UNCHANGED vars
  BY <1>11 DEF vars
<1> QED
  BY <1>1, <1>2, <1>3, <1>4, <1>5, <1>6, <1>7, <1>8, <1>9, <1>10, <1>11
     DEF Next, Connecting, Receiving, World, ResumeWatcher, watch_for_wake

\* "connected" is told only from a matched answer on; every attempt begins by
\* taking it back.
LEMMA NextConnected ==
  ConnectedMeansProven /\ [Next]_vars => ConnectedMeansProven'
<1> SUFFICES ASSUME ConnectedMeansProven, [Next]_vars PROVE ConnectedMeansProven'
  OBVIOUS
<1> USE DEF ConnectedMeansProven, Write, session, file, watch
<1>1. CASE NotConfigured \/ BeginConnect \/ ConnectOk \/ ConnectForeign \/ ConnectFail
  BY <1>1 DEF NotConfigured, BeginConnect, ConnectOk, ConnectForeign, ConnectFail
<1>2. CASE Publish \/ PublishFails \/ Unpublish \/ Report \/ Retry
  BY <1>2 DEF Publish, PublishFails, Unpublish, Report, Retry
<1>3. CASE Opened \/ RecvOther \/ RecvInvalid
  BY <1>3 DEF Opened, RecvOther, RecvInvalid
<1>4. CASE \E m \in Matches : RecvAck(m)
  BY <1>4 DEF RecvAck
<1>5. CASE \E m \in Matches : ReverseRecv(m)
  BY <1>5 DEF ReverseRecv
<1>6. CASE ReadFails \/ Tick
  BY <1>6 DEF ReadFails, Tick
<1>7. CASE PeerCloses \/ PeerVanishes \/ Suspend
  BY <1>7 DEF PeerCloses, PeerVanishes, Suspend
<1>8. CASE Crash \/ Restart
  BY <1>8 DEF Crash, Restart
<1>9. CASE Watcher \/ WatcherExits \/ Resume
  BY <1>9 DEF Watcher, WatcherExits, Resume
<1>10. CASE WakeTick \/ Wake \/ ClockSet
  BY <1>10 DEF WakeTick, Wake, ClockSet
<1>11. CASE UNCHANGED vars
  BY <1>11 DEF vars
<1> QED
  BY <1>1, <1>2, <1>3, <1>4, <1>5, <1>6, <1>7, <1>8, <1>9, <1>10, <1>11
     DEF Next, Connecting, Receiving, World, ResumeWatcher, watch_for_wake

\* A session begins unproven, and only a peer with our key proves it.
LEMMA NextForeign == ForeignUnproven /\ [Next]_vars => ForeignUnproven'
<1> SUFFICES ASSUME ForeignUnproven, [Next]_vars PROVE ForeignUnproven'
  OBVIOUS
<1> USE DEF ForeignUnproven, session, file, watch
<1>1. CASE NotConfigured \/ BeginConnect \/ ConnectOk \/ ConnectForeign \/ ConnectFail
  BY <1>1 DEF NotConfigured, BeginConnect, ConnectOk, ConnectForeign, ConnectFail
<1>2. CASE Publish \/ PublishFails \/ Unpublish \/ Report \/ Retry
  BY <1>2 DEF Publish, PublishFails, Unpublish, Report, Retry
<1>3. CASE Opened \/ RecvOther \/ RecvInvalid
  BY <1>3 DEF Opened, RecvOther, RecvInvalid
<1>4. CASE \E m \in Matches : RecvAck(m)
  BY <1>4 DEF RecvAck
<1>5. CASE \E m \in Matches : ReverseRecv(m)
  BY <1>5 DEF ReverseRecv
<1>6. CASE ReadFails \/ Tick
  BY <1>6 DEF ReadFails, Tick
<1>7. CASE PeerCloses \/ PeerVanishes \/ Suspend
  BY <1>7 DEF PeerCloses, PeerVanishes, Suspend
<1>8. CASE Crash \/ Restart
  BY <1>8 DEF Crash, Restart
<1>9. CASE Watcher \/ WatcherExits \/ Resume
  BY <1>9 DEF Watcher, WatcherExits, Resume
<1>10. CASE WakeTick \/ Wake \/ ClockSet
  BY <1>10 DEF WakeTick, Wake, ClockSet
<1>11. CASE UNCHANGED vars
  BY <1>11 DEF vars
<1> QED
  BY <1>1, <1>2, <1>3, <1>4, <1>5, <1>6, <1>7, <1>8, <1>9, <1>10, <1>11
     DEF Next, Connecting, Receiving, World, ResumeWatcher, watch_for_wake

\* A resume leaves either a signal for the watcher or a miss; the watcher, when
\* it handles the signal, breaks the connection or misses it.
LEMMA NextStale ==
  TypeOK /\ StaleOnlyIfMissed /\ [Next]_vars => StaleOnlyIfMissed'
<1> SUFFICES ASSUME TypeOK, StaleOnlyIfMissed, [Next]_vars PROVE StaleOnlyIfMissed'
  OBVIOUS
<1> USE DEF StaleOnlyIfMissed, HasConn, Awake, session, file, watch
<1>1. CASE NotConfigured \/ BeginConnect \/ ConnectOk \/ ConnectForeign \/ ConnectFail
  BY <1>1 DEF NotConfigured, BeginConnect, ConnectOk, ConnectForeign, ConnectFail
<1>2. CASE Publish \/ PublishFails \/ Unpublish \/ Report \/ Retry
  BY <1>2 DEF Publish, PublishFails, Unpublish, Report, Retry
<1>3. CASE Opened \/ RecvOther \/ RecvInvalid
  BY <1>3 DEF Opened, RecvOther, RecvInvalid
<1>4. CASE \E m \in Matches : RecvAck(m)
  BY <1>4 DEF RecvAck
<1>5. CASE \E m \in Matches : ReverseRecv(m)
  BY <1>5 DEF ReverseRecv
<1>6. CASE ReadFails \/ Tick
  BY <1>6 DEF ReadFails, Tick
<1>7. CASE PeerCloses \/ PeerVanishes \/ Suspend
  BY <1>7 DEF PeerCloses, PeerVanishes, Suspend
<1>8. CASE Crash \/ Restart
  BY <1>8 DEF Crash, Restart
<1>9. CASE Watcher \/ WatcherExits \/ Resume
  <2>1. CASE Watcher \/ WatcherExits
    BY <2>1 DEF Watcher, WatcherExits, TypeOK
  <2>2. CASE Resume
    <3>1. CASE watching
      BY <2>2, <3>1 DEF Resume, TypeOK
    <3>2. CASE ~watching
      <4>1. missed'
        BY Zenon, <2>2, <3>2 DEF Resume
      <4> QED
        BY <4>1
    <3> QED
      BY <3>1, <3>2
  <2> QED
    BY <1>9, <2>1, <2>2
<1>10. CASE WakeTick \/ Wake \/ ClockSet
  BY <1>10 DEF WakeTick, Wake, ClockSet, TypeOK
<1>11. CASE UNCHANGED vars
  BY <1>11 DEF vars
<1> QED
  BY <1>1, <1>2, <1>3, <1>4, <1>5, <1>6, <1>7, <1>8, <1>9, <1>10, <1>11
     DEF Next, Connecting, Receiving, World, ResumeWatcher, watch_for_wake

\* The facts hold together in every reachable state.
LEMMA InvariantHolds == SafeSpec => []IInv
<1>1. Init => IInv
  BY InitIInv
<1>2. IInv /\ [Next]_vars => IInv'
  BY NextTypeOK, NextPublished, NextConnected, NextStale, NextForeign
     DEF IInv
<1> QED
  BY <1>1, <1>2, PTL DEF SafeSpec

\* The link's variables keep their types whatever fails.
THEOREM TypeCorrect == SafeSpec => []TypeOK
  BY InvariantHolds, PTL DEF IInv

\* The resume watcher never finds a clone of an earlier connection in
\* current_stream.
THEOREM CloneIsCurrent == SafeSpec => []PublishedIsCurrent
  BY InvariantHolds, PTL DEF IInv

\* The outbound connection says "connected" only of a session whose challenge
\* matched, until its end is reported.
THEOREM ConnectedIsProven == SafeSpec => []ConnectedMeansProven
  BY InvariantHolds, PTL DEF IInv

\* A connection the machine slept under waits for SOCKET_TIMEOUT only if the
\* resume could not touch it.
THEOREM StaleIsMissed == SafeSpec => []StaleOnlyIfMissed
  BY InvariantHolds, PTL DEF IInv

-----------------------------------------------------------------------------
(* What both daemons tell implements LinkStatus.                           *)

\* Every step of the link is a step of the promised status, or none.
LEMMA StepRefines ==
  ForeignUnproven /\ [Next]_vars => [Promise!LNext]_(Promise!lvars)
<1> SUFFICES ASSUME ForeignUnproven, [Next]_vars PROVE [Promise!LNext]_(Promise!lvars)
  OBVIOUS
<1> USE DEF Promise!LNext, Promise!lvars, Promise!Prove, Promise!Refuse,
            Promise!Drop, Promise!Tell, Write, session, file
<1>1. CASE NotConfigured \/ BeginConnect \/ Report
  BY <1>1 DEF NotConfigured, BeginConnect, Report
<1>2. CASE ConnectOk \/ ConnectForeign \/ ConnectFail
  BY <1>2 DEF ConnectOk, ConnectForeign, ConnectFail
<1>3. CASE Publish \/ PublishFails \/ Unpublish \/ Retry
  BY <1>3 DEF Publish, PublishFails, Unpublish, Retry
<1>4. CASE Opened \/ RecvOther
  BY <1>4 DEF Opened, RecvOther
<1>5. CASE RecvInvalid
  BY <1>5 DEF RecvInvalid, ForeignUnproven
<1>6. ASSUME NEW m \in Matches, RecvAck(m) PROVE [Promise!LNext]_(Promise!lvars)
  <2>1. CASE m
    BY <1>6, <2>1 DEF RecvAck
  <2>2. CASE ~m
    BY <1>6, <2>2 DEF RecvAck
  <2> QED
    BY <2>1, <2>2
<1>7. CASE \E m \in Matches : ReverseRecv(m)
  BY <1>7 DEF ReverseRecv
<1>8. CASE ReadFails \/ Crash
  BY <1>8 DEF ReadFails, Crash
<1>9. CASE Tick \/ Watcher \/ WatcherExits \/ WakeTick \/ Wake \/ ClockSet
  BY <1>9 DEF Tick, Watcher, WatcherExits, WakeTick, Wake, ClockSet
<1>10. CASE PeerCloses \/ PeerVanishes \/ Suspend \/ Resume \/ Restart
  BY <1>10 DEF PeerCloses, PeerVanishes, Suspend, Resume, Restart
<1>11. CASE UNCHANGED vars
  BY <1>11 DEF vars
<1> QED
  BY <1>1, <1>2, <1>3, <1>4, <1>5, <1>6, <1>7, <1>8, <1>9, <1>10, <1>11
     DEF Next, Connecting, Receiving, World, ResumeWatcher, watch_for_wake

\* The link keeps the safety part of LinkStatus: nothing but a matched answer
\* makes it say "connected", and a session that is over is not followed by
\* another one under the old status.
THEOREM StatusKeepsPromise == SafeSpec => Promise!LSafe
<1>1. Init => Promise!LInit
  BY DEF Init, Promise!LInit, Promise!Shown, Shown
<1>2. SafeSpec => []ForeignUnproven
  BY InvariantHolds, PTL DEF IInv
<1> QED
  BY <1>1, <1>2, StepRefines, PTL DEF SafeSpec, Promise!LSafe

=============================================================================
