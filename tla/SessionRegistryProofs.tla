------------------------ MODULE SessionRegistryProofs ------------------------
(***************************************************************************)
(* Proofs about SessionRegistry, for any panes, connections and sessions.  *)
(*                                                                         *)
(* TypeOK is inductive by itself and every other invariant is inductive    *)
(* beside it, after a strengthening where one is needed (Obeyed, Vouched). *)
(***************************************************************************)
EXTENDS SessionRegistry, TLAPS

\* The pane of a connection is a pane.
LEMMA ConnPane == ASSUME NEW c \in Conn PROVE c[1] \in Pane
BY DEF Conn

\* What Killed makes of the shells is of their type.
LEMMA KilledType ==
    ASSUME TypeOK, NEW p \in Pane, NEW s \in Session \cup {NoSession}, NEW why \in Ended
    PROVE  Killed(p, s, why) \in [Pane -> [Session -> ShellState]]
BY RegistryAssumption DEF TypeOK, Killed, ShellState

\* What remove_session leaves is of its type.
LEMMA RemoveSessionType ==
    ASSUME TypeOK, NEW p \in Pane, NEW why \in Ended, RemoveSession(p, why)
    PROVE  /\ registry' \in [Pane -> Session \cup {NoSession}]
           /\ shell' \in [Pane -> [Session -> ShellState]]
           /\ announced' = announced
<1>1. registry[p] \in Session \cup {NoSession}
  BY DEF TypeOK
<1>2. shell' \in [Pane -> [Session -> ShellState]]
  BY <1>1, KilledType DEF RemoveSession
<1> QED
  BY <1>2 DEF RemoveSession, TypeOK

\* What a returning thread leaves is of its type.
LEMMA ThreadReturnsType ==
    ASSUME TypeOK, NEW c \in Conn, ThreadReturns(c)
    PROVE  /\ unread' \in [Conn -> SUBSET RelayInput]
           /\ thread' \in [Conn -> ThreadState]
           /\ held' \in [Conn -> Session \cup {NoSession}]
BY DEF ThreadReturns, TypeOK, ThreadState

-----------------------------------------------------------------------------
\* The variables keep their types.
LEMMA TypeStep == TypeOK /\ [Next]_vars => TypeOK'
<1> SUFFICES ASSUME TypeOK, [Next]_vars PROVE TypeOK'
  OBVIOUS
<1> USE DEF conns, relays, threads, sessions, watch
<1>1. ASSUME NEW c \in Conn, Connect(c) PROVE TypeOK'
  BY <1>1, ConnPane DEF Connect, TypeOK, RelayState, ThreadState
<1>2. ASSUME NEW c \in Conn, RelayEnds(c) PROVE TypeOK'
  BY <1>2 DEF RelayEnds, TypeOK, RelayState
<1>3. ASSUME NEW c \in Conn, SendRegister(c) PROVE TypeOK'
  BY <1>3 DEF SendRegister, TypeOK, RelayState, RelayInput
<1>4. ASSUME NEW c \in Conn, SendResize(c) PROVE TypeOK'
  BY <1>4 DEF SendResize, TypeOK, RelayState, RelayInput
<1>5. ASSUME NEW c \in Conn, SendClose(c) PROVE TypeOK'
  BY <1>5 DEF SendClose, TypeOK, RelayState, RelayInput
<1>6. ASSUME NEW c \in Conn, Accept(c) PROVE TypeOK'
  <2>1. CASE relay[c] = "off"
    BY <1>6, <2>1, ThreadReturnsType DEF Accept, TypeOK
  <2>2. CASE relay[c] # "off"
    BY <1>6, <2>2 DEF Accept, TypeOK, ThreadState
  <2> QED
    BY <2>1, <2>2
<1>7. ASSUME NEW c \in Conn, FindSession(c) PROVE TypeOK'
  BY <1>7, ConnPane DEF FindSession, TypeOK, ThreadState
<1>8. ASSUME NEW c \in Conn, CreateSession(c) PROVE TypeOK'
  <2>1. PICK s \in Session : /\ registry' = [registry EXCEPT ![c[1]] = s]
                             /\ shell' = [shell EXCEPT ![c[1]][s] = "running"]
                             /\ held' = [held EXCEPT ![c] = s]
    BY <1>8 DEF CreateSession
  <2> QED
    BY <1>8, <2>1, ConnPane DEF CreateSession, TypeOK, ThreadState, ShellState
<1>9. ASSUME NEW c \in Conn, SpawnFails(c) PROVE TypeOK'
  BY <1>9, ThreadReturnsType DEF SpawnFails, TypeOK
<1>10. ASSUME NEW c \in Conn, Attach(c) PROVE TypeOK'
  <2>1. CASE relay[c] = "off"
    BY <1>10, <2>1, ThreadReturnsType DEF Attach, TypeOK
  <2>2. CASE relay[c] # "off"
    BY <1>10, <2>2 DEF Attach, TypeOK, ThreadState
  <2> QED
    BY <2>1, <2>2
<1>11. ASSUME NEW c \in Conn, ReadClose(c) PROVE TypeOK'
  <2>1. shell' \in [Pane -> [Session -> ShellState]]
    <3>1. held[c] \in Session \cup {NoSession}
      BY DEF TypeOK
    <3> QED
      BY <1>11, <3>1, KilledType, ConnPane DEF ReadClose, Ended
  <2> QED
    BY <1>11, <2>1 DEF ReadClose, TypeOK, ThreadState
<1>12. ASSUME NEW c \in Conn, ReadEnd(c) PROVE TypeOK'
  <2>1. CASE thread[c] = "attached"
    BY <1>12, <2>1 DEF ReadEnd, TypeOK, ThreadState
  <2>2. CASE thread[c] # "attached"
    BY <1>12, <2>2, ThreadReturnsType DEF ReadEnd, TypeOK
  <2> QED
    BY <2>1, <2>2
<1>13. ASSUME NEW c \in Conn, Cleanup(c) PROVE TypeOK'
  <2>1. CASE UNCHANGED sessions
    BY <1>13, <2>1, ThreadReturnsType DEF Cleanup, TypeOK
  <2>2. CASE \E why \in Ended : RemoveSession(c[1], why)
    BY <1>13, <2>2, ThreadReturnsType, RemoveSessionType, ConnPane DEF Cleanup, TypeOK
  <2> QED
    BY <1>13, <2>1, <2>2 DEF Cleanup, Ended
<1>14. ASSUME NEW p \in Pane, ClosePane(p) PROVE TypeOK'
  <2>1. CASE UNCHANGED sessions
    BY <1>14, <2>1 DEF ClosePane, TypeOK, RelayState
  <2>2. CASE RemoveSession(p, "kill") /\ UNCHANGED relay
    BY <1>14, <2>2, RemoveSessionType DEF ClosePane, TypeOK, Ended
  <2> QED
    BY <1>14, <2>1, <2>2 DEF ClosePane
<1>15. ASSUME NEW p \in Pane, NEW s \in Session, ShellExits(p, s) PROVE TypeOK'
  BY <1>15 DEF ShellExits, TypeOK, ShellState, Ended
<1>16. ASSUME NEW p \in Pane, NEW s \in Session, Announce(p, s) PROVE TypeOK'
  BY <1>16 DEF Announce, TypeOK, RelayState
<1>17. CASE WatcherLook
  BY <1>17, RegistryAssumption DEF WatcherLook, TypeOK
<1>18. CASE WatcherDecide
  BY <1>18 DEF WatcherDecide, TypeOK
<1>19. CASE WatcherExit
  BY <1>19, RegistryAssumption DEF WatcherExit, TypeOK, ThreadState, ShellState, Ended
<1>20. CASE UNCHANGED vars
  BY <1>20 DEF vars, TypeOK
<1> QED
  BY <1>1, <1>2, <1>3, <1>4, <1>5, <1>6, <1>7, <1>8, <1>9, <1>10, <1>11, <1>12,
     <1>13, <1>14, <1>15, <1>16, <1>17, <1>18, <1>19, <1>20
     DEF Next, RelayStep, ThreadStep, WatcherStep

\* The variables always have their types.
THEOREM TypeCorrect == Spec => []TypeOK
<1>1. Init => TypeOK
  BY RegistryAssumption DEF Init, TypeOK, RelayState, ThreadState, ShellState
<1> QED
  BY <1>1, TypeStep, PTL DEF Spec

-----------------------------------------------------------------------------
\* Where remove_session leaves the sessions of a pane: the ones that ran and
\* were not registered still run, and nothing else runs.
LEMMA RemoveSessionEnds ==
    ASSUME TypeOK, NoStrayShell, NEW p \in Pane, NEW why \in Ended, RemoveSession(p, why)
    PROVE  NoStrayShell'
<1> SUFFICES ASSUME NEW q \in Pane, NEW s \in Session, shell'[q][s] = "running"
             PROVE  registry'[q] = s
  BY DEF NoStrayShell
<1>1. shell[q][s] = "running"
  BY DEF RemoveSession, Killed, TypeOK, Ended
<1>2. registry[q] = s
  BY <1>1 DEF NoStrayShell
<1>3. q # p
  BY <1>1, <1>2, RegistryAssumption DEF RemoveSession, Killed, TypeOK, Ended
<1> QED
  BY <1>2, <1>3 DEF RemoveSession, TypeOK

\* A step leaves no shell running that is not the registered one of its pane.
LEMMA NoStrayShellStep == TypeOK /\ NoStrayShell /\ [Next]_vars => NoStrayShell'
<1> SUFFICES ASSUME TypeOK, NoStrayShell, [Next]_vars PROVE NoStrayShell'
  OBVIOUS
<1> USE DEF conns, relays, threads, sessions, watch
<1>1. CASE UNCHANGED sessions
  BY <1>1 DEF NoStrayShell
<1>2. ASSUME NEW p \in Pane, NEW why \in Ended, RemoveSession(p, why) PROVE NoStrayShell'
  BY <1>2, RemoveSessionEnds
<1>3. ASSUME NEW c \in Conn, CreateSession(c) PROVE NoStrayShell'
  <2>1. PICK s \in Session : /\ registry' = [registry EXCEPT ![c[1]] = s]
                             /\ shell' = [shell EXCEPT ![c[1]][s] = "running"]
    BY <1>3 DEF CreateSession
  <2>2. \A t \in Session : shell[c[1]][t] # "running"
    BY <1>3, ConnPane, RegistryAssumption DEF CreateSession, NoStrayShell
  <2> QED
    BY <2>1, <2>2, ConnPane DEF NoStrayShell, TypeOK
<1>4. ASSUME NEW c \in Conn, ReadClose(c) PROVE NoStrayShell'
  <2>1. held[c] \in Session \cup {NoSession}
    BY DEF TypeOK
  <2> QED
    BY <1>4, <2>1, ConnPane DEF ReadClose, Killed, NoStrayShell, TypeOK
<1>5. ASSUME NEW p \in Pane, NEW s \in Session, ShellExits(p, s) PROVE NoStrayShell'
  BY <1>5 DEF ShellExits, NoStrayShell, TypeOK
<1>6. ASSUME NEW p \in Pane, NEW s \in Session, Announce(p, s) PROVE NoStrayShell'
  BY <1>6 DEF Announce, NoStrayShell
<1>7. CASE WatcherExit
  BY <1>7 DEF WatcherExit, NoStrayShell, TypeOK
<1>8. ASSUME NEW c \in Conn, Cleanup(c) PROVE NoStrayShell'
  BY <1>1, <1>2, <1>8, ConnPane DEF Cleanup, Ended
<1>9. ASSUME NEW p \in Pane, ClosePane(p) PROVE NoStrayShell'
  BY <1>1, <1>2, <1>9 DEF ClosePane, Ended
<1>10. CASE WatcherLook \/ WatcherDecide \/ UNCHANGED vars
  BY <1>1, <1>10 DEF WatcherLook, WatcherDecide, vars
<1>11. ASSUME NEW c \in Conn,
              \/ Connect(c) \/ RelayEnds(c) \/ RelayStep(c) \/ Accept(c) \/ FindSession(c)
              \/ SpawnFails(c) \/ Attach(c) \/ ReadEnd(c)
       PROVE NoStrayShell'
  BY <1>1, <1>11 DEF Connect, RelayEnds, RelayStep, SendRegister, SendResize, SendClose,
                     Accept, FindSession, SpawnFails, Attach, ReadEnd
<1> QED
  BY <1>3, <1>4, <1>5, <1>6, <1>7, <1>8, <1>9, <1>10, <1>11
     DEF Next, ThreadStep, WatcherStep

\* No pane ever has a running shell beside the one registered for it.
THEOREM NoStrayShellHolds == Spec => []NoStrayShell
<1>1. Init => NoStrayShell
  BY DEF Init, NoStrayShell
<1> QED
  BY <1>1, NoStrayShellStep, TypeCorrect, PTL DEF Spec

-----------------------------------------------------------------------------
\* Whatever is on its way to end a session for good is the doing of a user who
\* has closed its pane: the frame in the relay's pty, the Close it becomes, and
\* the thread that has read it.
Obeyed ==
    \A c \in Conn :
        (relay[c] = "told" \/ "close" \in unread[c] \/ thread[c] = "closing")
            => pane[c[1]] = "closed"

\* A closed pane stays closed.
LEMMA ClosedStays ==
    ASSUME TypeOK, [Next]_vars, NEW p \in Pane, pane[p] = "closed"
    PROVE  pane'[p] = "closed"
BY DEF Next, RelayStep, ThreadStep, WatcherStep, vars, conns, relays, threads, sessions, watch,
       Connect, SendRegister, SendResize, SendClose, RelayEnds, ClosePane, Accept, FindSession,
       CreateSession, SpawnFails, Attach, ReadClose, ReadEnd, Cleanup, ShellExits, Announce,
       WatcherLook, WatcherDecide, WatcherExit, TypeOK

\* Nobody starts to end a session for good whose pane is not closed.
LEMMA ObeyedStep == TypeOK /\ Obeyed /\ [Next]_vars => Obeyed'
<1> SUFFICES ASSUME TypeOK, Obeyed, [Next]_vars, NEW c \in Conn,
                    \/ relay'[c] = "told" \/ "close" \in unread'[c] \/ thread'[c] = "closing"
             PROVE  pane'[c[1]] = "closed"
  BY DEF Obeyed
<1> USE DEF conns, relays, threads, sessions, watch
<1> DEFINE Ending == relay[c] = "told" \/ "close" \in unread[c] \/ thread[c] = "closing"
<1>1. CASE Ending
  BY <1>1, ClosedStays, ConnPane DEF Obeyed
<1>2. CASE ~Ending
  <2>1. ASSUME NEW p \in Pane, ClosePane(p) PROVE pane'[c[1]] = "closed"
    BY <1>2, <2>1 DEF ClosePane, TypeOK
  <2>2. ASSUME NEW d \in Conn, Connect(d) \/ RelayEnds(d) \/ RelayStep(d) PROVE FALSE
    BY <1>2, <2>2 DEF Connect, RelayEnds, RelayStep, SendRegister, SendResize, SendClose, TypeOK
  <2>3. ASSUME NEW d \in Conn, ThreadStep(d) PROVE FALSE
    BY <1>2, <2>3 DEF ThreadStep, Accept, FindSession, CreateSession, SpawnFails, Attach,
                      ReadClose, ReadEnd, Cleanup, ThreadReturns, TypeOK
  <2>4. ASSUME NEW p \in Pane, NEW s \in Session, ShellExits(p, s) \/ Announce(p, s) PROVE FALSE
    BY <1>2, <2>4 DEF ShellExits, Announce, TypeOK
  <2>5. CASE WatcherStep \/ UNCHANGED vars
    BY <1>2, <2>5 DEF WatcherStep, WatcherLook, WatcherDecide, WatcherExit, vars, TypeOK
  <2> QED
    BY <2>1, <2>2, <2>3, <2>4, <2>5 DEF Next
<1> QED
  BY <1>1, <1>2

\* What Killed does to one shell.
LEMMA KilledAt ==
    ASSUME TypeOK, NEW p \in Pane, NEW s \in Session \cup {NoSession}, NEW why \in Ended,
           NEW q \in Pane, NEW t \in Session, Killed(p, s, why)[q][t] # shell[q][t]
    PROVE  q = p /\ t = s /\ shell[q][t] = "running" /\ Killed(p, s, why)[q][t] = why
BY DEF Killed, TypeOK

\* A step ends the session of a tmux pane with a Close or a kill only when that
\* pane is closed, and never because a connection went away.
LEMMA SurvivesDetachStep ==
    TypeOK /\ Obeyed /\ SurvivesDetach /\ [Next]_vars => SurvivesDetach'
<1> SUFFICES ASSUME TypeOK, Obeyed, SurvivesDetach, [Next]_vars,
                    NEW p \in TmuxPane, NEW s \in Session
             PROVE  /\ shell'[p][s] # "drop"
                    /\ shell'[p][s] \in {"close", "kill"} => pane'[p] = "closed"
  BY DEF SurvivesDetach
<1> USE DEF conns, relays, threads, sessions, watch
<1>0. p \in Pane
  BY RegistryAssumption
<1>1. CASE shell'[p][s] = shell[p][s]
  BY <1>0, <1>1, ClosedStays DEF SurvivesDetach
<1>2. CASE shell'[p][s] # shell[p][s]
  <2>1. ASSUME NEW c \in Conn, CreateSession(c)
        PROVE  shell'[p][s] = "running"
    BY <1>0, <1>2, <2>1 DEF CreateSession, TypeOK
  <2>2. ASSUME NEW c \in Conn, ReadClose(c)
        PROVE  shell'[p][s] = "close" /\ pane'[p] = "closed"
    <3>1. held[c] \in Session \cup {NoSession} /\ c[1] \in Pane /\ "close" \in Ended
      BY ConnPane DEF TypeOK, Ended
    <3>2. c[1] = p /\ shell'[p][s] = "close"
      BY <1>0, <1>2, <2>2, <3>1, KilledAt DEF ReadClose
    <3> QED
      BY <2>2, <3>2 DEF ReadClose, Obeyed
  <2>3. ASSUME NEW c \in Conn, Cleanup(c)
        PROVE  shell'[p][s] = "close" /\ pane'[p] = "closed"
    <3>1. c[1] \in Pane /\ registry[c[1]] \in Session \cup {NoSession}
      BY ConnPane DEF TypeOK
    <3>2. PICK why \in {"close", "drop"} : /\ RemoveSession(c[1], why)
                                           /\ why = "close" => thread[c] = "closing"
                                           /\ why = "drop" => c[1] \notin TmuxPane
      BY <1>2, <2>3 DEF Cleanup
    <3>3. c[1] = p /\ shell'[p][s] = why
      BY <1>0, <1>2, <3>1, <3>2, KilledAt DEF RemoveSession, Ended
    <3> QED
      BY <2>3, <3>2, <3>3 DEF Cleanup, Obeyed
  <2>4. ASSUME NEW q \in Pane, ClosePane(q)
        PROVE  shell'[p][s] = "kill" /\ pane'[p] = "closed"
    <3>1. RemoveSession(q, "kill") /\ registry[q] \in Session \cup {NoSession}
      BY <1>2, <2>4 DEF ClosePane, TypeOK
    <3>2. q = p /\ shell'[p][s] = "kill"
      BY <1>0, <1>2, <3>1, KilledAt DEF RemoveSession, Ended
    <3> QED
      BY <2>4, <3>2 DEF ClosePane, TypeOK
  <2>5. ASSUME NEW q \in Pane, NEW t \in Session, ShellExits(q, t)
        PROVE  shell'[p][s] = "exit"
    BY <1>0, <1>2, <2>5 DEF ShellExits, TypeOK
  <2>6. CASE WatcherExit
    BY <1>0, <1>2, <2>6 DEF WatcherExit, TypeOK
  <2>7. ASSUME NEW c \in Conn,
               \/ Connect(c) \/ RelayEnds(c) \/ RelayStep(c) \/ Accept(c) \/ FindSession(c)
               \/ SpawnFails(c) \/ Attach(c) \/ ReadEnd(c)
        PROVE  FALSE
    BY <1>2, <2>7 DEF Connect, RelayEnds, RelayStep, SendRegister, SendResize, SendClose,
                      Accept, FindSession, SpawnFails, Attach, ReadEnd
  <2>8. ASSUME NEW q \in Pane, NEW t \in Session, Announce(q, t) PROVE FALSE
    BY <1>2, <2>8 DEF Announce
  <2>9. CASE WatcherLook \/ WatcherDecide \/ UNCHANGED vars
    BY <1>2, <2>9 DEF WatcherLook, WatcherDecide, vars
  <2> QED
    BY <2>1, <2>2, <2>3, <2>4, <2>5, <2>6, <2>7, <2>8, <2>9 DEF Next, ThreadStep, WatcherStep
<1> QED
  BY <1>1, <1>2

\* The session of a tmux pane outlives every connection, until its user closes
\* the pane, its shell ends or the daemon leaves.
THEOREM SurvivesDetachHolds == Spec => []SurvivesDetach
<1>1. Init => Obeyed /\ SurvivesDetach
  BY RegistryAssumption DEF Init, Obeyed, SurvivesDetach
<1>2. Spec => [](Obeyed /\ SurvivesDetach)
  BY <1>1, ObeyedStep, SurvivesDetachStep, TypeCorrect, PTL DEF Spec
<1> QED
  BY <1>2, PTL

-----------------------------------------------------------------------------
\* A step leaves no dead session registered whose removal is not under way,
\* unless its shell ended by itself.
LEMMA CorpseStep ==
    TypeOK /\ CorpseOnlyAfterOwnExit /\ [Next]_vars => CorpseOnlyAfterOwnExit'
<1> SUFFICES ASSUME TypeOK, CorpseOnlyAfterOwnExit, [Next]_vars,
                    NEW p \in Pane, NEW s \in Session,
                    registry'[p] = s, shell'[p][s] \in Ended, shell'[p][s] # "exit"
             PROVE  \E c \in Conn : c[1] = p /\ held'[c] = s /\ thread'[c] = "closing"
  BY DEF CorpseOnlyAfterOwnExit
<1> USE DEF conns, relays, threads, sessions, watch
<1> DEFINE Removing(c) == c[1] = p /\ held[c] = s /\ thread[c] = "closing"
<1>1. CASE registry[p] = s /\ shell[p][s] = shell'[p][s]
  <2>1. PICK c \in Conn : Removing(c)
    BY <1>1 DEF CorpseOnlyAfterOwnExit
  <2>2. CASE held'[c] = held[c] /\ thread'[c] = thread[c]
    BY <2>1, <2>2
  <2>3. ASSUME NEW d \in Conn, ThreadStep(d) PROVE (held'[c] = held[c] /\ thread'[c] = thread[c])
    <3>1. CASE Cleanup(d)
      <4>1. d # c
        BY <2>1, <3>1, RegistryAssumption DEF Cleanup, RemoveSession, TypeOK
      <4> QED
        BY <3>1, <4>1 DEF Cleanup, ThreadReturns, TypeOK
    <3>2. CASE ~Cleanup(d)
      BY <2>1, <2>3, <3>2 DEF ThreadStep, Accept, FindSession, CreateSession, SpawnFails,
                              Attach, ReadClose, ReadEnd, ThreadReturns, TypeOK
    <3> QED
      BY <3>1, <3>2
  <2>4. ASSUME NEW d \in Conn, Connect(d) \/ RelayEnds(d) \/ RelayStep(d)
        PROVE  held'[c] = held[c] /\ thread'[c] = thread[c]
    BY <2>1, <2>4 DEF Connect, RelayEnds, RelayStep, SendRegister, SendResize, SendClose, TypeOK
  <2>5. ASSUME NEW q \in Pane, NEW t \in Session, ShellExits(q, t) \/ Announce(q, t)
        PROVE  held'[c] = held[c] /\ thread'[c] = thread[c]
    BY <2>5 DEF ShellExits, Announce
  <2>6. CASE WatcherStep \/ UNCHANGED vars
    BY <2>6, <2>2, RegistryAssumption
       DEF WatcherStep, WatcherLook, WatcherDecide, WatcherExit, vars, TypeOK
  <2>7. ASSUME NEW q \in Pane, ClosePane(q)
        PROVE  held'[c] = held[c] /\ thread'[c] = thread[c]
    BY <2>7 DEF ClosePane
  <2> QED
    BY <2>2, <2>3, <2>4, <2>5, <2>6, <2>7 DEF Next
<1>2. CASE ~(registry[p] = s /\ shell[p][s] = shell'[p][s])
  <2>1. ASSUME NEW c \in Conn, CreateSession(c) PROVE FALSE
    <3>1. PICK t \in Session : /\ registry' = [registry EXCEPT ![c[1]] = t]
                               /\ shell' = [shell EXCEPT ![c[1]][t] = "running"]
      BY <2>1 DEF CreateSession
    <3>2. CASE c[1] = p
      <4>1. s = t
        BY <3>1, <3>2 DEF TypeOK
      <4>2. shell'[p][s] = "running"
        BY <3>1, <3>2, <4>1 DEF TypeOK
      <4> QED
        BY <4>2 DEF Ended
    <3>3. CASE c[1] # p
      <4>1. registry'[p] = registry[p]
        BY <3>1, <3>3, ConnPane DEF TypeOK
      <4>2. shell'[p] = shell[p]
        BY <3>1, <3>3, ConnPane DEF TypeOK
      <4> QED
        BY <1>2, <4>1, <4>2
    <3> QED
      BY <3>2, <3>3
  <2>2. ASSUME NEW c \in Conn, ReadClose(c)
        PROVE  c[1] = p /\ held'[c] = s /\ thread'[c] = "closing"
    <3>1. held[c] \in Session \cup {NoSession} /\ c[1] \in Pane /\ "close" \in Ended
      BY ConnPane DEF TypeOK, Ended
    <3>2. registry'[p] = registry[p] /\ shell' = Killed(c[1], held[c], "close")
      BY <2>2 DEF ReadClose
    <3>3. Killed(c[1], held[c], "close")[p][s] # shell[p][s]
      BY <1>2, <3>2
    <3>4. c[1] = p /\ held[c] = s
      BY <3>1, <3>3, KilledAt
    <3> QED
      BY <2>2, <3>4 DEF ReadClose, TypeOK
  <2>3. ASSUME NEW q \in Pane, NEW why \in Ended, RemoveSession(q, why) PROVE FALSE
    <3>1. registry[q] \in Session \cup {NoSession}
      BY DEF TypeOK
    <3>2. q # p
      BY <2>3, RegistryAssumption DEF RemoveSession, TypeOK
    <3>3. registry[p] = s
      BY <2>3, <3>2 DEF RemoveSession, TypeOK
    <3>4. shell'[p][s] = shell[p][s]
      BY <2>3, <3>1, <3>2, KilledAt DEF RemoveSession
    <3> QED
      BY <1>2, <3>3, <3>4
  <2>4. ASSUME NEW c \in Conn, Cleanup(c) PROVE FALSE
    BY <1>2, <2>3, <2>4, ConnPane DEF Cleanup, Ended
  <2>5. ASSUME NEW q \in Pane, ClosePane(q) PROVE FALSE
    BY <1>2, <2>3, <2>5 DEF ClosePane, Ended
  <2>6. ASSUME NEW q \in Pane, NEW t \in Session, ShellExits(q, t) PROVE FALSE
    BY <1>2, <2>6 DEF ShellExits, TypeOK
  <2>7. CASE WatcherExit
    BY <2>7, RegistryAssumption DEF WatcherExit
  <2>8. ASSUME NEW c \in Conn,
               \/ Connect(c) \/ RelayEnds(c) \/ RelayStep(c) \/ Accept(c) \/ FindSession(c)
               \/ SpawnFails(c) \/ Attach(c) \/ ReadEnd(c)
        PROVE  FALSE
    BY <1>2, <2>8 DEF Connect, RelayEnds, RelayStep, SendRegister, SendResize, SendClose,
                      Accept, FindSession, SpawnFails, Attach, ReadEnd
  <2>9. ASSUME NEW q \in Pane, NEW t \in Session, Announce(q, t) PROVE FALSE
    BY <1>2, <2>9 DEF Announce
  <2>10. CASE WatcherLook \/ WatcherDecide \/ UNCHANGED vars
    BY <1>2, <2>10 DEF WatcherLook, WatcherDecide, vars
  <2> QED
    BY <2>1, <2>2, <2>4, <2>5, <2>6, <2>7, <2>8, <2>9, <2>10 DEF Next, ThreadStep, WatcherStep
<1> QED
  BY <1>1, <1>2

\* A dead session that stays registered is one whose shell ended by itself.
THEOREM CorpseOnlyAfterOwnExitHolds == Spec => []CorpseOnlyAfterOwnExit
<1>1. Init => CorpseOnlyAfterOwnExit
  BY RegistryAssumption DEF Init, CorpseOnlyAfterOwnExit
<1> QED
  BY <1>1, CorpseStep, TypeCorrect, PTL DEF Spec

-----------------------------------------------------------------------------
\* Once the watcher has decided to exit, whatever is registered was registered
\* after its look at the registry.
Vouched == watcher = "exiting" => \A p \in Pane : registry[p] # NoSession => p \in newcomer

\* A session registered behind the watcher's back is a newcomer.
LEMMA VouchedStep == TypeOK /\ Vouched /\ [Next]_vars => Vouched'
<1> SUFFICES ASSUME TypeOK, Vouched, [Next]_vars PROVE Vouched'
  OBVIOUS
<1> USE DEF conns, relays, threads, sessions, watch
<1>1. ASSUME NEW c \in Conn, CreateSession(c) PROVE Vouched'
  BY <1>1, ConnPane DEF CreateSession, Vouched, TypeOK
<1>2. ASSUME NEW p \in Pane, NEW why \in Ended, RemoveSession(p, why),
             UNCHANGED <<watcher, newcomer>>
      PROVE  Vouched'
  BY <1>2 DEF RemoveSession, Vouched, TypeOK
<1>3. CASE UNCHANGED <<watcher, newcomer, registry>>
  BY <1>3 DEF Vouched
<1>4. ASSUME NEW c \in Conn, Cleanup(c) PROVE Vouched'
  BY <1>2, <1>3, <1>4, ConnPane DEF Cleanup, Ended
<1>5. ASSUME NEW p \in Pane, ClosePane(p) PROVE Vouched'
  BY <1>2, <1>3, <1>5 DEF ClosePane, Ended
<1>6. CASE WatcherStep
  BY <1>6 DEF WatcherStep, WatcherLook, WatcherDecide, WatcherExit, Vouched, TypeOK
<1>7. ASSUME NEW c \in Conn,
             \/ Connect(c) \/ RelayEnds(c) \/ RelayStep(c) \/ Accept(c) \/ FindSession(c)
             \/ SpawnFails(c) \/ Attach(c) \/ ReadClose(c) \/ ReadEnd(c)
      PROVE  Vouched'
  BY <1>3, <1>7 DEF Connect, RelayEnds, RelayStep, SendRegister, SendResize, SendClose,
                    Accept, FindSession, SpawnFails, Attach, ReadClose, ReadEnd
<1>8. ASSUME NEW p \in Pane, NEW s \in Session, ShellExits(p, s) \/ Announce(p, s) PROVE Vouched'
  BY <1>3, <1>8 DEF ShellExits, Announce
<1> QED
  BY <1>1, <1>3, <1>4, <1>5, <1>6, <1>7, <1>8 DEF Next, ThreadStep, vars

\* The idle exit takes no session with it but those registered after the
\* watcher's last look at the registry.
THEOREM IdleExitHolds == Spec => IdleExitTakesOnlyNewcomers
<1> DEFINE Exit == daemon = "up" /\ daemon' = "down" =>
                    \A p \in Pane : registry[p] # NoSession => p \in newcomer
<1>1. Init => Vouched
  BY DEF Init, Vouched
<1>2. Vouched /\ [Next]_vars => [Exit]_vars
  BY DEF Vouched, Next, vars, conns, relays, threads, sessions, watch, RelayStep, ThreadStep,
         WatcherStep, Connect, SendRegister, SendResize, SendClose, RelayEnds, ClosePane, Accept,
         FindSession, CreateSession, SpawnFails, Attach, ReadClose, ReadEnd, Cleanup, ShellExits,
         Announce, WatcherLook, WatcherDecide, WatcherExit
<1>3. Spec => [][Exit]_vars
  BY <1>1, <1>2, VouchedStep, TypeCorrect, PTL DEF Spec
<1> QED
  BY <1>3 DEF IdleExitTakesOnlyNewcomers

=============================================================================
