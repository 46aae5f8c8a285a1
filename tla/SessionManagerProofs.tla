------------------------- MODULE SessionManagerProofs -------------------------
(***************************************************************************)
(* The invariants of SessionManager, for any set of sessions and clients.  *)
(***************************************************************************)
EXTENDS SessionManager, TLAPS

\* What the invariants need besides themselves: an id not yet issued has left
\* no trace, an entry between two handlers is interactive or ended, one with no
\* process object has ended, and a daemon that is down has neither entries nor
\* children.
BooksOK ==
    /\ \A s \in Sessions \ issued :
          entry[s] = NoEntry /\ child[s] = "none" /\ stored[s] = NoRecord
    /\ \A s \in Sessions :
          /\ Present(s) => IsInteractiveStatus(entry[s].status) \/ IsTerminalStatus(entry[s].status)
          /\ entry[s].backing = "record" => IsTerminalStatus(entry[s].status)
    /\ daemon = "down" =>
          \A s \in Sessions : entry[s] = NoEntry /\ child[s] \notin Unreaped

LEMMA StatusFacts ==
    /\ \A a, b \in Statuses : TryTransition(a, b) \in Statuses
    /\ \A a \in Statuses : NormalizeRecoveredStatus(a) \in {"Exited", "Error"}
    /\ TryTransition(TryTransition("Created", "Starting"), "Running") = "Running"
    /\ \A a, b \in Statuses : IsInteractiveStatus(a) /\ IsTerminalStatus(b)
                                  => TryTransition(a, b) = b
    /\ \A a \in Statuses : ~(IsInteractiveStatus(a) /\ IsTerminalStatus(a))
BY DEF Statuses, TryTransition, IsValidTransition, NormalizeRecoveredStatus,
       IsTerminalStatus, IsInteractiveStatus

LEMMA NoEntryType == NoEntry \in Entries /\ NoEntry.backing = "none"
BY DEF NoEntry, Entries, Backings, Statuses, ControllerKinds

LEMMA ResetType == \A e \in Entries : ResetControllerState(e) \in Entries
BY DEF ResetControllerState, Entries, ControllerKinds

LEMMA ShutdownType == \A e \in Entries : ShutdownEntry(e) \in Entries
<1> SUFFICES ASSUME NEW e \in Entries PROVE ShutdownEntry(e) \in Entries
  OBVIOUS
<1>1. TryTransition(e.status, "Exited") \in Statuses /\ "Exited" \in Statuses
  BY StatusFacts DEF Entries, Statuses
<1> QED
  BY <1>1 DEF ShutdownEntry, Entries

\* Whatever a handler persists, the store keeps its type.
LEMMA PersistType ==
    ASSUME TypeOK, entry' \in [Sessions -> Entries], NEW touched \in SUBSET Sessions,
           PersistEntries(touched, entry')
    PROVE  stored' \in [Sessions -> Statuses \cup {NoRecord}]
BY DEF TypeOK, PersistEntries, Entries

LEMMA TypeInit == Init => TypeOK
BY NoEntryType, ManagerAssumption DEF Init, TypeOK, ChildStates

LEMMA PollType ==
    ASSUME TypeOK, NEW polled \in SUBSET Sessions, PollEntries(polled)
    PROVE  /\ entry' \in [Sessions -> Entries]
           /\ child' \in [Sessions -> ChildStates]
           /\ stored' \in [Sessions -> Statuses \cup {NoRecord}]
<1>1. \A s \in Sessions : PollSessionEntry(s) \in Entries
  <2>1. TAKE s \in Sessions
  <2>2. ExitStatus(s) \in Statuses
    BY DEF ExitStatus, Statuses
  <2>3. TryTransition(entry[s].status, ExitStatus(s)) \in Statuses
    BY <2>2, StatusFacts DEF TypeOK, Entries
  <2> QED
    BY <2>2, <2>3, ZenonT(60) DEF PollSessionEntry, TypeOK, Entries
<1>2. entry' \in [Sessions -> Entries]
  BY <1>1 DEF PollEntries, TypeOK
<1>3. child' \in [Sessions -> ChildStates]
  BY DEF PollEntries, PollSessionChild, TypeOK, ChildStates
<1>4. QED
  BY <1>2, <1>3, PersistType DEF PollEntries

LEMMA TypeNext == TypeOK /\ [Next]_vars => TypeOK'
<1> SUFFICES ASSUME TypeOK, [Next]_vars PROVE TypeOK'
  OBVIOUS
<1>1. ASSUME NEW s \in Sessions, CreateSession(s) PROVE TypeOK'
  <2>1. entry' \in [Sessions -> Entries]
    BY <1>1, StatusFacts, ManagerAssumption
       DEF CreateSession, TypeOK, Entries, Backings, ControllerKinds, Statuses
  <2>2. stored' \in [Sessions -> Statuses \cup {NoRecord}]
    BY <1>1, <2>1, PersistType DEF CreateSession, PersistEntry
  <2> QED
    BY <1>1, <2>1, <2>2 DEF CreateSession, TypeOK, ChildStates
<1>2. ASSUME NEW s \in Sessions, CreateSessionFails(s) PROVE TypeOK'
  <2>1. entry' \in [Sessions -> Entries]
    BY <1>2, ManagerAssumption
       DEF CreateSessionFails, TypeOK, Entries, Backings, ControllerKinds, Statuses
  <2>2. stored' \in [Sessions -> Statuses \cup {NoRecord}]
    BY <1>2, <2>1, PersistType DEF CreateSessionFails, PersistEntry
  <2> QED
    BY <1>2, <2>1, <2>2 DEF CreateSessionFails, TypeOK
<1>3. ASSUME NEW s \in Sessions, CreateLogSession(s) PROVE TypeOK'
  <2>1. entry' \in [Sessions -> Entries]
    BY <1>3, ManagerAssumption
       DEF CreateLogSession, TypeOK, Entries, Backings, ControllerKinds, Statuses
  <2> QED
    BY <1>3, <2>1 DEF CreateLogSession, TypeOK, ChildStates
<1>4. ASSUME NEW s \in Sessions, PollSession(s) PROVE TypeOK'
  BY <1>4, PollType DEF PollSession, TypeOK
<1>5. CASE PollAll
  BY <1>5, PollType DEF PollAll, TypeOK
<1>6. ASSUME NEW s \in Sessions, NEW c \in Clients, NEW k \in ControllerKinds,
             RequestControl(s, c, k) PROVE TypeOK'
  BY <1>6, ZenonT(60) DEF RequestControl, TypeOK, Entries
<1>7. ASSUME NEW s \in Sessions, NEW c \in Clients, ReleaseControl(s, c) PROVE TypeOK'
  BY <1>7, ZenonT(60) DEF ReleaseControl, ResetControllerState, TypeOK, Entries, ControllerKinds
<1>8. ASSUME NEW s \in Sessions, UpdateSessionGroupTags(s) PROVE TypeOK'
  BY <1>8 DEF UpdateSessionGroupTags, PersistEntry, PersistEntries, TypeOK, Entries
<1>9. ASSUME NEW s \in Sessions, StopEndedSession(s) PROVE TypeOK'
  <2>1. entry' \in [Sessions -> Entries]
    BY <1>9, ZenonT(60) DEF StopEndedSession, ResetControllerState, TypeOK, Entries, ControllerKinds
  <2>2. stored' \in [Sessions -> Statuses \cup {NoRecord}]
    BY <1>9, <2>1, PersistType DEF StopEndedSession, PersistEntry
  <2> QED
    BY <1>9, <2>1, <2>2 DEF StopEndedSession, TypeOK
<1>10. ASSUME NEW s \in Sessions, StopSession(s) PROVE TypeOK'
  <2>1. entry' \in [Sessions -> Entries]
    BY <1>10, ShutdownType, ResetType DEF StopSession, TypeOK
  <2>2. stored' \in [Sessions -> Statuses \cup {NoRecord}]
    BY <1>10, <2>1, PersistType DEF StopSession, PersistEntry
  <2> QED
    BY <1>10, <2>1, <2>2 DEF StopSession, TypeOK, ChildStates
<1>11. ASSUME NEW s \in Sessions, StopSessionFails(s) PROVE TypeOK'
  BY <1>11 DEF StopSessionFails, TypeOK, ChildStates
<1>12. ASSUME NEW s \in Sessions, ChildExits(s) PROVE TypeOK'
  BY <1>12 DEF ChildExits, Zombie, TypeOK, ChildStates
<1>13. CASE ClearInactiveSessions
  BY <1>13, NoEntryType DEF ClearInactiveSessions, TypeOK, ChildStates
<1>14. CASE Shutdown
  <2>1. \A s \in Sessions, ended \in SUBSET Sessions :
           ShutdownStep(s, s \in ended) \in Entries
    <3>1. TAKE s \in Sessions, ended \in SUBSET Sessions
    <3> QED
      BY ShutdownType, ResetType DEF ShutdownStep, TypeOK
  <2>2. PICK ended \in SUBSET Sessions :
          /\ entry' = [s \in Sessions |-> ShutdownStep(s, s \in ended)]
          /\ child' = [s \in Sessions |-> IF NeedsTerminate(s) /\ s \in ended
                                          THEN "none" ELSE child[s]]
          /\ PersistEntries({s \in Sessions : ShutdownPersists(s, s \in ended)}, entry')
    BY <1>14 DEF Shutdown
  <2>3. entry' \in [Sessions -> Entries]
    BY <2>1, <2>2
  <2>4. stored' \in [Sessions -> Statuses \cup {NoRecord}]
    BY <2>2, <2>3, PersistType
  <2> QED
    BY <1>14, <2>2, <2>3, <2>4 DEF Shutdown, TypeOK, ChildStates
<1>15. CASE DaemonEnds
  BY <1>15, NoEntryType DEF DaemonEnds, TypeOK, ChildStates
<1>16. CASE LoadPersistedSessions
  BY <1>16, NoEntryType, StatusFacts, ManagerAssumption
     DEF LoadPersistedSessions, TypeOK, Entries, Backings, ControllerKinds, Statuses
<1>17. CASE UNCHANGED vars
  BY <1>17 DEF vars, TypeOK
<1> QED
  BY <1>1, <1>2, <1>3, <1>4, <1>5, <1>6, <1>7, <1>8, <1>9, <1>10, <1>11, <1>12, <1>13,
     <1>14, <1>15, <1>16, <1>17 DEF Next, SessionNext

\* Every reachable state of the manager is well typed.
THEOREM TypeCorrect == Spec => []TypeOK
BY TypeInit, TypeNext, PTL DEF Spec
-------------------------------------------------------------------------------
\* The inductive invariant: ControllerOK and OwnershipOK hold each other up only
\* together with the types and the books.
IInv == TypeOK /\ BooksOK /\ ControllerOK /\ OwnershipOK

LEMMA IInvInit == Init => IInv
<1> SUFFICES ASSUME Init PROVE IInv
  OBVIOUS
<1>1. TypeOK
  BY TypeInit
<1>2. \A s \in Sessions : entry[s] = NoEntry /\ child[s] = "none" /\ stored[s] = NoRecord
  BY DEF Init
<1>3. BooksOK
  BY <1>2 DEF Init, BooksOK, Present, NoEntry, Unreaped
<1>4. ControllerOK
  BY <1>2 DEF ControllerOK, NoEntry
<1>5. OwnershipOK
  BY <1>2 DEF OwnershipOK, NoEntry, Present, Unreaped
<1> QED
  BY <1>1, <1>3, <1>4, <1>5 DEF IInv

\* A poll either leaves a session alone or reaps its zombie and records the
\* verdict of the process, whatever stands behind the entry.
LEMMA PollEffect ==
    ASSUME IInv, daemon = "up", NEW s \in Sessions
    PROVE  \/ PollSessionEntry(s) = entry[s] /\ PollSessionChild(s) = child[s] /\ ~PollExits(s)
           \/ /\ PollExits(s)
              /\ entry[s].backing \in {"pty", "log"}
              /\ IsInteractiveStatus(entry[s].status)
              /\ PollSessionChild(s) = "none"
              /\ PollSessionEntry(s) =
                    [entry[s] EXCEPT !.status = ExitStatus(s), !.pid = FALSE, !.fd = FALSE]
<1>1. CASE ~PollExits(s)
  BY <1>1 DEF PollSessionEntry, PollSessionChild
<1>2. CASE PollExits(s)
  <2>1. entry[s] \in Entries /\ entry[s].pid /\ ExitStatus(s) \in {"Exited", "Error"}
    BY <1>2 DEF IInv, TypeOK, PollExits, ExitStatus
  <2>2. Present(s) /\ IsInteractiveStatus(entry[s].status)
    BY <2>1 DEF IInv, OwnershipOK
  <2>3. TryTransition(entry[s].status, ExitStatus(s)) = ExitStatus(s)
    BY <2>1, <2>2, StatusFacts DEF Entries, Statuses, IsTerminalStatus
  <2>4. ExitStatus(s) # entry[s].status
    BY <2>1, <2>2 DEF IsInteractiveStatus
  <2>5. CASE entry[s].backing = "pty"
    <3>1. PollSessionEntry(s) = [entry[s] EXCEPT !.status = ExitStatus(s), !.fd = FALSE, !.pid = FALSE]
      BY <1>2, <2>3, <2>4, <2>5 DEF PollSessionEntry
    <3>2. PollSessionEntry(s) = [entry[s] EXCEPT !.status = ExitStatus(s), !.pid = FALSE, !.fd = FALSE]
      BY <2>1, <3>1 DEF Entries
    <3> QED
      BY <1>2, <2>2, <2>5, <3>2 DEF PollSessionChild
  <2>6. CASE entry[s].backing = "log"
    <3>1. PollSessionEntry(s) = [entry[s] EXCEPT !.status = ExitStatus(s), !.pid = FALSE]
      BY <1>2, <2>6 DEF PollSessionEntry
    <3>2. entry[s].fd = FALSE
      BY <2>1, <2>6 DEF IInv, OwnershipOK, Entries
    <3>3. PollSessionEntry(s) = [entry[s] EXCEPT !.status = ExitStatus(s), !.pid = FALSE, !.fd = FALSE]
      BY <2>1, <3>1, <3>2 DEF Entries
    <3> QED
      BY <1>2, <2>2, <2>6, <3>3 DEF PollSessionChild
  <2>7. entry[s].backing # "record"
    BY <2>2 DEF IInv, BooksOK, IsInteractiveStatus, IsTerminalStatus
  <2> QED
    BY <2>1, <2>2, <2>5, <2>6, <2>7 DEF Entries, Backings, Present
<1> QED
  BY <1>1, <1>2

LEMMA IInvPoll ==
    ASSUME IInv, daemon = "up", NEW polled \in SUBSET Sessions, PollEntries(polled),
           UNCHANGED <<daemon, issued>>
    PROVE  IInv'
<1>1. TypeOK'
  BY PollType DEF IInv, TypeOK
<1>2. \A s \in Sessions :
         \/ entry'[s] = entry[s] /\ child'[s] = child[s]
         \/ /\ entry[s].backing \in {"pty", "log"} /\ entry[s].pid
            /\ entry'[s].backing = entry[s].backing
            /\ entry'[s].client = entry[s].client /\ entry'[s].kind = entry[s].kind
            /\ entry'[s].status = ExitStatus(s)
            /\ ~entry'[s].pid /\ ~entry'[s].fd
            /\ child'[s] = "none"
  <2>1. TAKE s \in Sessions
  <2>2. entry[s] \in Entries
    BY DEF IInv, TypeOK
  <2>3. CASE s \notin polled
    BY <2>3 DEF PollEntries
  <2>4. CASE s \in polled
    <3>1. entry'[s] = PollSessionEntry(s) /\ child'[s] = PollSessionChild(s)
      BY <2>4 DEF PollEntries
    <3>2. CASE PollSessionEntry(s) = entry[s] /\ PollSessionChild(s) = child[s]
      BY <3>1, <3>2
    <3>3. CASE /\ PollExits(s)
               /\ entry[s].backing \in {"pty", "log"}
               /\ PollSessionChild(s) = "none"
               /\ PollSessionEntry(s) =
                     [entry[s] EXCEPT !.status = ExitStatus(s), !.pid = FALSE, !.fd = FALSE]
      BY <2>2, <3>1, <3>3 DEF PollExits, Entries
    <3> QED
      BY <3>2, <3>3, PollEffect
  <2> QED
    BY <2>3, <2>4
<1>3. \A s \in Sessions : ExitStatus(s) \in {"Exited", "Error"}
  BY DEF ExitStatus
<1>4. \A s \in Sessions \ issued : entry'[s] = entry[s] /\ child'[s] = child[s]
                                   /\ stored'[s] = stored[s]
  <2> SUFFICES ASSUME NEW s \in Sessions \ issued
               PROVE  entry'[s] = entry[s] /\ child'[s] = child[s] /\ stored'[s] = stored[s]
    OBVIOUS
  <2>1. entry[s].backing = "none" /\ ~entry[s].pid
    BY DEF IInv, BooksOK, NoEntry
  <2>2. stored'[s] = stored[s]
    BY <2>1 DEF PollEntries, PersistEntries, PollSessionPersists
  <2> QED
    BY <1>2, <2>1, <2>2
<1>5. BooksOK'
  <2>1. \A s \in Sessions : /\ Present(s)' => \/ IsInteractiveStatus(entry[s].status)'
                                             \/ IsTerminalStatus(entry[s].status)'
                            /\ entry'[s].backing = "record" => IsTerminalStatus(entry[s].status)'
    BY <1>2, <1>3 DEF IInv, BooksOK, Present, IsTerminalStatus, IsInteractiveStatus
  <2> QED
    BY <1>4, <2>1 DEF IInv, BooksOK
<1>6. ControllerOK'
  BY <1>2 DEF IInv, ControllerOK
<1>7. OwnershipOK'
  BY <1>2, <1>3 DEF IInv, OwnershipOK, Present, IsInteractiveStatus, Unreaped
<1> QED
  BY <1>1, <1>5, <1>6, <1>7 DEF IInv

\* A write to the store touches the records of the sessions it is for.
LEMMA PersistFrame ==
    ASSUME NEW touched \in SUBSET Sessions, NEW e, PersistEntries(touched, e)
    PROVE  \A r \in Sessions \ touched : stored'[r] = stored[r]
BY DEF PersistEntries

\* A session whose process Terminate has ended: exited, and nothing left on record.
IsEndOf(x, e) ==
    /\ x.backing = e.backing /\ x.status = "Exited" /\ x.pid = FALSE /\ x.fd = FALSE
    /\ x.kind = "Host" /\ x.client = NoClient

LEMMA ShutdownEffect ==
    \A e \in Entries :
        IsInteractiveStatus(e.status) => IsEndOf(ResetControllerState(ShutdownEntry(e)), e)
<1> SUFFICES ASSUME NEW e \in Entries, IsInteractiveStatus(e.status)
             PROVE  IsEndOf(ResetControllerState(ShutdownEntry(e)), e)
  OBVIOUS
<1>1. TryTransition(e.status, "Exited") = "Exited"
  BY StatusFacts DEF Entries, Statuses, IsTerminalStatus, IsInteractiveStatus
<1> QED
  BY <1>1 DEF ResetControllerState, ShutdownEntry, Entries, IsEndOf

LEMMA IInvNext == IInv /\ [Next]_vars => IInv'
<1> SUFFICES ASSUME IInv, [Next]_vars PROVE IInv'
  OBVIOUS
<1> USE ManagerAssumption DEF IInv
<1>0. TypeOK'
  BY TypeNext
<1>1. ASSUME NEW s \in Sessions, CreateSession(s) PROVE IInv'
  <2>0. \A r \in Sessions \ {s} : entry'[r] = entry[r] /\ child'[r] = child[r] /\ stored'[r] = stored[r]
    BY <1>1, PersistFrame DEF CreateSession, PersistEntry, TypeOK
  <2>1. BooksOK'
    BY <1>1, <2>0, StatusFacts DEF CreateSession, BooksOK, TypeOK, Present, IsInteractiveStatus, IsTerminalStatus
  <2>2. ControllerOK'
    BY <1>1, StatusFacts DEF CreateSession, TypeOK, Entries, PersistEntry, PersistEntries, ControllerOK, Present
  <2>3. OwnershipOK'
    BY <1>1, StatusFacts DEF CreateSession, TypeOK, Entries, PersistEntry, PersistEntries, OwnershipOK, ControllerOK, BooksOK, Present, IsInteractiveStatus, IsTerminalStatus, NoEntry, Unreaped
  <2> QED
    BY <1>0, <2>1, <2>2, <2>3 DEF IInv
<1>2. ASSUME NEW s \in Sessions, CreateSessionFails(s) PROVE IInv'
  <2>0. \A r \in Sessions \ {s} : entry'[r] = entry[r] /\ child'[r] = child[r] /\ stored'[r] = stored[r]
    BY <1>2, PersistFrame DEF CreateSessionFails, PersistEntry, TypeOK
  <2>1. BooksOK'
    BY <1>2, <2>0 DEF CreateSessionFails, BooksOK, TypeOK, Present, IsInteractiveStatus, IsTerminalStatus
  <2>2. ControllerOK'
    BY <1>2 DEF CreateSessionFails, TypeOK, Entries, PersistEntry, PersistEntries, ControllerOK, Present
  <2>3. OwnershipOK'
    BY <1>2 DEF CreateSessionFails, TypeOK, Entries, PersistEntry, PersistEntries, OwnershipOK, ControllerOK, BooksOK, Present, IsInteractiveStatus, IsTerminalStatus, NoEntry, Unreaped
  <2> QED
    BY <1>0, <2>1, <2>2, <2>3 DEF IInv
<1>3. ASSUME NEW s \in Sessions, CreateLogSession(s) PROVE IInv'
  <2>1. BooksOK'
    BY <1>3 DEF CreateLogSession, TypeOK, Entries, BooksOK, Present, IsInteractiveStatus, IsTerminalStatus, NoEntry, Unreaped
  <2>2. ControllerOK'
    BY <1>3 DEF CreateLogSession, TypeOK, Entries, ControllerOK, Present
  <2>3. OwnershipOK'
    BY <1>3 DEF CreateLogSession, TypeOK, Entries, OwnershipOK, ControllerOK, BooksOK, Present, IsInteractiveStatus, IsTerminalStatus, NoEntry, Unreaped
  <2> QED
    BY <1>0, <2>1, <2>2, <2>3 DEF IInv
<1>4. ASSUME NEW s \in Sessions, PollSession(s) PROVE IInv'
  BY <1>4, IInvPoll DEF PollSession
<1>5. CASE PollAll
  BY <1>5, IInvPoll DEF PollAll
<1>6. ASSUME NEW s \in Sessions, NEW c \in Clients, NEW k \in ControllerKinds,
             RequestControl(s, c, k) PROVE IInv'
  <2>0. s \in issued
    BY <1>6 DEF RequestControl, BooksOK, NoEntry, Present
  <2>a. \A r \in Sessions \ {s} : entry'[r] = entry[r] /\ child'[r] = child[r] /\ stored'[r] = stored[r]
    BY <1>6 DEF RequestControl, PersistEntry, TypeOK
  <2>b. entry'[s].backing = entry[s].backing /\ entry'[s].status = entry[s].status
    BY <1>6 DEF RequestControl, TypeOK, Entries
  <2>1. BooksOK'
    BY <1>6, <2>0, <2>a, <2>b DEF RequestControl, BooksOK, Present
  <2>2. ControllerOK'
    <3>1. entry[s].backing \in {"pty", "log"}
      BY <1>6 DEF RequestControl, BooksOK, TypeOK, Entries, Backings, Present,
                  IsInteractiveStatus, IsTerminalStatus
    <3> QED
      BY <1>6, <2>a, <2>b, <3>1 DEF RequestControl, TypeOK, Entries, ControllerOK
  <2>3. OwnershipOK'
    BY <1>6 DEF RequestControl, TypeOK, Entries, OwnershipOK, ControllerOK, BooksOK, Present, IsInteractiveStatus, IsTerminalStatus, NoEntry, Unreaped
  <2> QED
    BY <1>0, <2>1, <2>2, <2>3 DEF IInv
<1>7. ASSUME NEW s \in Sessions, NEW c \in Clients, ReleaseControl(s, c) PROVE IInv'
  <2>0. s \in issued
    BY <1>7 DEF ReleaseControl, BooksOK, NoEntry, Present, HasControl, ResetControllerState
  <2>a. \A r \in Sessions \ {s} : entry'[r] = entry[r] /\ child'[r] = child[r] /\ stored'[r] = stored[r]
    BY <1>7 DEF ReleaseControl, PersistEntry, TypeOK
  <2>b. entry'[s].backing = entry[s].backing /\ entry'[s].status = entry[s].status
    BY <1>7 DEF ReleaseControl, TypeOK, Entries, ResetControllerState
  <2>1. BooksOK'
    BY <1>7, <2>0, <2>a, <2>b DEF ReleaseControl, BooksOK, Present, HasControl
  <2>2. ControllerOK'
    BY <1>7 DEF ReleaseControl, HasControl, ResetControllerState, TypeOK, Entries, ControllerOK, Present
  <2>3. OwnershipOK'
    BY <1>7 DEF ReleaseControl, HasControl, ResetControllerState, TypeOK, Entries, OwnershipOK, ControllerOK, BooksOK, Present, IsInteractiveStatus, IsTerminalStatus, NoEntry, Unreaped
  <2> QED
    BY <1>0, <2>1, <2>2, <2>3 DEF IInv
<1>8. ASSUME NEW s \in Sessions, UpdateSessionGroupTags(s) PROVE IInv'
  <2>1. BooksOK'
    BY <1>8 DEF UpdateSessionGroupTags, TypeOK, Entries, PersistEntry, PersistEntries, BooksOK, Present, IsInteractiveStatus, IsTerminalStatus, NoEntry, Unreaped
  <2>2. ControllerOK'
    BY <1>8 DEF UpdateSessionGroupTags, TypeOK, Entries, PersistEntry, PersistEntries, ControllerOK, Present
  <2>3. OwnershipOK'
    BY <1>8 DEF UpdateSessionGroupTags, TypeOK, Entries, PersistEntry, PersistEntries, OwnershipOK, ControllerOK, BooksOK, Present, IsInteractiveStatus, IsTerminalStatus, NoEntry, Unreaped
  <2> QED
    BY <1>0, <2>1, <2>2, <2>3 DEF IInv
<1>9. ASSUME NEW s \in Sessions, StopEndedSession(s) PROVE IInv'
  <2>0. s \in issued
    BY <1>9 DEF StopEndedSession, BooksOK, NoEntry, Present, ResetControllerState
  <2>a. \A r \in Sessions \ {s} : entry'[r] = entry[r] /\ child'[r] = child[r] /\ stored'[r] = stored[r]
    BY <1>9, PersistFrame DEF StopEndedSession, PersistEntry, TypeOK
  <2>b. entry'[s].backing = entry[s].backing /\ entry'[s].status = entry[s].status
    BY <1>9 DEF StopEndedSession, TypeOK, Entries, ResetControllerState
  <2>1. BooksOK'
    BY <1>9, <2>0, <2>a, <2>b DEF StopEndedSession, BooksOK, Present
  <2>2. ControllerOK'
    BY <1>9 DEF StopEndedSession, ResetControllerState, TypeOK, Entries, PersistEntry, PersistEntries, ControllerOK, Present
  <2>3. OwnershipOK'
    BY <1>9 DEF StopEndedSession, ResetControllerState, TypeOK, Entries, PersistEntry, PersistEntries, OwnershipOK, ControllerOK, BooksOK, Present, IsInteractiveStatus, IsTerminalStatus, NoEntry, Unreaped
  <2> QED
    BY <1>0, <2>1, <2>2, <2>3 DEF IInv
<1>10. ASSUME NEW s \in Sessions, StopSession(s) PROVE IInv'
  <2>1. \A r \in Sessions \ {s} : entry'[r] = entry[r] /\ child'[r] = child[r] /\ stored'[r] = stored[r]
    BY <1>10, PersistFrame DEF StopSession, PersistEntry, TypeOK
  <2>2. IsInteractiveStatus(entry[s].status) /\ entry[s] \in Entries
    BY <1>10 DEF StopSession, NeedsTerminate, BooksOK, Present, TypeOK
  <2>3. IsEndOf(entry'[s], entry[s]) /\ child'[s] = "none"
    <3>1. entry'[s] = ResetControllerState(ShutdownEntry(entry[s])) /\ child'[s] = "none"
      BY <1>10 DEF StopSession, TypeOK
    <3> QED
      BY <2>2, <3>1, ShutdownEffect
  <2>4. s \in issued /\ entry[s].backing \in {"pty", "log"} /\ daemon = "up" /\ UNCHANGED <<daemon, issued>>
    BY <1>10 DEF StopSession, NeedsTerminate, BooksOK, NoEntry
  <2>5. BooksOK'
    BY <2>1, <2>3, <2>4 DEF BooksOK, Present, IsTerminalStatus, IsEndOf
  <2>6. ControllerOK'
    BY <2>1, <2>3, <2>4 DEF ControllerOK, IsEndOf
  <2>7. OwnershipOK'
    BY <2>1, <2>3, <2>4 DEF OwnershipOK, Present, IsInteractiveStatus, Unreaped, IsEndOf
  <2> QED
    BY <1>0, <2>5, <2>6, <2>7 DEF IInv
<1>11. ASSUME NEW s \in Sessions, StopSessionFails(s) PROVE IInv'
  <2>1. BooksOK'
    BY <1>11 DEF StopSessionFails, NeedsTerminate, TypeOK, Entries, BooksOK, Present, IsInteractiveStatus, IsTerminalStatus, NoEntry, Unreaped
  <2>2. ControllerOK'
    BY <1>11 DEF StopSessionFails, NeedsTerminate, TypeOK, Entries, ControllerOK, Present
  <2>3. OwnershipOK'
    BY <1>11 DEF StopSessionFails, NeedsTerminate, TypeOK, Entries, OwnershipOK, ControllerOK, BooksOK, Present, IsInteractiveStatus, IsTerminalStatus, NoEntry, Unreaped
  <2> QED
    BY <1>0, <2>1, <2>2, <2>3 DEF IInv
<1>12. ASSUME NEW s \in Sessions, ChildExits(s) PROVE IInv'
  <2>1. BooksOK'
    BY <1>12 DEF ChildExits, Zombie, TypeOK, Entries, BooksOK, Present, IsInteractiveStatus, IsTerminalStatus, NoEntry, Unreaped
  <2>2. ControllerOK'
    BY <1>12 DEF ChildExits, Zombie, TypeOK, Entries, ControllerOK, Present
  <2>3. OwnershipOK'
    BY <1>12 DEF ChildExits, Zombie, TypeOK, Entries, OwnershipOK, ControllerOK, BooksOK, Present, IsInteractiveStatus, IsTerminalStatus, NoEntry, Unreaped
  <2> QED
    BY <1>0, <2>1, <2>2, <2>3 DEF IInv
<1>13. CASE ClearInactiveSessions
  <2>1. BooksOK'
    BY <1>13, ZenonT(60) DEF ClearInactiveSessions, Inactive, TypeOK, Entries, BooksOK, Present, IsInteractiveStatus, IsTerminalStatus, NoEntry, Unreaped
  <2>2. ControllerOK'
    BY <1>13 DEF ClearInactiveSessions, Inactive, TypeOK, ControllerOK, NoEntry
  <2>3. OwnershipOK'
    BY <1>13 DEF ClearInactiveSessions, Inactive, TypeOK, Entries, OwnershipOK, ControllerOK, BooksOK, Present, IsInteractiveStatus, IsTerminalStatus, NoEntry, Unreaped
  <2> QED
    BY <1>0, <2>1, <2>2, <2>3 DEF IInv
<1>14. CASE Shutdown
  <2>1. PICK ended \in SUBSET Sessions :
          /\ entry' = [s \in Sessions |-> ShutdownStep(s, s \in ended)]
          /\ child' = [s \in Sessions |-> IF NeedsTerminate(s) /\ s \in ended
                                          THEN "none" ELSE child[s]]
          /\ PersistEntries({s \in Sessions : ShutdownPersists(s, s \in ended)}, entry')
    BY <1>14 DEF Shutdown
  <2>2. \A s \in Sessions :
          /\ entry'[s].backing = entry[s].backing
          /\ \/ entry'[s].client = entry[s].client /\ entry'[s].kind = entry[s].kind
             \/ entry'[s].client = NoClient /\ entry'[s].kind = "Host"
          /\ entry'[s].status \in {entry[s].status, "Exited"}
    <3>1. TAKE s \in Sessions
    <3>2. entry[s] \in Entries /\ entry'[s] = ShutdownStep(s, s \in ended)
      BY <2>1 DEF TypeOK
    <3>3. Present(s) => IsTerminalStatus(entry[s].status) \/ IsInteractiveStatus(entry[s].status)
      BY DEF BooksOK
    <3>4. CASE ~Present(s)
      BY <3>2, <3>4 DEF ShutdownStep, Present, NeedsTerminate
    <3>5. CASE Present(s) /\ NeedsTerminate(s) /\ s \in ended
      <4>1. entry'[s] = ResetControllerState(ShutdownEntry(entry[s]))
        BY <3>2, <3>5 DEF ShutdownStep
      <4>2. IsInteractiveStatus(entry[s].status)
        BY <3>3, <3>5 DEF NeedsTerminate
      <4> QED
        BY <3>2, <4>1, <4>2, ShutdownEffect DEF IsEndOf
    <3>6. CASE Present(s) /\ ~(NeedsTerminate(s) /\ s \in ended)
      BY <3>2, <3>6 DEF ShutdownStep, ResetControllerState, Entries
    <3> QED
      BY <3>3, <3>4, <3>5, <3>6
  <2>3. \A s \in Sessions \ issued : entry'[s] = entry[s] /\ child'[s] = child[s] /\ stored'[s] = stored[s]
    <3> SUFFICES ASSUME NEW s \in Sessions \ issued
                 PROVE entry'[s] = entry[s] /\ child'[s] = child[s] /\ stored'[s] = stored[s]
      OBVIOUS
    <3>1. entry[s].backing = "none"
      BY DEF BooksOK, NoEntry
    <3>2. entry'[s] = entry[s] /\ child'[s] = child[s]
      BY <2>1, <3>1 DEF ShutdownStep, NeedsTerminate, Present
    <3>3. ~ShutdownPersists(s, s \in ended)
      BY <3>1 DEF ShutdownPersists
    <3> QED
      BY <2>1, <3>2, <3>3, PersistFrame
  <2>4. daemon' = "stopped" /\ issued' = issued
    BY <1>14 DEF Shutdown
  <2>5. BooksOK'
    BY <2>2, <2>3, <2>4 DEF BooksOK, Present, IsTerminalStatus
  <2>6. ControllerOK'
    BY <2>2 DEF ControllerOK
  <2>7. OwnershipOK'
    BY <2>4 DEF OwnershipOK
  <2> QED
    BY <1>0, <2>5, <2>6, <2>7 DEF IInv
<1>15. CASE DaemonEnds
  <2>1. BooksOK'
    BY <1>15 DEF DaemonEnds, TypeOK, ChildStates, BooksOK, Present, IsInteractiveStatus, IsTerminalStatus, NoEntry, Unreaped
  <2>2. ControllerOK'
    BY <1>15 DEF DaemonEnds, ControllerOK, NoEntry
  <2>3. OwnershipOK'
    BY <1>15 DEF DaemonEnds, TypeOK, ChildStates, OwnershipOK, ControllerOK, BooksOK, Present, IsInteractiveStatus, IsTerminalStatus, NoEntry, Unreaped
  <2> QED
    BY <1>0, <2>1, <2>2, <2>3 DEF IInv
<1>16. CASE LoadPersistedSessions
  <2>1. BooksOK'
    BY <1>16, StatusFacts DEF LoadPersistedSessions, TypeOK, ChildStates, BooksOK, Present, IsInteractiveStatus, IsTerminalStatus, NoEntry, Unreaped
  <2>2. ControllerOK'
    BY <1>16, StatusFacts DEF LoadPersistedSessions, ControllerOK, NoEntry
  <2>3. OwnershipOK'
    BY <1>16, StatusFacts DEF LoadPersistedSessions, TypeOK, ChildStates, OwnershipOK, ControllerOK, BooksOK, Present, IsInteractiveStatus, IsTerminalStatus, NoEntry, Unreaped
  <2> QED
    BY <1>0, <2>1, <2>2, <2>3 DEF IInv
<1>17. CASE UNCHANGED vars
  BY <1>17 DEF vars, TypeOK, BooksOK, ControllerOK, OwnershipOK, Present
<1> QED
  BY <1>1, <1>2, <1>3, <1>4, <1>5, <1>6, <1>7, <1>8, <1>9, <1>10, <1>11, <1>12, <1>13,
     <1>14, <1>15, <1>16, <1>17 DEF Next, SessionNext

\* The daemon never loses track of who controls a session, nor dereferences a
\* controller that is not there (RequestControl).
THEOREM ControllerSafe == Spec => []ControllerOK
<1>1. IInv => ControllerOK
  BY DEF IInv
<1> QED
  BY <1>1, IInvInit, IInvNext, PTL DEF Spec

\* The pids the daemon has on record are exactly its unreaped children, for any
\* number of sessions and through crashes, failing stops and failing writes.
THEOREM OwnershipSafe == Spec => []OwnershipOK
<1>1. IInv => OwnershipOK
  BY DEF IInv
<1> QED
  BY <1>1, IInvInit, IInvNext, PTL DEF Spec
-------------------------------------------------------------------------------
\* One step of a session's status and control, whatever the action: the entry
\* appears, disappears, or moves on along the lifecycle; and control is kept,
\* given back to the host, or claimed.
StatusStep(s) ==
    Present(s) /\ Present(s)' /\ IsTerminalStatus(entry[s].status)
        => entry'[s].status = entry[s].status

ClaimStep(s) ==
    /\ daemon = "up" /\ UNCHANGED <<daemon, issued>>
    /\ Present(s) /\ Present(s)'
    /\ IsInteractiveStatus(entry[s].status)
    /\ entry'[s].status = entry[s].status
    /\ entry'[s].client \in Clients
    /\ entry[s].kind = "Remote" => entry'[s].kind = "Host"

ControlMove(s) ==
    \/ entry'[s].client = entry[s].client /\ entry'[s].kind = entry[s].kind
    \/ entry'[s].client = NoClient /\ entry'[s].kind \in {"Host", "None"}
    \/ ClaimStep(s)

LEMMA StepShape ==
    IInv /\ [Next]_vars => \A s \in Sessions : StatusStep(s) /\ ControlMove(s)
<1> SUFFICES ASSUME IInv, [Next]_vars, NEW s \in Sessions
             PROVE  StatusStep(s) /\ ControlMove(s)
  OBVIOUS
<1> USE ManagerAssumption DEF IInv
<1>0. entry[s] \in Entries
  BY DEF TypeOK
<1>a. ASSUME entry'[s] = entry[s] PROVE StatusStep(s) /\ ControlMove(s)
  BY <1>a DEF StatusStep, ControlMove
<1>b. ASSUME ~Present(s), entry'[s].client = NoClient, entry'[s].kind \in {"Host", "None"}
      PROVE  StatusStep(s) /\ ControlMove(s)
  BY <1>b DEF StatusStep, ControlMove
<1>1. ASSUME NEW r \in Sessions, CreateSession(r) PROVE StatusStep(s) /\ ControlMove(s)
  <2>1. CASE r = s
    <3>1. ~Present(s)
      BY <1>1, <2>1 DEF CreateSession, BooksOK, Present, NoEntry
    <3> QED
      BY <1>1, <1>b, <2>1, <3>1 DEF CreateSession, TypeOK
  <2> QED
    BY <1>1, <1>a, <2>1 DEF CreateSession, TypeOK
<1>2. ASSUME NEW r \in Sessions, CreateSessionFails(r) PROVE StatusStep(s) /\ ControlMove(s)
  <2>1. CASE r = s
    <3>1. ~Present(s)
      BY <1>2, <2>1 DEF CreateSessionFails, BooksOK, Present, NoEntry
    <3> QED
      BY <1>2, <1>b, <2>1, <3>1 DEF CreateSessionFails, TypeOK
  <2> QED
    BY <1>2, <1>a, <2>1 DEF CreateSessionFails, TypeOK
<1>3. ASSUME NEW r \in Sessions, CreateLogSession(r) PROVE StatusStep(s) /\ ControlMove(s)
  <2>1. CASE r = s
    <3>1. ~Present(s)
      BY <1>3, <2>1 DEF CreateLogSession, BooksOK, Present, NoEntry
    <3> QED
      BY <1>3, <1>b, <2>1, <3>1 DEF CreateLogSession, TypeOK
  <2> QED
    BY <1>3, <1>a, <2>1 DEF CreateLogSession, TypeOK
<1>4. ASSUME NEW polled \in SUBSET Sessions, PollEntries(polled), daemon = "up"
      PROVE  StatusStep(s) /\ ControlMove(s)
  <2>1. CASE s \in polled /\ entry'[s] # entry[s]
    <3>1. /\ entry'[s] = [entry[s] EXCEPT !.status = ExitStatus(s), !.pid = FALSE, !.fd = FALSE]
          /\ IsInteractiveStatus(entry[s].status)
      BY <1>4, <2>1, PollEffect DEF PollEntries
    <3> QED
      BY <1>0, <3>1 DEF StatusStep, ControlMove, IsInteractiveStatus, IsTerminalStatus, Entries
  <2> QED
    BY <1>4, <1>a, <2>1 DEF PollEntries
<1>5. ASSUME NEW r \in Sessions, PollSession(r) PROVE StatusStep(s) /\ ControlMove(s)
  BY <1>4, <1>5 DEF PollSession
<1>6. CASE PollAll
  BY <1>4, <1>6 DEF PollAll
<1>7. ASSUME NEW r \in Sessions, NEW c \in Clients, NEW k \in ControllerKinds,
             RequestControl(r, c, k) PROVE StatusStep(s) /\ ControlMove(s)
  <2>1. CASE r = s
    <3>1. /\ entry'[s].client = c /\ entry'[s].kind = k /\ entry'[s].status = entry[s].status
          /\ entry'[s].backing = entry[s].backing
      BY <1>0, <1>7, <2>1 DEF RequestControl, TypeOK, Entries
    <3> QED
      BY <1>7, <2>1, <3>1 DEF RequestControl, GrantsControl, StatusStep, ControlMove, ClaimStep, Present
  <2> QED
    BY <1>7, <1>a, <2>1 DEF RequestControl, TypeOK
<1>8. ASSUME NEW r \in Sessions, entry' = [entry EXCEPT ![r] = ResetControllerState(entry[r])]
      PROVE  StatusStep(s) /\ ControlMove(s)
  BY <1>0, <1>8, <1>a DEF ResetControllerState, StatusStep, ControlMove, TypeOK, Entries
<1>9. ASSUME NEW r \in Sessions, StopSession(r) PROVE StatusStep(s) /\ ControlMove(s)
  <2>1. CASE r = s
    <3>1. /\ entry'[s] = ResetControllerState(ShutdownEntry(entry[s]))
          /\ IsInteractiveStatus(entry[s].status) /\ ~IsTerminalStatus(entry[s].status)
      BY <1>9, <2>1 DEF StopSession, NeedsTerminate, BooksOK, Present, TypeOK
    <3> QED
      BY <1>0, <3>1, ShutdownEffect DEF IsEndOf, StatusStep, ControlMove
  <2> QED
    BY <1>9, <1>a, <2>1 DEF StopSession, TypeOK
<1>10. CASE ClearInactiveSessions
  <2>1. CASE Inactive(s)
    BY <1>10, <2>1 DEF ClearInactiveSessions, NoEntry, StatusStep, ControlMove, Present
  <2> QED
    BY <1>10, <1>a, <2>1 DEF ClearInactiveSessions
<1>11. CASE Shutdown
  <2>1. PICK ended \in SUBSET Sessions : entry'[s] = ShutdownStep(s, s \in ended)
    BY <1>11 DEF Shutdown
  <2>2. CASE NeedsTerminate(s) /\ s \in ended
    <3>1. /\ entry'[s] = ResetControllerState(ShutdownEntry(entry[s]))
          /\ IsInteractiveStatus(entry[s].status) /\ ~IsTerminalStatus(entry[s].status)
      BY <2>1, <2>2 DEF ShutdownStep, NeedsTerminate, BooksOK, Present
    <3> QED
      BY <1>0, <3>1, ShutdownEffect DEF IsEndOf, StatusStep, ControlMove
  <2>3. CASE ~(NeedsTerminate(s) /\ s \in ended)
    <3>1. entry'[s] = entry[s] \/ entry'[s] = ResetControllerState(entry[s])
      BY <2>1, <2>3 DEF ShutdownStep
    <3> QED
      BY <1>0, <1>a, <3>1 DEF ResetControllerState, StatusStep, ControlMove, Entries
  <2> QED
    BY <2>2, <2>3
<1>12. CASE DaemonEnds
  BY <1>12 DEF DaemonEnds, NoEntry, StatusStep, ControlMove, Present
<1>13. CASE LoadPersistedSessions
  <2>1. ~Present(s)
    BY <1>13 DEF LoadPersistedSessions, BooksOK, Present, NoEntry
  <2> QED
    BY <1>13, <1>b, <2>1 DEF LoadPersistedSessions, NoEntry
<1>14. CASE UNCHANGED entry
  BY <1>14, <1>a
<1> QED
  BY <1>1, <1>2, <1>3, <1>5, <1>6, <1>7, <1>8, <1>9, <1>10, <1>11, <1>12, <1>13, <1>14
     DEF Next, SessionNext, ReleaseControl, UpdateSessionGroupTags, StopEndedSession,
         StopSessionFails, ChildExits, vars

\* No poll, stop, claim or shutdown revives a session that has ended or changes
\* the verdict it ended with.
THEOREM TerminalStaysFinal == Spec => TerminalIsFinal
<1>1. IInv /\ [Next]_vars =>
          [\A s \in Sessions :
              Present(s) /\ IsTerminalStatus(entry[s].status) /\ Present(s)'
                  => entry'[s].status = entry[s].status]_vars
  BY StepShape DEF StatusStep
<1> QED
  BY <1>1, IInvInit, IInvNext, PTL DEF Spec, TerminalIsFinal

\* A remote controller is never replaced by another remote client.
THEOREM RemoteIsSafe == Spec => RemoteNotStolen
<1>1. IInv /\ [Next]_vars =>
          [\A s \in Sessions :
              entry[s].kind = "Remote" /\ entry'[s].kind = "Remote"
                  => entry'[s].client = entry[s].client]_vars
  BY StepShape DEF ControlMove, ClaimStep
<1> QED
  BY <1>1, IInvInit, IInvNext, PTL DEF Spec, RemoteNotStolen
-------------------------------------------------------------------------------
\* The store behind CrashSafe and ShutdownOK. The record of an ended session has
\* its verdict; only one read back from the store may lag behind it, and then it
\* reads as the same verdict again.
RecordsOK ==
    daemon # "down" /\ ~StoreCanFail =>
        \A s \in Sessions :
            IF Present(s)
            THEN /\ entry[s].backing # "log" => stored[s] # NoRecord
                 /\ IsTerminalStatus(entry[s].status) =>
                       \/ stored[s] = entry[s].status
                       \/ /\ entry[s].recovered /\ stored[s] # NoRecord
                          /\ NormalizeRecoveredStatus(stored[s]) = entry[s].status
            ELSE stored[s] = NoRecord

\* With a store that does not fail every record asked for is written.
LEMMA PersistWrites ==
    ASSUME ~StoreCanFail, NEW touched \in SUBSET Sessions, NEW e, PersistEntries(touched, e)
    PROVE  \A s \in Sessions :
              stored'[s] = IF s \in touched THEN e[s].status ELSE stored[s]
BY DEF PersistEntries

\* One step of a session's record while the daemon is there: nothing that the
\* record is about changes, or it is written, or the entry is a log session that
\* runs, or both are gone.
SameStory(s) ==
    /\ entry'[s].backing = entry[s].backing /\ entry'[s].status = entry[s].status
    /\ entry'[s].recovered = entry[s].recovered
    /\ stored'[s] = stored[s]

RecordStep(s) ==
    \/ SameStory(s)
    \/ Present(s)' /\ stored'[s] = entry'[s].status
    \/ entry'[s].backing = "log" /\ IsInteractiveStatus(entry'[s].status)
    \/ ~Present(s)' /\ stored'[s] = NoRecord

\* What a turn of Shutdown does to an entry and to its record.
LEMMA ShutdownTurn ==
    ASSUME IInv, daemon = "up", NEW s \in Sessions, NEW terminated \in BOOLEAN
    PROVE  /\ ShutdownStep(s, terminated) \in Entries
           /\ ShutdownStep(s, terminated).backing = entry[s].backing
           /\ ShutdownStep(s, terminated).recovered = entry[s].recovered
           /\ NeedsTerminate(s) /\ terminated =>
                IsEndOf(ShutdownStep(s, terminated), entry[s])
           /\ ~(NeedsTerminate(s) /\ terminated) =>
                /\ ShutdownStep(s, terminated).status = entry[s].status
                /\ ShutdownStep(s, terminated).pid = entry[s].pid
           /\ Present(s) /\ ~NeedsTerminate(s) => ShutdownStep(s, terminated).client = NoClient
<1> USE DEF IInv
<1>0. entry[s] \in Entries
  BY DEF TypeOK
<1>1. CASE NeedsTerminate(s) /\ terminated
  <2>1. ShutdownStep(s, terminated) = ResetControllerState(ShutdownEntry(entry[s]))
    BY <1>1 DEF ShutdownStep
  <2>2. IsInteractiveStatus(entry[s].status)
    BY <1>1 DEF NeedsTerminate, BooksOK, Present
  <2>3. IsEndOf(ShutdownStep(s, terminated), entry[s])
    BY <1>0, <2>1, <2>2, ShutdownEffect
  <2>4. ShutdownStep(s, terminated).recovered = entry[s].recovered
    BY <1>0, <2>1 DEF ResetControllerState, ShutdownEntry, Entries
  <2>5. ShutdownStep(s, terminated) \in Entries
    BY <1>0, <2>1, ShutdownType, ResetType
  <2> QED
    BY <1>1, <2>3, <2>4, <2>5 DEF IsEndOf
<1>2. CASE ~(NeedsTerminate(s) /\ terminated)
  <2>1. \/ ShutdownStep(s, terminated) = entry[s] /\ (NeedsTerminate(s) \/ ~Present(s))
        \/ ShutdownStep(s, terminated) = ResetControllerState(entry[s])
    BY <1>2 DEF ShutdownStep
  <2>2. ResetControllerState(entry[s]) \in Entries
    BY <1>0, ResetType
  <2> QED
    BY <1>0, <1>2, <2>1, <2>2 DEF ResetControllerState, Entries
<1> QED
  BY <1>1, <1>2

LEMMA RecordShape ==
    ASSUME ~StoreCanFail, IInv, [Next]_vars, daemon # "down", daemon' # "down",
           NEW s \in Sessions
    PROVE  RecordStep(s)
<1> USE ManagerAssumption DEF IInv
<1>0. entry[s] \in Entries
  BY DEF TypeOK
<1>a. ASSUME entry'[s] = entry[s], stored'[s] = stored[s] PROVE RecordStep(s)
  BY <1>a DEF RecordStep, SameStory
<1>1. ASSUME NEW r \in Sessions, CreateSession(r) PROVE RecordStep(s)
  <2>1. CASE r = s
    <3>1. Present(s)'
      BY <1>1, <2>1 DEF CreateSession, Present, TypeOK
    <3>2. stored'[s] = entry'[s].status
      BY <1>1, <2>1, PersistWrites DEF CreateSession, PersistEntry
    <3> QED
      BY <3>1, <3>2 DEF RecordStep
  <2> QED
    BY <1>1, <1>a, <2>1, PersistFrame, SMTT(60) DEF CreateSession, PersistEntry, TypeOK
<1>2. ASSUME NEW r \in Sessions, CreateSessionFails(r) PROVE RecordStep(s)
  <2>1. CASE r = s
    <3>1. Present(s)'
      BY <1>2, <2>1 DEF CreateSessionFails, Present, TypeOK
    <3>2. stored'[s] = entry'[s].status
      BY <1>2, <2>1, PersistWrites DEF CreateSessionFails, PersistEntry
    <3> QED
      BY <3>1, <3>2 DEF RecordStep
  <2>2. CASE r # s
    <3>1. stored'[s] = stored[s]
      BY <1>2, <2>2, PersistFrame DEF CreateSessionFails, PersistEntry
    <3>2. entry'[s] = entry[s]
      BY <1>2, <2>2 DEF CreateSessionFails, TypeOK
    <3> QED
      BY <1>a, <3>1, <3>2
  <2> QED
    BY <2>1, <2>2
<1>3. ASSUME NEW r \in Sessions, CreateLogSession(r) PROVE RecordStep(s)
  <2>1. CASE r = s
    BY <1>3, <2>1 DEF CreateLogSession, RecordStep, IsInteractiveStatus, TypeOK
  <2> QED
    BY <1>3, <1>a, <2>1 DEF CreateLogSession, TypeOK
<1>4. ASSUME NEW polled \in SUBSET Sessions, PollEntries(polled), daemon = "up"
      PROVE  RecordStep(s)
  <2>1. stored'[s] = IF s \in polled /\ PollSessionPersists(s) THEN entry'[s].status ELSE stored[s]
    BY <1>4, PersistWrites DEF PollEntries
  <2>2. CASE entry'[s] = entry[s]
    <3>1. PollSessionPersists(s) => Present(s)'
      BY <2>2 DEF PollSessionPersists, Present
    <3> QED
      BY <1>a, <2>1, <2>2, <3>1 DEF RecordStep
  <2>3. CASE entry'[s] # entry[s]
    <3>1. s \in polled /\ entry'[s] = PollSessionEntry(s)
      BY <1>4, <2>3 DEF PollEntries
    <3>2. /\ PollExits(s) /\ entry[s].backing \in {"pty", "log"}
          /\ entry'[s].backing = entry[s].backing
      <4>1. /\ PollExits(s) /\ entry[s].backing \in {"pty", "log"}
            /\ PollSessionEntry(s) =
                  [entry[s] EXCEPT !.status = ExitStatus(s), !.pid = FALSE, !.fd = FALSE]
        BY <1>4, <2>3, <3>1, PollEffect
      <4> QED
        BY <1>0, <3>1, <4>1 DEF Entries
    <3> QED
      BY <2>1, <3>1, <3>2 DEF RecordStep, Present, PollSessionPersists
  <2> QED
    BY <2>2, <2>3
<1>5. ASSUME NEW r \in Sessions, PollSession(r) PROVE RecordStep(s)
  BY <1>4, <1>5 DEF PollSession
<1>6. CASE PollAll
  BY <1>4, <1>6 DEF PollAll
<1>7. ASSUME NEW r \in Sessions, NEW c \in Clients, NEW k \in ControllerKinds,
             RequestControl(r, c, k) PROVE RecordStep(s)
  BY <1>0, <1>7 DEF RequestControl, RecordStep, SameStory, TypeOK, Entries
<1>8. ASSUME NEW r \in Sessions, NEW c \in Clients, ReleaseControl(r, c) PROVE RecordStep(s)
  BY <1>0, <1>8 DEF ReleaseControl, ResetControllerState, RecordStep, SameStory, TypeOK, Entries
<1>9. ASSUME NEW r \in Sessions, UpdateSessionGroupTags(r) PROVE RecordStep(s)
  <2>1. CASE r = s
    BY <1>9, <2>1, PersistWrites DEF UpdateSessionGroupTags, PersistEntry, RecordStep, Present
  <2> QED
    BY <1>9, <1>a, <2>1, PersistFrame DEF UpdateSessionGroupTags, PersistEntry
<1>10. ASSUME NEW r \in Sessions, StopEndedSession(r) PROVE RecordStep(s)
  <2>1. CASE r = s
    <3>1. Present(s)'
      BY <1>0, <1>10, <2>1 DEF StopEndedSession, ResetControllerState, Present, TypeOK, Entries
    <3> QED
      BY <1>10, <2>1, <3>1, PersistWrites DEF StopEndedSession, PersistEntry, RecordStep
  <2> QED
    BY <1>10, <1>a, <2>1, PersistFrame DEF StopEndedSession, PersistEntry, TypeOK
<1>11. ASSUME NEW r \in Sessions, StopSession(r) PROVE RecordStep(s)
  <2>1. CASE r = s
    <3>1. entry'[s].backing = entry[s].backing /\ Present(s)
      BY <1>0, <1>11, <2>1 DEF StopSession, NeedsTerminate, ResetControllerState, ShutdownEntry,
                               Present, TypeOK, Entries
    <3> QED
      BY <1>11, <2>1, <3>1, PersistWrites DEF StopSession, PersistEntry, RecordStep, Present
  <2> QED
    BY <1>11, <1>a, <2>1, PersistFrame DEF StopSession, PersistEntry, TypeOK
<1>12. CASE ClearInactiveSessions
  <2>1. CASE Inactive(s)
    BY <1>12, <2>1 DEF ClearInactiveSessions, RecordStep, Present, NoEntry
  <2> QED
    BY <1>12, <1>a, <2>1 DEF ClearInactiveSessions
<1>13. CASE Shutdown
  <2>1. PICK ended \in SUBSET Sessions :
          /\ entry' = [r \in Sessions |-> ShutdownStep(r, r \in ended)]
          /\ PersistEntries({r \in Sessions : ShutdownPersists(r, r \in ended)}, entry')
    BY <1>13 DEF Shutdown
  <2>2. entry'[s] = ShutdownStep(s, s \in ended) /\ daemon = "up" /\ (s \in ended) \in BOOLEAN
    BY <1>13, <2>1 DEF Shutdown
  <2>3. stored'[s] = IF ShutdownPersists(s, s \in ended) THEN entry'[s].status ELSE stored[s]
    BY <2>1, PersistWrites
  <2>4. CASE ShutdownPersists(s, s \in ended)
    <3>1. Present(s)'
      BY <2>2, <2>4, ShutdownTurn, ZenonT(60) DEF ShutdownPersists, Present
    <3> QED
      BY <2>3, <2>4, <3>1 DEF RecordStep
  <2>5. CASE ~ShutdownPersists(s, s \in ended)
    <3>1. CASE NeedsTerminate(s) /\ s \in ended
      <4>1. ShutdownStep(s, s \in ended) # entry[s]
        <5>1. ShutdownStep(s, s \in ended).status = "Exited"
          BY <2>2, <3>1, ShutdownTurn DEF IsEndOf
        <5> QED
          BY <3>1, <5>1 DEF NeedsTerminate, IsTerminalStatus
      <4> QED
        BY <2>5, <3>1, <4>1 DEF ShutdownPersists, NeedsTerminate
    <3>2. CASE ~(NeedsTerminate(s) /\ s \in ended)
      <4>1. /\ ShutdownStep(s, s \in ended).backing = entry[s].backing
            /\ ShutdownStep(s, s \in ended).recovered = entry[s].recovered
            /\ ShutdownStep(s, s \in ended).status = entry[s].status
        BY <2>2, <3>2, ShutdownTurn
      <4> QED
        BY <2>2, <2>3, <2>5, <4>1 DEF RecordStep, SameStory
    <3> QED
      BY <3>1, <3>2
  <2> QED
    BY <2>4, <2>5
<1>14. CASE UNCHANGED <<entry, stored>>
  BY <1>14, <1>a
<1> QED
  BY <1>1, <1>2, <1>3, <1>5, <1>6, <1>7, <1>8, <1>9, <1>10, <1>11, <1>12, <1>13, <1>14
     DEF Next, SessionNext, StopSessionFails, ChildExits, DaemonEnds, LoadPersistedSessions, vars

LEMMA RecordsNext == IInv /\ RecordsOK /\ [Next]_vars => RecordsOK'
<1> SUFFICES ASSUME IInv, RecordsOK, [Next]_vars, daemon' # "down", ~StoreCanFail, NEW s \in Sessions
             PROVE  (IF Present(s)
                     THEN /\ entry[s].backing # "log" => stored[s] # NoRecord
                          /\ IsTerminalStatus(entry[s].status) =>
                                \/ stored[s] = entry[s].status
                                \/ /\ entry[s].recovered /\ stored[s] # NoRecord
                                   /\ NormalizeRecoveredStatus(stored[s]) = entry[s].status
                     ELSE stored[s] = NoRecord)'
  BY DEF RecordsOK
<1> USE ManagerAssumption
<1>0. TypeOK'
  BY TypeNext DEF IInv
<1>1. CASE daemon # "down"
  <2>1. CASE SameStory(s)
    BY <1>1, <2>1 DEF RecordsOK, SameStory, Present
  <2>2. CASE Present(s)' /\ stored'[s] = entry'[s].status
    <3>1. stored'[s] # NoRecord
      BY <1>0, <2>2 DEF TypeOK, Entries
    <3> QED
      BY <2>2, <3>1
  <2>3. CASE entry'[s].backing = "log" /\ IsInteractiveStatus(entry'[s].status)
    BY <2>3 DEF Present, IsInteractiveStatus, IsTerminalStatus
  <2>4. CASE ~Present(s)' /\ stored'[s] = NoRecord
    BY <2>4
  <2> QED
    BY <1>1, <2>1, <2>2, <2>3, <2>4, RecordShape DEF RecordStep
<1>2. CASE daemon = "down"
  <2>1. LoadPersistedSessions
    BY <1>2 DEF IInv, BooksOK, NoEntry, Unreaped, Next, SessionNext, vars, CreateSession,
       CreateSessionFails, CreateLogSession, PollSession, PollAll, RequestControl, ReleaseControl,
       UpdateSessionGroupTags, StopEndedSession, StopSession, StopSessionFails, ChildExits,
       ClearInactiveSessions, Shutdown, DaemonEnds
  <2>2. CASE stored[s] = NoRecord
    BY <2>1, <2>2 DEF LoadPersistedSessions, NoEntry, Present
  <2>3. CASE stored[s] # NoRecord
    BY <2>1, <2>3 DEF LoadPersistedSessions, Present
  <2> QED
    BY <2>2, <2>3
<1> QED
  BY <1>1, <1>2

LEMMA ShutdownNext == IInv /\ RecordsOK /\ ShutdownOK /\ [Next]_vars => ShutdownOK'
<1> SUFFICES ASSUME IInv, RecordsOK, ShutdownOK, [Next]_vars,
                    daemon' = "stopped", ~StoreCanFail, NEW s \in Sessions, Present(s)'
             PROVE  (\/ /\ IsTerminalStatus(entry[s].status)
                        /\ IsTerminalStatus(stored[s]) \/ entry[s].recovered
                        /\ entry[s].client = NoClient
                        /\ child[s] \in {"none", "orphan"}
                     \/ entry[s].pid /\ TerminateCanFail)'
  BY DEF ShutdownOK
<1> USE ManagerAssumption DEF IInv
<1>1. CASE Shutdown
  <2>1. PICK ended \in (IF TerminateCanFail THEN SUBSET Sessions ELSE {Sessions}) :
          /\ entry' = [r \in Sessions |-> ShutdownStep(r, r \in ended)]
          /\ child' = [r \in Sessions |-> IF NeedsTerminate(r) /\ r \in ended
                                          THEN "none" ELSE child[r]]
          /\ PersistEntries({r \in Sessions : ShutdownPersists(r, r \in ended)}, entry')
    BY <1>1 DEF Shutdown
  <2>2. entry'[s] = ShutdownStep(s, s \in ended) /\ daemon = "up" /\ (s \in ended) \in BOOLEAN
    BY <1>1, <2>1 DEF Shutdown
  <2>3. stored'[s] = IF ShutdownPersists(s, s \in ended) THEN entry'[s].status ELSE stored[s]
    BY <2>1, PersistWrites
  <2>4. Present(s) /\ entry[s] \in Entries
    BY <2>2, ShutdownTurn, ZenonT(60) DEF Present, TypeOK
  <2>5. CASE NeedsTerminate(s) /\ s \in ended
    <3>1. IsEndOf(entry'[s], entry[s])
      BY <2>2, <2>5, ShutdownTurn
    <3>2. entry'[s] # entry[s]
      BY <2>5, <3>1 DEF IsEndOf, NeedsTerminate, IsTerminalStatus
    <3>3. ShutdownPersists(s, s \in ended)
      BY <2>2, <2>5, <3>2 DEF ShutdownPersists, NeedsTerminate
    <3> QED
      BY <2>1, <2>3, <2>5, <3>1, <3>3 DEF IsEndOf, IsTerminalStatus
  <2>6. CASE NeedsTerminate(s) /\ s \notin ended
    <3>1. IsInteractiveStatus(entry[s].status)
      BY <2>4, <2>6 DEF NeedsTerminate, BooksOK
    <3>2. entry[s].pid
      BY <2>2, <2>4, <3>1 DEF OwnershipOK
    <3>3. entry'[s].pid = entry[s].pid
      BY <2>2, <2>6, ShutdownTurn
    <3> QED
      BY <2>1, <2>6, <3>2, <3>3
  <2>7. CASE ~NeedsTerminate(s)
    <3>1. IsTerminalStatus(entry[s].status)
      BY <2>4, <2>7 DEF NeedsTerminate, BooksOK, Entries, Backings, Present
    <3>2. /\ entry'[s].status = entry[s].status /\ entry'[s].recovered = entry[s].recovered
          /\ entry'[s].client = NoClient
      BY <2>2, <2>4, <2>7, ShutdownTurn, ZenonT(60)
    <3>3. child'[s] \in {"none", "orphan"}
      <4>1. ~IsInteractiveStatus(entry[s].status)
        BY <3>1 DEF IsTerminalStatus, IsInteractiveStatus
      <4>2. child[s] \notin Unreaped /\ child[s] \in ChildStates
        BY <2>2, <4>1 DEF OwnershipOK, TypeOK
      <4> QED
        BY <2>1, <2>7, <4>2 DEF Unreaped, ChildStates
    <3>4. stored[s] = entry[s].status \/ entry[s].recovered
      BY <2>2, <2>4, <3>1 DEF RecordsOK
    <3> QED
      BY <2>3, <3>1, <3>2, <3>3, <3>4
  <2> QED
    BY <2>5, <2>6, <2>7
<1>2. ASSUME NEW r \in Sessions, ChildExits(r) PROVE daemon = "stopped" /\ UNCHANGED <<entry, stored>>
                                                    /\ (child'[s] = child[s] \/ child[s] = "running")
  BY <1>2 DEF ChildExits, TypeOK
<1>3. CASE UNCHANGED vars
  BY <1>3 DEF vars, ShutdownOK, Present
<1>4. CASE \E r \in Sessions : ChildExits(r)
  BY <1>2, <1>4 DEF ShutdownOK, Present
<1> QED
  BY <1>1, <1>3, <1>4 DEF Next, SessionNext, CreateSession,
       CreateSessionFails, CreateLogSession, PollSession, PollAll, RequestControl, ReleaseControl,
       UpdateSessionGroupTags, StopEndedSession, StopSession, StopSessionFails,
       ClearInactiveSessions, DaemonEnds, LoadPersistedSessions

\* The invariants that need the store, with the ones they rest on.
StoreInv == IInv /\ RecordsOK /\ ShutdownOK

LEMMA StoreInvInit == Init => StoreInv
<1> SUFFICES ASSUME Init PROVE StoreInv
  OBVIOUS
<1>1. RecordsOK /\ ShutdownOK
  BY DEF Init, RecordsOK, ShutdownOK, NoEntry, Present
<1> QED
  BY <1>1, IInvInit DEF StoreInv

LEMMA StoreInvNext == StoreInv /\ [Next]_vars => StoreInv'
BY IInvNext, RecordsNext, ShutdownNext DEF StoreInv

\* A crash at any moment, then a restart: an ended session comes back with its
\* verdict, a PTY session comes back, and nothing that was cleared does.
THEOREM CrashIsSafe == Spec => []CrashSafe
<1>1. StoreInv => CrashSafe
  <2> SUFFICES ASSUME StoreInv, daemon # "down", ~StoreCanFail, NEW s \in Sessions
               PROVE  /\ Present(s) /\ entry[s].backing # "log" => stored[s] # NoRecord
                      /\ Present(s) /\ IsTerminalStatus(entry[s].status) =>
                            stored[s] # NoRecord
                            /\ NormalizeRecoveredStatus(stored[s]) = entry[s].status
                      /\ ~Present(s) => stored[s] = NoRecord
    BY DEF CrashSafe
  <2>1. entry[s].status # NoRecord
    BY ManagerAssumption DEF StoreInv, IInv, TypeOK, Entries
  <2> QED
    BY <2>1 DEF StoreInv, RecordsOK, NormalizeRecoveredStatus
<1> QED
  BY <1>1, StoreInvInit, StoreInvNext, PTL DEF Spec

\* Shutdown finishes every session whose process it could end, and leaves the
\* others on record, pid included.
THEOREM ShutdownIsComplete == Spec => []ShutdownOK
<1>1. StoreInv => ShutdownOK
  BY DEF StoreInv
<1> QED
  BY <1>1, StoreInvInit, StoreInvNext, PTL DEF Spec
-------------------------------------------------------------------------------
\* The refinement. An id is issued with its entry, an entry appears with its id
\* or when a daemon comes up, and what is issued stays issued.
AppearStep(s) ==
    /\ s \in issued => s \in issued'
    /\ s \in issued' \ issued =>
          Present(s)' /\ (IsInteractiveStatus(entry'[s].status) \/ entry'[s].status = "Error")
    /\ s \in issued /\ ~Present(s) => ~Present(s)'

LEMMA AppearShape ==
    ASSUME IInv, [Next]_vars, daemon # "down", daemon' # "down", NEW s \in Sessions
    PROVE  AppearStep(s)
<1> USE DEF IInv
<1>0. entry[s] \in Entries /\ ~(daemon = "down" /\ daemon' = "up")
  BY DEF TypeOK
<1>1. ASSUME NEW r \in Sessions, CreateSession(r) PROVE AppearStep(s)
  BY <1>1, StatusFacts DEF CreateSession, AppearStep, Present, TypeOK, IsInteractiveStatus
<1>2. ASSUME NEW r \in Sessions, CreateSessionFails(r) PROVE AppearStep(s)
  BY <1>2 DEF CreateSessionFails, AppearStep, Present, TypeOK
<1>3. ASSUME NEW r \in Sessions, CreateLogSession(r) PROVE AppearStep(s)
  BY <1>3 DEF CreateLogSession, AppearStep, Present, TypeOK, IsInteractiveStatus
<1>a. ASSUME issued' = issued, ~Present(s) => entry'[s] = entry[s] PROVE AppearStep(s)
  BY <1>a DEF AppearStep, Present
<1>4. ASSUME NEW polled \in SUBSET Sessions, PollEntries(polled), issued' = issued
      PROVE  AppearStep(s)
  BY <1>4, <1>a DEF PollEntries, PollSessionEntry, Present
<1>5. ASSUME NEW r \in Sessions, PollSession(r) PROVE AppearStep(s)
  BY <1>4, <1>5 DEF PollSession
<1>6. CASE PollAll
  BY <1>4, <1>6 DEF PollAll
<1>7. ASSUME NEW r \in Sessions, NEW c \in Clients, NEW k \in ControllerKinds,
             RequestControl(r, c, k) PROVE AppearStep(s)
  BY <1>7, <1>a DEF RequestControl, TypeOK
<1>8. ASSUME NEW r \in Sessions, NEW c \in Clients, ReleaseControl(r, c) PROVE AppearStep(s)
  BY <1>8, <1>a DEF ReleaseControl, HasControl, TypeOK
<1>9. ASSUME NEW r \in Sessions, StopEndedSession(r) PROVE AppearStep(s)
  BY <1>9, <1>a DEF StopEndedSession, TypeOK
<1>10. ASSUME NEW r \in Sessions, StopSession(r) PROVE AppearStep(s)
  BY <1>10, <1>a DEF StopSession, NeedsTerminate, Present, TypeOK
<1>11. CASE ClearInactiveSessions
  BY <1>11, <1>a DEF ClearInactiveSessions, Inactive
<1>12. CASE Shutdown
  BY <1>12, <1>a DEF Shutdown, ShutdownStep, NeedsTerminate, Present
<1>13. CASE UNCHANGED <<entry, issued>>
  BY <1>13, <1>a
<1> QED
  BY <1>0, <1>1, <1>2, <1>3, <1>5, <1>6, <1>7, <1>8, <1>9, <1>10, <1>11, <1>12, <1>13
     DEF Next, SessionNext, UpdateSessionGroupTags, StopSessionFails, ChildExits, DaemonEnds,
         LoadPersistedSessions, vars

\* The death of the daemon and its return, seen by a client: what was live ends or
\* is gone, and everything else is told as before.
LEMMA DownShape ==
    ASSUME ~StoreCanFail, StoreInv, [Next]_vars, daemon = "down" \/ daemon' = "down",
           NEW s \in Sessions
    PROVE  \/ VisiblePhase(s)' = VisiblePhase(s)
           \/ VisiblePhase(s) = "live" /\ VisiblePhase(s)' \in {"Exited", "Error", "gone"}
<1> USE ManagerAssumption DEF StoreInv, IInv
<1>1. CASE DaemonEnds
  <2>1. daemon # "down" /\ daemon' = "down" /\ issued' = issued /\ stored' = stored
    BY <1>1 DEF DaemonEnds
  <2>2. CASE s \notin issued
    BY <2>1, <2>2 DEF VisiblePhase
  <2>3. CASE s \in issued /\ ~Present(s)
    <3>1. stored[s] = NoRecord
      BY <2>1, <2>3 DEF RecordsOK
    <3> QED
      BY <2>1, <2>3, <3>1 DEF VisiblePhase
  <2>4. CASE s \in issued /\ Present(s)
    <3>1. VisiblePhase(s)' = IF stored[s] = NoRecord THEN "gone" ELSE NormalizeRecoveredStatus(stored[s])
      BY <2>1, <2>4 DEF VisiblePhase
    <3>2. VisiblePhase(s) = IF IsInteractiveStatus(entry[s].status) THEN "live" ELSE entry[s].status
      BY <2>1, <2>4 DEF VisiblePhase
    <3>3. CASE IsInteractiveStatus(entry[s].status)
      BY <3>1, <3>2, <3>3, StatusFacts DEF TypeOK
    <3>4. CASE IsTerminalStatus(entry[s].status)
      <4>1. stored[s] # NoRecord /\ NormalizeRecoveredStatus(stored[s]) = entry[s].status
        <5>1. entry[s].status # NoRecord
          BY DEF TypeOK, Entries
        <5> QED
          BY <2>1, <2>4, <3>4, <5>1 DEF RecordsOK, NormalizeRecoveredStatus
      <4>2. ~IsInteractiveStatus(entry[s].status)
        BY <3>4 DEF IsTerminalStatus, IsInteractiveStatus
      <4> QED
        BY <3>1, <3>2, <4>1, <4>2
    <3> QED
      BY <2>4, <3>3, <3>4 DEF BooksOK
  <2> QED
    BY <2>2, <2>3, <2>4
<1>2. CASE LoadPersistedSessions
  <2>1. daemon = "down" /\ daemon' = "up" /\ issued' = issued
    BY <1>2 DEF LoadPersistedSessions
  <2>2. CASE s \notin issued
    BY <2>1, <2>2 DEF VisiblePhase
  <2>3. CASE s \in issued /\ stored[s] = NoRecord
    <3>1. ~Present(s)'
      BY <1>2, <2>3 DEF LoadPersistedSessions, NoEntry, Present
    <3> QED
      BY <2>1, <2>3, <3>1 DEF VisiblePhase
  <2>4. CASE s \in issued /\ stored[s] # NoRecord
    <3>1. Present(s)' /\ entry'[s].status = NormalizeRecoveredStatus(stored[s])
      BY <1>2, <2>4 DEF LoadPersistedSessions, Present
    <3>2. ~IsInteractiveStatus(entry'[s].status)
      BY <2>4, <3>1, StatusFacts DEF IsInteractiveStatus, TypeOK
    <3> QED
      BY <2>1, <2>4, <3>1, <3>2 DEF VisiblePhase
  <2> QED
    BY <2>2, <2>3, <2>4
<1>3. CASE UNCHANGED <<daemon, issued, stored>> /\ daemon = "down"
  BY <1>3 DEF VisiblePhase
<1> QED
  BY <1>1, <1>2, <1>3 DEF Next, SessionNext, vars, CreateSession, CreateSessionFails,
     CreateLogSession, PollSession, PollAll, RequestControl, ReleaseControl, UpdateSessionGroupTags,
     StopEndedSession, StopSession, StopSessionFails, ChildExits, ClearInactiveSessions, Shutdown

\* What a client is told by a daemon that is there.
PhaseTold(s) ==
    /\ s \notin issued => VisiblePhase(s) = "new"
    /\ s \in issued /\ ~Present(s) => VisiblePhase(s) = "gone"
    /\ Present(s) => /\ s \in issued
                     /\ \/ IsInteractiveStatus(entry[s].status) /\ VisiblePhase(s) = "live"
                        \/ IsTerminalStatus(entry[s].status) /\ VisiblePhase(s) = entry[s].status

PhasesTold == \A s \in Sessions : PhaseTold(s)

LEMMA PhaseIs == IInv /\ daemon # "down" => PhasesTold
<1> SUFFICES ASSUME IInv, daemon # "down", NEW s \in Sessions PROVE PhaseTold(s)
  BY DEF PhasesTold
<1>1. Present(s) => s \in issued /\ (IsInteractiveStatus(entry[s].status) \/ IsTerminalStatus(entry[s].status))
  BY DEF IInv, BooksOK, NoEntry, Present
<1>2. IsTerminalStatus(entry[s].status) => ~IsInteractiveStatus(entry[s].status)
  BY DEF IsTerminalStatus, IsInteractiveStatus
<1> QED
  BY <1>1, <1>2 DEF VisiblePhase, PhaseTold

LEMMA PhaseShape ==
    ASSUME ~StoreCanFail, StoreInv, [Next]_vars, NEW s \in Sessions
    PROVE  \/ VisiblePhase(s)' = VisiblePhase(s)
           \/ VisiblePhase(s) = "new" /\ VisiblePhase(s)' \in {"live", "Error"}
           \/ VisiblePhase(s) = "live" /\ VisiblePhase(s)' \in {"Exited", "Error", "gone"}
           \/ IsTerminalStatus(VisiblePhase(s)) /\ VisiblePhase(s)' = "gone"
<1>1. CASE daemon # "down" /\ daemon' # "down"
  <2>0. IInv /\ IInv'
    BY IInvNext DEF StoreInv
  <2>1. AppearStep(s) /\ StatusStep(s)
    BY <1>1, <2>0, AppearShape, StepShape
  <2>2. PhaseTold(s) /\ PhaseTold(s)'
    <3>0. (IInv /\ daemon # "down")'
      BY <1>1, <2>0
    <3>1. PhasesTold'
      BY <3>0, PhaseIs, PTL
    <3> QED
      BY <1>1, <2>0, <3>1, PhaseIs DEF PhasesTold
  <2> QED
    BY <2>1, <2>2 DEF AppearStep, StatusStep, PhaseTold, IsTerminalStatus, IsInteractiveStatus
<1>2. CASE daemon = "down" \/ daemon' = "down"
  BY <1>2, DownShape
<1> QED
  BY <1>1, <1>2

\* A session manager whose store does not fail keeps the contract with the clients,
\* through crashes and restarts: every step of it is a step of the contract.
THEOREM ContractKept == ~StoreCanFail => (Spec => ImplementsContract)
<1> SUFFICES ASSUME ~StoreCanFail PROVE Spec => ImplementsContract
  OBVIOUS
<1>1. Init => Contract!ContractInit
  BY DEF Init, Contract!ContractInit, VisiblePhase, NoEntry
<1>2. StoreInv /\ [Next]_vars => [Contract!ContractNext]_(Contract!contractVars)
  <2> SUFFICES ASSUME StoreInv, [Next]_vars, NEW s \in Sessions
               PROVE  Contract!PhaseStep(s) /\ Contract!ControlStep(s)
    BY DEF Contract!ContractNext
  <2>1. Contract!PhaseStep(s)
    BY PhaseShape DEF Contract!PhaseStep, Contract!IsTerminalStatus, IsTerminalStatus
  <2>2. ControlMove(s)
    BY StepShape DEF StoreInv
  <2>3. ASSUME ClaimStep(s) PROVE Contract!ControlStep(s)
    <3>1. VisiblePhase(s) = "live" /\ VisiblePhase(s)' = "live"
      BY <2>3 DEF ClaimStep, VisiblePhase, StoreInv, IInv, BooksOK, Present, NoEntry
    <3> QED
      BY <2>3, <3>1 DEF ClaimStep, Contract!ControlStep
  <2> QED
    BY <2>1, <2>2, <2>3 DEF ControlMove, Contract!ControlStep
<1> QED
  BY <1>1, <1>2, StoreInvInit, StoreInvNext, PTL DEF Spec, ImplementsContract, Contract!ContractSpec
===============================================================================
