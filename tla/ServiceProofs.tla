---------------------------- MODULE ServiceProofs ----------------------------
(***************************************************************************)
(* The launcher and the services beside it, proved for any number of       *)
(* goroutines, processes, files and steps: the session with the page, the  *)
(* recovery of Remote Control threads, the cleaning of the session index,  *)
(* the list of sessions, the settings file, the denials of official voice, *)
(* the backups of skills, and the launcher itself.  Each section ends in   *)
(* the theorems about its component.                                       *)
(***************************************************************************)
EXTENDS CdpSession, RecoveryQueue, SessionIndex, SettingsStore, OfficialRealtime,
        SkillBackup, Launcher, LocalSessions, FiniteSetTheorems, TLAPS

------------------------------------------------------------------------------
\* The session with the page.

LEMMA CdpStart == CdpInit => CdpIInv
  <1> SUFFICES ASSUME CdpInit PROVE CdpIInv
    OBVIOUS
  <1> USE CommandAssumption DEF CdpInit, Unsent, Nothing, NoResponse
  <1>1. command \in [Commands -> CommandType]
    BY DEF CommandType, CommandStages
  <1>2. channel \in [Commands -> Nat] /\ reading \in [id : Nat, to : Commands \cup {NoCommand}]
    OBVIOUS
  <1>3. CdpTypeOK
    <2>1. nextID \in Nat \ {0} /\ \A i \in DOMAIN pending : i \in 1 .. nextID - 1 /\ pending[i] \in Commands
      OBVIOUS
    <2>2. writer \in Commands \cup {NoCommand} /\ readerEnded \in BOOLEAN /\ wire \subseteq Nat
      OBVIOUS
    <2> QED
      BY <1>1, <1>2, <2>1, <2>2 DEF CdpTypeOK
  <1>4. EntriesAreOpen /\ ResponsesAreOwn
    BY DEF EntriesAreOpen, ResponsesAreOwn
  <1> QED
    BY <1>3, <1>4 DEF CdpIInv

\* The types alone: no other invariant is needed for them.
LEMMA CdpTypeStep == CdpTypeOK /\ [CdpNext]_cdpVars => CdpTypeOK'
  <1> SUFFICES ASSUME CdpTypeOK, [CdpNext]_cdpVars PROVE CdpTypeOK'
    OBVIOUS
  <1> USE CommandAssumption DEF CdpTypeOK
  <1>1. ASSUME NEW c \in Commands,
               \/ BindingCalled(c) \/ LockWrite(c) \/ Written(c) \/ TimeOut(c) \/ Forget(c)
        PROVE CdpTypeOK'
    <2>1. command' \in [Commands -> CommandType]
      BY <1>1 DEF CommandType, CommandStages, BindingCalled, LockWrite, Written, TimeOut, Forget
    <2>2. command[c].id \in Nat
      BY DEF CommandType
    <2> QED
      BY <1>1, <2>1, <2>2 DEF BindingCalled, LockWrite, Written, TimeOut, Forget, Without
  <1>2. ASSUME NEW c \in Commands, Register(c) \/ ResponseCame(c) PROVE CdpTypeOK'
    <2>1. command' \in [Commands -> CommandType]
      BY <1>2 DEF CommandType, CommandStages, Register, ResponseCame
    <2> QED
      BY <1>2, <2>1 DEF Register, ResponseCame, NoResponse
  <1>3. ASSUME NEW id \in wire, ReadResponse(id) PROVE CdpTypeOK'
    BY <1>3 DEF ReadResponse, Without
  <1>4. CASE HandOver
    BY <1>4 DEF HandOver, Nothing, NoResponse
  <1>5. CASE ReaderEnds
    BY <1>5 DEF ReaderEnds
  <1>6. CASE CdpQuiet \/ UNCHANGED cdpVars
    BY <1>6 DEF CdpQuiet, cdpVars
  <1> QED
    BY <1>1, <1>2, <1>3, <1>4, <1>5, <1>6 DEF CdpNext

LEMMA CdpStep == CdpIInv /\ [CdpNext]_cdpVars => EntriesAreOpen' /\ ResponsesAreOwn'
  <1> DEFINE Goal == EntriesAreOpen /\ ResponsesAreOwn
  <1> SUFFICES ASSUME CdpTypeOK, EntriesAreOpen, ResponsesAreOwn, [CdpNext]_cdpVars
               PROVE  EntriesAreOpen' /\ ResponsesAreOwn'
    BY DEF CdpIInv
  <1> USE CommandAssumption
      DEF CdpTypeOK, CommandType, EntriesAreOpen, ResponsesAreOwn, NoResponse, Nothing
  <1>1. ASSUME NEW c \in Commands, BindingCalled(c) PROVE Goal'
    BY <1>1 DEF BindingCalled
  <1>2. ASSUME NEW c \in Commands, Register(c) PROVE Goal'
    BY <1>2 DEF Register
  <1>3. ASSUME NEW c \in Commands, LockWrite(c) PROVE Goal'
    BY <1>3 DEF LockWrite
  <1>4. ASSUME NEW c \in Commands, Written(c) PROVE Goal'
    BY <1>4, SMTT(30) DEF Written
  <1>5. ASSUME NEW c \in Commands, ResponseCame(c) PROVE Goal'
    BY <1>5 DEF ResponseCame
  <1>6. ASSUME NEW c \in Commands, TimeOut(c) PROVE Goal'
    BY <1>6 DEF TimeOut
  <1>7. ASSUME NEW c \in Commands, Forget(c) PROVE Goal'
    BY <1>7 DEF Forget, Without
  <1>8. ASSUME NEW id \in wire, ReadResponse(id) PROVE Goal'
    BY <1>8 DEF ReadResponse, Without
  <1>9. CASE HandOver
    BY <1>9 DEF HandOver
  <1>10. CASE ReaderEnds \/ CdpQuiet \/ UNCHANGED cdpVars
    BY <1>10 DEF ReaderEnds, CdpQuiet, cdpVars
  <1> QED
    BY <1>1, <1>2, <1>3, <1>4, <1>5, <1>6, <1>7, <1>8, <1>9, <1>10 DEF CdpNext

\* Every command of the session with the page gets its own answer or none, leaves
\* no entry behind, and never holds up the reader.
THEOREM CommandsAreTidy == CdpSpec => []CommandsEndTidily
  <1>1. CdpIInv /\ [CdpNext]_cdpVars => CdpIInv'
    BY CdpTypeStep, CdpStep DEF CdpIInv
  <1>2. CdpIInv => CommandsEndTidily
    BY DEF CdpIInv, CdpTypeOK, CommandType, EntriesAreOpen, ResponsesAreOwn, CommandsEndTidily
  <1> QED
    BY CdpStart, <1>1, <1>2, PTL DEF CdpSpec

------------------------------------------------------------------------------
\* The recovery of threads.

LEMMA DatabasesCounted ==
  \E n \in Nat : n = Cardinality(Databases) /\ \A d : d \in Databases <=> d \in 1 .. n
  <1>1. Cardinality(Databases) \in Nat
    BY RecoveryAssumption, FS_CardinalityType
  <1>2. \A d : d \in Databases <=> d \in 1 .. Cardinality(Databases)
    BY RecoveryAssumption, Zenon
  <1> QED
    BY <1>1, <1>2

\* What the proofs use of the numbers of the databases.
LEMMA DatabasesInTurn ==
  /\ \A d \in Databases : d \in Nat /\ ~(d < 1)
  /\ \A n \in Nat, d \in Databases :
        /\ n >= Cardinality(Databases) => d < n + 1
        /\ d < n + 1 => d < n \/ d = n
  BY DatabasesCounted

LEMMA TargetsAreOthers == Targets \cap {"", "openai", "missing"} = {} /\ NoTarget \notin Targets
  BY RecoveryAssumption, Zenon

LEMMA WorkTyped ==
  /\ NoRequest \in RequestType
  /\ \A t \in Threads, g \in Targets, o \in Targets \cup {"openai"} :
        [thread |-> t, target |-> g, original |-> o, next |-> 1] \in WorkType
  BY DEF RequestType, NoRequest, WorkType

LEMMA WorkGoesOn ==
  ASSUME current \in WorkType, current' = [current EXCEPT !.next = @ + 1]
  PROVE  current' \in WorkType
  BY DEF WorkType

LEMMA RequestGoesOn ==
  ASSUME request \in [RequestKeys -> RequestType], NEW k \in RequestKeys,
         request' = [request EXCEPT ![k].next = @ + 1]
  PROVE  request' \in [RequestKeys -> RequestType]
  BY DEF RequestType

\* A row is moved in one database; no other row changes, and none back.
LEMMA RowMoved ==
  ASSUME RecoveryTypeOK, NEW t \in Threads, NEW n \in Nat, NEW target \in Targets,
         MoveRow(t, n, target)
  PROVE  /\ catalog' \in [Threads -> [Databases -> Targets \cup Unrecovered]]
         /\ \A s \in Threads, d \in Databases :
               catalog'[s][d] = IF s = t /\ d = n /\ catalog[s][d] \in Unrecovered
                                THEN target ELSE catalog[s][d]
  BY ZenonT(60) DEF RecoveryTypeOK, MoveRow, MovedRow

\* What is at its target stays there.
LEMMA RowsStay ==
  ASSUME RecoveryTypeOK, NEW t \in Threads, NEW n \in Nat, NEW target \in Targets,
         MoveRow(t, n, target)
  PROVE  \A s \in Threads, d \in Databases : catalog[s][d] \notin Unrecovered => catalog'[s][d] = catalog[s][d]
  BY RowMoved, SMTT(30)

LEMMA RecoveryStart == RecoveryInit => RecoveryIInv
  <1> SUFFICES ASSUME RecoveryInit PROVE RecoveryIInv
    OBVIOUS
  <1> USE TargetsAreOthers DEF RecoveryInit
  <1>1. catalog \in [Threads -> [Databases -> Targets \cup Unrecovered]]
    OBVIOUS
  <1>2. request \in [RequestKeys -> RequestType]
    BY WorkTyped
  <1>3. rollout \in [Threads -> Targets \cup {"openai"}] /\ queue \in [Threads -> Targets \cup {NoTarget}]
    OBVIOUS
  <1>4. RecoveryTypeOK
    BY <1>1, <1>2, <1>3 DEF RecoveryTypeOK
  <1>5. LaunchIsAlone /\ CompletedIsMoved /\ WorkIsQueued /\ RecoveryIsKept
    BY DEF LaunchIsAlone, CompletedIsMoved, WorkIsQueued, RecoveryIsKept, NoRequest
  <1> QED
    BY <1>4, <1>5 DEF RecoveryIInv

LEMMA RecoveryTypeStep == RecoveryIInv /\ [RecoveryNext]_queueVars => RecoveryTypeOK'
  <1> SUFFICES ASSUME RecoveryTypeOK, CompletedIsMoved, [RecoveryNext]_queueVars
               PROVE  RecoveryTypeOK'
    BY DEF RecoveryIInv
  <1> USE TargetsAreOthers
  <1>1. ASSUME NEW target \in Targets \cup {NoTarget}, SwitchProfile(target) PROVE RecoveryTypeOK'
    BY <1>1 DEF SwitchProfile, RecoveryTypeOK
  <1>2. ASSUME NEW t \in Threads, Ask(t) PROVE RecoveryTypeOK'
    <2>1. request' \in [RequestKeys -> RequestType]
      BY <1>2 DEF Ask, RequestType, RecoveryTypeOK
    <2> QED
      BY <1>2, <2>1 DEF Ask, RecoveryTypeOK
  <1>3. ASSUME NEW t \in Threads, Skip(t) PROVE RecoveryTypeOK'
    BY <1>3 DEF Skip, Fails, RecoveryTypeOK
  <1>4. ASSUME NEW k \in RequestKeys, Enqueue(k) PROVE RecoveryTypeOK'
    <2>1. request' \in [RequestKeys -> RequestType]
      BY <1>4 DEF Enqueue, RequestType, RecoveryTypeOK
    <2>2. k[1] \in Threads /\ k[2] \in Targets
      BY DEF RequestKeys
    <2>3. queue' \in [Threads -> Targets \cup {NoTarget}]
      BY <1>4, <2>2 DEF Enqueue, RecoveryTypeOK
    <2> QED
      BY <1>4, <2>1, <2>2, <2>3 DEF Enqueue, RecoveryTypeOK
  <1>5. ASSUME NEW k \in RequestKeys, MoveCatalog(k) PROVE RecoveryTypeOK'
    <2>1. request' \in [RequestKeys -> RequestType]
      <3>1. CASE request' = [request EXCEPT ![k] = NoRequest]
        BY <3>1, WorkTyped DEF RecoveryTypeOK
      <3>2. CASE request' = [request EXCEPT ![k].next = @ + 1]
        BY <3>2, RequestGoesOn DEF RecoveryTypeOK
      <3>3. \/ request' = [request EXCEPT ![k] = NoRequest]
            \/ request' = [request EXCEPT ![k].next = @ + 1]
        BY <1>5, Zenon DEF MoveCatalog
      <3> QED
        BY <3>1, <3>2, <3>3, Zenon
    <2>2. k[1] \in Threads /\ k[2] \in Targets /\ request[k].next \in Nat
      BY DEF RequestKeys, RequestType, RecoveryTypeOK
    <2>3. catalog' \in [Threads -> [Databases -> Targets \cup Unrecovered]]
      <3>1. MoveRow(k[1], request[k].next, k[2])
        BY <1>5, Zenon DEF MoveCatalog
      <3> QED
        BY <2>2, <3>1, RowMoved, ZenonT(60)
    <2> QED
      BY <1>5, <2>1, <2>3 DEF MoveCatalog, RecoveryTypeOK
  <1>6. ASSUME NEW k \in RequestKeys, AskFails(k) PROVE RecoveryTypeOK'
    <2>1. request' \in [RequestKeys -> RequestType]
      BY <1>6, WorkTyped DEF AskFails, RecoveryTypeOK
    <2> QED
      BY <1>6, <2>1 DEF AskFails, RecoveryTypeOK
  <1>7. CASE Damage \/ Launch \/ Save \/ UNCHANGED queueVars
    <2>1. queue' \in [Threads -> Targets \cup {NoTarget}]
      BY <1>7 DEF Damage, Launch, Save, Remaining, queueVars, RecoveryTypeOK
    <2> QED
      BY <1>7, <2>1 DEF Damage, Launch, Save, queueVars, RecoveryTypeOK
  <1>8. CASE End
    <2>1. request' \in [RequestKeys -> RequestType]
      BY <1>8, WorkTyped DEF End, RecoveryTypeOK
    <2> QED
      BY <1>8, <2>1 DEF End, RecoveryTypeOK
  <1>9. CASE RowsFail
    <2>1. rollout' \in [Threads -> Targets \cup {"openai"}]
      BY <1>9 DEF RowsFail, WorkType, RecoveryTypeOK
    <2> QED
      BY <1>9, <2>1 DEF RowsFail, RecoveryTypeOK
  <1>10. ASSUME NEW t \in Threads, Rewrite(t) PROVE RecoveryTypeOK'
    <2>1. queue[t] \in Targets
      BY <1>10 DEF Rewrite, Recovering, CompletedIsMoved, RecoveryTypeOK
    <2>2. [thread |-> t, target |-> queue[t], original |-> rollout[t], next |-> 1] \in WorkType
      <3>1. rollout[t] \in Targets \cup {"openai"}
        BY DEF RecoveryTypeOK
      <3> QED
        BY <2>1, <3>1, WorkTyped, Zenon
    <2>3. rollout' \in [Threads -> Targets \cup {"openai"}]
      BY <1>10, <2>1 DEF Rewrite, RecoveryTypeOK
    <2>4. current' \in WorkType
      BY <1>10, <2>2, Zenon DEF Rewrite
    <2> QED
      BY <1>10, <2>3, <2>4 DEF Rewrite, RecoveryTypeOK
  <1>11. CASE MoveRows
    <2>1. current \in WorkType
      BY <1>11 DEF MoveRows, RecoveryTypeOK
    <2>2. current.thread \in Threads /\ current.target \in Targets /\ current.next \in Nat
      BY <2>1 DEF WorkType
    <2>3. catalog' \in [Threads -> [Databases -> Targets \cup Unrecovered]]
      <3>1. MoveRow(current.thread, current.next, current.target)
        BY <1>11, Zenon DEF MoveRows
      <3> QED
        BY <2>2, <3>1, RowMoved, ZenonT(60)
    <2>5. current' \in WorkType \cup {NoWork}
      <3>1. CASE current' = [current EXCEPT !.next = @ + 1]
        BY <2>1, <3>1, WorkGoesOn
      <3>2. current' = NoWork \/ current' = [current EXCEPT !.next = @ + 1]
        BY <1>11, Zenon DEF MoveRows
      <3> QED
        BY <3>1, <3>2, Zenon
    <2> QED
      BY <1>11, <2>2, <2>3, <2>5 DEF MoveRows, RecoveryTypeOK
  <1> QED
    BY <1>1, <1>2, <1>3, <1>4, <1>5, <1>6, <1>7, <1>8, <1>9, <1>10, <1>11 DEF RecoveryNext, LaunchSteps

LEMMA RecoveryStep ==
  RecoveryIInv /\ [RecoveryNext]_queueVars
     => LaunchIsAlone' /\ CompletedIsMoved' /\ WorkIsQueued' /\ RecoveryIsKept'
  <1> DEFINE Goal == LaunchIsAlone /\ CompletedIsMoved /\ WorkIsQueued /\ RecoveryIsKept
             Shape == /\ rollout \in [Threads -> Targets \cup {"openai"}]
                      /\ catalog \in [Threads -> [Databases -> Targets \cup Unrecovered]]
                      /\ queue \in [Threads -> Targets \cup {NoTarget}]
                      /\ rest \subseteq Threads /\ done \subseteq Threads /\ accepted \subseteq Threads
  <1> SUFFICES ASSUME RecoveryTypeOK, Shape, LaunchIsAlone, CompletedIsMoved, WorkIsQueued,
                      RecoveryIsKept, [RecoveryNext]_queueVars
               PROVE  Goal'
    BY DEF RecoveryIInv, RecoveryTypeOK
  <1> HIDE DEF Shape
  <1> USE TargetsAreOthers
  \* The steps that leave the files, the rows and the queue alone.
  <1>1. ASSUME NEW target \in Targets \cup {NoTarget}, SwitchProfile(target) PROVE Goal'
    BY <1>1 DEF SwitchProfile, LaunchIsAlone, CompletedIsMoved, WorkIsQueued, RecoveryIsKept, Recovered
  <1>2. ASSUME NEW t \in Threads, Ask(t) PROVE Goal'
    BY <1>2 DEF Ask, LaunchIsAlone, CompletedIsMoved, WorkIsQueued, RecoveryIsKept, Recovered
  <1>3. ASSUME NEW t \in Threads, Skip(t) PROVE Goal'
    BY <1>3 DEF Skip, Fails, Recovering, LaunchIsAlone, CompletedIsMoved, WorkIsQueued, RecoveryIsKept, Recovered
  <1>4. ASSUME NEW k \in RequestKeys, AskFails(k) PROVE Goal'
    BY <1>4 DEF AskFails, LaunchIsAlone, CompletedIsMoved, WorkIsQueued, RecoveryIsKept, Recovered
  <1>5. CASE Damage
    BY <1>5 DEF Damage, LaunchIsAlone, CompletedIsMoved, WorkIsQueued, RecoveryIsKept, Recovered
  <1>14. CASE UNCHANGED queueVars
    BY <1>14, Zenon DEF queueVars, LaunchIsAlone, CompletedIsMoved, WorkIsQueued, RecoveryIsKept, Recovered
  <1>12. CASE Launch
    BY <1>12 DEF Launch, LaunchIsAlone, CompletedIsMoved, WorkIsQueued, RecoveryIsKept, Recovered
  <1>13. CASE End
    BY <1>13 DEF End, NoRequest, LaunchIsAlone, CompletedIsMoved, WorkIsQueued, RecoveryIsKept, Recovered
  \* A queue that could not be read held nothing that was accepted.
  <1>6. ASSUME NEW k \in RequestKeys, Enqueue(k) PROVE Goal'
    <2>1. k[1] \in Threads /\ k[2] \in Targets
      BY DEF RequestKeys
    <2>2. phase = "running"
      BY <1>6 DEF Enqueue, LaunchIsAlone, CompletedIsMoved, WorkIsQueued, RecoveryIsKept, Recovered
    <2>3. queue'[k[1]] # NoTarget /\ \A t \in accepted : queue[t] # NoTarget => queue'[t] # NoTarget
      BY <1>6, <2>1 DEF Enqueue, Shape, LaunchIsAlone
    <2> QED
      BY <1>6, <2>1, <2>2, <2>3 DEF Enqueue, LaunchIsAlone, CompletedIsMoved, WorkIsQueued, RecoveryIsKept, Recovered, Shape
  <1>7. ASSUME NEW k \in RequestKeys, MoveCatalog(k) PROVE Goal'
    <2>1. k[1] \in Threads /\ k[2] \in Targets /\ request[k].next \in Nat
      BY DEF RequestKeys, RequestType, RecoveryTypeOK
    <2>2. phase = "running"
      BY <1>7 DEF MoveCatalog, LaunchIsAlone, CompletedIsMoved, WorkIsQueued, RecoveryIsKept, Recovered
    <2>3. \A t \in Threads, d \in Databases :
             catalog[t][d] \notin Unrecovered => catalog'[t][d] = catalog[t][d]
      <3>1. MoveRow(k[1], request[k].next, k[2])
        BY <1>7, Zenon DEF MoveCatalog
      <3> QED
        BY <2>1, <3>1, RowsStay, ZenonT(60)
    <2>4. UNCHANGED <<rollout, queue, phase, rest, current, done, damaged, accepted>>
      BY <1>7 DEF MoveCatalog
    <2>5. \A s \in Threads : Recovered(s) => Recovered(s)'
      BY <2>3, <2>4 DEF Recovered
    <2>6. current = NoWork
      BY <2>2 DEF LaunchIsAlone
    <2> QED
      BY <2>2, <2>4, <2>5, <2>6 DEF LaunchIsAlone, CompletedIsMoved, WorkIsQueued, RecoveryIsKept, Shape
  \* The file leaves "openai" with the target that was queued.
  <1>8. ASSUME NEW t \in Threads, Rewrite(t) PROVE Goal'
    <2>1. queue[t] \in Targets /\ t \notin done
      BY <1>8 DEF Rewrite, Recovering, CompletedIsMoved, Shape
    <2>2. \A s \in Threads : s # t => rollout'[s] = rollout[s]
      BY <1>8 DEF Rewrite, Shape
    <2>3. rollout'[t] # "openai"
      BY <1>8, <2>1 DEF Rewrite, Shape
    <2>4. current'.thread = t /\ current'.next = 1
      BY <1>8 DEF Rewrite, Shape
    <2>5. \A d \in Databases : ~(d < 1)
      BY DatabasesInTurn, Zenon
    <2> QED
      BY <1>8, <2>1, <2>2, <2>3, <2>4, <2>5 DEF Rewrite, Recovering, LaunchIsAlone, CompletedIsMoved, WorkIsQueued, RecoveryIsKept, Recovered, Shape
  \* With the row of the last database the thread is recovered.
  <1>9. CASE MoveRows
    <2> DEFINE t == current.thread
    <2>1. current \in WorkType
      BY <1>9 DEF MoveRows, RecoveryTypeOK
    <2>2. t \in Threads /\ current.target \in Targets /\ current.next \in Nat
      BY <2>1 DEF WorkType
    <2>3. /\ \A s \in Threads, d \in Databases :
                catalog[s][d] \notin Unrecovered => catalog'[s][d] = catalog[s][d]
          /\ \A d \in Databases : d = current.next => catalog'[t][d] \notin Unrecovered
      <3>1. MoveRow(t, current.next, current.target)
        BY <1>9, Zenon DEF MoveRows
      <3>2. \A s \in Threads, d \in Databases :
               catalog'[s][d] = IF s = t /\ d = current.next /\ catalog[s][d] \in Unrecovered
                                THEN current.target ELSE catalog[s][d]
        BY <2>2, <3>1, RowMoved, ZenonT(60)
      <3> QED
        BY <2>2, <3>2 DEF Unrecovered
    <2>4. \A d \in Databases : d < current.next + 1 => catalog'[t][d] \notin Unrecovered
      BY <1>9, <2>2, <2>3, DatabasesInTurn, Zenon DEF MoveRows, WorkIsQueued
    <2>5. phase = "recovering" /\ queue[t] # NoTarget /\ t \notin rest \cup done /\ rollout[t] # "openai"
      BY <1>9 DEF MoveRows, Recovering, LaunchIsAlone, CompletedIsMoved, WorkIsQueued, RecoveryIsKept, Recovered
    <2>6. UNCHANGED <<rollout, queue, phase, rest, request, damaged, accepted>>
      BY <1>9 DEF MoveRows
    <2>7. CASE current' = NoWork /\ done' = done \cup {t} /\ current.next >= Cardinality(Databases)
      <3>1. \A d \in Databases : catalog'[t][d] \notin Unrecovered
        BY <2>2, <2>4, <2>7, DatabasesInTurn, Zenon
      <3>2. \A s \in Threads : Recovered(s) => Recovered(s)'
        BY <2>3, <2>6 DEF Recovered
      <3>3. \A s \in Threads : s = t => Recovered(s)'
        BY <2>5, <2>6, <3>1 DEF Recovered
      <3>4. LaunchIsAlone' /\ WorkIsQueued'
        BY <2>5, <2>6, <2>7 DEF LaunchIsAlone, WorkIsQueued
      <3>5. CompletedIsMoved'
        <4>1. \A s \in done' : s = t \/ (s \in done /\ s \in Threads)
          BY <2>7 DEF Shape
        <4>2. \A s \in rest \cup done : queue[s] # NoTarget
          BY <2>5 DEF CompletedIsMoved
        <4>3. \A s \in done' : Recovered(s)'
          BY <2>2, <2>5, <3>2, <3>3, <4>1 DEF CompletedIsMoved
        <4>4. rest \cap done' = {}
          BY <2>5, <4>1 DEF CompletedIsMoved
        <4> QED
          BY <2>5, <2>6, <4>1, <4>2, <4>3, <4>4 DEF CompletedIsMoved
      <3>6. RecoveryIsKept'
        BY <2>6, <3>2 DEF RecoveryIsKept, Shape
      <3> QED
        BY <3>4, <3>5, <3>6
    <2>8. CASE current' = [current EXCEPT !.next = @ + 1] /\ done' = done
      <3>1. current'.thread = t /\ current'.next = current.next + 1
        BY <2>1, <2>8 DEF WorkType
      <3>2. \A s \in Threads : Recovered(s) => Recovered(s)'
        BY <2>3, <2>6 DEF Recovered
      <3> QED
        BY <2>2, <2>4, <2>5, <2>6, <2>8, <3>1, <3>2
        DEF LaunchIsAlone, CompletedIsMoved, WorkIsQueued, RecoveryIsKept, Shape
    <2> QED
      BY <1>9, <2>7, <2>8, Zenon DEF MoveRows
  \* The thread whose rows failed is still queued.
  <1>10. CASE RowsFail
    <2>1. \A s \in Threads : s # current.thread => rollout'[s] = rollout[s]
      BY <1>10 DEF RowsFail, Shape
    <2> QED
      BY <1>10, <2>1 DEF RowsFail, Recovering, LaunchIsAlone, CompletedIsMoved, WorkIsQueued, RecoveryIsKept, Recovered, Shape
  <1>11. CASE Save
    <2>1. \A t \in Threads : queue'[t] = queue[t] \/ t \in done
      BY <1>11 DEF Save, Remaining
    <2>2. /\ phase = "recovering" /\ rest = {} /\ current = NoWork /\ phase' = "running"
          /\ UNCHANGED <<rollout, catalog, rest, current, done, accepted>>
      BY <1>11 DEF Save, Recovering
    <2>3. damaged' => damaged
      BY <1>11, Zenon DEF Save
    <2> QED
      BY <2>1, <2>2, <2>3 DEF LaunchIsAlone, CompletedIsMoved, WorkIsQueued, RecoveryIsKept, Recovered, Shape
  <1> QED
    BY <1>1, <1>2, <1>3, <1>4, <1>5, <1>6, <1>7, <1>8, <1>9, <1>10, <1>11, <1>12, <1>13, <1>14
    DEF RecoveryNext, LaunchSteps

\* The variables of the recovery keep their types.
THEOREM RecoveryTypeCorrect == RecoverySpec => []RecoveryTypeOK
  <1>1. RecoveryIInv /\ [RecoveryNext]_queueVars => RecoveryIInv'
    BY RecoveryTypeStep, RecoveryStep DEF RecoveryIInv
  <1>2. RecoveryIInv => RecoveryTypeOK
    BY DEF RecoveryIInv
  <1> QED
    BY RecoveryStart, <1>1, <1>2, PTL DEF RecoverySpec

\* A thread that was put in the queue is never forgotten half recovered, whatever
\* failed and wherever the launcher ended.
THEOREM QueuedAreRecovered == RecoverySpec => []RecoveryIsKept
  <1>1. RecoveryIInv /\ [RecoveryNext]_queueVars => RecoveryIInv'
    BY RecoveryTypeStep, RecoveryStep DEF RecoveryIInv
  <1>2. RecoveryIInv => RecoveryIsKept
    BY DEF RecoveryIInv
  <1> QED
    BY RecoveryStart, <1>1, <1>2, PTL DEF RecoverySpec

------------------------------------------------------------------------------
\* The cleaning of the index.

LEMMA IndexStart == IndexInit => IndexIInv
  <1> SUFFICES ASSUME IndexInit PROVE IndexIInv
    OBVIOUS
  <1>1. clean = AtRest /\ appRuns = FALSE /\ intruded = FALSE
    BY DEF IndexInit
  <1>2. CleanTypeOK
    BY <1>1 DEF CleanTypeOK, CleanStages, AtRest
  <1>3. PlanIsTheFile
    BY <1>1 DEF PlanIsTheFile, AtRest
  <1> QED
    BY <1>2, <1>3 DEF IndexIInv

\* A record of the cleaning keeps its type from one stage to the next, and when
\* it stops.
LEMMA StageTyped ==
  ASSUME CleanTypeOK, NEW next \in CleanStages, Stage(next)
  PROVE  /\ clean' \in [stage : CleanStages, confirmed : SUBSET IndexThreads, plan : {clean'.plan},
                        candidates : SUBSET IndexThreads]
         /\ clean'.stage = next /\ clean'.confirmed = clean.confirmed /\ clean'.plan = clean.plan
  <1>1. clean \in [stage : CleanStages, confirmed : SUBSET IndexThreads, plan : {clean.plan},
                   candidates : SUBSET IndexThreads]
    BY DEF CleanTypeOK
  <1>2. clean' = [clean EXCEPT !.stage = next]
    BY DEF Stage
  <1>3. clean'.stage = next /\ clean'.confirmed = clean.confirmed /\ clean'.plan = clean.plan
    BY <1>1, <1>2
  <1> QED
    BY <1>1, <1>2, <1>3

LEMMA StopTyped ==
  ASSUME Stop
  PROVE  /\ clean' \in [stage : CleanStages, confirmed : SUBSET IndexThreads, plan : {clean'.plan},
                        candidates : SUBSET IndexThreads]
         /\ clean'.stage = "rest"
  BY DEF Stop, AtRest, CleanStages

LEMMA IndexStep == IndexIInv /\ [IndexNext]_indexVars => IndexIInv'
  <1> SUFFICES ASSUME CleanTypeOK, PlanIsTheFile, [IndexNext]_indexVars PROVE IndexIInv'
    BY DEF IndexIInv
  <1> USE DEF IndexIInv
  <1>1. ASSUME NEW direct \in BOOLEAN, AppBegins(direct) PROVE IndexIInv'
    BY <1>1 DEF AppBegins, CleanTypeOK, PlanIsTheFile
  <1>2. CASE EndApp
    BY <1>2 DEF EndApp, CleanTypeOK, PlanIsTheFile
  <1>3. ASSUME NEW t \in IndexThreads, AppAppends(t) \/ SessionChanges(t) PROVE IndexIInv'
    BY <1>3 DEF AppAppends, SessionChanges, CleanTypeOK, PlanIsTheFile
  <1>4. CASE Preview
    BY <1>4 DEF Preview, CleanTypeOK, PlanIsTheFile
  <1>5. ASSUME NEW ids \in SUBSET IndexThreads, Apply(ids) PROVE IndexIInv'
    <2>1. clean' \in [stage : CleanStages, confirmed : SUBSET IndexThreads, plan : {clean'.plan},
                      candidates : SUBSET IndexThreads]
          /\ clean'.stage = "guarding" /\ clean'.confirmed = ids
      BY <1>5 DEF Apply, AtRest, CleanStages
    <2> QED
      BY <1>5, <2>1 DEF Apply, CleanTypeOK, PlanIsTheFile
  <1>6. CASE Guard
    <2>1. "collecting" \in CleanStages
      BY DEF CleanStages
    <2> QED
      BY <1>6, <2>1, StageTyped DEF Guard, CleanTypeOK, PlanIsTheFile
  <1>7. CASE Collect
    <2>1. clean' \in [stage : CleanStages, confirmed : SUBSET IndexThreads, plan : {clean'.plan},
                      candidates : SUBSET IndexThreads]
          /\ clean'.stage = "planning" /\ clean'.confirmed = clean.confirmed
      BY <1>7 DEF Collect, CleanTypeOK, CleanStages
    <2> QED
      BY <1>7, <2>1 DEF Collect, CleanTypeOK, PlanIsTheFile
  <1>8. CASE PlanIt
    <2>1. CASE clean' = [clean EXCEPT !.stage = "planned", !.plan = sessionIndex]
      <3>1. clean' \in [stage : CleanStages, confirmed : SUBSET IndexThreads, plan : {clean'.plan},
                        candidates : SUBSET IndexThreads]
            /\ clean'.stage = "planned" /\ clean'.confirmed = clean.confirmed
        BY <2>1 DEF CleanTypeOK, CleanStages
      <3> QED
        BY <1>8, <3>1 DEF PlanIt, CleanTypeOK, PlanIsTheFile
    <2>2. CASE Stop
      BY <1>8, <2>2, StopTyped DEF PlanIt, CleanTypeOK, PlanIsTheFile
    <2> QED
      BY <1>8, <2>1, <2>2, Zenon DEF PlanIt
  <1>9. CASE BackUp
    <2>1. CASE indexBackup' = clean.plan /\ Stage("backedUp")
      <3>1. "backedUp" \in CleanStages
        BY DEF CleanStages
      <3> QED
        BY <1>9, <2>1, <3>1, StageTyped DEF BackUp, CleanTypeOK, PlanIsTheFile
    <2>2. CASE Stop
      BY <1>9, <2>2, StopTyped DEF BackUp, CleanTypeOK, PlanIsTheFile
    <2> QED
      BY <1>9, <2>1, <2>2, Zenon DEF BackUp
  \* From the last look on the plan is the file, unless the application runs.
  <1>10. CASE Compare
    <2>1. CASE sessionIndex = clean.plan /\ Stage("compared")
      <3>1. "compared" \in CleanStages
        BY DEF CleanStages
      <3> QED
        BY <1>10, <2>1, <3>1, StageTyped DEF Compare, CleanTypeOK, PlanIsTheFile
    <2>2. CASE Stop
      BY <1>10, <2>2, StopTyped DEF Compare, CleanTypeOK, PlanIsTheFile
    <2> QED
      BY <1>10, <2>1, <2>2, Zenon DEF Compare
  <1>11. CASE WritersStopped
    <2>1. CASE Stage("clear")
      <3>1. "clear" \in CleanStages
        BY DEF CleanStages
      <3> QED
        BY <1>11, <2>1, <3>1, StageTyped DEF WritersStopped, CleanTypeOK, PlanIsTheFile
    <2>2. CASE Stop
      BY <1>11, <2>2, StopTyped DEF WritersStopped, CleanTypeOK, PlanIsTheFile
    <2> QED
      BY <1>11, <2>1, <2>2, Zenon DEF WritersStopped
  <1>12. CASE Write
    BY <1>12, StopTyped DEF Write, CleanTypeOK, PlanIsTheFile
  <1>13. CASE UNCHANGED indexVars
    BY <1>13 DEF indexVars, CleanTypeOK, PlanIsTheFile
  <1> QED
    BY <1>1, <1>2, <1>3, <1>4, <1>5, <1>6, <1>7, <1>8, <1>9, <1>10, <1>11, <1>12, <1>13
    DEF IndexNext

\* A line leaves the index only when it is of a thread that was shown and
\* confirmed, and the index lies in the backup then.
THEOREM LinesLeaveConfirmed == IndexSpec => OnlyConfirmedLeave
  <1> DEFINE CleanChange == (sessionIndex' # sessionIndex /\ clean.stage = "clear" /\ ~intruded) =>
                          /\ sessionIndex' = Filter(sessionIndex, clean.confirmed)
                          /\ clean.confirmed \subseteq shown.candidates
                          /\ indexBackup = sessionIndex
  <1>1. IndexIInv /\ [IndexNext]_indexVars => [CleanChange]_indexVars
    <2> SUFFICES ASSUME IndexIInv, IndexNext, sessionIndex' # sessionIndex, clean.stage = "clear",
                        ~intruded
                 PROVE  /\ sessionIndex' = Filter(sessionIndex, clean.confirmed)
                        /\ clean.confirmed \subseteq shown.candidates
                        /\ indexBackup = sessionIndex
      OBVIOUS
    <2>1. sessionIndex = clean.plan /\ ~appRuns /\ clean.confirmed \subseteq shown.candidates
          /\ indexBackup = clean.plan
      BY DEF IndexIInv, PlanIsTheFile
    <2>2. sessionIndex' = Filter(clean.plan, clean.confirmed)
      BY <2>1 DEF IndexNext, AppBegins, EndApp, Preview, Guard, Collect, PlanIt, BackUp, Compare,
                  WritersStopped, Write, AppAppends, SessionChanges, Apply
    <2> QED
      BY <2>1, <2>2
  <1> QED
    BY IndexStart, IndexStep, <1>1, PTL DEF IndexSpec, OnlyConfirmedLeave

------------------------------------------------------------------------------
\* The list of sessions.

\* Rows of any table.
SessionRows == [id : Nat, at : Nat]

\* Rows are in a strict total order.
LEMMA RowsAreOrdered ==
  ASSUME NEW p \in SessionRows, NEW q \in SessionRows, NEW r \in SessionRows
  PROVE  /\ ~Newer(p, p)
         /\ Newer(p, q) /\ Newer(q, r) => Newer(p, r)
         /\ p # q => Newer(p, q) \/ Newer(q, p)
  <1>1. p.id \in Nat /\ p.at \in Nat /\ q.id \in Nat /\ q.at \in Nat /\ r.id \in Nat /\ r.at \in Nat
    BY DEF SessionRows
  <1>2. p # q => p.id # q.id \/ p.at # q.at
    BY DEF SessionRows
  <1> QED
    BY <1>1, <1>2 DEF Newer

\* The places of n rows in their order are 0, .., n - 1, each once.
LEMMA RowRanks ==
  ASSUME NEW S \in SUBSET SessionRows, IsFiniteSet(S)
  PROVE  /\ Cardinality(S) \in Nat
         /\ \A r \in S : Before(r, S) \in 0 .. Cardinality(S) - 1
         /\ \A q, r \in S : Newer(q, r) => Before(q, S) < Before(r, S)
         /\ \A q, r \in S : Before(q, S) = Before(r, S) => q = r
         /\ \A k \in 0 .. Cardinality(S) - 1 : \E r \in S : Before(r, S) = k
  <1> DEFINE n == Cardinality(S)
             Ahead(r) == {q \in S : Newer(q, r)}
  <1>1. n \in Nat
    BY FS_CardinalityType
  <1>2. \A r \in S : IsFiniteSet(Ahead(r)) /\ Cardinality(Ahead(r)) \in Nat
    <2> SUFFICES ASSUME NEW r \in S PROVE IsFiniteSet(Ahead(r)) /\ Cardinality(Ahead(r)) \in Nat
      OBVIOUS
    <2>1. Ahead(r) \in SUBSET S
      OBVIOUS
    <2> HIDE DEF Ahead
    <2> QED
      BY <2>1, FS_Subset, FS_CardinalityType
  <1>3. ASSUME NEW r \in S PROVE Cardinality(Ahead(r)) <= n - 1
    <2>1. IsFiniteSet(S \ {r}) /\ Cardinality(S \ {r}) = n - 1
      BY FS_RemoveElement
    <2>2. Ahead(r) \in SUBSET (S \ {r})
      BY RowsAreOrdered
    <2> HIDE DEF Ahead, n
    <2> QED
      BY <2>1, <2>2, FS_Subset
  <1>4. ASSUME NEW q \in S, NEW r \in S, Newer(q, r)
        PROVE  Cardinality(Ahead(q)) < Cardinality(Ahead(r))
    <2>1. q \notin Ahead(q) /\ Ahead(q) \cup {q} \in SUBSET Ahead(r)
      BY <1>4, RowsAreOrdered
    <2>2. IsFiniteSet(Ahead(q)) /\ Cardinality(Ahead(q)) \in Nat
          /\ IsFiniteSet(Ahead(r)) /\ Cardinality(Ahead(r)) \in Nat
      BY <1>2
    <2> HIDE DEF Ahead
    <2>3. Cardinality(Ahead(q) \cup {q}) = Cardinality(Ahead(q)) + 1
      BY <2>1, <2>2, FS_AddElement
    <2>4. Cardinality(Ahead(q) \cup {q}) <= Cardinality(Ahead(r))
      BY <2>1, <2>2, FS_Subset
    <2> QED
      BY <2>2, <2>3, <2>4
  <1>5. \A r : Before(r, S) = Cardinality(Ahead(r))
    BY DEF Before
  <1>6. \A r \in S : Before(r, S) \in 0 .. n - 1
    <2> HIDE DEF Ahead, n
    <2> QED
      BY <1>1, <1>2, <1>3, <1>5
  <1>7. \A q, r \in S : Newer(q, r) => Before(q, S) < Before(r, S)
    <2> HIDE DEF Ahead
    <2> QED
      BY <1>4, <1>5
  <1>8. \A q, r \in S : Before(q, S) = Before(r, S) => q = r
    <2> SUFFICES ASSUME NEW q \in S, NEW r \in S, q # r PROVE Before(q, S) # Before(r, S)
      OBVIOUS
    <2>1. Newer(q, r) \/ Newer(r, q)
      BY RowsAreOrdered
    <2>2. Before(q, S) \in 0 .. n - 1 /\ Before(r, S) \in 0 .. n - 1
      BY <1>6
    <2> HIDE DEF n
    <2> QED
      BY <1>1, <1>7, <2>1, <2>2
  <1>9. \A k \in 0 .. n - 1 : \E r \in S : Before(r, S) = k
    <2> DEFINE f == [r \in S |-> Before(r, S)]
               T == 0 .. n - 1
    <2>1. f \in [S -> T] /\ \A q, r \in S : f[q] = f[r] => q = r
      BY <1>6, <1>8
    <2>2. IsFiniteSet(T) /\ Cardinality(T) = n
      <3>1. 0 \in Int /\ n - 1 \in Int
        BY <1>1
      <3>2. IsFiniteSet(T) /\ Cardinality(T) = IF 0 > n - 1 THEN 0 ELSE (n - 1) - 0 + 1
        BY <3>1, FS_Interval
      <3> HIDE DEF n, T
      <3> QED
        BY <1>1, <3>2
    <2>3. f \in Surjection(S, T)
      <3> HIDE DEF f, T
      <3>1. f \in Injection(S, T)
        BY <2>1 DEF Injection, IsInjective
      <3> QED
        BY <2>2, <3>1, FS_Injection DEF n
    <2>4. \A k \in T : \E r \in S : f[r] = k
      <3> HIDE DEF f, T
      <3> QED
        BY <2>3 DEF Surjection
    <2> HIDE DEF n
    <2> QED
      BY <2>4
  <1> QED
    BY <1>1, <1>6, <1>7, <1>8, <1>9

\* An ordered list has every row at its place.
LEMMA OrderedRows ==
  ASSUME NEW S \in SUBSET SessionRows, IsFiniteSet(S)
  PROVE  LET n == Cardinality(S) IN
         /\ n \in Nat /\ Ordered(S) \in [1 .. n -> S] /\ Len(Ordered(S)) = n
         /\ \A k \in 1 .. n : Before(Ordered(S)[k], S) = k - 1
         /\ \A r \in S : Before(r, S) + 1 \in 1 .. n /\ Ordered(S)[Before(r, S) + 1] = r
  <1> DEFINE n == Cardinality(S)
             list == Ordered(S)
  <1>1. /\ n \in Nat
        /\ \A r \in S : Before(r, S) \in 0 .. n - 1
        /\ \A q, r \in S : Before(q, S) = Before(r, S) => q = r
        /\ \A k \in 0 .. n - 1 : \E r \in S : Before(r, S) = k
    BY RowRanks
  <1>2. list = [k \in 1 .. n |-> CHOOSE r \in S : Before(r, S) = k - 1]
    BY DEF Ordered
  <1> HIDE DEF n, list
  <1>3. ASSUME NEW k \in 1 .. n PROVE list[k] \in S /\ Before(list[k], S) = k - 1
    <2>1. k - 1 \in 0 .. n - 1
      BY <1>1
    <2>2. \E r \in S : Before(r, S) = k - 1
      BY <1>1, <2>1
    <2>3. list[k] = CHOOSE r \in S : Before(r, S) = k - 1
      BY <1>2
    <2> QED
      BY <2>2, <2>3
  <1>4. list \in [1 .. n -> S]
    BY <1>2, <1>3
  <1>5. Len(list) = n
    BY <1>1, <1>4
  <1>6. ASSUME NEW r \in S PROVE Before(r, S) + 1 \in 1 .. n /\ list[Before(r, S) + 1] = r
    <2> DEFINE k == Before(r, S) + 1
    <2>1. k \in 1 .. n /\ k - 1 = Before(r, S)
      BY <1>1
    <2>2. list[k] \in S /\ Before(list[k], S) = Before(r, S)
      BY <1>3, <2>1
    <2> HIDE DEF k
    <2>3. list[k] = r
      BY <1>1, <2>2
    <2> QED
      BY <2>1, <2>3 DEF k
  <1> QED
    BY <1>1, <1>3, <1>4, <1>5, <1>6 DEF n, list

\* Of a finite number of rows one is the newest.
LEMMA NewestOfAll ==
  ASSUME NEW S \in SUBSET SessionRows, IsFiniteSet(S), S # {}
  PROVE  \E r \in S : \A q \in S : ~Newer(q, r)
  <1>1. Cardinality(S) \in Nat \ {0}
    BY FS_CardinalityType, FS_EmptySet
  <1>2. PICK r \in S : Before(r, S) = 0
    <2>1. 0 \in 0 .. Cardinality(S) - 1
      BY <1>1
    <2> QED
      BY <2>1, RowRanks
  <1> DEFINE A == {q \in S : Newer(q, r)}
  <1>3. IsFiniteSet(A) /\ Cardinality(A) = 0
    <2>1. A \in SUBSET S /\ Cardinality(A) = 0
      BY <1>2 DEF Before
    <2> HIDE DEF A
    <2> QED
      BY <2>1, FS_Subset
  <1>4. A = {}
    <2> HIDE DEF A
    <2> QED
      BY <1>3, FS_EmptySet
  <1> QED
    BY <1>4

\* Without duplicates there is for each row one of its session, the same or a
\* newer one, and only one for a session.
LEMMA OneOfEach ==
  ASSUME NEW S \in SUBSET SessionRows, IsFiniteSet(S)
  PROVE  /\ Deduplicated(S) \in SUBSET S /\ IsFiniteSet(Deduplicated(S))
         /\ \A q \in S : \E d \in Deduplicated(S) : d.id = q.id /\ (d = q \/ Newer(d, q))
         /\ \A d, e \in Deduplicated(S) : d.id = e.id => d = e
  <1>1. Deduplicated(S) \in SUBSET S
    BY DEF Deduplicated
  <1>2. IsFiniteSet(Deduplicated(S))
    BY <1>1, FS_Subset
  <1>3. ASSUME NEW q \in S
        PROVE  \E d \in Deduplicated(S) : d.id = q.id /\ (d = q \/ Newer(d, q))
    <2> DEFINE X == {r \in S : r.id = q.id}
    <2>1. X \in SUBSET S /\ X \in SUBSET SessionRows /\ q \in X
      OBVIOUS
    <2>2. PICK d \in X : \A r \in X : ~Newer(r, d)
      <3> HIDE DEF X
      <3>1. IsFiniteSet(X)
        BY <2>1, FS_Subset
      <3> QED
        BY <2>1, <3>1, NewestOfAll
    <2>3. d \in Deduplicated(S) /\ d.id = q.id
      BY <2>2 DEF Deduplicated
    <2>4. d = q \/ Newer(d, q)
      BY <2>1, <2>2, RowsAreOrdered
    <2> QED
      BY <2>3, <2>4
  <1>4. ASSUME NEW d \in Deduplicated(S), NEW e \in Deduplicated(S), d.id = e.id
        PROVE  d = e
    <2>1. ~Newer(d, e) /\ ~Newer(e, d)
      BY <1>1, <1>4 DEF Deduplicated
    <2> QED
      BY <1>1, <2>1, RowsAreOrdered
  <1> QED
    BY <1>1, <1>2, <1>3, <1>4

\* One set has no more elements than another with an element for each session
\* of it, if it has only one of each.
LEMMA FewerSessions ==
  ASSUME NEW A, NEW B, IsFiniteSet(B), \A p, q \in A : p.id = q.id => p = q,
         \A p \in A : \E q \in B : q.id = p.id
  PROVE  IsFiniteSet(A) /\ Cardinality(A) <= Cardinality(B)
  <1> DEFINE Of(p) == CHOOSE q \in B : q.id = p.id
             f == [p \in A |-> Of(p)]
  <1>1. \A p \in A : Of(p) \in B /\ Of(p).id = p.id
    OBVIOUS
  <1> HIDE DEF Of
  <1>2. f \in [A -> B] /\ \A p, q \in A : f[p] = f[q] => p = q
    <2>1. \A p, q \in A : Of(p) = Of(q) => p = q
      BY <1>1
    <2> QED
      BY <1>1, <2>1
  <1> HIDE DEF f
  <1>3. f \in Injection(A, B)
    BY <1>2 DEF Injection, IsInjective
  <1> QED
    BY <1>3, FS_Injection

\* The rows of a table are finitely many, and so are the sessions of all tables.
LEMMA RowsAreRows ==
  ASSUME rowsOf \in [Tables -> Contents], NEW t \in Tables
  PROVE  rowsOf[t] \in SUBSET TableRow /\ IsFiniteSet(rowsOf[t])
  BY ListAssumption

LEMMA SessionIsRow ==
  ASSUME NEW r \in TableRow
  PROVE  /\ Session(r) \in SessionRows /\ Session(r).id = r.id
         /\ r.column \in Nat /\ r.id \in Nat /\ r.number \in Nat /\ r.other \in Nat
         /\ Row(r.id, r.column) \in SessionRows /\ Session(r) = Row(r.id, UpdatedAt(r))
         /\ UpdatedAt(r) \in Nat
  <1>1. r.column \in Nat /\ r.id \in Nat /\ r.number \in Nat /\ r.other \in Nat /\ MsFrom \in Nat
    BY ListAssumption DEF TableRow
  <1>2. UpdatedAt(r) \in Nat
    BY <1>1 DEF UpdatedAt, timestampValueToMs
  <1> QED
    BY <1>1, <1>2 DEF Session, Row, SessionRows

AllRows == UNION {TableRows(table) : table \in Tables}

LEMMA AllRowsFinite ==
  ASSUME rowsOf \in [Tables -> Contents]
  PROVE  /\ AllRows \in SUBSET SessionRows /\ IsFiniteSet(AllRows)
         /\ \A t \in Tables : TableRows(t) \in SUBSET AllRows /\ IsFiniteSet(TableRows(t))
  <1>1. \A t \in Tables : TableRows(t) \in SUBSET SessionRows
    BY RowsAreRows, SessionIsRow DEF TableRows
  <1>2. ASSUME NEW t \in Tables PROVE IsFiniteSet(TableRows(t))
    <2> DEFINE f == [r \in rowsOf[t] |-> Session(r)]
    <2>1. f \in Surjection(rowsOf[t], TableRows(t))
      BY DEF Surjection, TableRows
    <2> HIDE DEF f
    <2> QED
      BY <2>1, RowsAreRows, FS_Surjection
  <1>3. IsFiniteSet({TableRows(t) : t \in Tables})
    <2> DEFINE f == [t \in Tables |-> TableRows(t)]
               T == {TableRows(t) : t \in Tables}
    <2>1. f \in Surjection(Tables, T)
      BY DEF Surjection
    <2> HIDE DEF f, T
    <2> QED
      BY <2>1, ListAssumption, FS_Surjection DEF T
  <1>4. IsFiniteSet(AllRows)
    <2> DEFINE T == {TableRows(t) : t \in Tables}
    <2>1. \A x \in T : IsFiniteSet(x)
      BY <1>2
    <2> HIDE DEF T
    <2>2. IsFiniteSet(UNION T)
      BY <1>3, <2>1, FS_UNION DEF T
    <2> QED
      BY <2>2 DEF T, AllRows
  <1> QED
    BY <1>1, <1>2, <1>4 DEF AllRows

RowsAbove(r, rows) == {q \in rows : Above(q, r)}
StandFor(K, rows) == {K[q] : q \in rows}

\* Counting the rows above one of a table is counting in any set they stand for
\* one by one and in the same order.
LEMMA AboveIsBefore ==
  ASSUME NEW rows, IsFiniteSet(rows), NEW K, \A q, r \in rows : K[q] = K[r] => q = r,
         \A q, r \in rows : Above(q, r) <=> Newer(K[q], K[r]), NEW r \in rows
  PROVE  Cardinality(RowsAbove(r, rows)) = Before(K[r], StandFor(K, rows))
  <1> DEFINE A == {q \in rows : Above(q, r)}
             B == {p \in {K[q] : q \in rows} : Newer(p, K[r])}
             f == [q \in A |-> K[q]]
  <1>1. A \in SUBSET rows
    OBVIOUS
  <1>2. \A q \in A : K[q] \in B
    OBVIOUS
  <1>3. \A p \in B : \E q \in A : K[q] = p
    OBVIOUS
  <1> HIDE DEF A, B
  <1>4. f \in [A -> B] /\ (\A p, q \in A : f[p] = f[q] => p = q) /\ \A p \in B : \E q \in A : f[q] = p
    BY <1>1, <1>2, <1>3
  <1> HIDE DEF f
  <1>5. f \in Surjection(A, B) /\ f \in Injection(A, B)
    BY <1>4 DEF Surjection, Injection, IsInjective
  <1>6. IsFiniteSet(A)
    BY <1>1, FS_Subset
  <1>7. Cardinality(B) = Cardinality(A)
    BY <1>5, <1>6, FS_Surjection
  <1> QED
    BY <1>7 DEF A, B, Before, RowsAbove, StandFor

\* Where the times of a table are in one column and unit, and no session has two
\* rows, the database orders its rows like their sessions.
LEMMA SameOrder ==
  ASSUME NEW rows \in SUBSET TableRow, OneRowEach(rows), InOneUnit(rows)
  PROVE  \A q, r \in rows : Above(q, r) <=> Newer(Session(q), Session(r))
  <1> SUFFICES ASSUME NEW q \in rows, NEW r \in rows
               PROVE  Above(q, r) <=> Newer(Session(q), Session(r))
    OBVIOUS
  <1>1. /\ q.column \in Nat /\ r.column \in Nat /\ q.id \in Nat /\ r.id \in Nat
        /\ q.number \in Nat /\ r.number \in Nat /\ MsFrom \in Nat
    BY SessionIsRow, ListAssumption
  <1>2. q.column # 0 /\ r.column # 0 /\ (q.column < MsFrom <=> r.column < MsFrom)
    <2>1. q.column # 0 /\ r.column # 0
      BY DEF InOneUnit
    <2>2. CASE \A p \in rows : p.column < MsFrom
      BY <2>1, <2>2
    <2>3. CASE \A p \in rows : p.column >= MsFrom
      BY <1>1, <2>1, <2>3
    <2> QED
      BY <2>2, <2>3 DEF InOneUnit
  <1>3. /\ UpdatedAt(q) > UpdatedAt(r) <=> q.column > r.column
        /\ UpdatedAt(q) = UpdatedAt(r) <=> q.column = r.column
    BY <1>1, <1>2 DEF UpdatedAt, timestampValueToMs
  <1>4. q.id = r.id => q = r
    BY DEF OneRowEach
  <1>5. Newer(Session(q), Session(r))
          <=> UpdatedAt(q) > UpdatedAt(r) \/ (UpdatedAt(q) = UpdatedAt(r) /\ q.id > r.id)
    BY DEF Newer, Session, Row
  <1>6. Above(q, r) <=> q.column > r.column \/ (q.column = r.column /\ q.id > r.id)
    BY <1>1, <1>4 DEF Above
  <1> QED
    BY <1>3, <1>5, <1>6

\* So its first rows are those of its first sessions.
LEMMA FirstSessions ==
  ASSUME rowsOf \in [Tables -> Contents], NEW t \in Tables, OneRowEach(rowsOf[t]),
         InOneUnit(rowsOf[t]), NEW n \in Nat
  PROVE  {Session(r) : r \in First(n, rowsOf[t])}
            = {s \in TableRows(t) : Before(s, TableRows(t)) < n}
  <1> DEFINE rows == rowsOf[t]
             K == [r \in rows |-> Session(r)]
  <1>1. rows \in SUBSET TableRow /\ IsFiniteSet(rows)
    BY RowsAreRows
  <1>2. \A q, r \in rows : K[q] = K[r] => q = r
    <2>1. \A q, r \in rows : Session(q) = Session(r) => q.id = r.id
      BY <1>1, SessionIsRow
    <2> QED
      BY <2>1 DEF OneRowEach
  <1>3. \A q, r \in rows : Above(q, r) <=> Newer(K[q], K[r])
    BY <1>1, SameOrder
  <1>4. StandFor(K, rows) = TableRows(t)
    BY DEF TableRows, StandFor
  <1>5. ASSUME NEW r \in rows
        PROVE  Cardinality(RowsAbove(r, rows)) = Before(Session(r), TableRows(t))
    <2>1. K[r] = Session(r)
      OBVIOUS
    <2> HIDE DEF K, rows
    <2>2. Cardinality(RowsAbove(r, rows)) = Before(K[r], StandFor(K, rows))
      BY <1>1, <1>2, <1>3, AboveIsBefore
    <2> QED
      BY <1>4, <2>1, <2>2
  <1> QED
    BY <1>5 DEF First, TableRows, RowsAbove

\* Of a table with more than n rows the first n + 1 are fetched, of another all,
\* in whatever order, if no session has two.
LEMMA EnoughRows ==
  ASSUME NEW rows \in SUBSET TableRow, IsFiniteSet(rows), OneRowEach(rows), NEW n \in Nat
  PROVE  /\ IsFiniteSet(First(n, rows)) /\ First(n, rows) \in SUBSET rows
         /\ Cardinality(rows) <= n => First(n, rows) = rows
         /\ Cardinality(rows) > n => Cardinality(First(n, rows)) = n
  <1> DEFINE K == [r \in rows |-> Row(r.id, r.column)]
             S == StandFor(K, rows)
             F == First(n, rows)
             place == [r \in F |-> Before(K[r], S)]
  <1>1. \A q, r \in rows : K[q] = K[r] => q = r
    BY DEF Row, OneRowEach
  <1>2. \A q, r \in rows : Above(q, r) <=> Newer(K[q], K[r])
    <2> SUFFICES ASSUME NEW q \in rows, NEW r \in rows PROVE Above(q, r) <=> Newer(K[q], K[r])
      OBVIOUS
    <2>1. q.id \in Nat /\ r.id \in Nat /\ q.number \in Nat /\ r.number \in Nat /\ (q.id = r.id => q = r)
      BY SessionIsRow DEF OneRowEach
    <2> QED
      BY <2>1 DEF Newer, Row, Above
  <1>3. S \in SUBSET SessionRows
    BY SessionIsRow DEF StandFor
  <1>4. IsFiniteSet(S) /\ Cardinality(S) = Cardinality(rows) /\ Cardinality(rows) \in Nat
    <2>1. K \in Surjection(rows, S)
      BY DEF Surjection, StandFor
    <2>2. K \in Injection(rows, S)
      <3>1. K \in [rows -> S]
        BY DEF StandFor
      <3> HIDE DEF K, S
      <3> QED
        BY <1>1, <3>1 DEF Injection, IsInjective
    <2> HIDE DEF K, S
    <2> QED
      BY <2>1, <2>2, FS_Surjection, FS_CardinalityType
  <1>5. ASSUME NEW r \in rows PROVE Cardinality(RowsAbove(r, rows)) = Before(K[r], S)
    <2> HIDE DEF K
    <2> QED
      BY <1>1, <1>2, AboveIsBefore
  <1>6. \A r \in rows : K[r] \in S
    BY DEF StandFor
  <1>7. /\ \A s \in S : Before(s, S) \in 0 .. Cardinality(rows) - 1
        /\ \A p, q \in S : Before(p, S) = Before(q, S) => p = q
        /\ \A k \in 0 .. Cardinality(rows) - 1 : \E s \in S : Before(s, S) = k
    <2> HIDE DEF S
    <2> QED
      BY <1>3, <1>4, RowRanks
  <1>8. F = {r \in rows : Before(K[r], S) < n}
    <2> HIDE DEF K, S
    <2> QED
      BY <1>5 DEF First, RowsAbove, F
  <1>9. IsFiniteSet(F) /\ F \in SUBSET rows
    <2>1. F \in SUBSET rows
      BY DEF First
    <2> HIDE DEF F
    <2> QED
      BY <2>1, FS_Subset
  <1>10. CASE Cardinality(rows) <= n
    <2> HIDE DEF K, S, F
    <2>1. \A r \in rows : Before(K[r], S) < n
      BY <1>4, <1>6, <1>7, <1>10
    <2>2. ~(Cardinality(rows) > n)
      BY <1>4, <1>10
    <2> QED
      BY <1>8, <1>9, <2>1, <2>2 DEF F
  <1>11. CASE Cardinality(rows) > n
    <2> DEFINE T == 0 .. n - 1
    <2>1. \A r \in F : place[r] \in T
      <3> HIDE DEF K, S, F
      <3> QED
        BY <1>6, <1>7, <1>8, <1>11
    <2>2. \A q, r \in F : place[q] = place[r] => q = r
      <3> HIDE DEF K, S, F
      <3> QED
        BY <1>1, <1>6, <1>7, <1>9
    <2>3. \A k \in T : \E r \in F : place[r] = k
      <3> SUFFICES ASSUME NEW k \in T PROVE \E r \in F : place[r] = k
        OBVIOUS
      <3>1. k \in 0 .. Cardinality(rows) - 1 /\ k < n
        BY <1>4, <1>11
      <3>2. PICK r \in rows : Before(K[r], S) = k
        <4>1. PICK s \in S : Before(s, S) = k
          BY <1>7, <3>1
        <4>2. PICK r \in rows : K[r] = s
          BY DEF StandFor
        <4> QED
          BY <4>1, <4>2
      <3> HIDE DEF K, S, F
      <3> QED
        BY <1>8, <3>1, <3>2
    <2>4. place \in [F -> T]
      BY <2>1
    <2>5. IsFiniteSet(T) /\ Cardinality(T) = n
      <3>1. IsFiniteSet(T) /\ Cardinality(T) = IF 0 > n - 1 THEN 0 ELSE (n - 1) - 0 + 1
        BY FS_Interval
      <3> HIDE DEF T
      <3> QED
        BY <3>1
    <2> HIDE DEF K, S, F, place, T
    <2>6. place \in Surjection(F, T) /\ place \in Injection(F, T)
      BY <2>2, <2>3, <2>4 DEF Surjection, Injection, IsInjective
    <2>7. Cardinality(F) = n
      BY <1>9, <2>5, <2>6, FS_Surjection
    <2>8. ~(Cardinality(rows) <= n)
      BY <1>4, <1>11
    <2> QED
      BY <1>9, <2>7, <2>8 DEF F
  <1>12. Cardinality(rows) <= n \/ Cardinality(rows) > n
    BY <1>4
  <1> QED
    BY <1>10, <1>11, <1>12

\* A row the list has at place k is among the first k of its table: before it
\* there are no more rows in the table than sessions in the list.
LEMMA NoFurtherDown ==
  ASSUME rowsOf \in [Tables -> Contents],
         NEW t \in Tables, OneRowEach(rowsOf[t]), NEW r \in TableRows(t)
  PROVE  Before(r, TableRows(t)) <= Before(r, Deduplicated(AllRows))
  <1> DEFINE D == Deduplicated(AllRows)
             A == {q \in TableRows(t) : Newer(q, r)}
             B == {q \in D : Newer(q, r)}
             NewestRow(q) == CHOOSE d \in D : d.id = q.id /\ (d = q \/ Newer(d, q))
             f == [q \in A |-> NewestRow(q)]
  <1>1. AllRows \in SUBSET SessionRows /\ IsFiniteSet(AllRows)
        /\ TableRows(t) \in SUBSET AllRows /\ IsFiniteSet(TableRows(t))
    BY AllRowsFinite
  <1>2. /\ D \in SUBSET AllRows /\ IsFiniteSet(D)
        /\ \A q \in AllRows : \E d \in D : d.id = q.id /\ (d = q \/ Newer(d, q))
    BY <1>1, OneOfEach
  <1>3. \A q \in A : NewestRow(q) \in D /\ NewestRow(q).id = q.id /\ (NewestRow(q) = q \/ Newer(NewestRow(q), q))
    <2> HIDE DEF D
    <2> QED
      BY <1>1, <1>2
  <1>4. Before(r, TableRows(t)) = Cardinality(A) /\ Before(r, D) = Cardinality(B)
    BY DEF Before
  <1>5. A \in SUBSET TableRows(t) /\ B \in SUBSET D
    OBVIOUS
  <1>6. \A q \in A : NewestRow(q) \in B
    <2> HIDE DEF NewestRow, D
    <2> SUFFICES ASSUME NEW q \in A PROVE Newer(NewestRow(q), r)
      BY <1>3
    <2>1. q \in SessionRows /\ r \in SessionRows /\ NewestRow(q) \in SessionRows /\ Newer(q, r)
      BY <1>1, <1>2, <1>3
    <2> QED
      BY <1>3, <2>1, RowsAreOrdered
  <1>7. \A p, q \in A : f[p] = f[q] => p = q
    <2> HIDE DEF NewestRow
    <2> SUFFICES ASSUME NEW p \in A, NEW q \in A, f[p] = f[q] PROVE p = q
      OBVIOUS
    <2>1. p.id = q.id
      BY <1>3
    <2>2. \A x, y \in TableRows(t) : x.id = y.id => x = y
      BY RowsAreRows, SessionIsRow DEF TableRows, OneRowEach
    <2> QED
      BY <2>1, <2>2
  <1>8. f \in [A -> B]
    <2> HIDE DEF NewestRow, A, B
    <2> QED
      BY <1>6
  <1> HIDE DEF A, B, f, D
  <1>9. f \in Injection(A, B)
    BY <1>7, <1>8 DEF Injection, IsInjective
  <1>10. IsFiniteSet(B)
    BY <1>2, <1>5, FS_Subset
  <1> QED
    BY <1>4, <1>9, <1>10, FS_Injection DEF D

\* The rows a page is made of.
PageRows(offset, limit) == UNION {Fetched(table, offset, limit) : table \in Tables}

LEMMA MergedRows ==
  ASSUME rowsOf \in [Tables -> Contents], NEW offset \in Nat, NEW limit \in Nat
  PROVE  PageRows(offset, limit) \in SUBSET AllRows /\ IsFiniteSet(PageRows(offset, limit))
  <1>1. \A t \in Tables : Fetched(t, offset, limit) \subseteq TableRows(t)
    BY DEF Fetched, First, TableRows
  <1>2. PageRows(offset, limit) \in SUBSET AllRows
    BY <1>1 DEF PageRows, AllRows
  <1> QED
    BY <1>2, AllRowsFinite, FS_Subset

TablesInOrder == \A table \in Tables : OneRowEach(rowsOf[table]) /\ InOneUnit(rowsOf[table])

\* In orderly tables they are the first sessions of every table.
LEMMA FirstAreMerged ==
  ASSUME rowsOf \in [Tables -> Contents], TablesInOrder, NEW offset \in Nat, NEW limit \in Nat,
         NEW t \in Tables, NEW r \in TableRows(t), Before(r, TableRows(t)) <= offset + limit
  PROVE  r \in PageRows(offset, limit)
  <1>1. Before(r, TableRows(t)) < offset + limit + 1
    <2>1. TableRows(t) \in SUBSET SessionRows /\ IsFiniteSet(TableRows(t))
      BY AllRowsFinite
    <2>2. Before(r, TableRows(t)) \in 0 .. Cardinality(TableRows(t)) - 1
      BY <2>1, RowRanks
    <2> QED
      BY <2>2
  <1>2. offset + limit + 1 \in Nat
    OBVIOUS
  <1>3. Fetched(t, offset, limit) = {s \in TableRows(t) : Before(s, TableRows(t)) < offset + limit + 1}
    BY <1>2, FirstSessions DEF Fetched, TablesInOrder
  <1> QED
    BY <1>1, <1>3 DEF PageRows

\* The list made of the first rows of every table begins like the list of all,
\* as far as the page and one row more, and goes as far if that does.
LEMMA ListsAgree ==
  ASSUME rowsOf \in [Tables -> Contents], TablesInOrder,
         NEW offset \in Nat, NEW limit \in Nat
  PROVE  LET part  == Deduplicated(PageRows(offset, limit))
             whole == Deduplicated(AllRows)
         IN /\ part \in SUBSET SessionRows /\ IsFiniteSet(part)
            /\ whole \in SUBSET SessionRows /\ IsFiniteSet(whole)
            /\ Cardinality(part) > offset + limit <=> Cardinality(whole) > offset + limit
            /\ ~(Cardinality(whole) > offset + limit) => part = whole
            /\ \A k \in 1 .. Cardinality(whole) : k <= offset + limit + 1 =>
                  k \in 1 .. Cardinality(part) /\ Ordered(part)[k] = Ordered(whole)[k]
  <1> DEFINE M == PageRows(offset, limit)
             P == Deduplicated(M)
             W == Deduplicated(AllRows)
             to == offset + limit
  <1>1. AllRows \in SUBSET SessionRows /\ IsFiniteSet(AllRows)
    BY AllRowsFinite
  <1>2. M \in SUBSET AllRows /\ M \in SUBSET SessionRows /\ IsFiniteSet(M)
    <2>1. M \in SUBSET AllRows
      BY MergedRows
    <2> HIDE DEF M
    <2> QED
      BY <1>1, <2>1, FS_Subset
  <1>3. /\ W \in SUBSET AllRows /\ W \in SUBSET SessionRows /\ IsFiniteSet(W)
        /\ \A q \in AllRows : \E d \in W : d.id = q.id /\ (d = q \/ Newer(d, q))
        /\ \A d, e \in W : d.id = e.id => d = e
    BY <1>1, OneOfEach
  <1>4. /\ P \in SUBSET M /\ P \in SUBSET SessionRows /\ IsFiniteSet(P)
        /\ \A d, e \in P : d.id = e.id => d = e
    <2> HIDE DEF M
    <2> QED
      BY <1>2, OneOfEach
  <1>5. ASSUME NEW r \in W, Before(r, W) <= to PROVE r \in P
    <2>1. PICK t \in Tables : r \in TableRows(t)
      BY <1>3 DEF AllRows
    <2>2. Before(r, TableRows(t)) <= Before(r, W)
      BY <2>1, NoFurtherDown DEF TablesInOrder
    <2>3. Before(r, TableRows(t)) \in Nat /\ Before(r, W) \in Nat
      <3>1. TableRows(t) \in SUBSET SessionRows /\ IsFiniteSet(TableRows(t))
        BY AllRowsFinite
      <3>2. Before(r, TableRows(t)) \in 0 .. Cardinality(TableRows(t)) - 1
        BY <2>1, <3>1, RowRanks
      <3> HIDE DEF W
      <3>3. Before(r, W) \in 0 .. Cardinality(W) - 1
        BY <1>3, RowRanks
      <3> QED
        BY <3>2, <3>3
    <2>4. r \in M
      <3>1. Before(r, TableRows(t)) <= to
        BY <1>5, <2>2, <2>3
      <3> QED
        BY <2>1, <3>1, FirstAreMerged
    <2> QED
      BY <1>2, <2>4 DEF Deduplicated
  <1>6. ASSUME NEW r \in W, Before(r, W) <= to PROVE Before(r, P) = Before(r, W)
    <2>1. \A q \in W : Newer(q, r) => q \in P
      <3> SUFFICES ASSUME NEW q \in W, Newer(q, r) PROVE q \in P
        OBVIOUS
      <3>1. Before(q, W) < Before(r, W) /\ Before(q, W) \in Int /\ Before(r, W) \in Int
        <4> HIDE DEF W
        <4>1. /\ \A d \in W : Before(d, W) \in 0 .. Cardinality(W) - 1
              /\ \A d, e \in W : Newer(d, e) => Before(d, W) < Before(e, W)
          BY <1>3, RowRanks
        <4> QED
          BY <4>1
      <3>2. Before(q, W) <= to
        BY <1>6, <3>1
      <3> QED
        BY <1>5, <3>2
    <2>2. \A q \in P : Newer(q, r) => q \in W
      <3> SUFFICES ASSUME NEW q \in P, Newer(q, r) PROVE q \in W
        OBVIOUS
      <3>1. q \in AllRows /\ q \in SessionRows /\ r \in SessionRows
        BY <1>2, <1>3, <1>4
      <3>2. PICK d \in W : d.id = q.id /\ (d = q \/ Newer(d, q))
        BY <1>3, <3>1
      <3>3. CASE Newer(d, q)
        <4>1. Newer(d, r)
          BY <1>3, <3>1, <3>3, RowsAreOrdered
        <4>2. d \in P
          BY <2>1, <4>1
        <4>3. d = q
          BY <1>4, <3>2, <4>2
        <4> QED
          BY <4>3
      <3> QED
        BY <3>2, <3>3
    <2>3. {q \in P : Newer(q, r)} = {q \in W : Newer(q, r)}
      BY <2>1, <2>2
    <2> QED
      BY <2>3 DEF Before
  <1> HIDE DEF M, P, W
  <1>7. /\ Cardinality(P) \in Nat /\ Cardinality(W) \in Nat
        /\ \A r \in P : Before(r, P) + 1 \in 1 .. Cardinality(P) /\ Ordered(P)[Before(r, P) + 1] = r
        /\ \A k \in 1 .. Cardinality(W) : Ordered(W)[k] \in W /\ Before(Ordered(W)[k], W) = k - 1
    BY <1>3, <1>4, OrderedRows
  <1>8. ASSUME NEW k \in 1 .. Cardinality(W), k <= to + 1
        PROVE  k \in 1 .. Cardinality(P) /\ Ordered(P)[k] = Ordered(W)[k]
    <2> DEFINE r == Ordered(W)[k]
    <2>1. r \in W /\ Before(r, W) = k - 1 /\ k - 1 <= to
      BY <1>7, <1>8
    <2> HIDE DEF r
    <2>2. r \in P /\ Before(r, P) = k - 1
      BY <1>5, <1>6, <2>1
    <2>3. k \in 1 .. Cardinality(P) /\ Ordered(P)[k] = r
      <3>1. Before(r, P) + 1 = k
        BY <2>2
      <3> QED
        BY <1>7, <2>2, <3>1
    <2> QED
      BY <2>3 DEF r
  <1>9. CASE Cardinality(W) > to
    <2>1. to + 1 \in 1 .. Cardinality(W)
      BY <1>7, <1>9
    <2>2. to + 1 \in 1 .. Cardinality(P)
      BY <1>8, <2>1
    <2>3. Cardinality(P) > to
      BY <1>7, <2>2
    <2> QED
      BY <1>3, <1>4, <1>8, <1>9, <2>3 DEF M, P, W
  <1>10. CASE ~(Cardinality(W) > to)
    <2>1. \A r \in W : Before(r, W) <= to
      <3>1. \A r \in W : Before(r, W) \in 0 .. Cardinality(W) - 1
        BY <1>3, RowRanks
      <3> QED
        BY <1>7, <1>10, <3>1
    <2>2. W \subseteq P
      BY <1>5, <2>1
    <2>3. \A q \in P : q \in W
      <3> SUFFICES ASSUME NEW q \in P PROVE q \in W
        OBVIOUS
      <3>1. PICK d \in W : d.id = q.id
        BY <1>2, <1>3, <1>4
      <3> QED
        BY <1>4, <2>2, <3>1
    <2>4. P = W
      BY <2>2, <2>3
    <2> QED
      BY <1>3, <1>4, <1>8, <1>10, <2>4 DEF M, P, W
  <1> QED
    BY <1>9, <1>10

\* A page of orderly tables is a cut of the list of all rows.
LEMMA PageIsACut ==
  ASSUME rowsOf \in [Tables -> Contents], TablesInOrder,
         NEW offset \in Nat, NEW limit \in Nat
  PROVE  LET whole == Ordered(Deduplicated(AllRows))
             to == offset + limit
             page == Page(offset, limit)
         IN /\ page.sessions = SubSeq(whole, offset + 1, IF to < Len(whole) THEN to ELSE Len(whole))
            /\ page.hasMore = (Len(whole) > to)
  <1> DEFINE P == Deduplicated(PageRows(offset, limit))
             W == Deduplicated(AllRows)
             to == offset + limit
             part == Ordered(P)
             whole == Ordered(W)
             page == Page(offset, limit)
  <1>1. /\ P \in SUBSET SessionRows /\ IsFiniteSet(P) /\ W \in SUBSET SessionRows /\ IsFiniteSet(W)
        /\ Cardinality(P) > to <=> Cardinality(W) > to
        /\ ~(Cardinality(W) > to) => P = W
        /\ \A k \in 1 .. Cardinality(W) : k <= to + 1 =>
              k \in 1 .. Cardinality(P) /\ part[k] = whole[k]
    BY ListsAgree
  <1>2. page = [sessions |-> SubSeq(part, offset + 1, IF to < Len(part) THEN to ELSE Len(part)),
                hasMore |-> Len(part) > to]
    BY DEF Page, PageRows
  <1> HIDE DEF P, W, page
  <1>3. /\ Cardinality(P) \in Nat /\ Len(part) = Cardinality(P) /\ part \in [1 .. Cardinality(P) -> P]
        /\ Cardinality(W) \in Nat /\ Len(whole) = Cardinality(W) /\ whole \in [1 .. Cardinality(W) -> W]
    BY <1>1, OrderedRows
  <1> HIDE DEF part, whole
  <1>4. CASE Cardinality(W) > to
    <2>1. Len(part) > to /\ Len(whole) > to
      BY <1>1, <1>3, <1>4
    <2>2. part \in Seq(P) /\ whole \in Seq(W)
      BY <1>3
    <2>3. \A k \in 1 .. to : part[k] = whole[k]
      BY <1>1, <1>3, <1>4
    <2>4. SubSeq(part, offset + 1, to) = SubSeq(whole, offset + 1, to)
      <3> DEFINE p == SubSeq(part, offset + 1, to)
                 w == SubSeq(whole, offset + 1, to)
      <3>1. to \in Nat /\ offset + 1 \in Nat /\ to - offset = limit
        OBVIOUS
      <3>2. /\ p \in Seq(P) /\ Len(p) = limit /\ \A k \in 1 .. limit : p[k] = part[offset + k]
            /\ w \in Seq(W) /\ Len(w) = limit /\ \A k \in 1 .. limit : w[k] = whole[offset + k]
        BY <2>1, <2>2, <3>1
      <3>3. \A k \in 1 .. limit : p[k] = w[k]
        <4>1. \A k \in 1 .. limit : offset + k \in 1 .. to
          OBVIOUS
        <4> HIDE DEF p, w, to
        <4> QED
          BY <2>3, <3>2, <4>1
      <3> HIDE DEF p, w
      <3>4. DOMAIN p = 1 .. limit /\ DOMAIN w = 1 .. limit
        BY <3>2
      <3>5. p = [k \in 1 .. limit |-> p[k]] /\ w = [k \in 1 .. limit |-> w[k]]
        BY <3>2, <3>4
      <3> QED
        BY <3>3, <3>5 DEF p, w
    <2>5. page.sessions = SubSeq(part, offset + 1, to) /\ page.hasMore
      BY <1>2, <2>1
    <2> QED
      BY <1>3, <2>1, <2>4, <2>5 DEF page, whole, W
  <1>5. CASE ~(Cardinality(W) > to)
    BY <1>1, <1>2, <1>5 DEF page, part, whole, W
  <1> QED
    BY <1>4, <1>5

\* The list a page is cut from has no more sessions than there are; and as far
\* as the page and one more it has as many, if no table has a session twice.
LEMMA ListsAreLong ==
  ASSUME rowsOf \in [Tables -> Contents], NEW offset \in Nat, NEW limit \in Nat
  PROVE  LET part  == Cardinality(Deduplicated(PageRows(offset, limit)))
             whole == Cardinality(Deduplicated(AllRows))
         IN /\ part \in Nat /\ whole \in Nat /\ part <= whole
            /\ (\A t \in Tables : OneRowEach(rowsOf[t])) =>
                  part = whole \/ (part > offset + limit /\ whole > offset + limit)
  <1> DEFINE M == PageRows(offset, limit)
             P == Deduplicated(M)
             W == Deduplicated(AllRows)
             to == offset + limit
  <1>1. AllRows \in SUBSET SessionRows /\ IsFiniteSet(AllRows) /\ M \in SUBSET AllRows /\ IsFiniteSet(M)
    BY AllRowsFinite, MergedRows
  <1> HIDE DEF M
  <1>2. /\ P \in SUBSET M /\ IsFiniteSet(P) /\ \A q \in M : \E d \in P : d.id = q.id
        /\ \A d, e \in P : d.id = e.id => d = e
    BY <1>1, OneOfEach
  <1>3. IsFiniteSet(W) /\ \A q \in AllRows : \E d \in W : d.id = q.id
    BY <1>1, OneOfEach
  <1> HIDE DEF P, W
  <1>4. Cardinality(P) \in Nat /\ Cardinality(W) \in Nat
    BY <1>2, <1>3, FS_CardinalityType
  <1>5. Cardinality(P) <= Cardinality(W)
    BY <1>1, <1>2, <1>3, FewerSessions
  <1>6. ASSUME \A t \in Tables : OneRowEach(rowsOf[t])
        PROVE  Cardinality(P) = Cardinality(W) \/ (Cardinality(P) > to /\ Cardinality(W) > to)
    <2>1. CASE \A t \in Tables : Cardinality(rowsOf[t]) <= to + 1
      <3>1. ASSUME NEW t \in Tables PROVE Fetched(t, offset, limit) = TableRows(t)
        <4>1. rowsOf[t] \in SUBSET TableRow /\ IsFiniteSet(rowsOf[t]) /\ to + 1 \in Nat
          BY RowsAreRows
        <4>2. First(to + 1, rowsOf[t]) = rowsOf[t]
          BY <1>6, <2>1, <4>1, EnoughRows
        <4> QED
          BY <4>2 DEF Fetched, TableRows
      <3>2. M = AllRows
        BY <3>1 DEF M, PageRows, AllRows
      <3> QED
        BY <3>2 DEF P, W
    <2>2. CASE \E t \in Tables : ~(Cardinality(rowsOf[t]) <= to + 1)
      <3>1. PICK t \in Tables : ~(Cardinality(rowsOf[t]) <= to + 1)
        BY <2>2
      <3> DEFINE F == First(to + 1, rowsOf[t])
      <3>2. /\ rowsOf[t] \in SUBSET TableRow /\ IsFiniteSet(rowsOf[t]) /\ to + 1 \in Nat
            /\ Cardinality(rowsOf[t]) \in Nat
        BY RowsAreRows, FS_CardinalityType
      <3>3. F \in SUBSET rowsOf[t] /\ Cardinality(F) = to + 1
        <4>1. Cardinality(rowsOf[t]) > to + 1
          BY <3>1, <3>2
        <4> QED
          BY <1>6, <3>2, <4>1, EnoughRows
      <3>4. \A p \in F : \E q \in P : q.id = p.id
        <4> SUFFICES ASSUME NEW p \in F PROVE \E q \in P : q.id = p.id
          OBVIOUS
        <4>1. Session(p) \in M /\ Session(p).id = p.id
          <5>1. Session(p) \in Fetched(t, offset, limit)
            BY DEF Fetched
          <5>2. p \in TableRow
            BY <3>2, <3>3
          <5> QED
            BY <5>1, <5>2, SessionIsRow DEF M, PageRows
        <4>2. PICK d \in P : d.id = Session(p).id
          BY <1>2, <4>1
        <4> QED
          BY <4>1, <4>2
      <3>5. \A p, q \in F : p.id = q.id => p = q
        BY <1>6, <3>3 DEF OneRowEach
      <3> HIDE DEF F
      <3>6. Cardinality(F) <= Cardinality(P)
        BY <1>2, <3>4, <3>5, FewerSessions
      <3> QED
        BY <1>4, <1>5, <3>3, <3>6
    <2> QED
      BY <2>1, <2>2
  <1> QED
    BY <1>4, <1>5, <1>6 DEF P, W, M

\* What a page says of the whole list.
PageIsTrue(page, offset, limit) ==
    LET whole == Ordered(Deduplicated(AllRows))
        to == offset + limit
        last == IF to < Len(whole) THEN to ELSE Len(whole)
    IN /\ page.hasMore => Len(whole) > to
       /\ (\A table \in Tables : OneRowEach(rowsOf[table])) =>
             /\ page.hasMore = (Len(whole) > to)
             /\ Len(page.sessions) = IF last > offset THEN last - offset ELSE 0
             /\ (\A table \in Tables : InOneUnit(rowsOf[table])) =>
                   page.sessions = SubSeq(whole, offset + 1, last)

LEMMA LengthOfCut ==
  ASSUME NEW S, NEW s \in Seq(S), NEW from \in Nat, NEW to \in Nat, to <= Len(s)
  PROVE  Len(SubSeq(s, from + 1, to)) = IF to > from THEN to - from ELSE 0
  OBVIOUS

LEMMA PageTells ==
  ASSUME rowsOf \in [Tables -> Contents], NEW offset \in Nat, NEW limit \in Nat
  PROVE  PageIsTrue(Page(offset, limit), offset, limit)
  <1> DEFINE P == Deduplicated(PageRows(offset, limit))
             W == Deduplicated(AllRows)
             to == offset + limit
             part == Ordered(P)
             whole == Ordered(W)
             page == Page(offset, limit)
             last == IF to < Len(whole) THEN to ELSE Len(whole)
             Single == \A t \in Tables : OneRowEach(rowsOf[t])
  <1>1. /\ Cardinality(P) \in Nat /\ Cardinality(W) \in Nat /\ Cardinality(P) <= Cardinality(W)
        /\ Single => Cardinality(P) = Cardinality(W) \/ (Cardinality(P) > to /\ Cardinality(W) > to)
    BY ListsAreLong
  <1>2. page = [sessions |-> SubSeq(part, offset + 1, IF to < Len(part) THEN to ELSE Len(part)),
                hasMore |-> Len(part) > to]
    BY DEF Page, PageRows
  <1>3. /\ P \in SUBSET SessionRows /\ IsFiniteSet(P) /\ W \in SUBSET SessionRows /\ IsFiniteSet(W)
    <2>1. /\ AllRows \in SUBSET SessionRows /\ IsFiniteSet(AllRows)
          /\ PageRows(offset, limit) \in SUBSET SessionRows /\ IsFiniteSet(PageRows(offset, limit))
      BY AllRowsFinite, MergedRows
    <2> QED
      BY <2>1, OneOfEach
  <1> HIDE DEF P, W, page
  <1>4. /\ Len(part) = Cardinality(P) /\ part \in Seq(P) /\ Len(whole) = Cardinality(W)
    <2>1. part \in [1 .. Cardinality(P) -> P] /\ Len(part) = Cardinality(P) /\ Len(whole) = Cardinality(W)
      BY <1>3, OrderedRows
    <2> HIDE DEF part, whole
    <2>2. part \in Seq(P)
      <3>1. Cardinality(P) \in Nat /\ part \in [1 .. Cardinality(P) -> P]
        BY <1>1, <2>1
      <3> QED
        BY <3>1
    <2> QED
      BY <2>1, <2>2
  <1> HIDE DEF part, whole
  <1>5. page.hasMore => Len(whole) > to
    <2>1. page.hasMore => Len(part) > to
      BY <1>2
    <2>2. Len(part) \in Nat /\ Len(whole) \in Nat /\ Len(part) <= Len(whole) /\ to \in Nat
      BY <1>1, <1>4
    <2> HIDE DEF to
    <2>3. Len(part) > to => Len(whole) > to
      BY <2>2
    <2> QED
      BY <2>1, <2>3
  <1>6. ASSUME Single
        PROVE  page.hasMore = (Len(whole) > to) /\ Len(page.sessions) = IF last > offset THEN last - offset ELSE 0
    <2> DEFINE end == IF to < Len(part) THEN to ELSE Len(part)
    <2>1. end \in Nat /\ end = last /\ end <= Len(part)
      BY <1>1, <1>4, <1>6
    <2>2. page.hasMore = (Len(whole) > to)
      <3>1. page.hasMore = (Len(part) > to)
        BY <1>2
      <3>2. (Len(part) > to) <=> (Len(whole) > to)
        BY <1>1, <1>4, <1>6
      <3> QED
        BY <3>1, <3>2
    <2>3. page.sessions = SubSeq(part, offset + 1, end)
      BY <1>2
    <2> HIDE DEF end, last
    <2>4. Len(page.sessions) = IF end > offset THEN end - offset ELSE 0
      BY <1>4, <2>1, <2>3, LengthOfCut
    <2> QED
      BY <2>1, <2>2, <2>4
  <1>7. ASSUME Single, \A t \in Tables : InOneUnit(rowsOf[t])
        PROVE  page.sessions = SubSeq(whole, offset + 1, last)
    <2>1. TablesInOrder
      BY <1>7 DEF TablesInOrder
    <2> QED
      BY <2>1, PageIsACut DEF page, whole, W
  <1> QED
    BY <1>5, <1>6, <1>7 DEF PageIsTrue, page, whole, W

\* The last page is of what the tables have.
ListIInv ==
    /\ rowsOf \in [Tables -> Contents]
    /\ wanted \in [offset : Nat, limit : Nat]
    /\ PagesAreCuts

\* Answering a page keeps the invariant.
LEMMA PageAnswered ==
  ASSUME ListIInv, rowsOf' = rowsOf, wanted' \in [offset : Nat, limit : Nat],
         answered' = Page(wanted'.offset, wanted'.limit)
  PROVE  ListIInv'
  <1>1. rowsOf' \in [Tables -> Contents]
    BY DEF ListIInv
  <1>2. \A t : TableRows(t)' = TableRows(t)
    BY DEF TableRows
  <1>3. PagesAreCuts'
    <2>1. wanted'.offset \in Nat /\ wanted'.limit \in Nat
      OBVIOUS
    <2>2. PageIsTrue(answered', wanted'.offset, wanted'.limit)
      BY <2>1, PageTells DEF ListIInv
    <2> QED
      BY <1>2, <2>2 DEF PagesAreCuts, PageIsTrue, AllRows
  <1> QED
    BY <1>1, <1>3 DEF ListIInv

\* For any contents of the tables, limits and offsets: a page never promises
\* another that would be empty, says truly whether one follows if no table has a
\* session twice, and is a cut of the one list of all sessions if the times of
\* every table are in one column and unit too.
THEOREM PagesAreTrue == ListSpec => []PagesAreCuts
  <1>1. ListInit => ListIInv
    BY DEF ListInit, ListIInv, PagesAreCuts
  <1>2. ListIInv /\ [ListNext]_listVars => ListIInv'
    <2> SUFFICES ASSUME ListIInv, [ListNext]_listVars PROVE ListIInv'
      OBVIOUS
    <2>1. ASSUME NEW limit \in 1 .. MaxLimit, FirstPage(limit) PROVE ListIInv'
      <3>1. wanted' = [offset |-> 0, limit |-> limit] /\ limit \in Nat
        BY <2>1, ListAssumption DEF FirstPage
      <3> QED
        BY <2>1, <3>1, PageAnswered DEF FirstPage
    <2>2. CASE NextPage
      <3>1. wanted \in [offset : Nat, limit : Nat]
        BY DEF ListIInv
      <3>2. wanted' = [wanted EXCEPT !.offset = wanted.offset + wanted.limit]
        BY <2>2 DEF NextPage
      <3>3. wanted' \in [offset : Nat, limit : Nat] /\ wanted'.offset = wanted.offset + wanted.limit
            /\ wanted'.limit = wanted.limit
        BY <3>1, <3>2
      <3> QED
        BY <2>2, <3>3, PageAnswered DEF NextPage
    <2>3. CASE UNCHANGED listVars
      <3>1. \A t : TableRows(t)' = TableRows(t)
        BY <2>3 DEF TableRows, listVars
      <3> QED
        BY <2>3, <3>1 DEF ListIInv, PagesAreCuts, listVars
    <2> QED
      BY <2>1, <2>2, <2>3 DEF ListNext, ListDone
  <1>3. ListIInv => PagesAreCuts
    BY DEF ListIInv
  <1> QED
    BY <1>1, <1>2, <1>3, PTL DEF ListSpec

------------------------------------------------------------------------------
\* The settings file.

\* Texts are functions that have the keys of this version, and none of them is
\* the text of a file that is missing, empty or damaged.
LEMMA TextsKnown ==
  /\ \A x : x \in Texts <=> \E keys : /\ Options \cup {"login"} \subseteq keys
                                      /\ keys \subseteq Options \cup {"login"} \cup ForeignKeys
                                      /\ x \in [keys -> 0 .. 1]
  /\ \A x \in Texts : Whole(x)
  /\ ~Whole(NoSettings) /\ ~Whole(Blank) /\ ~Whole(Damaged)
  <1>1. \A x : x \in Texts <=> \E keys : /\ Options \cup {"login"} \subseteq keys
                                         /\ keys \subseteq Options \cup {"login"} \cup ForeignKeys
                                         /\ x \in [keys -> 0 .. 1]
    BY Zenon DEF Texts
  <1>2. \A x \in Texts : Whole(x)
    BY SettingsAssumption, Zenon DEF Whole
  <1> QED
    BY <1>1, <1>2, Zenon DEF Whole

LEMMA KnownKeys == DOMAIN Defaults = Options \cup {"login"} /\ Defaults \in [DOMAIN Defaults -> 0 .. 1]
  BY DEF Defaults

LEMMA WholeIsText ==
  ASSUME NEW file \in Texts \cup {NoSettings, Blank, Damaged}
  PROVE  Whole(file) <=> file \in Texts
  BY TextsKnown, Zenon

LEMMA LoadedTyped ==
  ASSUME NEW file \in Texts \cup {NoSettings, Blank, Damaged}
  PROVE  /\ Loaded(file) \in [DOMAIN Defaults -> 0 .. 1]
         /\ Whole(file) => \A k \in DOMAIN Defaults : Loaded(file)[k] = file[k]
  <1>1. CASE Whole(file)
    <2>1. file \in Texts
      BY <1>1, WholeIsText
    <2>2. PICK keys : Options \cup {"login"} \subseteq keys /\ file \in [keys -> 0 .. 1]
      BY <2>1, TextsKnown, Zenon
    <2>3. \A k \in DOMAIN Defaults : file[k] \in 0 .. 1
      BY <2>2, KnownKeys
    <2>4. Loaded(file) = [k \in DOMAIN Defaults |-> file[k]]
      BY <1>1 DEF Loaded
    <2> QED
      BY <2>3, <2>4
  <1>2. CASE ~Whole(file)
    BY <1>2, KnownKeys DEF Loaded
  <1> QED
    BY <1>1, <1>2

LEMMA TakenTyped ==
  ASSUME NEW file \in Texts \cup {NoSettings, Blank, Damaged}, NEW live \in BOOLEAN
  PROVE  Taken(file, live) \in [DOMAIN Defaults -> 0 .. 1]
  BY LoadedTyped, KnownKeys DEF Taken

LEMMA ChangedTyped ==
  ASSUME NEW values \in [DOMAIN Defaults -> 0 .. 1], NEW change \in Options \cup {"none", "form"}
  PROVE  Changed(values, change) \in [DOMAIN Defaults -> 0 .. 1]
  <1>1. CASE change \in Options
    <2>1. Changed(values, change) = [values EXCEPT ![change] = 1 - @]
      BY <1>1, SettingsAssumption DEF Changed
    <2> QED
      BY <1>1, <2>1, KnownKeys
  <1>2. CASE change \notin Options /\ change = "form"
    <2>1. Changed(values, change) = Overlay([k \in Options |-> 1], values)
      BY <1>2 DEF Changed
    <2> QED
      BY <2>1, KnownKeys DEF Overlay
  <1>3. CASE change \notin Options /\ change # "form"
    <2>1. Changed(values, change) = values
      BY <1>3 DEF Changed
    <2> QED
      BY <2>1
  <1> QED
    BY <1>1, <1>2, <1>3

\* A text that is merged with a file has the values, and agrees with the file in
\* all that this version does not know.
LEMMA MergedTyped ==
  ASSUME NEW file \in Texts \cup {NoSettings, Blank, Damaged},
         NEW values \in [DOMAIN Defaults -> 0 .. 1]
  PROVE  /\ Merged(file, values) \in Texts
         /\ \A k \in DOMAIN Defaults : Merged(file, values)[k] = values[k]
         /\ Agree(Merged(file, values), file)
  <1>1. CASE Whole(file)
    <2> DEFINE keys == DOMAIN Defaults \cup DOMAIN file
               merged == [k \in keys |-> IF k \in DOMAIN Defaults THEN values[k] ELSE file[k]]
    <2>1. Merged(file, values) = merged
      BY <1>1 DEF Merged, Overlay
    <2>2. file \in Texts
      BY <1>1, WholeIsText
    <2>3. PICK known : /\ known \subseteq Options \cup {"login"} \cup ForeignKeys
                       /\ file \in [known -> 0 .. 1]
      BY <2>2, TextsKnown, Zenon
    <2>4. merged \in [keys -> 0 .. 1]
      BY <2>3
    <2>5. Options \cup {"login"} \subseteq keys /\ keys \subseteq Options \cup {"login"} \cup ForeignKeys
      BY <2>3, KnownKeys
    <2>6. merged \in Texts /\ Whole(merged)
      <3> HIDE DEF merged, keys
      <3> QED
        BY <2>4, <2>5, TextsKnown, Zenon
    <2>7. \A k \in ForeignKeys : k \notin DOMAIN Defaults
      BY KnownKeys, SettingsAssumption
    <2>8. Agree(merged, file)
      BY <1>1, <2>6, <2>7 DEF Agree
    <2> QED
      BY <2>1, <2>6, <2>8
  <1>2. CASE ~Whole(file)
    <2>1. Merged(file, values) = values
      BY <1>2 DEF Merged
    <2>2. values \in Texts
      BY KnownKeys, TextsKnown, Zenon
    <2>3. \A k \in ForeignKeys : k \notin DOMAIN values
      BY KnownKeys, SettingsAssumption
    <2> QED
      BY <1>2, <2>1, <2>2, <2>3 DEF Agree
  <1> QED
    BY <1>1, <1>2

\* What a migration has written is taken as it is.
LEMMA TakenAgain ==
  ASSUME NEW file \in Texts \cup {NoSettings, Blank, Damaged}, NEW live \in BOOLEAN,
         LoginMissing(file, live)
  PROVE  Taken(Merged(file, Taken(file, live)), live) = Taken(file, live)
  <1> DEFINE taken == Taken(file, live)
             merged == Merged(file, taken)
  <1>1. taken \in [DOMAIN Defaults -> 0 .. 1]
    BY TakenTyped
  <1>2. taken["login"] = 1
    BY LoadedTyped, KnownKeys DEF Taken
  <1>3. merged \in Texts /\ \A k \in DOMAIN Defaults : merged[k] = taken[k]
    BY <1>1, MergedTyped
  <1> HIDE DEF taken, merged
  <1>4. Loaded(merged) = taken
    BY <1>1, <1>3, LoadedTyped, TextsKnown
  <1>5. ~LoginMissing(merged, live)
    BY <1>2, <1>3, KnownKeys DEF LoginMissing
  <1>6. Taken(merged, live) = taken
    BY <1>4, <1>5 DEF Taken
  <1> QED
    BY <1>6 DEF taken, merged

\* What a step leaves of the goroutines: all but one as they are.
OthersStay(s) == \A o \in Savers : o # s => saver'[o] = saver[o]

LEMMA RestingTyped == Resting \in SaverType
  BY KnownKeys DEF Resting, SaverType, Stages

LEMMA SaverRests ==
  ASSUME saver \in [Savers -> SaverType], NEW s \in Savers, saver' = [saver EXCEPT ![s] = Resting]
  PROVE  saver' \in [Savers -> SaverType] /\ saver'[s] = Resting /\ OthersStay(s)
  BY RestingTyped DEF OthersStay

LEMMA SaverGoes ==
  ASSUME saver \in [Savers -> SaverType], NEW s \in Savers, NEW stage \in Stages, Goes(s, stage)
  PROVE  /\ saver' \in [Savers -> SaverType] /\ OthersStay(s)
         /\ saver'[s] = [saver[s] EXCEPT !.stage = stage]
         /\ saver'[s].stage = stage /\ saver'[s].held = saver[s].held
         /\ saver'[s].text = saver[s].text /\ saver'[s].change = saver[s].change
         /\ saver'[s].alone = saver[s].alone
  BY DEF Goes, OthersStay, SaverType

LEMMA SaverStarts ==
  ASSUME saver \in [Savers -> SaverType], NEW s \in Savers,
         NEW change \in Options \cup {"none", "form"}, Start(s, change)
  PROVE  /\ saver' \in [Savers -> SaverType]
         /\ saver'[s].stage = "loading" /\ saver'[s].text = NoSettings
         /\ saver'[s].alone => \A o \in Savers \ {s} : saver[o].stage = "resting"
         /\ \A o \in Savers \ {s} :
               /\ saver'[o].stage = saver[o].stage /\ saver'[o].text = saver[o].text
               /\ ~saver'[o].alone
  <1>1. saver'[s] = [Resting EXCEPT !.stage = "loading", !.change = change,
                        !.alone = \A p \in Savers \ {s} : saver[p].stage = "resting"]
    BY DEF Start
  <1>2. \A o \in Savers \ {s} : saver'[o] = [saver[o] EXCEPT !.alone = FALSE]
    BY DEF Start
  <1>3. saver'[s] \in SaverType /\ saver'[s].stage = "loading" /\ saver'[s].text = NoSettings
    BY <1>1, KnownKeys DEF SaverType, Resting, Stages
  <1>4. saver'[s].alone => \A o \in Savers \ {s} : saver[o].stage = "resting"
    BY <1>1 DEF Resting
  <1>5. \A o \in Savers \ {s} :
           /\ saver'[o] \in SaverType
           /\ saver'[o].stage = saver[o].stage /\ saver'[o].text = saver[o].text
           /\ ~saver'[o].alone
    <2> SUFFICES ASSUME NEW o \in Savers \ {s}
                 PROVE  /\ saver'[o] \in SaverType
                        /\ saver'[o].stage = saver[o].stage /\ saver'[o].text = saver[o].text
                        /\ ~saver'[o].alone
      OBVIOUS
    <2>1. saver[o] \in SaverType /\ saver'[o] = [saver[o] EXCEPT !.alone = FALSE]
      BY <1>2
    <2>2. saver'[o] \in SaverType /\ saver'[o].alone = FALSE
      BY <2>1 DEF SaverType
    <2>3. saver'[o].stage = saver[o].stage /\ saver'[o].text = saver[o].text
      BY <2>1 DEF SaverType
    <2> QED
      BY <2>2, <2>3
  <1>6. saver' = [o \in Savers |-> saver'[o]]
    BY DEF Start
  <1>7. \A o \in Savers : saver'[o] \in SaverType
    BY <1>3, <1>5
  <1>8. saver' \in [Savers -> SaverType]
    BY <1>6, <1>7
  <1> QED
    BY <1>3, <1>4, <1>5, <1>8

LEMMA SaverLoads ==
  ASSUME SettingsTypeOK, NEW s \in Savers, Load(s)
  PROVE  /\ saver' \in [Savers -> SaverType] /\ OthersStay(s)
         /\ saver'[s].held = Taken(settingsFile, liveLogin)
         /\ \/ LoginMissing(settingsFile, liveLogin) /\ saver'[s].stage = "migrating"
            \/ saver'[s].stage = "loaded"
         /\ saver'[s].text = saver[s].text /\ saver'[s].change = saver[s].change
         /\ saver'[s].alone = saver[s].alone
  <1>1. saver \in [Savers -> SaverType] /\ settingsFile \in Texts \cup {NoSettings, Blank, Damaged}
        /\ liveLogin \in BOOLEAN
    BY DEF SettingsTypeOK
  <1> DEFINE taken == Taken(settingsFile, liveLogin)
             stage == IF LoginMissing(settingsFile, liveLogin) THEN "migrating" ELSE "loaded"
  <1>2. saver' = [saver EXCEPT ![s].held = taken, ![s].stage = stage]
    BY DEF Load, Taken, LoginMissing, Migrates
  <1>3. taken \in [DOMAIN Defaults -> 0 .. 1] /\ stage \in Stages
    BY <1>1, TakenTyped DEF Stages
  <1> HIDE DEF taken, stage
  <1>4. saver' \in [Savers -> SaverType] /\ OthersStay(s)
        /\ saver'[s].held = taken /\ saver'[s].stage = stage
        /\ saver'[s].text = saver[s].text /\ saver'[s].change = saver[s].change
        /\ saver'[s].alone = saver[s].alone
    BY <1>1, <1>2, <1>3 DEF SaverType, OthersStay
  <1> QED
    BY <1>4 DEF taken, stage

LEMMA SaverChanges ==
  ASSUME SettingsTypeOK, NEW s \in Savers, Change(s)
  PROVE  /\ saver' \in [Savers -> SaverType] /\ OthersStay(s)
         /\ \/ /\ saver'[s].held = Changed(saver[s].held, saver[s].change)
               /\ saver'[s].stage = "saving" /\ saver'[s].text = saver[s].text
               /\ saver'[s].change = saver[s].change /\ saver'[s].alone = saver[s].alone
            \/ saver'[s] = Resting
  <1>1. saver \in [Savers -> SaverType]
    BY DEF SettingsTypeOK
  <1>2. CASE saver' = [saver EXCEPT ![s].held = Changed(@, saver[s].change), ![s].stage = "saving"]
    <2> DEFINE held == Changed(saver[s].held, saver[s].change)
    <2>1. held \in [DOMAIN Defaults -> 0 .. 1]
      <3>1. saver[s].held \in [DOMAIN Defaults -> 0 .. 1] /\ saver[s].change \in Options \cup {"none", "form"}
        BY <1>1 DEF SaverType
      <3> QED
        BY <3>1, ChangedTyped
    <2>2. saver' = [saver EXCEPT ![s].held = held, ![s].stage = "saving"]
      BY <1>2
    <2> HIDE DEF held
    <2>3. saver' \in [Savers -> SaverType] /\ OthersStay(s)
          /\ saver'[s].held = held /\ saver'[s].stage = "saving" /\ saver'[s].text = saver[s].text
          /\ saver'[s].change = saver[s].change /\ saver'[s].alone = saver[s].alone
      BY <1>1, <2>1, <2>2 DEF SaverType, OthersStay, Stages
    <2> QED
      BY <2>3 DEF held
  <1>3. CASE saver' = [saver EXCEPT ![s] = Resting]
    BY <1>1, <1>3, SaverRests
  <1> QED
    BY <1>2, <1>3, Zenon DEF Change

LEMMA SaverMerges ==
  ASSUME SettingsTypeOK, NEW s \in Savers, Merge(s)
  PROVE  /\ saver' \in [Savers -> SaverType] /\ OthersStay(s)
         /\ saver'[s].text = Merged(settingsFile, saver[s].held)
         /\ saver[s].held \in [DOMAIN Defaults -> 0 .. 1]
         /\ saver'[s].held = saver[s].held
         /\ \/ saver[s].stage = "migrating" /\ saver'[s].stage = "migration"
            \/ saver[s].stage = "saving" /\ saver'[s].stage = "save"
         /\ saver'[s].change = saver[s].change /\ saver'[s].alone = saver[s].alone
  <1>1. saver \in [Savers -> SaverType] /\ settingsFile \in Texts \cup {NoSettings, Blank, Damaged}
    BY DEF SettingsTypeOK
  <1> DEFINE text == Merged(settingsFile, saver[s].held)
  <1>2. saver[s].held \in [DOMAIN Defaults -> 0 .. 1]
    BY <1>1 DEF SaverType
  <1>3. text \in Texts
    BY <1>1, <1>2, MergedTyped
  <1>4. saver' = [saver EXCEPT ![s].text = text,
                     ![s].stage = IF saver[s].stage = "migrating" THEN "migration" ELSE "save"]
        /\ saver[s].stage \in {"migrating", "saving"}
    BY DEF Merge
  <1> HIDE DEF text
  <1>5. saver' \in [Savers -> SaverType] /\ OthersStay(s)
        /\ saver'[s].text = text /\ saver'[s].held = saver[s].held
        /\ saver'[s].stage = (IF saver[s].stage = "migrating" THEN "migration" ELSE "save")
        /\ saver'[s].change = saver[s].change /\ saver'[s].alone = saver[s].alone
    BY <1>1, <1>3, <1>4 DEF SaverType, OthersStay, Stages, WriteStages
  <1> QED
    BY <1>2, <1>4, <1>5 DEF text

\* What is left of a goroutine after its write.
LEMMA SaverEnds ==
  ASSUME saver \in [Savers -> SaverType], NEW s \in Savers, After(s)
  PROVE  /\ saver' \in [Savers -> SaverType] /\ OthersStay(s)
         /\ \/ /\ saver[s].stage \in {"migration", "migrationWritten"} /\ saver'[s].stage = "loaded"
               /\ saver'[s].held = saver[s].held /\ saver'[s].alone = saver[s].alone
            \/ saver'[s] = Resting
  <1>1. CASE saver[s].stage \in {"migration", "migrationWritten"}
    <2>1. Goes(s, "loaded") /\ "loaded" \in Stages
      BY <1>1 DEF After, Stages
    <2> QED
      BY <1>1, <2>1, SaverGoes
  <1>2. CASE saver[s].stage \notin {"migration", "migrationWritten"}
    <2>1. saver' = [saver EXCEPT ![s] = Resting]
      BY <1>2 DEF After
    <2> QED
      BY <2>1, SaverRests
  <1> QED
    BY <1>1, <1>2

\* A write that fills the file: the text is in it, or a mixture.
LEMMA SaverFills ==
  ASSUME SettingsTypeOK, WritersAreAtIt, NEW s \in Savers, Fill(s)
  PROVE  /\ saver' \in [Savers -> SaverType] /\ OthersStay(s)
         /\ \/ saver[s].stage = "save" /\ saver'[s].stage = "saveWritten"
            \/ saver[s].stage = "migration" /\ saver'[s].stage = "migrationWritten"
         /\ saver'[s].held = saver[s].held /\ saver'[s].text = saver[s].text
         /\ saver'[s].change = saver[s].change /\ saver'[s].alone = saver[s].alone
         /\ opened' = [opened EXCEPT ![s] = "none"] /\ opened[s] # "none"
         /\ saver[s].text \in Texts
  <1>1. saver \in [Savers -> SaverType]
    BY DEF SettingsTypeOK
  <1>2. saver[s].stage \in {"migration", "save"} /\ opened[s] # "none" /\ Opened(s)
    BY DEF Fill, WritersAreAtIt, Opened
  <1> DEFINE stage == IF saver[s].stage = "save" THEN "saveWritten" ELSE "migrationWritten"
  <1>3. stage \in Stages /\ Goes(s, stage) /\ opened' = [opened EXCEPT ![s] = "none"]
    BY DEF Stages, WriteStages, Fill, Closed
  <1>4. saver[s].text \in Texts
    <2>1. saver[s].text \in Texts \cup {NoSettings}
      BY <1>1 DEF SaverType
    <2>2. Whole(saver[s].text)
      BY <1>2 DEF WritersAreAtIt, HasText, WriteStages
    <2> QED
      BY <2>1, <2>2, TextsKnown, Zenon
  <1> HIDE DEF stage
  <1>5. saver' \in [Savers -> SaverType] /\ OthersStay(s) /\ saver'[s].stage = stage
        /\ saver'[s].held = saver[s].held /\ saver'[s].text = saver[s].text
        /\ saver'[s].change = saver[s].change /\ saver'[s].alone = saver[s].alone
    BY <1>1, <1>3, SaverGoes
  <1> QED
    BY <1>2, <1>3, <1>4, <1>5 DEF stage

LEMMA SettingsTypeStep ==
  SettingsTypeOK /\ WritersAreAtIt /\ [SettingsNext]_settingsVars => SettingsTypeOK'
  <1> SUFFICES ASSUME SettingsTypeOK, WritersAreAtIt, [SettingsNext]_settingsVars PROVE SettingsTypeOK'
    OBVIOUS
  <1>1. saver \in [Savers -> SaverType] /\ opened \in [Savers -> Files]
    BY DEF SettingsTypeOK
  <1>2. ASSUME NEW s \in Savers, Command(s) PROVE SettingsTypeOK'
    <2>1. PICK change \in Options \cup {"none", "form"} : Start(s, change)
      BY <1>2 DEF Command
    <2>2. saver' \in [Savers -> SaverType]
      BY <1>1, <2>1, SaverStarts
    <2> QED
      BY <1>2, <2>2 DEF Command, SettingsTypeOK
  <1>3. ASSUME NEW s \in Savers, Load(s) \/ Change(s) \/ Merge(s) PROVE SettingsTypeOK'
    <2>1. saver' \in [Savers -> SaverType]
      BY <1>3, SaverLoads, SaverChanges, SaverMerges
    <2> QED
      BY <1>3, <2>1 DEF Load, Change, Merge, SettingsTypeOK
  <1>4. ASSUME NEW s \in Savers, Open(s) PROVE SettingsTypeOK'
    <2>1. opened' \in [Savers -> Files]
      BY <1>1, <1>4 DEF Open, Files
    <2>2. clash' \in BOOLEAN
      BY <1>4, Zenon DEF Open
    <2> QED
      BY <1>4, <2>1, <2>2 DEF Open, SettingsTypeOK
  <1>5. ASSUME NEW s \in Savers, Fill(s) PROVE SettingsTypeOK'
    <2>1. saver' \in [Savers -> SaverType] /\ opened' = [opened EXCEPT ![s] = "none"]
          /\ saver[s].text \in Texts
      BY <1>5, SaverFills
    <2>2. opened' \in [Savers -> Files]
      BY <1>1, <2>1 DEF Files
    <2>3. tmp' \in {tmp, saver[s].text, Damaged} /\ settingsFile' \in {settingsFile, saver[s].text, Damaged}
      BY <1>5 DEF Fill, Mixed
    <2> QED
      BY <1>5, <2>1, <2>2, <2>3 DEF Fill, SettingsTypeOK
  <1>6. ASSUME NEW s \in Savers, FillFails(s) PROVE SettingsTypeOK'
    <2>1. saver' \in [Savers -> SaverType]
      BY <1>1, <1>6, SaverEnds DEF FillFails
    <2>2. opened' \in [Savers -> Files]
      BY <1>1, <1>6 DEF FillFails, Closed, Files
    <2> QED
      BY <1>6, <2>1, <2>2 DEF FillFails, SettingsTypeOK
  <1>7. ASSUME NEW s \in Savers, Rename(s) PROVE SettingsTypeOK'
    <2>1. saver' \in [Savers -> SaverType]
      BY <1>1, <1>7, SaverEnds DEF Rename
    <2>2. opened' \in [Savers -> Files]
      BY <1>1, <1>7 DEF Rename, Files
    <2> QED
      BY <1>7, <2>1, <2>2 DEF Rename, SettingsTypeOK
  <1>8. ASSUME NEW s \in Savers, Die(s) PROVE SettingsTypeOK'
    <2>1. saver' \in [Savers -> SaverType]
      BY <1>1, <1>8, SaverRests DEF Die
    <2>2. opened' \in [Savers -> Files]
      BY <1>1, <1>8 DEF Die, Closed, Files
    <2> QED
      BY <1>8, <2>1, <2>2 DEF Die, SettingsTypeOK
  <1>9. CASE UNCHANGED settingsVars
    BY <1>9 DEF settingsVars, SettingsTypeOK
  <1> QED
    BY <1>2, <1>3, <1>4, <1>5, <1>6, <1>7, <1>8, <1>9 DEF SettingsNext

LEMMA WritersStep ==
  SettingsTypeOK /\ WritersAreAtIt /\ [SettingsNext]_settingsVars => WritersAreAtIt'
  <1> SUFFICES ASSUME SettingsTypeOK, WritersAreAtIt, [SettingsNext]_settingsVars PROVE WritersAreAtIt'
    OBVIOUS
  <1>1. saver \in [Savers -> SaverType] /\ opened \in [Savers -> Files]
        /\ settingsFile \in Texts \cup {NoSettings, Blank, Damaged}
    BY DEF SettingsTypeOK
  <1>2. ASSUME NEW s \in Savers, Command(s) PROVE WritersAreAtIt'
    <2>1. PICK change \in Options \cup {"none", "form"} : Start(s, change)
      BY <1>2 DEF Command
    <2> QED
      BY <1>1, <1>2, <2>1, SaverStarts DEF Command, WritersAreAtIt, Opened, HasText, WriteStages
  <1>3. ASSUME NEW s \in Savers, Load(s) PROVE WritersAreAtIt'
    BY <1>3, SaverLoads DEF Load, WritersAreAtIt, Opened, HasText, WriteStages, OthersStay
  <1>4. ASSUME NEW s \in Savers, Change(s) PROVE WritersAreAtIt'
    BY <1>4, SaverChanges
    DEF Change, WritersAreAtIt, Opened, HasText, WriteStages, OthersStay, Resting
  <1>5. ASSUME NEW s \in Savers, Merge(s) PROVE WritersAreAtIt'
    <2>1. Whole(saver'[s].text)
      <3>1. /\ saver'[s].text = Merged(settingsFile, saver[s].held)
            /\ saver[s].held \in [DOMAIN Defaults -> 0 .. 1]
        BY <1>5, SaverMerges
      <3>2. saver'[s].text \in Texts
        BY <1>1, <3>1, MergedTyped
      <3> QED
        BY <3>2, TextsKnown, Zenon
    <2> QED
      BY <1>5, <2>1, SaverMerges DEF Merge, WritersAreAtIt, Opened, HasText, WriteStages, OthersStay
  <1>6. ASSUME NEW s \in Savers, Open(s) PROVE WritersAreAtIt'
    BY <1>1, <1>6 DEF Open, WritersAreAtIt, Opened, HasText, WriteStages
  <1>7. ASSUME NEW s \in Savers, Fill(s) PROVE WritersAreAtIt'
    BY <1>1, <1>7, SaverFills DEF WritersAreAtIt, Opened, HasText, WriteStages, OthersStay
  <1>8. ASSUME NEW s \in Savers, FillFails(s) PROVE WritersAreAtIt'
    BY <1>1, <1>8, SaverEnds
    DEF FillFails, Closed, WritersAreAtIt, Opened, HasText, WriteStages, OthersStay, Resting
  <1>9. ASSUME NEW s \in Savers, Rename(s) PROVE WritersAreAtIt'
    <2>1. \A o \in Savers : opened'[o] = "none" <=> opened[o] = "none"
      BY <1>1, <1>9 DEF Rename, Files
    <2> QED
      BY <1>1, <1>9, <2>1, SaverEnds
      DEF Rename, WritersAreAtIt, Opened, HasText, WriteStages, OthersStay, Resting
  <1>10. ASSUME NEW s \in Savers, Die(s) PROVE WritersAreAtIt'
    BY <1>1, <1>10, SaverRests
    DEF Die, Closed, WritersAreAtIt, Opened, HasText, WriteStages, OthersStay, Resting
  <1>11. CASE UNCHANGED settingsVars
    BY <1>11 DEF settingsVars, WritersAreAtIt, Opened, HasText
  <1> QED
    BY <1>2, <1>3, <1>4, <1>5, <1>6, <1>7, <1>8, <1>9, <1>10, <1>11 DEF SettingsNext

\* Texts that agree with one agree with each other.
LEMMA AgreeAlike ==
  ASSUME NEW text, NEW other, NEW file, Agree(text, file), Agree(other, file)
  PROVE  Agree(text, other)
  BY DEF Agree

LEMMA OneWritesStep ==
  SettingsTypeOK /\ WritersAreAtIt /\ OneWrites /\ [SettingsNext]_settingsVars => OneWrites'
  <1> DEFINE Busy(o) == opened[o] # "none" \/ saver[o].stage \in {"migrationWritten", "saveWritten"}
             Single == \A a, b \in Savers : Busy(a) /\ Busy(b) => a = b
             Exact(o) == /\ opened[o] # "none" => opened[o] = "tmp" /\ tmp = Blank
                         /\ saver[o].stage \in {"migrationWritten", "saveWritten"} => tmp = saver[o].text
             Keeps(o) == saver[o].stage \in WriteStages => Agree(saver[o].text, settingsFile)
  <1>0. OneWrites <=> (~clash => Single /\ \A o \in Savers : Exact(o) /\ Keeps(o))
    BY DEF OneWrites, Opened, TextWritten, HasText
  <1>00. OneWrites' <=> (~clash' => Single' /\ \A o \in Savers : Exact(o)' /\ Keeps(o)')
    BY DEF OneWrites, Opened, TextWritten, HasText
  <1> SUFFICES ASSUME SettingsTypeOK, WritersAreAtIt, OneWrites, [SettingsNext]_settingsVars, ~clash'
               PROVE  Single' /\ \A o \in Savers : Exact(o)' /\ Keeps(o)'
    BY <1>00
  <1>1. saver \in [Savers -> SaverType] /\ opened \in [Savers -> Files]
        /\ settingsFile \in Texts \cup {NoSettings, Blank, Damaged}
    BY DEF SettingsTypeOK
  <1>2. ~clash
    BY Zenon DEF SettingsNext, settingsVars, Command, Load, Change, Merge, Open, Fill, FillFails, Rename, Die
  <1>3. Single /\ \A o \in Savers : Exact(o) /\ Keeps(o)
    BY <1>0, <1>2
  <1>4. \A o \in Savers : opened[o] # "none" => saver[o].stage \in {"migration", "save"}
    BY DEF WritersAreAtIt, Opened
  <1> DEFINE Goal == Single' /\ \A o \in Savers : Exact(o)' /\ Keeps(o)'
  \* The steps that touch neither file.
  <1>5. ASSUME NEW s \in Savers, Command(s) PROVE Goal
    <2>1. PICK change \in Options \cup {"none", "form"} : Start(s, change)
      BY <1>5 DEF Command
    <2>2. UNCHANGED <<settingsFile, tmp, opened>> /\ saver[s].stage = "resting"
      BY <1>5 DEF Command
    <2> QED
      BY <1>1, <1>3, <1>4, <2>1, <2>2, SaverStarts DEF WriteStages
  <1>6. ASSUME NEW s \in Savers, Load(s) \/ Change(s) PROVE Goal
    <2>1. OthersStay(s) /\ saver'[s].stage \in {"migrating", "loaded", "saving", "resting"}
      BY <1>6, SaverLoads, SaverChanges DEF Resting
    <2>2. UNCHANGED <<settingsFile, tmp, opened>> /\ saver[s].stage \in {"loading", "loaded"}
      BY <1>6 DEF Load, Change
    <2> QED
      BY <1>3, <1>4, <2>1, <2>2 DEF OthersStay, WriteStages
  <1>7. ASSUME NEW s \in Savers, Merge(s) PROVE Goal
    <2>1. /\ OthersStay(s) /\ saver'[s].stage \in {"migration", "save"}
          /\ saver[s].stage \in {"migrating", "saving"}
          /\ saver'[s].text = Merged(settingsFile, saver[s].held)
          /\ saver[s].held \in [DOMAIN Defaults -> 0 .. 1]
      BY <1>7, SaverMerges
    <2>2. UNCHANGED <<settingsFile, tmp, opened>>
      BY <1>7 DEF Merge
    <2>3. Agree(saver'[s].text, settingsFile)
      BY <1>1, <2>1, MergedTyped
    <2> QED
      BY <1>3, <1>4, <2>1, <2>2, <2>3 DEF OthersStay
  \* Who opens the file without a clash finds nobody at it.
  <1>8. ASSUME NEW s \in Savers, Open(s) PROVE Goal
    <2>1. \A o \in Savers : o # s => ~Busy(o)
      BY <1>4, <1>8 DEF Open, Opened, WriteStages
    <2>2. /\ UNCHANGED <<settingsFile, saver>> /\ tmp' = Blank
          /\ opened' = [opened EXCEPT ![s] = "tmp"] /\ saver[s].stage \in {"migration", "save"}
      BY <1>8 DEF Open
    <2> QED
      BY <1>1, <1>3, <2>1, <2>2
  <1>9. ASSUME NEW s \in Savers, Fill(s) PROVE Goal
    <2>1. /\ OthersStay(s) /\ saver'[s].stage \in {"saveWritten", "migrationWritten"}
          /\ saver[s].stage \in {"save", "migration"} /\ saver'[s].text = saver[s].text
          /\ opened' = [opened EXCEPT ![s] = "none"] /\ opened[s] # "none"
      BY <1>9, SaverFills
    <2>2. opened[s] = "tmp" /\ tmp = Blank
      BY <1>3, <2>1
    <2>3. tmp' = saver[s].text /\ settingsFile' = settingsFile
      BY <1>9, <2>2 DEF Fill, Mixed
    <2>4. \A o \in Savers : o # s => ~Busy(o)
      BY <1>3, <2>1
    <2> QED
      BY <1>1, <1>3, <2>1, <2>3, <2>4 DEF OthersStay, WriteStages
  <1>10. ASSUME NEW s \in Savers, FillFails(s) PROVE Goal
    <2>1. OthersStay(s) /\ saver'[s].stage \in {"loaded", "resting"}
      BY <1>1, <1>10, SaverEnds DEF FillFails, Resting
    <2>2. opened[s] # "none" /\ opened' = [opened EXCEPT ![s] = "none"]
      BY <1>10 DEF FillFails, Opened, Closed
    <2>3. opened[s] = "tmp" /\ settingsFile' = settingsFile
      BY <1>3, <1>10, <2>2 DEF FillFails
    <2>4. \A o \in Savers : o # s => ~Busy(o)
      BY <1>3, <2>2
    <2> QED
      BY <1>1, <1>3, <2>1, <2>2, <2>3, <2>4 DEF OthersStay, WriteStages
  \* The text that becomes the settings agrees with every other one.
  <1>11. ASSUME NEW s \in Savers, Rename(s) PROVE Goal
    <2>1. OthersStay(s) /\ saver'[s].stage \in {"loaded", "resting"}
      BY <1>1, <1>11, SaverEnds DEF Rename, Resting
    <2>2. saver[s].stage \in {"migrationWritten", "saveWritten"}
      BY <1>11 DEF Rename
    <2>3. \A o \in Savers : o # s => ~Busy(o)
      BY <1>3, <2>2
    <2>4. \A o \in Savers : opened[o] = "none"
      BY <1>4, <2>2, <2>3
    <2>5. \A o \in Savers : opened'[o] = "none"
      BY <1>1, <1>11, <2>4 DEF Rename
    <2>6. settingsFile' = settingsFile \/ settingsFile' = saver[s].text
      BY <1>3, <1>11, <2>2 DEF Rename
    <2>7. \A o \in Savers : o # s => Keeps(o)'
      <3> SUFFICES ASSUME NEW o \in Savers, o # s, saver[o].stage \in WriteStages
                   PROVE  Agree(saver[o].text, settingsFile')
        BY <2>1 DEF OthersStay
      <3>1. Agree(saver[o].text, settingsFile) /\ Agree(saver[s].text, settingsFile)
        BY <1>3, <2>2 DEF WriteStages
      <3> QED
        BY <2>6, <3>1, AgreeAlike
    <2> QED
      BY <2>1, <2>3, <2>5, <2>7 DEF OthersStay, WriteStages
  <1>12. ASSUME NEW s \in Savers, Die(s) PROVE Goal
    <2>1. OthersStay(s) /\ saver'[s].stage = "resting"
      BY <1>1, <1>12, SaverRests DEF Die, Resting
    <2>2. UNCHANGED <<settingsFile, tmp>> /\ opened' = [opened EXCEPT ![s] = "none"]
      BY <1>12 DEF Die, Closed
    <2> QED
      BY <1>1, <1>3, <2>1, <2>2 DEF OthersStay, WriteStages
  <1>13. CASE UNCHANGED settingsVars
    BY <1>3, <1>13 DEF settingsVars
  <1> QED
    BY <1>5, <1>6, <1>7, <1>8, <1>9, <1>10, <1>11, <1>12, <1>13 DEF SettingsNext

LEMMA AloneStep ==
  SettingsTypeOK /\ WritersAreAtIt /\ AloneIsExact /\ [SettingsNext]_settingsVars => AloneIsExact'
  <1> DEFINE Exact(o) ==
               /\ \A p \in Savers \ {o} : saver[p].stage = "resting"
               /\ opened[o] # "none" => opened[o] = "tmp" /\ tmp = Blank
               /\ saver[o].stage \in {"migrationWritten", "saveWritten"} => tmp = saver[o].text
               /\ saver[o].stage \in {"migrating", "migration", "migrationWritten", "loaded"} =>
                     saver[o].held = Taken(settingsFile, liveLogin)
               /\ saver[o].stage \in {"migrating", "migration", "migrationWritten"} =>
                     LoginMissing(settingsFile, liveLogin)
               /\ saver[o].stage \in {"migration", "migrationWritten"} =>
                     saver[o].text = Merged(settingsFile, Taken(settingsFile, liveLogin))
               /\ saver[o].stage = "saving" =>
                     saver[o].held = Changed(Taken(settingsFile, liveLogin), saver[o].change)
               /\ saver[o].stage \in {"save", "saveWritten"} =>
                     saver[o].text = Merged(settingsFile, Changed(Taken(settingsFile, liveLogin), saver[o].change))
  <1>0. AloneIsExact => \A o \in Savers : saver[o].alone => Exact(o)
    BY DEF AloneIsExact, Opened, TextWritten
  <1>00. (\A o \in Savers : saver[o].alone => Exact(o))' => AloneIsExact'
    BY DEF AloneIsExact, Opened, TextWritten
  <1> SUFFICES ASSUME SettingsTypeOK, WritersAreAtIt, [SettingsNext]_settingsVars,
                      \A o \in Savers : saver[o].alone => Exact(o)
               PROVE  \A o \in Savers : saver'[o].alone => Exact(o)'
    BY <1>0, <1>00
  <1>1. saver \in [Savers -> SaverType] /\ opened \in [Savers -> Files]
        /\ settingsFile \in Texts \cup {NoSettings, Blank, Damaged} /\ liveLogin \in BOOLEAN
    BY DEF SettingsTypeOK
  <1>2. \A o \in Savers : opened[o] # "none" => saver[o].stage \in {"migration", "save"}
    BY DEF WritersAreAtIt, Opened
  \* A goroutine that does something is not resting: whoever is alone is the one.
  <1>3. ASSUME NEW s \in Savers, saver[s].stage # "resting", OthersStay(s),
               saver'[s].alone => saver[s].alone,
               saver'[s].alone /\ Exact(s) => Exact(s)'
        PROVE  \A o \in Savers : saver'[o].alone => Exact(o)'
    <2> SUFFICES ASSUME NEW o \in Savers, saver'[o].alone PROVE Exact(o)'
      OBVIOUS
    <2>1. CASE o = s
      BY <1>3, <2>1
    <2>2. CASE o # s
      BY <1>3, <2>2 DEF OthersStay
    <2> QED
      BY <2>1, <2>2
  <1>4. ASSUME NEW s \in Savers, Command(s) PROVE \A o \in Savers : saver'[o].alone => Exact(o)'
    <2>1. PICK change \in Options \cup {"none", "form"} : Start(s, change)
      BY <1>4 DEF Command
    <2>2. UNCHANGED <<settingsFile, tmp, opened>> /\ saver[s].stage = "resting"
      BY <1>4 DEF Command
    <2> QED
      BY <1>1, <1>2, <2>1, <2>2, SaverStarts
  <1>5. ASSUME NEW s \in Savers, Load(s) PROVE \A o \in Savers : saver'[o].alone => Exact(o)'
    <2>1. /\ OthersStay(s) /\ saver'[s].held = Taken(settingsFile, liveLogin)
          /\ \/ LoginMissing(settingsFile, liveLogin) /\ saver'[s].stage = "migrating"
             \/ saver'[s].stage = "loaded"
          /\ saver'[s].alone = saver[s].alone
      BY <1>5, SaverLoads
    <2>2. UNCHANGED <<settingsFile, tmp, opened, liveLogin>> /\ saver[s].stage = "loading"
      BY <1>5 DEF Load
    <2>3. saver'[s].alone /\ Exact(s) => Exact(s)'
      BY <1>2, <2>1, <2>2 DEF OthersStay
    <2> QED
      BY <1>3, <2>1, <2>2, <2>3
  <1>6. ASSUME NEW s \in Savers, Change(s) PROVE \A o \in Savers : saver'[o].alone => Exact(o)'
    <2>1. UNCHANGED <<settingsFile, tmp, opened, liveLogin>> /\ saver[s].stage = "loaded"
      BY <1>6 DEF Change
    <2>2. OthersStay(s)
      BY <1>6, SaverChanges
    <2>3. CASE saver'[s] = Resting
      <3>1. ~saver'[s].alone
        BY <2>3 DEF Resting
      <3> QED
        BY <1>3, <2>1, <2>2, <3>1
    <2>4. CASE /\ saver'[s].held = Changed(saver[s].held, saver[s].change)
               /\ saver'[s].stage = "saving" /\ saver'[s].text = saver[s].text
               /\ saver'[s].change = saver[s].change /\ saver'[s].alone = saver[s].alone
      <3>1. saver'[s].alone /\ Exact(s) => Exact(s)'
        BY <1>2, <2>1, <2>2, <2>4 DEF OthersStay
      <3> QED
        BY <1>3, <2>1, <2>2, <2>4, <3>1
    <2> QED
      BY <1>6, <2>3, <2>4, SaverChanges
  <1>7. ASSUME NEW s \in Savers, Merge(s) PROVE \A o \in Savers : saver'[o].alone => Exact(o)'
    <2>1. /\ OthersStay(s) /\ saver'[s].text = Merged(settingsFile, saver[s].held)
          /\ saver'[s].held = saver[s].held
          /\ \/ saver[s].stage = "migrating" /\ saver'[s].stage = "migration"
             \/ saver[s].stage = "saving" /\ saver'[s].stage = "save"
          /\ saver'[s].change = saver[s].change /\ saver'[s].alone = saver[s].alone
      BY <1>7, SaverMerges
    <2>2. UNCHANGED <<settingsFile, tmp, opened, liveLogin>>
      BY <1>7 DEF Merge
    <2>3. saver'[s].alone /\ Exact(s) => Exact(s)'
      BY <1>2, <2>1, <2>2 DEF OthersStay
    <2>4. saver[s].stage # "resting"
      BY <2>1
    <2> QED
      BY <1>3, <2>1, <2>3, <2>4
  <1>8. ASSUME NEW s \in Savers, Open(s) PROVE \A o \in Savers : saver'[o].alone => Exact(o)'
    <2>1. /\ UNCHANGED <<settingsFile, saver, liveLogin>> /\ tmp' = Blank
          /\ opened' = [opened EXCEPT ![s] = "tmp"] /\ saver[s].stage \in {"migration", "save"}
      BY <1>8 DEF Open
    <2>2. saver'[s].alone /\ Exact(s) => Exact(s)'
      BY <1>1, <2>1
    <2>3. OthersStay(s)
      BY <2>1 DEF OthersStay
    <2> QED
      BY <1>3, <2>1, <2>2, <2>3
  <1>9. ASSUME NEW s \in Savers, Fill(s) PROVE \A o \in Savers : saver'[o].alone => Exact(o)'
    <2>1. /\ OthersStay(s) /\ opened' = [opened EXCEPT ![s] = "none"] /\ opened[s] # "none"
          /\ \/ saver[s].stage = "save" /\ saver'[s].stage = "saveWritten"
             \/ saver[s].stage = "migration" /\ saver'[s].stage = "migrationWritten"
          /\ saver'[s].held = saver[s].held /\ saver'[s].text = saver[s].text
          /\ saver'[s].change = saver[s].change /\ saver'[s].alone = saver[s].alone
      BY <1>9, SaverFills
    <2>2. saver'[s].alone /\ Exact(s) => Exact(s)'
      <3> SUFFICES ASSUME Exact(s) PROVE Exact(s)'
        OBVIOUS
      <3>1. tmp' = saver[s].text /\ settingsFile' = settingsFile /\ liveLogin' = liveLogin
        BY <1>9, <2>1 DEF Fill, Mixed
      <3> QED
        BY <1>1, <2>1, <3>1 DEF OthersStay
    <2>3. saver[s].stage # "resting"
      BY <2>1
    <2> QED
      BY <1>3, <2>1, <2>2, <2>3
  <1>10. ASSUME NEW s \in Savers, FillFails(s) PROVE \A o \in Savers : saver'[o].alone => Exact(o)'
    <2>1. /\ OthersStay(s)
          /\ \/ /\ saver[s].stage \in {"migration", "migrationWritten"} /\ saver'[s].stage = "loaded"
                /\ saver'[s].held = saver[s].held /\ saver'[s].alone = saver[s].alone
             \/ ~saver'[s].alone
      BY <1>1, <1>10, SaverEnds DEF FillFails, Resting
    <2>2. opened[s] # "none" /\ opened' = [opened EXCEPT ![s] = "none"] /\ liveLogin' = liveLogin
      BY <1>10 DEF FillFails, Opened, Closed
    <2>3. saver'[s].alone /\ Exact(s) => Exact(s)'
      <3> SUFFICES ASSUME Exact(s), saver'[s].alone PROVE Exact(s)'
        OBVIOUS
      <3>1. settingsFile' = settingsFile
        BY <1>10, <2>2 DEF FillFails
      <3> QED
        BY <1>1, <2>1, <2>2, <3>1 DEF OthersStay
    <2>4. saver[s].stage # "resting"
      BY <1>2, <2>2
    <2> QED
      BY <1>3, <2>1, <2>3, <2>4
  \* The migration that is written is what the command goes on with.
  <1>11. ASSUME NEW s \in Savers, Rename(s) PROVE \A o \in Savers : saver'[o].alone => Exact(o)'
    <2>1. /\ OthersStay(s)
          /\ \/ /\ saver[s].stage \in {"migration", "migrationWritten"} /\ saver'[s].stage = "loaded"
                /\ saver'[s].held = saver[s].held /\ saver'[s].alone = saver[s].alone
             \/ ~saver'[s].alone
      BY <1>1, <1>11, SaverEnds DEF Rename, Resting
    <2>2. saver[s].stage \in {"migrationWritten", "saveWritten"} /\ liveLogin' = liveLogin
      BY <1>11 DEF Rename
    <2>3. opened[s] = "none" /\ opened'[s] = "none"
      BY <1>1, <1>2, <1>11, <2>2 DEF Rename
    <2>4. saver'[s].alone /\ Exact(s) => Exact(s)'
      <3> SUFFICES ASSUME Exact(s), saver'[s].alone PROVE Exact(s)'
        OBVIOUS
      <3>1. saver'[s].stage = "loaded" /\ saver'[s].held = Taken(settingsFile, liveLogin)
            /\ saver[s].text = Merged(settingsFile, Taken(settingsFile, liveLogin))
            /\ LoginMissing(settingsFile, liveLogin) /\ tmp = saver[s].text
        BY <2>1, <2>2
      <3>2. settingsFile' = settingsFile \/ settingsFile' = saver[s].text
        BY <1>11, <3>1 DEF Rename
      <3>3. Taken(settingsFile', liveLogin') = Taken(settingsFile, liveLogin)
        BY <1>1, <2>2, <3>1, <3>2, TakenAgain
      <3> QED
        BY <2>1, <2>3, <3>1, <3>3 DEF OthersStay
    <2>5. saver[s].stage # "resting"
      BY <2>2
    <2> QED
      BY <1>3, <2>1, <2>4, <2>5
  <1>12. ASSUME NEW s \in Savers, Die(s) PROVE \A o \in Savers : saver'[o].alone => Exact(o)'
    <2>1. OthersStay(s) /\ ~saver'[s].alone /\ saver[s].stage # "resting"
      BY <1>1, <1>12, SaverRests DEF Die, Resting
    <2> QED
      BY <1>3, <2>1
  <1>13. CASE UNCHANGED settingsVars
    BY <1>13 DEF settingsVars
  <1> QED
    BY <1>4, <1>5, <1>6, <1>7, <1>8, <1>9, <1>10, <1>11, <1>12, <1>13 DEF SettingsNext

LEMMA SettingsStart == SettingsInit => SettingsIInv
  <1> SUFFICES ASSUME SettingsInit PROVE SettingsIInv
    OBVIOUS
  <1>1. settingsFile \in Texts \cup {NoSettings, Blank, Damaged}
    <2>1. PICK known \in [Options \cup {"login"} -> 0 .. 1] :
             settingsFile \in {NoSettings, Damaged, Overlay(known, [k \in ForeignKeys |-> 1])}
      BY DEF SettingsInit
    <2> DEFINE keys == Options \cup {"login"} \cup ForeignKeys
    <2>2. Overlay(known, [k \in ForeignKeys |-> 1]) \in [keys -> 0 .. 1]
      BY DEF Overlay
    <2>3. Overlay(known, [k \in ForeignKeys |-> 1]) \in Texts
      BY <2>2, TextsKnown, Zenon
    <2> QED
      BY <2>1, <2>3
  <1>2. saver \in [Savers -> SaverType] /\ \A s \in Savers : saver[s] = Resting /\ opened[s] = "none"
    BY RestingTyped DEF SettingsInit
  <1>3. SettingsTypeOK
    BY <1>1, <1>2 DEF SettingsInit, SettingsTypeOK, Files
  <1>4. \A s \in Savers : ~saver[s].alone /\ saver[s].stage = "resting"
    BY <1>2 DEF Resting
  <1>5. WritersAreAtIt /\ OneWrites /\ AloneIsExact
    BY <1>2, <1>4
    DEF WritersAreAtIt, OneWrites, AloneIsExact, Opened, TextWritten, HasText, WriteStages
  <1> QED
    BY <1>3, <1>5 DEF SettingsIInv

LEMMA SettingsStep == SettingsIInv /\ [SettingsNext]_settingsVars => SettingsIInv'
  BY SettingsTypeStep, WritersStep, OneWritesStep, AloneStep DEF SettingsIInv

\* The file that a command which is alone replaces has the text it should have.
LEMMA AloneSaves ==
  ASSUME SettingsIInv, SettingsNext, settingsFile' # settingsFile, NEW s \in Savers,
         saver[s].alone
  PROVE  settingsFile' = Saved(s)
  <1>1. settingsFile \in Texts \cup {NoSettings, Blank, Damaged} /\ liveLogin \in BOOLEAN
    BY DEF SettingsIInv, SettingsTypeOK
  <1>2. /\ \A o \in Savers \ {s} : saver[o].stage = "resting"
        /\ Opened(s) => opened[s] = "tmp"
        /\ TextWritten(s) => tmp = saver[s].text
        /\ saver[s].stage = "migrationWritten" =>
              saver[s].text = Merged(settingsFile, Taken(settingsFile, liveLogin))
        /\ saver[s].stage = "saveWritten" =>
              saver[s].text = Merged(settingsFile, Changed(Taken(settingsFile, liveLogin), saver[s].change))
    BY DEF SettingsIInv, AloneIsExact
  <1>3. \A o \in Savers : Opened(o) => saver[o].stage \in {"migration", "save"}
    BY DEF SettingsIInv, WritersAreAtIt
  <1>4. PICK o \in Savers : Fill(o) \/ FillFails(o) \/ Rename(o)
    BY DEF SettingsNext, Command, Load, Change, Merge, Open, Die
  <1>5. o = s
    BY <1>2, <1>3, <1>4 DEF Fill, FillFails, Rename
  <1>6. Rename(s)
    BY <1>2, <1>4, <1>5 DEF Fill, FillFails
  <1>7. TextWritten(s) /\ settingsFile' = saver[s].text
    BY <1>2, <1>6 DEF Rename, TextWritten
  <1> DEFINE taken == Taken(settingsFile, liveLogin)
             due == IF saver[s].stage = "migrationWritten" THEN taken ELSE Changed(taken, saver[s].change)
  <1>8. settingsFile' = Merged(settingsFile, due)
    BY <1>2, <1>7 DEF TextWritten
  <1>9. taken = IF Migrates(settingsFile) THEN [Loaded(settingsFile) EXCEPT !["login"] = 1]
                ELSE Loaded(settingsFile)
    BY DEF Taken, LoginMissing, Migrates
  <1>10. Saved(s) = Merged(settingsFile, due)
    BY <1>9, Zenon DEF Saved, Merged
  <1> QED
    BY <1>8, <1>10

\* A whole file stays whole and keeps what this version does not know.
LEMMA WholeStays ==
  ASSUME SettingsIInv, SettingsNext, Whole(settingsFile), ~clash'
  PROVE  /\ Whole(settingsFile')
         /\ \A k \in DOMAIN settingsFile \cap ForeignKeys :
               k \in DOMAIN settingsFile' /\ settingsFile'[k] = settingsFile[k]
  <1>1. CASE settingsFile' = settingsFile
    BY <1>1
  <1>2. CASE settingsFile' # settingsFile
    <2>1. PICK s \in Savers : Fill(s) \/ FillFails(s) \/ Rename(s)
      BY <1>2 DEF SettingsNext, Command, Load, Change, Merge, Open, Die
    <2>2. ~clash
      BY <2>1, Zenon DEF Fill, FillFails, Rename
    <2>3. /\ Opened(s) => opened[s] = "tmp"
          /\ TextWritten(s) => tmp = saver[s].text
          /\ HasText(s) => Agree(saver[s].text, settingsFile)
      BY <2>2 DEF SettingsIInv, OneWrites
    <2>4. Rename(s)
      BY <1>2, <2>1, <2>3 DEF Fill, FillFails
    <2>5. TextWritten(s) /\ HasText(s)
      BY <2>4 DEF Rename, TextWritten, HasText, WriteStages
    <2>6. settingsFile' = saver[s].text
      BY <1>2, <2>3, <2>4, <2>5 DEF Rename
    <2>7. Whole(saver[s].text)
      BY <2>5 DEF SettingsIInv, WritersAreAtIt
    <2> QED
      BY <2>3, <2>5, <2>6, <2>7 DEF Agree
  <1> QED
    BY <1>1, <1>2

\* A command that is alone changes only what it was asked to; and without a clash
\* at settings.json.tmp the settings stay whole and keep what this version does
\* not know, however the commands interleave, fail and die.
THEOREM SettingsAreKept == SettingsSpec => SavesKeepTheRest
  <1> DEFINE Kept ==
        /\ \A s \in Savers :
              (settingsFile' # settingsFile /\ saver[s].alone /\ saver'[s] # saver[s]) => settingsFile' = Saved(s)
        /\ (Whole(settingsFile) /\ ~clash') =>
              /\ Whole(settingsFile')
              /\ \A k \in DOMAIN settingsFile \cap ForeignKeys :
                    k \in DOMAIN settingsFile' /\ settingsFile'[k] = settingsFile[k]
  <1>1. SettingsIInv /\ [SettingsNext]_settingsVars => [Kept]_settingsVars
    BY AloneSaves, WholeStays
  <1> QED
    BY SettingsStart, SettingsStep, <1>1, PTL DEF SettingsSpec, SavesKeepTheRest

------------------------------------------------------------------------------
\* Official voice.

LEMMA LoginsChosen ==
  /\ \A b \in BindingChoices, k \in 1 .. 2 : b[k] \in Logins
  /\ \A login \in LoginChoices : login \in Logins
  BY DEF Logins

\* The login of a call is one of those the profile is bound to, or another one
\* of the same account.
LEMMA LoginFound ==
  ASSUME RealtimeTypeOK, NEW choice \in BindingChoices,
         Capability(choice, authJson).reason = "available"
  PROVE  LET login == Capability(choice, authJson).login
         IN  login \in Logins /\ \E k \in 1 .. 2 : choice[k].account = login.account
  <1> DEFINE bound == BoundLogin(choice)
             found == Capability(choice, authJson)
  <1>1. found \in {Available(authJson), Available(bound)}
    BY DEF Capability, Available, Unavailable
  <1>2. bound.account # NoOne
    BY DEF Capability, Unavailable
  <1>3. \E k \in 1 .. 2 : k \in Bindings(choice) /\ bound = choice[k]
    <2>1. bound # Unsound
      BY <1>2 DEF Unsound
    <2> QED
      BY <2>1 DEF BoundLogin, Bindings
  <1>4. found.login \in {authJson, bound} /\ found.login.account = bound.account
    BY DEF Capability, Available, Unavailable
  <1>5. PICK k \in 1 .. 2 : choice[k] # EmptyLogin /\ bound = choice[k]
    BY <1>3 DEF Bindings
  <1>6. choice[k] \in Logins /\ authJson \in Logins
    BY LoginsChosen, Zenon DEF RealtimeTypeOK
  <1>7. bound \in Logins /\ authJson \in Logins
    BY <1>5, <1>6, Zenon
  <1> QED
    BY <1>4, <1>5, <1>7

LEMMA NoCallTyped == NoCall \in CallType /\ NoCall.phase = "idle" /\ NoCall.knew = {}
  <1> DEFINE none == <<EmptyLogin, EmptyLogin>>
  <1>1. Unsound \in Logins
    BY DEF Logins
  <1>2. none \in BindingChoices \cup {<<EmptyLogin, EmptyLogin>>}
    OBVIOUS
  <1>3. NoCall = [phase |-> "idle", settings |-> none, login |-> Unsound, reason |-> "", knew |-> {}]
    BY DEF NoCall
  <1> HIDE DEF none
  <1> QED
    BY <1>1, <1>2, <1>3 DEF CallType, CallPhases, Reasons

LEMMA RealtimeStart == RealtimeInit => RealtimeIInv
  <1> SUFFICES ASSUME RealtimeInit PROVE RealtimeIInv
    OBVIOUS
  <1>2. caller \in [Callers -> CallType] /\ \A c \in Callers : caller[c] = NoCall
    BY NoCallTyped DEF RealtimeInit
  <1>3. RealtimeTypeOK
    BY <1>2 DEF RealtimeInit, RealtimeTypeOK
  <1>4. \A c \in Callers : caller[c].phase = "idle" /\ caller[c].knew = {}
    BY <1>2, NoCallTyped
  <1>5. StandingIsOnDisk
    BY <1>4 DEF RealtimeInit, StandingIsOnDisk
  <1>6. CallsAreBound
    BY <1>4 DEF CallsAreBound
  <1> QED
    BY <1>3, <1>5, <1>6 DEF RealtimeIInv

\* What a step of one call leaves of the others.
CallsStay(c) == \A d \in Callers : d # c => caller'[d] = caller[d]

LEMMA CallBecomes ==
  ASSUME caller \in [Callers -> CallType], NEW c \in Callers, NEW record \in CallType,
         Become(c, record)
  PROVE  caller' \in [Callers -> CallType] /\ caller'[c] = record /\ CallsStay(c)
  BY DEF Become, CallsStay

LEMMA CallEnds ==
  ASSUME caller \in [Callers -> CallType], NEW c \in Callers, Become(c, NoCall)
  PROVE  /\ caller' \in [Callers -> CallType] /\ CallsStay(c)
         /\ caller'[c].phase = "idle" /\ caller'[c].knew = {}
  BY CallBecomes, NoCallTyped

LEMMA CallPasses ==
  ASSUME caller \in [Callers -> CallType], NEW c \in Callers, NEW next \in CallPhases, Pass(c, next)
  PROVE  /\ caller' \in [Callers -> CallType] /\ CallsStay(c)
         /\ caller'[c].phase = next /\ caller'[c].knew = caller[c].knew
         /\ caller'[c].login = caller[c].login /\ caller'[c].settings = caller[c].settings
         /\ caller'[c].reason = caller[c].reason
  <1>1. Become(c, [caller[c] EXCEPT !.phase = next])
    BY DEF Pass
  <1>2. /\ [caller[c] EXCEPT !.phase = next] \in CallType
        /\ LET r == [caller[c] EXCEPT !.phase = next]
           IN  /\ r.phase = next /\ r.knew = caller[c].knew /\ r.reason = caller[c].reason
               /\ r.login = caller[c].login /\ r.settings = caller[c].settings
    BY DEF CallType
  <1> QED
    BY <1>1, <1>2, CallBecomes

LEMMA CallDenied ==
  ASSUME caller \in [Callers -> CallType], NEW c \in Callers, NEW reason \in Reasons,
         DenyCall(c, reason)
  PROVE  /\ caller' \in [Callers -> CallType] /\ CallsStay(c)
         /\ caller'[c].phase = "refused" /\ caller'[c].knew = caller[c].knew
         /\ caller'[c].login = caller[c].login /\ caller'[c].reason = reason
         /\ caller'[c].settings = caller[c].settings
  <1> DEFINE r == [caller[c] EXCEPT !.phase = "refused", !.reason = reason]
  <1>1. Become(c, r)
    BY DEF DenyCall
  <1>2. /\ r \in CallType /\ r.phase = "refused" /\ r.knew = caller[c].knew
        /\ r.login = caller[c].login /\ r.reason = reason /\ r.settings = caller[c].settings
    BY DEF CallType, CallPhases
  <1> HIDE DEF r
  <1> QED
    BY <1>1, <1>2, CallBecomes

\* A call that lifts the denials of other logins takes them from what all know.
LEMMA CallLifts ==
  ASSUME caller \in [Callers -> CallType], NEW c \in Callers, NEW login, Lift(c, login)
  PROVE  /\ caller' \in [Callers -> CallType]
         /\ standing' = standing \ Others(login)
         /\ \A d \in Callers :
               /\ caller'[d].knew = caller[d].knew \ Others(login)
               /\ caller'[d].login = caller[d].login /\ caller'[d].settings = caller[d].settings
               /\ caller'[d].reason = caller[d].reason
               /\ caller'[d].phase = IF d = c THEN "passed" ELSE caller[d].phase
  <1>1. ASSUME NEW d \in Callers
        PROVE  /\ caller'[d] \in CallType
               /\ caller'[d].knew = caller[d].knew \ Others(login)
               /\ caller'[d].login = caller[d].login /\ caller'[d].settings = caller[d].settings
               /\ caller'[d].reason = caller[d].reason
               /\ caller'[d].phase = IF d = c THEN "passed" ELSE caller[d].phase
    <2> DEFINE others == Others(login)
    <2>1. caller[d] \in CallType
      OBVIOUS
    <2>2. CASE d = c
      <3>1. caller'[d] = [[caller[d] EXCEPT !.phase = "passed"] EXCEPT !.knew = @ \ others]
        BY <2>2 DEF Lift
      <3> HIDE DEF others
      <3>2. "passed" \in CallPhases
        BY DEF CallPhases
      <3>3. /\ caller'[d] \in CallType /\ caller'[d].knew = caller[d].knew \ others
            /\ caller'[d].login = caller[d].login /\ caller'[d].settings = caller[d].settings
            /\ caller'[d].reason = caller[d].reason /\ caller'[d].phase = "passed"
        BY <2>1, <3>1, <3>2, ZenonT(60) DEF CallType
      <3> QED
        BY <2>2, <3>3 DEF others
    <2>3. CASE d # c
      <3>1. caller'[d] = [caller[d] EXCEPT !.knew = @ \ others]
        BY <2>3 DEF Lift
      <3> HIDE DEF others
      <3>2. /\ caller'[d] \in CallType /\ caller'[d].knew = caller[d].knew \ others
            /\ caller'[d].login = caller[d].login /\ caller'[d].settings = caller[d].settings
            /\ caller'[d].reason = caller[d].reason /\ caller'[d].phase = caller[d].phase
        BY <2>1, <3>1 DEF CallType
      <3> QED
        BY <2>3, <3>2 DEF others
    <2> QED
      BY <2>2, <2>3
  <1>2. caller' = [d \in Callers |-> caller'[d]]
    BY DEF Lift
  <1>3. caller' \in [Callers -> CallType]
    BY <1>1, <1>2
  <1> QED
    BY <1>1, <1>3 DEF Lift

\* A stored denial is the only one that a call can know from then on.
LEMMA CallStores ==
  ASSUME caller \in [Callers -> CallType], NEW c \in Callers, Store(c)
  PROVE  /\ caller' \in [Callers -> CallType]
         /\ caller'[c].phase = "idle" /\ caller'[c].knew = {}
         /\ \A d \in Callers : d # c =>
               /\ caller'[d].knew = caller[d].knew \cap {caller[c].login}
               /\ caller'[d].login = caller[d].login /\ caller'[d].settings = caller[d].settings
               /\ caller'[d].reason = caller[d].reason /\ caller'[d].phase = caller[d].phase
  <1>1. caller'[c] = NoCall
    BY DEF Store
  <1>2. ASSUME NEW d \in Callers, d # c
        PROVE  /\ caller'[d] \in CallType
               /\ caller'[d].knew = caller[d].knew \cap {caller[c].login}
               /\ caller'[d].login = caller[d].login /\ caller'[d].settings = caller[d].settings
               /\ caller'[d].reason = caller[d].reason /\ caller'[d].phase = caller[d].phase
    <2> DEFINE login == caller[c].login
    <2>1. caller'[d] = [caller[d] EXCEPT !.knew = @ \cap {login}]
      BY <1>2 DEF Store
    <2>2. caller[d] \in CallType
      OBVIOUS
    <2> HIDE DEF login
    <2>3. /\ caller'[d] \in CallType
          /\ caller'[d].knew = caller[d].knew \cap {login}
          /\ caller'[d].login = caller[d].login /\ caller'[d].settings = caller[d].settings
          /\ caller'[d].reason = caller[d].reason /\ caller'[d].phase = caller[d].phase
      BY <2>1, <2>2 DEF CallType
    <2> QED
      BY <2>3 DEF login
  <1>3. caller' = [d \in Callers |-> caller'[d]]
    BY DEF Store
  <1>4. \A d \in Callers : caller'[d] \in CallType
    BY <1>1, <1>2, NoCallTyped
  <1>5. caller' \in [Callers -> CallType]
    BY <1>3, <1>4
  <1> QED
    BY <1>1, <1>2, <1>5, NoCallTyped

LEMMA RealtimeStep == RealtimeIInv /\ [RealtimeNext]_realtimeVars => RealtimeIInv'
  <1> DEFINE OnDisk == \A login \in standing : denialFile # NoDenial /\ denialFile.login = login
             Bound(d) == \E k \in 1 .. 2 : caller[d].settings[k].account = caller[d].login.account
             Fine(d) ==
                /\ caller[d].knew \subseteq standing
                /\ caller[d].phase \in {"passed", "ready", "sent"} => caller[d].login \notin caller[d].knew
                /\ caller[d].phase # "idle" => caller[d].settings \in BindingChoices
                /\ caller[d].phase \in {"found", "passed", "ready", "sent"} => Bound(d)
                /\ caller[d].phase \in {"refused", "denied", "storing"} => Denial(d) \in denied
  <1>1. RealtimeIInv <=> RealtimeTypeOK /\ OnDisk /\ \A d \in Callers : Fine(d)
    BY DEF RealtimeIInv, StandingIsOnDisk, CallsAreBound
  <1>2. RealtimeIInv' <=> RealtimeTypeOK' /\ OnDisk' /\ \A d \in Callers : Fine(d)'
    BY DEF RealtimeIInv, StandingIsOnDisk, CallsAreBound
  <1> SUFFICES ASSUME RealtimeTypeOK, OnDisk, \A d \in Callers : Fine(d), [RealtimeNext]_realtimeVars
               PROVE  RealtimeTypeOK' /\ OnDisk' /\ \A d \in Callers : Fine(d)'
    BY <1>1, <1>2
  <1>3. caller \in [Callers -> CallType]
    BY DEF RealtimeTypeOK
  <1> DEFINE Goal == RealtimeTypeOK' /\ OnDisk' /\ \A d \in Callers : Fine(d)'
  \* The record of one call changes, and nothing else but that more may be denied.
  <1>4. ASSUME NEW c \in Callers, caller' \in [Callers -> CallType], CallsStay(c), Fine(c)',
               RealtimeTypeOK', UNCHANGED <<denialFile, standing>>, denied \subseteq denied'
        PROVE  Goal
    <2>1. \A d \in Callers : d # c => Fine(d)'
      BY <1>4 DEF CallsStay, Denial
    <2> QED
      BY <1>4, <2>1
  <1>5. ASSUME NEW c \in Callers, AskSettings(c) PROVE Goal
    <2> DEFINE r == [NoCall EXCEPT !.phase = "asked", !.settings = binding, !.knew = standing]
    <2>1. NoCall \in CallType
      BY NoCallTyped
    <2>2. binding \in BindingChoices /\ standing \subseteq Logins /\ "asked" \in CallPhases
      BY DEF RealtimeTypeOK, CallPhases
    <2>3. r \in CallType /\ r.phase = "asked" /\ r.settings = binding /\ r.knew = standing
      BY <2>1, <2>2 DEF CallType
    <2>4. Become(c, r) /\ UNCHANGED <<binding, authJson, realtimeDenied, denialFile, denied, standing>>
      BY <1>5 DEF AskSettings, World, Denials
    <2> HIDE DEF r
    <2>5. caller' \in [Callers -> CallType] /\ caller'[c] = r /\ CallsStay(c)
      BY <1>3, <2>3, <2>4, CallBecomes
    <2>6. RealtimeTypeOK'
      BY <2>4, <2>5 DEF RealtimeTypeOK
    <2>7. Fine(c)'
      BY <2>2, <2>3, <2>4, <2>5
    <2> QED
      BY <1>4, <2>4, <2>5, <2>6, <2>7
  <1>6. ASSUME NEW c \in Callers, FindLogin(c) PROVE Goal
    <2>1. UNCHANGED <<binding, authJson, realtimeDenied, denialFile, denied, standing>>
          /\ caller[c].phase = "asked"
      BY <1>6 DEF FindLogin, World, Denials, Now
    <2>2. CASE Become(c, NoCall)
      <3>1. /\ caller' \in [Callers -> CallType] /\ CallsStay(c)
            /\ caller'[c].phase = "idle" /\ caller'[c].knew = {}
        BY <1>3, <2>2, CallEnds
      <3>2. RealtimeTypeOK'
        BY <2>1, <3>1 DEF RealtimeTypeOK
      <3> QED
        BY <1>4, <2>1, <3>1, <3>2
    <2>3. CASE /\ Capability(caller[c].settings, authJson).reason = "available"
               /\ Become(c, [caller[c] EXCEPT !.phase = "found",
                                !.login = Capability(caller[c].settings, authJson).login])
      <3> DEFINE login == Capability(caller[c].settings, authJson).login
                 r == [caller[c] EXCEPT !.phase = "found", !.login = login]
      <3>1. caller[c].settings \in BindingChoices
        BY <2>1
      <3>2. login \in Logins /\ \E k \in 1 .. 2 : caller[c].settings[k].account = login.account
        BY <2>3, <3>1, LoginFound
      <3>3. Become(c, r)
        BY <2>3
      <3> HIDE DEF login
      <3>4. caller[c] \in CallType /\ "found" \in CallPhases
        BY <1>3 DEF CallPhases
      <3>5. /\ r \in CallType /\ r.phase = "found" /\ r.login = login
            /\ r.settings = caller[c].settings /\ r.knew = caller[c].knew
        BY <3>2, <3>4 DEF CallType
      <3> HIDE DEF r
      <3>6. caller' \in [Callers -> CallType] /\ caller'[c] = r /\ CallsStay(c)
        BY <1>3, <3>3, <3>5, CallBecomes
      <3>7. RealtimeTypeOK'
        BY <2>1, <3>6 DEF RealtimeTypeOK
      <3>8. Fine(c)'
        BY <2>1, <3>1, <3>2, <3>5, <3>6
      <3> QED
        BY <1>4, <2>1, <3>6, <3>7, <3>8
    <2> QED
      BY <1>6, <2>2, <2>3, Zenon DEF FindLogin
  \* Who is not denied by the file goes past it with no denial standing against it.
  <1>7. ASSUME NEW c \in Callers, AskFile(c) PROVE Goal
    <2>1. UNCHANGED <<binding, authJson, realtimeDenied, denied>> /\ caller[c].phase = "found"
      BY <1>7 DEF AskFile, World, Now
    <2>2. denialFile \in denied \cup {NoDenial} /\ denied \subseteq [login : Logins, reason : Reasons \ {""}]
      BY DEF RealtimeTypeOK
    <2>3. LoadDenial(denialFile) = denialFile
      BY <2>2 DEF LoadDenial, Reasons
    <2>4. CASE /\ denialFile # NoDenial /\ denialFile.login = caller[c].login
               /\ DenyCall(c, denialFile.reason) /\ UNCHANGED <<denialFile, standing>>
      <3>1. /\ denialFile \in denied /\ denialFile.reason \in Reasons
            /\ denialFile = [login |-> denialFile.login, reason |-> denialFile.reason]
        BY <2>2, <2>4
      <3>2. /\ caller' \in [Callers -> CallType] /\ CallsStay(c)
            /\ caller'[c].phase = "refused" /\ caller'[c].knew = caller[c].knew
            /\ caller'[c].login = caller[c].login /\ caller'[c].reason = denialFile.reason
            /\ caller'[c].settings = caller[c].settings
        BY <1>3, <2>4, <3>1, CallDenied
      <3>3. RealtimeTypeOK'
        BY <2>1, <2>4, <3>2 DEF RealtimeTypeOK
      <3>4. Denial(c)' \in denied'
        BY <2>1, <2>4, <3>1, <3>2 DEF Denial
      <3>5. Fine(c)'
        BY <2>1, <2>4, <3>2, <3>4
      <3> QED
        BY <1>4, <2>1, <2>4, <3>2, <3>3, <3>5
    <2>5. CASE /\ denialFile = NoDenial \/ denialFile.login # caller[c].login
               /\ denialFile' = NoDenial /\ Lift(c, caller[c].login)
      <3>1. /\ caller' \in [Callers -> CallType] /\ standing' = standing \ Others(caller[c].login)
            /\ \A d \in Callers :
                  /\ caller'[d].knew = caller[d].knew \ Others(caller[c].login)
                  /\ caller'[d].login = caller[d].login /\ caller'[d].settings = caller[d].settings
                  /\ caller'[d].reason = caller[d].reason
                  /\ caller'[d].phase = IF d = c THEN "passed" ELSE caller[d].phase
        BY <1>3, <2>5, CallLifts
      <3>2. standing' = {}
        BY <2>5, <3>1 DEF Others
      <3>3. \A d \in Callers : caller'[d].knew = {}
        BY <3>1, <3>2
      <3>4. RealtimeTypeOK'
        BY <2>1, <2>5, <3>1, <3>2 DEF RealtimeTypeOK
      <3>5. \A d \in Callers : Fine(d)'
        BY <2>1, <3>1, <3>2, <3>3 DEF Denial
      <3> QED
        BY <3>2, <3>4, <3>5
    <2> QED
      BY <1>7, <2>3, <2>4, <2>5 DEF AskFile
  <1>8. ASSUME NEW c \in Callers, AskMemory(c) PROVE Goal
    <2>1. UNCHANGED <<binding, authJson, denialFile, denied, standing>> /\ caller[c].phase = "passed"
      BY <1>8 DEF AskMemory, World, Now
    <2>2. CASE /\ realtimeDenied # NoDenial /\ realtimeDenied.login = caller[c].login
               /\ DenyCall(c, realtimeDenied.reason) /\ UNCHANGED realtimeDenied
      <3>1. /\ realtimeDenied \in denied /\ realtimeDenied.reason \in Reasons
            /\ realtimeDenied = [login |-> realtimeDenied.login, reason |-> realtimeDenied.reason]
        BY <2>2 DEF RealtimeTypeOK
      <3>2. /\ caller' \in [Callers -> CallType] /\ CallsStay(c)
            /\ caller'[c].phase = "refused" /\ caller'[c].knew = caller[c].knew
            /\ caller'[c].login = caller[c].login /\ caller'[c].reason = realtimeDenied.reason
            /\ caller'[c].settings = caller[c].settings
        BY <1>3, <2>2, <3>1, CallDenied
      <3>3. RealtimeTypeOK'
        BY <2>1, <2>2, <3>2 DEF RealtimeTypeOK
      <3>4. Denial(c)' \in denied'
        BY <2>1, <2>2, <3>1, <3>2 DEF Denial
      <3>5. Fine(c)'
        BY <2>1, <3>2, <3>4
      <3> QED
        BY <1>4, <2>1, <3>2, <3>3, <3>5
    <2>3. CASE realtimeDenied' = NoDenial /\ Pass(c, "ready")
      <3>1. /\ caller' \in [Callers -> CallType] /\ CallsStay(c)
            /\ caller'[c].phase = "ready" /\ caller'[c].knew = caller[c].knew
            /\ caller'[c].login = caller[c].login /\ caller'[c].settings = caller[c].settings
        BY <1>3, <2>3, CallPasses DEF CallPhases
      <3>2. RealtimeTypeOK'
        BY <2>1, <2>3, <3>1 DEF RealtimeTypeOK
      <3>3. Fine(c)'
        BY <2>1, <3>1
      <3> QED
        BY <1>4, <2>1, <3>1, <3>2, <3>3
    <2> QED
      BY <1>8, <2>2, <2>3, Zenon DEF AskMemory
  <1>9. ASSUME NEW c \in Callers, NEW offer \in Offers, Send(c, offer) PROVE Goal
    <2>1. UNCHANGED <<binding, authJson, realtimeDenied, denialFile, denied, standing>>
          /\ caller[c].phase = "ready"
      BY <1>9 DEF Send, World, Denials, Now
    <2>2. CASE Become(c, NoCall)
      <3>1. /\ caller' \in [Callers -> CallType] /\ CallsStay(c)
            /\ caller'[c].phase = "idle" /\ caller'[c].knew = {}
        BY <1>3, <2>2, CallEnds
      <3>2. RealtimeTypeOK'
        BY <2>1, <3>1 DEF RealtimeTypeOK
      <3> QED
        BY <1>4, <2>1, <3>1, <3>2
    <2>3. CASE Pass(c, "sent")
      <3>1. /\ caller' \in [Callers -> CallType] /\ CallsStay(c)
            /\ caller'[c].phase = "sent" /\ caller'[c].knew = caller[c].knew
            /\ caller'[c].login = caller[c].login /\ caller'[c].settings = caller[c].settings
        BY <1>3, <2>3, CallPasses DEF CallPhases
      <3>2. RealtimeTypeOK'
        BY <2>1, <3>1 DEF RealtimeTypeOK
      <3>3. Fine(c)'
        BY <2>1, <3>1
      <3> QED
        BY <1>4, <2>1, <3>1, <3>2, <3>3
    <2> QED
      BY <1>9, <2>2, <2>3, Zenon DEF Send
  <1>10. ASSUME NEW c \in Callers, NEW status \in {0, 200, 401, 403, 429}, NEW limit \in BOOLEAN,
                Answered(c, status, limit)
         PROVE Goal
    <2>1. UNCHANGED <<binding, authJson, realtimeDenied, denialFile, standing>>
          /\ caller[c].phase = "sent"
      BY <1>10 DEF Answered, World, Now
    <2> DEFINE reason == DenialReason(status, limit)
    <2>2. CASE Become(c, NoCall) /\ UNCHANGED denied
      <3>1. /\ caller' \in [Callers -> CallType] /\ CallsStay(c)
            /\ caller'[c].phase = "idle" /\ caller'[c].knew = {}
        BY <1>3, <2>2, CallEnds
      <3>2. RealtimeTypeOK'
        BY <2>1, <2>2, <3>1, ZenonT(60) DEF RealtimeTypeOK
      <3> QED
        BY <1>4, <2>1, <2>2, <3>1, <3>2
    <2>3. CASE /\ reason # ""
               /\ denied' = denied \cup {[login |-> caller[c].login, reason |-> reason]}
               /\ Become(c, [caller[c] EXCEPT !.phase = "denied", !.reason = reason])
      <3> DEFINE r == [caller[c] EXCEPT !.phase = "denied", !.reason = reason]
      <3>1. reason \in Reasons
        BY DEF DenialReason, Reasons
      <3>2. caller[c] \in CallType /\ "denied" \in CallPhases /\ Become(c, r)
        BY <1>3, <2>3, ZenonT(60) DEF CallPhases
      <3>3. reason # "" /\ denied' = denied \cup {[login |-> caller[c].login, reason |-> reason]}
        BY <2>3
      <3> HIDE DEF reason
      <3>4. /\ r \in CallType /\ r.phase = "denied" /\ r.login = caller[c].login /\ r.reason = reason
            /\ r.settings = caller[c].settings /\ r.knew = caller[c].knew /\ caller[c].login \in Logins
        BY <3>1, <3>2 DEF CallType
      <3> HIDE DEF r
      <3>5. caller' \in [Callers -> CallType] /\ caller'[c] = r /\ CallsStay(c)
        BY <1>3, <3>2, <3>4, CallBecomes
      <3>6. RealtimeTypeOK'
        <4>1. [login |-> caller[c].login, reason |-> reason] \in [login : Logins, reason : Reasons \ {""}]
          BY <3>1, <3>3, <3>4
        <4>2. denied \subseteq [login : Logins, reason : Reasons \ {""}]
          BY DEF RealtimeTypeOK
        <4>3. denied' \subseteq [login : Logins, reason : Reasons \ {""}]
          BY <3>3, <4>1, <4>2
        <4>4. denied \subseteq denied'
          BY <3>3
        <4> QED
          BY <2>1, <3>5, <4>3, <4>4, ZenonT(60) DEF RealtimeTypeOK
      <3>7. Denial(c)' \in denied'
        BY <3>3, <3>4, <3>5 DEF Denial
      <3>8. Fine(c)'
        BY <2>1, <3>4, <3>5, <3>7
      <3> QED
        BY <1>4, <2>1, <3>3, <3>5, <3>6, <3>8, ZenonT(60)
    <2> QED
      BY <1>10, <2>2, <2>3, Zenon DEF Answered
  <1>11. ASSUME NEW c \in Callers, Remember(c) PROVE Goal
    <2>1. UNCHANGED <<binding, authJson, denialFile, denied, standing>> /\ caller[c].phase = "denied"
          /\ realtimeDenied' = Denial(c) /\ Pass(c, "storing")
      BY <1>11 DEF Remember, World, Now
    <2>2. /\ caller' \in [Callers -> CallType] /\ CallsStay(c)
          /\ caller'[c].phase = "storing" /\ caller'[c].knew = caller[c].knew
          /\ caller'[c].login = caller[c].login /\ caller'[c].settings = caller[c].settings
          /\ caller'[c].reason = caller[c].reason
      BY <1>3, <2>1, CallPasses DEF CallPhases
    <2>3. Denial(c) \in denied /\ Denial(c)' = Denial(c)
      BY <2>1, <2>2 DEF Denial
    <2>4. RealtimeTypeOK'
      BY <2>1, <2>2, <2>3 DEF RealtimeTypeOK
    <2>5. Fine(c)'
      BY <2>1, <2>2, <2>3
    <2> QED
      BY <1>4, <2>1, <2>2, <2>4, <2>5
  \* The denial on disk is the only one that stands.
  <1>12. ASSUME NEW c \in Callers, Store(c) PROVE Goal
    <2>1. UNCHANGED <<binding, authJson, realtimeDenied, denied>> /\ caller[c].phase = "storing"
          /\ denialFile' = Denial(c) /\ standing' = {caller[c].login}
      BY <1>12 DEF Store, World, Now
    <2>2. /\ caller' \in [Callers -> CallType]
          /\ caller'[c].phase = "idle" /\ caller'[c].knew = {}
          /\ \A d \in Callers : d # c =>
                /\ caller'[d].knew = caller[d].knew \cap {caller[c].login}
                /\ caller'[d].login = caller[d].login /\ caller'[d].settings = caller[d].settings
                /\ caller'[d].reason = caller[d].reason /\ caller'[d].phase = caller[d].phase
      BY <1>3, <1>12, CallStores
    <2>3. Denial(c) \in denied
      BY <2>1
    <2>4. caller[c].login \in Logins
      BY <1>3 DEF CallType
    <2>5. RealtimeTypeOK'
      BY <2>1, <2>2, <2>3, <2>4 DEF RealtimeTypeOK
    <2>6. Denial(c) # NoDenial /\ Denial(c).login = caller[c].login
      <3>1. denied \subseteq [login : Logins, reason : Reasons]
        BY DEF RealtimeTypeOK
      <3> QED
        BY <2>3, <3>1, RealtimeAssumption DEF Denial
    <2>7. OnDisk'
      BY <2>1, <2>6
    <2>8. \A d \in Callers : Fine(d)'
      BY <2>1, <2>2 DEF Denial
    <2> QED
      BY <2>5, <2>7, <2>8
  <1>13. ASSUME NEW c \in Callers, StoreFails(c) \/ EndCall(c) PROVE Goal
    <2>1. UNCHANGED <<binding, authJson, realtimeDenied, denialFile, denied, standing>> /\ Become(c, NoCall)
      BY <1>13 DEF StoreFails, EndCall, World, Denials
    <2>2. /\ caller' \in [Callers -> CallType] /\ CallsStay(c)
          /\ caller'[c].phase = "idle" /\ caller'[c].knew = {}
      BY <1>3, <2>1, CallEnds
    <2>3. RealtimeTypeOK'
      BY <2>1, <2>2 DEF RealtimeTypeOK
    <2> QED
      BY <1>4, <2>1, <2>2, <2>3
  <1>14. CASE \/ \E b \in BindingChoices : Bind(b)
              \/ \E login \in LoginChoices : SignIn(login) \/ TokenExpires(login.token)
              \/ UNCHANGED realtimeVars
    <2>1. UNCHANGED <<caller, realtimeDenied, denialFile, denied, standing>>
          /\ binding' \in BindingChoices /\ authJson' \in LoginChoices
      BY <1>14 DEF Bind, SignIn, TokenExpires, UserChanges, Denials, realtimeVars, RealtimeTypeOK
    <2>2. RealtimeTypeOK'
      BY <2>1 DEF RealtimeTypeOK
    <2> QED
      BY <2>1, <2>2 DEF Denial
  <1>15. CASE Restart
    <2>1. UNCHANGED <<binding, authJson, denialFile, denied, standing>> /\ realtimeDenied' = NoDenial
          /\ caller' = [c \in Callers |-> NoCall]
      BY <1>15 DEF Restart, World
    <2>2. /\ caller' \in [Callers -> CallType]
          /\ \A d \in Callers : caller'[d].phase = "idle" /\ caller'[d].knew = {}
      BY <2>1, NoCallTyped
    <2>3. RealtimeTypeOK'
      BY <2>1, <2>2 DEF RealtimeTypeOK
    <2> QED
      BY <2>1, <2>2, <2>3
  <1> QED
    BY <1>5, <1>6, <1>7, <1>8, <1>9, <1>10, <1>11, <1>12, <1>13, <1>14, <1>15, SMTT(30) DEF RealtimeNext

\* Whoever is refused is whom the service has denied; and a login whose denial
\* is on disk is not sent again.
THEOREM DenialsAreExact == RealtimeSpec => []DenialsHitTheDenied
  <1>1. RealtimeIInv => DenialsHitTheDenied
    BY DEF RealtimeIInv, StandingIsOnDisk, CallsAreBound, DenialsHitTheDenied, Denial, Now
  <1> QED
    BY RealtimeStart, RealtimeStep, <1>1, PTL DEF RealtimeSpec

------------------------------------------------------------------------------
\* Skill and MCP backups.

\* What is left of a sequence, and what it began with.
LEMMA FirstAndRest ==
    ASSUME NEW S, NEW s \in Seq(S), s # <<>>
    PROVE  /\ Head(s) \in S /\ Head(s) \in ToSet(s) /\ Tail(s) \in Seq(S)
           /\ \A x \in ToSet(s) : x = Head(s) \/ x \in ToSet(Tail(s))
           /\ ToSet(Tail(s)) \subseteq ToSet(s)
  <1>1. Len(s) \in Nat \ {0} /\ DOMAIN s = 1 .. Len(s) /\ Head(s) = s[1]
    OBVIOUS
  <1>2. Tail(s) \in Seq(S) /\ DOMAIN Tail(s) = 1 .. Len(s) - 1
        /\ \A i \in 1 .. Len(s) - 1 : Tail(s)[i] = s[i + 1]
    OBVIOUS
  <1>3. Head(s) \in S /\ Head(s) \in ToSet(s)
    BY <1>1 DEF ToSet
  <1>4. ASSUME NEW x \in ToSet(s) PROVE x = Head(s) \/ x \in ToSet(Tail(s))
    <2>1. PICK i \in 1 .. Len(s) : x = s[i]
      BY <1>1, <1>4 DEF ToSet
    <2>2. CASE i = 1
      BY <1>1, <2>1, <2>2
    <2>3. CASE i # 1
      <3>1. i - 1 \in 1 .. Len(s) - 1 /\ Tail(s)[i - 1] = x
        BY <1>1, <1>2, <2>1, <2>3
      <3> QED
        BY <1>2, <3>1 DEF ToSet
    <2> QED
      BY <2>2, <2>3
  <1>5. ASSUME NEW x \in ToSet(Tail(s)) PROVE x \in ToSet(s)
    <2>1. PICK i \in 1 .. Len(s) - 1 : x = s[i + 1]
      BY <1>2, <1>5 DEF ToSet
    <2> QED
      BY <1>1, <2>1 DEF ToSet
  <1> QED
    BY <1>2, <1>3, <1>4, <1>5

LEMMA NoneLeft == ToSet(<<>>) = {}
  BY DEF ToSet

LEMMA EmptyTyped == Empty \in Content
  BY DEF Empty, Content

LEMMA NoRestoreTyped == NoRestore \in SkillType /\ ~NoRestore.alone /\ NoRestore.stage = "idle"
  <1>1. <<>> \in Seq(ToSet(SkillDirs))
    OBVIOUS
  <1>2. "idle" \in Ended \cup RunningStages /\ "idle" \notin RunningStages
    BY DEF Ended, RunningStages
  <1>3. NoRestore \in SkillRecords
    BY <1>1, <1>2, EmptyTyped DEF NoRestore, SkillRecords
  <1> QED
    BY <1>2, <1>3 DEF NoRestore, SkillType

\* A record with another stage and less left to do, and one that was meddled with.
Moved(r, stage, left) == [[r EXCEPT !.stage = stage] EXCEPT !.left = left]

LEMMA MovedTyped ==
    ASSUME NEW r \in SkillType, NEW stage \in Ended \cup RunningStages, NEW left \in Seq(ToSet(SkillDirs)),
           stage \in RunningStages => r.stage \in RunningStages, stage = "replacing" => left # <<>>
    PROVE  /\ Moved(r, stage, left) \in SkillType
           /\ Moved(r, stage, left).stage = stage /\ Moved(r, stage, left).left = left
           /\ Moved(r, stage, left).restores = r.restores /\ Moved(r, stage, left).source = r.source
           /\ Moved(r, stage, left).id = r.id /\ Moved(r, stage, left).current = r.current
           /\ Moved(r, stage, left).before = r.before /\ Moved(r, stage, left).alone = r.alone
  BY DEF SkillType, SkillRecords, Moved

LEMMA SameLeft ==
    ASSUME NEW r \in SkillType, NEW stage
    PROVE  r.left \in Seq(ToSet(SkillDirs)) /\ [r EXCEPT !.stage = stage] = Moved(r, stage, r.left)
  BY DEF SkillType, SkillRecords, Moved
LEMMA SameStage ==
    ASSUME NEW r \in SkillType, NEW left
    PROVE  r.stage \in Ended \cup RunningStages /\ [r EXCEPT !.left = left] = Moved(r, r.stage, left)
  BY DEF SkillType, SkillRecords, Moved

LEMMA MeddledTyped ==
    ASSUME NEW r \in SkillType
    PROVE  Meddled(r) \in SkillType /\ ~Meddled(r).alone
  <1>1. CASE r.stage \in Ended
    BY <1>1, NoRestoreTyped DEF Meddled
  <1>2. CASE r.stage \notin Ended
    <2>1. Meddled(r) = [r EXCEPT !.alone = FALSE, !.source = Empty, !.before = Empty]
      BY <1>2 DEF Meddled
    <2> HIDE DEF Meddled
    <2> QED
      BY <2>1, EmptyTyped DEF SkillType, SkillRecords
  <1> QED
    BY <1>1, <1>2

\* The records after an action of one command: the others keep theirs, or have
\* been meddled with.
OthersKeep(c) == \A d \in SkillCommands : d # c => skill'[d] = skill[d]
OthersMeddled(c) == \A d \in SkillCommands : d # c => ~skill'[d].alone

LEMMA RecordIsPut ==
    ASSUME SkillTypeOK, NEW c \in SkillCommands, NEW r \in SkillType, skill' = [skill EXCEPT ![c] = r]
    PROVE  skill' \in [SkillCommands -> SkillType] /\ skill'[c] = r /\ OthersKeep(c)
  <1>1. skill \in [SkillCommands -> SkillType]
    BY DEF SkillTypeOK
  <1> QED
    BY <1>1 DEF OthersKeep

LEMMA RecordDisturbs ==
    ASSUME SkillTypeOK, NEW c \in SkillCommands, NEW r \in SkillType, skill' = Disturbed(c, r)
    PROVE  skill' \in [SkillCommands -> SkillType] /\ skill'[c] = r /\ OthersMeddled(c)
  <1>1. skill \in [SkillCommands -> SkillType]
    BY DEF SkillTypeOK
  <1>2. \A d \in SkillCommands : Meddled(skill[d]) \in SkillType /\ ~Meddled(skill[d]).alone
    BY <1>1, MeddledTyped
  <1> HIDE DEF Meddled
  <1>3. skill' = [d \in SkillCommands |-> IF d = c THEN r ELSE Meddled(skill[d])]
    BY DEF Disturbed
  <1> QED
    BY <1>1, <1>2, <1>3 DEF OthersMeddled

LEMMA AllMeddled ==
    ASSUME SkillTypeOK, skill' = [c \in SkillCommands |-> Meddled(skill[c])]
    PROVE  skill' \in [SkillCommands -> SkillType] /\ \A d \in SkillCommands : ~skill'[d].alone
  <1>1. skill \in [SkillCommands -> SkillType]
    BY DEF SkillTypeOK
  <1>2. \A d \in SkillCommands : Meddled(skill[d]) \in SkillType /\ ~Meddled(skill[d]).alone
    BY <1>1, MeddledTyped
  <1> QED
    BY <1>2

\* A command that breaks off.
LEMMA BrokenOffTyped ==
    ASSUME SkillTypeOK, NEW c \in SkillCommands
    PROVE  /\ BrokenOff(c) \in SkillType
           /\ BrokenOff(c).alone =>
                 /\ skill[c].alone /\ BrokenOff(c).stage = "broken"
                 /\ BrokenOff(c).restores = skill[c].restores /\ BrokenOff(c).current = skill[c].current
                 /\ BrokenOff(c).before = skill[c].before
  <1>1. skill[c] \in SkillType
    BY DEF SkillTypeOK
  <1>2. CASE skill[c].alone
    <2>1. BrokenOff(c) = Moved(skill[c], "broken", skill[c].left)
      BY <1>1, <1>2, SameLeft DEF BrokenOff, AtStage
    <2>2. skill[c].left \in Seq(ToSet(SkillDirs)) /\ "broken" \in Ended \cup RunningStages
          /\ "broken" \notin RunningStages
      BY <1>1 DEF SkillType, SkillRecords, Ended, RunningStages
    <2>3. /\ BrokenOff(c) \in SkillType /\ BrokenOff(c).stage = "broken"
          /\ BrokenOff(c).restores = skill[c].restores /\ BrokenOff(c).current = skill[c].current
          /\ BrokenOff(c).before = skill[c].before
      BY <1>1, <2>1, <2>2, MovedTyped
    <2> QED
      BY <1>2, <2>3
  <1>3. CASE ~skill[c].alone
    BY <1>3, NoRestoreTyped DEF BrokenOff
  <1> QED
    BY <1>2, <1>3

\* What is stored in the backup of a command.
StoredIn(cur, p, version) ==
    /\ DOMAIN backups' = DOMAIN backups \cup {cur}
    /\ DOMAIN backups' \subseteq BackupIds /\ backups' \in [DOMAIN backups' -> Content]
    /\ \A i \in DOMAIN backups : i # cur => backups'[i] = backups[i]
    /\ cur \in DOMAIN backups =>
          \A q \in Parts : backups'[cur][q] = IF q = p THEN version ELSE backups[cur][q]

LEMMA StoredThere ==
    ASSUME SkillTypeOK, NEW c \in SkillCommands, skill[c].current \in BackupIds,
           NEW p \in Parts, NEW version \in Versions \cup {Missing, HalfDone}, Stored(c, p, version)
    PROVE  StoredIn(skill[c].current, p, version)
  <1> DEFINE cur == skill[c].current
             old(i) == IF i \in DOMAIN backups THEN backups[i] ELSE Empty
             new(i) == [old(i) EXCEPT ![p] = IF i = cur THEN version ELSE @]
  <1>1. DOMAIN backups \subseteq BackupIds /\ \A i \in DOMAIN backups : backups[i] \in Content
    BY DEF SkillTypeOK
  <1>2. \A i : old(i) \in Content
    BY <1>1, EmptyTyped
  <1> HIDE DEF old
  <1>3. \A i : new(i) \in Content /\ (i # cur => new(i) = old(i))
               /\ new(cur) = [old(cur) EXCEPT ![p] = version]
    BY <1>2 DEF Content
  <1>4. backups' = [i \in DOMAIN backups \cup {cur} |-> new(i)]
    BY DEF Stored, old
  <1>5. \A q \in Parts : new(cur)[q] = IF q = p THEN version ELSE old(cur)[q]
    BY <1>2, <1>3 DEF Content
  <1> HIDE DEF new
  <1>6. \A i \in DOMAIN backups : old(i) = backups[i]
    BY DEF old
  <1> QED
    BY <1>1, <1>3, <1>4, <1>5, <1>6 DEF StoredIn

\* When nobody else's restore is touched, and when everybody else's is, only
\* the command of the action is left to look at.
Orderly(c) == skill[c].alone => IsOrderly(skill[c])

LEMMA OnlyItsRecord ==
    ASSUME SkillTypeOK, RestoreIsOrderly, NEW c \in SkillCommands, UNCHANGED <<skillHome, backups>>,
           skill' \in [SkillCommands -> SkillType], OthersKeep(c), Orderly(c)'
    PROVE  SkillTypeOK' /\ RestoreIsOrderly'
  <1>1. SkillTypeOK'
    BY DEF SkillTypeOK
  <1>2. ASSUME NEW d \in SkillCommands PROVE Orderly(d)'
    <2>1. CASE d = c
      BY <2>1
    <2>2. CASE d # c
      <3>1. Orderly(d)
        BY DEF RestoreIsOrderly, Orderly
      <3> QED
        BY <2>2, <3>1 DEF OthersKeep, Orderly, IsOrderly, SourceIsThere, KeptWhole, AlreadyCopied,
                          AlreadyBack, SourceIsBack
    <2> QED
      BY <2>1, <2>2
  <1> QED
    BY <1>1, <1>2 DEF RestoreIsOrderly, Orderly

LEMMA OthersGiveUp ==
    ASSUME NEW c \in SkillCommands, (skillHome \in Content)',
           (DOMAIN backups \subseteq BackupIds /\ backups \in [DOMAIN backups -> Content])',
           skill' \in [SkillCommands -> SkillType], OthersMeddled(c), Orderly(c)'
    PROVE  SkillTypeOK' /\ RestoreIsOrderly'
  <1>1. SkillTypeOK'
    BY DEF SkillTypeOK
  <1>2. ASSUME NEW d \in SkillCommands PROVE Orderly(d)'
    <2>1. CASE d = c
      BY <2>1
    <2>2. CASE d # c
      BY <2>2 DEF OthersMeddled, Orderly
    <2> QED
      BY <2>1, <2>2
  <1> QED
    BY <1>1, <1>2 DEF RestoreIsOrderly, Orderly

LEMMA BeginStep ==
    ASSUME SkillTypeOK, RestoreIsOrderly, NEW c \in SkillCommands, BeginCreate(c) \/ BeginRestore(c)
    PROVE  SkillTypeOK' /\ RestoreIsOrderly'
  <1>1. CASE BeginCreate(c)
    <2>1. PICK id \in BackupIds :
             skill' = [skill EXCEPT ![c] = [NoRestore EXCEPT !.stage = "naming", !.current = id]]
      BY <1>1 DEF BeginCreate
    <2> DEFINE r == [NoRestore EXCEPT !.stage = "naming", !.current = id]
    <2>2. r \in SkillType /\ ~r.alone
      BY NoRestoreTyped DEF SkillType, SkillRecords, RunningStages
    <2>3. skill' = [skill EXCEPT ![c] = r]
      BY <2>1
    <2> HIDE DEF r
    <2>4. skill' \in [SkillCommands -> SkillType] /\ skill'[c] = r /\ OthersKeep(c)
      BY <2>2, <2>3, RecordIsPut
    <2>5. Orderly(c)'
      BY <2>2, <2>4 DEF Orderly
    <2> QED
      BY <1>1, <2>4, <2>5, OnlyItsRecord DEF BeginCreate
  <1>2. CASE BeginRestore(c)
    <2>1. PICK id \in DOMAIN backups, other \in BackupIds :
             /\ FreeId(other)
             /\ skill' = [skill EXCEPT ![c] =
                   [stage |-> "naming", restores |-> TRUE, source |-> backups[id], id |-> id,
                    current |-> other, left |-> <<>>, before |-> skillHome, alone |-> TRUE]]
      BY <1>2 DEF BeginRestore
    <2> DEFINE r == [stage |-> "naming", restores |-> TRUE, source |-> backups[id], id |-> id,
                     current |-> other, left |-> <<>>, before |-> skillHome, alone |-> TRUE]
    <2>2. /\ r.stage = "naming" /\ r.restores /\ r.source = backups[id] /\ r.id = id
          /\ r.current = other /\ r.before = skillHome
      OBVIOUS
    <2>3. r \in SkillType
      <3>1. backups[id] \in Content /\ id \in BackupIds /\ skillHome \in Content
        BY DEF SkillTypeOK
      <3>2. <<>> \in Seq(ToSet(SkillDirs))
        OBVIOUS
      <3>3. r \in SkillRecords
        BY <3>1, <3>2 DEF SkillRecords, RunningStages
      <3> QED
        BY <3>3 DEF SkillType
    <2>4. skill' = [skill EXCEPT ![c] = r]
      BY <2>1
    <2> HIDE DEF r
    <2>5. skill' \in [SkillCommands -> SkillType] /\ skill'[c] = r /\ OthersKeep(c)
      BY <2>3, <2>4, RecordIsPut
    <2>6. UNCHANGED <<skillHome, backups>>
      BY <1>2 DEF BeginRestore
    <2>7. Orderly(c)'
      BY <2>1, <2>2, <2>5, <2>6 DEF Orderly, IsOrderly, SourceIsThere, FreeId
    <2> QED
      BY <2>5, <2>6, <2>7, OnlyItsRecord
  <1> QED
    BY <1>1, <1>2

LEMMA MakeDirStep ==
    ASSUME SkillTypeOK, RestoreIsOrderly, NEW c \in SkillCommands, MakeDir(c)
    PROVE  SkillTypeOK' /\ RestoreIsOrderly'
  <1> DEFINE r == skill[c]
             s == Moved(r, "copying", SkillDirs)
  <1>1. r \in SkillType /\ r.stage = "naming" /\ r.current \in BackupIds
    BY DEF SkillTypeOK, MakeDir, SkillType, RunningStages
  <1>2. /\ s \in SkillType /\ s.stage = "copying" /\ s.left = SkillDirs /\ s.restores = r.restores
        /\ s.source = r.source /\ s.id = r.id /\ s.current = r.current /\ s.before = r.before
        /\ s.alone = r.alone
    <2>1. "copying" \in Ended \cup RunningStages /\ r.stage \in RunningStages
      BY <1>1 DEF RunningStages
    <2>2. SkillDirs \in Seq(ToSet(SkillDirs))
      BY SkillAssumption
    <2> QED
      BY <1>1, <2>1, <2>2, MovedTyped
  <1>3. skill' = Disturbed(c, s)
    BY DEF MakeDir, AtStage, Moved
  <1> HIDE DEF s
  <1>4. skill' \in [SkillCommands -> SkillType] /\ skill'[c] = s /\ OthersMeddled(c)
    BY <1>2, <1>3, RecordDisturbs
  <1>5. /\ DOMAIN backups' = DOMAIN backups \cup {r.current}
        /\ \A i \in DOMAIN backups' :
              backups'[i] = IF i \in DOMAIN backups THEN backups[i] ELSE Empty
        /\ backups' = [i \in DOMAIN backups \cup {r.current} |->
                          IF i \in DOMAIN backups THEN backups[i] ELSE Empty]
    BY DEF MakeDir
  <1>6. DOMAIN backups' \subseteq BackupIds /\ backups' \in [DOMAIN backups' -> Content]
    <2>1. DOMAIN backups \subseteq BackupIds /\ \A i \in DOMAIN backups : backups[i] \in Content
      BY DEF SkillTypeOK
    <2> QED
      BY <1>1, <1>5, <2>1, EmptyTyped
  <1>7. skillHome' = skillHome
    BY DEF MakeDir
  <1>8. ASSUME r.alone PROVE IsOrderly(skill[c])'
    <2>1. /\ r.restores /\ SourceIsThere(r) /\ r.current \notin DOMAIN backups /\ skillHome = r.before
      BY <1>1, <1>8 DEF RestoreIsOrderly, IsOrderly, RunningStages
    <2>2. backups'[r.current] = Empty
      BY <1>5, <2>1
    <2>3. SourceIsThere(skill[c])'
      BY <1>2, <1>4, <1>5, <2>1 DEF SourceIsThere
    <2>4. AlreadyCopied(skill[c])'
      BY <1>2, <1>4, <1>5, <2>2 DEF AlreadyCopied, Empty, Parts
    <2> QED
      BY <1>2, <1>4, <1>7, <2>1, <2>3, <2>4 DEF IsOrderly
  <1>9. Orderly(c)'
    BY <1>2, <1>4, <1>8 DEF Orderly
  <1>10. (skillHome \in Content)'
    BY <1>7 DEF SkillTypeOK
  <1> QED
    BY <1>4, <1>6, <1>9, <1>10, OthersGiveUp

\* A command that breaks off leaves the backup of the home, or the home as it was.
LEMMA BreaksInOrder ==
    ASSUME SkillTypeOK, NEW c \in SkillCommands, skill'[c] = BrokenOff(c),
           skill[c].alone => /\ skill[c].restores
                             /\ \/ KeptWhole(skill[c]) /\ backups' = backups
                                \/ skillHome = skill[c].before /\ skillHome' = skillHome
    PROVE  Orderly(c)'
  <1>1. ASSUME BrokenOff(c).alone PROVE IsOrderly(skill[c])'
    <2>1. /\ skill[c].alone /\ skill'[c].stage = "broken" /\ skill'[c].restores = skill[c].restores
          /\ skill'[c].current = skill[c].current /\ skill'[c].before = skill[c].before
      BY <1>1, BrokenOffTyped
    <2>2. (KeptWhole(skill[c]) \/ skillHome = skill[c].before)'
      BY <2>1 DEF KeptWhole
    <2> QED
      BY <2>1, <2>2 DEF IsOrderly, RunningStages
  <1> QED
    BY <1>1 DEF Orderly

LEMMA BreakStep ==
    ASSUME SkillTypeOK, RestoreIsOrderly, NEW c \in SkillCommands, Break(c),
           UNCHANGED <<skillHome, backups>>, skill[c].stage \in RunningStages
    PROVE  SkillTypeOK' /\ RestoreIsOrderly'
  <1>1. BrokenOff(c) \in SkillType
    BY BrokenOffTyped
  <1>2. skill' = [skill EXCEPT ![c] = BrokenOff(c)]
    BY DEF Break
  <1> HIDE DEF BrokenOff
  <1>3. skill' \in [SkillCommands -> SkillType] /\ skill'[c] = BrokenOff(c) /\ OthersKeep(c)
    BY <1>1, <1>2, RecordIsPut
  <1>4. skill[c].alone => skill[c].restores /\ (KeptWhole(skill[c]) \/ skillHome = skill[c].before)
    BY DEF RestoreIsOrderly, IsOrderly, RunningStages
  <1>5. Orderly(c)'
    BY <1>3, <1>4, BreaksInOrder
  <1> QED
    BY <1>3, <1>5, OnlyItsRecord

LEMMA CopyOutStep ==
    ASSUME SkillTypeOK, RestoreIsOrderly, NEW c \in SkillCommands, CopyOut(c)
    PROVE  SkillTypeOK' /\ RestoreIsOrderly'
  <1> DEFINE r == skill[c]
             dir == Head(r.left)
             remaining == Tail(r.left)
             s == Moved(r, "copying", remaining)
             cur == r.current
             version == Over(VersionIn(cur, dir), skillHome[dir])
  <1>1. r \in SkillType /\ r.stage = "copying" /\ cur \in BackupIds /\ r.left # <<>>
        /\ r.left \in Seq(ToSet(SkillDirs))
    BY DEF SkillTypeOK, CopyOut, SkillType, SkillRecords, RunningStages
  <1>2. /\ dir \in ToSet(SkillDirs) /\ dir \in ToSet(r.left) /\ remaining \in Seq(ToSet(SkillDirs))
        /\ \A x \in ToSet(r.left) : x = dir \/ x \in ToSet(remaining)
    BY <1>1, FirstAndRest
  <1>3. dir \in Parts /\ dir # ConfigTables
    BY <1>2, SkillAssumption DEF Parts
  <1> HIDE DEF remaining
  <1>4. /\ s \in SkillType /\ s.stage = "copying" /\ s.left = remaining /\ s.restores = r.restores
        /\ s.source = r.source /\ s.id = r.id /\ s.current = cur /\ s.before = r.before
        /\ s.alone = r.alone
    <2>1. "copying" \in Ended \cup RunningStages /\ r.stage \in RunningStages
      BY <1>1 DEF RunningStages
    <2> QED
      BY <1>1, <1>2, <2>1, MovedTyped
  <1>5. s = [r EXCEPT !.left = Tail(@)]
    BY <1>1, SameStage DEF Moved, remaining
  <1>6. skillHome' = skillHome /\ skillHome[dir] \in Versions \cup {Missing, HalfDone}
    BY <1>3 DEF CopyOut, SkillTypeOK, Content
  <1>7. r.alone =>
           /\ r.restores /\ SourceIsThere(r) /\ skillHome = r.before /\ AlreadyCopied(r)
    BY <1>1 DEF RestoreIsOrderly, IsOrderly, RunningStages
  <1>8. version \in Versions \cup {Missing, HalfDone}
    BY <1>6 DEF Over
  <1> HIDE DEF dir, s, version
  \* The home has no such directory.
  <1>9. CASE skillHome[dir] = Missing /\ UNCHANGED backups /\ skill' = [skill EXCEPT ![c].left = Tail(@)]
    <2>1. skill' = [skill EXCEPT ![c] = s]
      BY <1>5, <1>9
    <2>2. skill' \in [SkillCommands -> SkillType] /\ skill'[c] = s /\ OthersKeep(c)
      BY <1>4, <2>1, RecordIsPut
    <2>3. ASSUME r.alone PROVE IsOrderly(skill[c])'
      <3>1. SourceIsThere(skill[c])'
        BY <1>4, <1>7, <1>9, <2>2, <2>3 DEF SourceIsThere
      <3>2. AlreadyCopied(skill[c])'
        <4>1. UNCHANGED <<skillHome, backups>> /\ skillHome[dir] = Missing /\ skillHome = r.before
              /\ AlreadyCopied(r)
          BY <1>6, <1>7, <1>9, <2>3
        <4>2. \A p \in ToSet(SkillDirs) :
                 backups[cur][p] = r.before[p] \/ (p \in ToSet(remaining) /\ backups[cur][p] = Missing)
          BY <1>2, <4>1 DEF AlreadyCopied
        <4>3. skill'[c].current = cur /\ skill'[c].before = r.before /\ skill'[c].left = remaining
          BY <1>4, <2>2
        <4> QED
          BY <4>1, <4>2, <4>3 DEF AlreadyCopied
      <3> QED
        BY <1>4, <1>6, <1>7, <2>2, <2>3, <3>1, <3>2 DEF IsOrderly
    <2>4. Orderly(c)'
      BY <1>4, <2>2, <2>3 DEF Orderly
    <2> QED
      BY <1>6, <1>9, <2>2, <2>4, OnlyItsRecord
  \* It is copied.
  <1>10. CASE Stored(c, dir, version) /\ skill' = Disturbed(c, s)
    <2>1. skill' \in [SkillCommands -> SkillType] /\ skill'[c] = s /\ OthersMeddled(c)
      BY <1>4, <1>10, RecordDisturbs
    <2>2. /\ DOMAIN backups' = DOMAIN backups \cup {cur}
          /\ DOMAIN backups' \subseteq BackupIds /\ backups' \in [DOMAIN backups' -> Content]
          /\ \A i \in DOMAIN backups : i # cur => backups'[i] = backups[i]
          /\ cur \in DOMAIN backups =>
                \A q \in Parts : backups'[cur][q] = IF q = dir THEN version ELSE backups[cur][q]
      <3>1. StoredIn(cur, dir, version)
        BY <1>1, <1>3, <1>8, <1>10, StoredThere
      <3> QED
        BY <3>1 DEF StoredIn
    <2>3. ASSUME r.alone PROVE IsOrderly(skill[c])'
      <3>1. SourceIsThere(skill[c])'
        BY <1>4, <1>7, <2>1, <2>2, <2>3 DEF SourceIsThere
      <3>2. backups[cur][dir] \in {Missing, r.before[dir]} /\ cur \in DOMAIN backups
        BY <1>2, <1>7, <2>3 DEF AlreadyCopied
      <3>3. version = r.before[dir]
        BY <1>7, <2>3, <3>2 DEF version, Over, VersionIn
      <3>4. \A q \in ToSet(SkillDirs) : q \in Parts /\ ConfigTables \in Parts
        BY DEF Parts
      <3>5. AlreadyCopied(skill[c])'
        BY <1>2, <1>3, <1>4, <1>7, <2>1, <2>2, <2>3, <3>3, <3>4, SkillAssumption DEF AlreadyCopied
      <3> QED
        BY <1>4, <1>6, <1>7, <2>1, <2>3, <3>1, <3>5 DEF IsOrderly
    <2>4. Orderly(c)'
      BY <1>4, <2>1, <2>3 DEF Orderly
    <2>5. (skillHome \in Content)'
      BY <1>6 DEF SkillTypeOK
    <2> QED
      BY <2>1, <2>2, <2>4, <2>5, OthersGiveUp
  \* The copy breaks off.
  <1>11. CASE Stored(c, dir, HalfDone) /\ skill' = Disturbed(c, BrokenOff(c))
    <2>1. BrokenOff(c) \in SkillType
      BY BrokenOffTyped
    <2>2. skill' \in [SkillCommands -> SkillType] /\ skill'[c] = BrokenOff(c) /\ OthersMeddled(c)
      BY <1>11, <2>1, RecordDisturbs
    <2>3. DOMAIN backups' \subseteq BackupIds /\ backups' \in [DOMAIN backups' -> Content]
      BY <1>1, <1>3, <1>11, StoredThere DEF StoredIn
    <2>4. Orderly(c)'
      BY <1>6, <1>7, <2>2, BreaksInOrder
    <2>5. (skillHome \in Content)'
      BY <1>6 DEF SkillTypeOK
    <2> QED
      BY <2>2, <2>3, <2>4, <2>5, OthersGiveUp
  <1> QED
    BY <1>5, <1>9, <1>10, <1>11 DEF CopyOut, dir, version

LEMMA SnapshotStep ==
    ASSUME SkillTypeOK, RestoreIsOrderly, NEW c \in SkillCommands, Snapshot(c)
    PROVE  SkillTypeOK' /\ RestoreIsOrderly'
  <1> DEFINE r == skill[c]
             s == IF r.restores THEN Moved(r, "removing", SkillDirs) ELSE NoRestore
             cur == r.current
             tables == skillHome[ConfigTables]
  <1>1. r \in SkillType /\ r.stage = "copying" /\ cur \in BackupIds /\ r.left = <<>>
    BY DEF SkillTypeOK, Snapshot, SkillType, RunningStages
  <1>2. skillHome' = skillHome /\ tables \in Versions \cup {Missing, HalfDone} /\ ConfigTables \in Parts
    BY DEF Snapshot, SkillTypeOK, Content, Parts
  <1>3. r.alone =>
           /\ r.restores /\ SourceIsThere(r) /\ skillHome = r.before /\ AlreadyCopied(r)
    BY <1>1 DEF RestoreIsOrderly, IsOrderly, RunningStages
  <1>4. /\ s \in SkillType
        /\ s.alone => /\ r.alone /\ s.stage = "removing" /\ s.left = SkillDirs
                      /\ s.restores = r.restores /\ s.source = r.source /\ s.id = r.id
                      /\ s.current = cur /\ s.before = r.before
    <2>1. "removing" \in Ended \cup RunningStages /\ r.stage \in RunningStages
      BY <1>1 DEF RunningStages
    <2>2. SkillDirs \in Seq(ToSet(SkillDirs))
      BY SkillAssumption
    <2>3. /\ Moved(r, "removing", SkillDirs) \in SkillType
          /\ Moved(r, "removing", SkillDirs).stage = "removing"
          /\ Moved(r, "removing", SkillDirs).left = SkillDirs
          /\ Moved(r, "removing", SkillDirs).restores = r.restores
          /\ Moved(r, "removing", SkillDirs).source = r.source
          /\ Moved(r, "removing", SkillDirs).id = r.id
          /\ Moved(r, "removing", SkillDirs).current = cur
          /\ Moved(r, "removing", SkillDirs).before = r.before
          /\ Moved(r, "removing", SkillDirs).alone = r.alone
      BY <1>1, <2>1, <2>2, MovedTyped
    <2> QED
      BY <2>3, NoRestoreTyped
  <1>5. s = IF r.restores THEN [AtStage(c, "removing") EXCEPT !.left = SkillDirs] ELSE NoRestore
    BY DEF AtStage, Moved
  <1> HIDE DEF s
  <1>6. CASE /\ IF tables = Missing THEN UNCHANGED backups ELSE Stored(c, ConfigTables, tables)
             /\ skill' = Disturbed(c, s)
    <2>1. skill' \in [SkillCommands -> SkillType] /\ skill'[c] = s /\ OthersMeddled(c)
      BY <1>4, <1>6, RecordDisturbs
    <2>2. /\ DOMAIN backups' \subseteq BackupIds /\ backups' \in [DOMAIN backups' -> Content]
          /\ \A i \in DOMAIN backups : i \in DOMAIN backups' /\ (i # cur => backups'[i] = backups[i])
      <3>1. CASE tables = Missing
        BY <1>6, <3>1 DEF SkillTypeOK
      <3>2. CASE tables # Missing
        BY <1>1, <1>2, <1>6, <3>2, StoredThere DEF StoredIn
      <3> QED
        BY <3>1, <3>2
    <2>3. ASSUME s.alone PROVE IsOrderly(skill[c])'
      <3>1. r.alone
        BY <1>4, <2>3
      <3>2. cur \in DOMAIN backups /\ backups[cur][ConfigTables] = Missing
            /\ \A q \in ToSet(SkillDirs) : backups[cur][q] = r.before[q]
        BY <1>1, <1>3, <3>1, NoneLeft DEF AlreadyCopied
      <3>3. \A q \in Parts : backups'[cur][q] = r.before[q]
        <4>1. CASE tables = Missing
          BY <1>3, <1>6, <3>1, <3>2, <4>1 DEF Parts
        <4>2. CASE tables # Missing
          <5>1. \A q \in Parts : backups'[cur][q] = IF q = ConfigTables THEN tables ELSE backups[cur][q]
            <6>1. StoredIn(cur, ConfigTables, tables)
              BY <1>1, <1>2, <1>6, <4>2, StoredThere
            <6> QED
              BY <3>2, <6>1 DEF StoredIn
          <5> QED
            BY <1>3, <3>1, <3>2, <5>1 DEF Parts
        <4> QED
          BY <4>1, <4>2
      <3>4. backups'[cur] \in Content /\ r.before \in Content
        BY <1>1, <2>2, <3>2 DEF SkillType, SkillRecords
      <3>5. backups'[cur] = r.before
        BY <3>3, <3>4 DEF Content
      <3>6. KeptWhole(skill[c])'
        BY <1>4, <2>1, <2>2, <2>3, <3>2, <3>5 DEF KeptWhole
      <3>7. SourceIsThere(skill[c])'
        BY <1>3, <1>4, <2>1, <2>2, <2>3, <3>1 DEF SourceIsThere
      <3>8. AlreadyBack(skill[c])'
        BY <1>2, <1>3, <1>4, <2>1, <2>3, <3>1 DEF AlreadyBack
      <3> QED
        BY <1>3, <1>4, <2>1, <2>3, <3>1, <3>6, <3>7, <3>8 DEF IsOrderly
    <2>4. Orderly(c)'
      BY <2>1, <2>3 DEF Orderly
    <2>5. (skillHome \in Content)'
      BY <1>2 DEF SkillTypeOK
    <2> QED
      BY <2>1, <2>2, <2>4, <2>5, OthersGiveUp
  <1>7. CASE UNCHANGED backups /\ Break(c)
    BY <1>1, <1>2, <1>7, BreakStep DEF RunningStages
  \* The metadata fail.
  <1>8. CASE /\ IF tables = Missing THEN UNCHANGED backups ELSE Stored(c, ConfigTables, tables)
             /\ skill' = Disturbed(c, BrokenOff(c))
    <2>1. BrokenOff(c) \in SkillType
      BY BrokenOffTyped
    <2>2. skill' \in [SkillCommands -> SkillType] /\ skill'[c] = BrokenOff(c) /\ OthersMeddled(c)
      BY <1>8, <2>1, RecordDisturbs
    <2>3. /\ DOMAIN backups' \subseteq BackupIds /\ backups' \in [DOMAIN backups' -> Content]
          /\ \A i \in DOMAIN backups : i \in DOMAIN backups' /\ (i # cur => backups'[i] = backups[i])
      <3>1. CASE tables = Missing
        BY <1>8, <3>1 DEF SkillTypeOK
      <3>2. CASE tables # Missing
        BY <1>1, <1>2, <1>8, <3>2, StoredThere DEF StoredIn
      <3> QED
        BY <3>1, <3>2
    <2>4. Orderly(c)'
      BY <1>2, <1>3, <2>2, BreaksInOrder
    <2>5. (skillHome \in Content)'
      BY <1>2 DEF SkillTypeOK
    <2> QED
      BY <2>2, <2>3, <2>4, <2>5, OthersGiveUp
  <1> QED
    BY <1>5, <1>6, <1>7, <1>8 DEF Snapshot

\* A part of the home is changed.
LEMMA HomeChanges ==
    ASSUME SkillTypeOK, NEW p \in Parts, NEW version \in Versions \cup {Missing, HalfDone},
           skillHome' = [skillHome EXCEPT ![p] = version]
    PROVE  /\ (skillHome \in Content)'
           /\ skillHome'[p] = version /\ \A q \in Parts : q # p => skillHome'[q] = skillHome[q]
  BY DEF SkillTypeOK, Content

\* What a restore that brings back the backup has behind it.
LEMMA WhileRestoring ==
    ASSUME SkillTypeOK, RestoreIsOrderly, NEW c \in SkillCommands, skill[c].alone,
           skill[c].stage \in {"removing", "replacing"}
    PROVE  /\ skill[c].restores /\ SourceIsThere(skill[c]) /\ KeptWhole(skill[c]) /\ AlreadyBack(skill[c])
           /\ skill[c].stage = "replacing" => skillHome[Head(skill[c].left)] = Missing
  BY DEF RestoreIsOrderly, IsOrderly, RunningStages

\* A restore that breaks off when it has changed the home.
LEMMA BreaksWithHome ==
    ASSUME SkillTypeOK, RestoreIsOrderly, NEW c \in SkillCommands,
           skill[c].stage \in {"removing", "replacing"}, UNCHANGED backups,
           NEW p \in Parts, NEW version \in Versions \cup {Missing, HalfDone},
           skillHome' = [skillHome EXCEPT ![p] = version], skill' = Disturbed(c, BrokenOff(c))
    PROVE  SkillTypeOK' /\ RestoreIsOrderly'
  <1>1. BrokenOff(c) \in SkillType
    BY BrokenOffTyped
  <1>2. skill' \in [SkillCommands -> SkillType] /\ skill'[c] = BrokenOff(c) /\ OthersMeddled(c)
    BY <1>1, RecordDisturbs
  <1>3. (skillHome \in Content)'
    BY HomeChanges
  <1>4. skill[c].alone => skill[c].restores /\ KeptWhole(skill[c])
    BY WhileRestoring
  <1>5. Orderly(c)'
    BY <1>2, <1>4, BreaksInOrder
  <1>6. (DOMAIN backups \subseteq BackupIds /\ backups \in [DOMAIN backups -> Content])'
    BY DEF SkillTypeOK
  <1> QED
    BY <1>2, <1>3, <1>5, <1>6, OthersGiveUp

LEMMA RemoveDirStep ==
    ASSUME SkillTypeOK, RestoreIsOrderly, NEW c \in SkillCommands, RemoveDir(c)
    PROVE  SkillTypeOK' /\ RestoreIsOrderly'
  <1> DEFINE r == skill[c]
             dir == Head(r.left)
             s == Moved(r, "replacing", r.left)
  <1>1. r \in SkillType /\ r.stage = "removing" /\ r.left # <<>> /\ r.left \in Seq(ToSet(SkillDirs))
        /\ UNCHANGED backups
    BY DEF SkillTypeOK, RemoveDir, SkillType, SkillRecords
  <1>2. dir \in ToSet(SkillDirs) /\ dir \in ToSet(r.left)
    BY <1>1, FirstAndRest
  <1>3. dir \in Parts /\ dir # ConfigTables
    BY <1>2, SkillAssumption DEF Parts
  <1>4. /\ s \in SkillType /\ s.stage = "replacing" /\ s.left = r.left /\ s.restores = r.restores
        /\ s.source = r.source /\ s.id = r.id /\ s.current = r.current /\ s.before = r.before
        /\ s.alone = r.alone
    <2>1. "replacing" \in Ended \cup RunningStages /\ r.stage \in RunningStages
      BY <1>1 DEF RunningStages
    <2> QED
      BY <1>1, <2>1, MovedTyped
  <1>5. s = AtStage(c, "replacing")
    BY <1>1, SameLeft DEF AtStage
  <1> HIDE DEF s
  <1>6. CASE skillHome' = [skillHome EXCEPT ![dir] = Missing] /\ skill' = Disturbed(c, s)
    <2>1. skill' \in [SkillCommands -> SkillType] /\ skill'[c] = s /\ OthersMeddled(c)
      BY <1>4, <1>6, RecordDisturbs
    <2>2. /\ (skillHome \in Content)'
          /\ skillHome'[dir] = Missing /\ \A q \in Parts : q # dir => skillHome'[q] = skillHome[q]
      BY <1>3, <1>6, HomeChanges
    <2> HIDE DEF dir
    <2>3. ASSUME r.alone PROVE IsOrderly(skill[c])'
      <3>1. r.restores /\ SourceIsThere(r) /\ KeptWhole(r) /\ AlreadyBack(r)
        BY <1>1, <2>3, WhileRestoring
      <3>2. SourceIsThere(skill[c])' /\ KeptWhole(skill[c])'
        BY <1>1, <1>4, <2>1, <3>1 DEF SourceIsThere, KeptWhole
      <3>3. AlreadyBack(skill[c])'
        <4>1. ConfigTables \in Parts /\ ToSet(SkillDirs) \subseteq Parts
          BY DEF Parts
        <4> QED
          BY <1>2, <1>3, <1>4, <2>1, <2>2, <3>1, <4>1 DEF AlreadyBack
      <3>4. skillHome'[Head(skill'[c].left)] = Missing
        BY <1>1, <1>4, <2>1, <2>2 DEF dir
      <3> QED
        BY <1>4, <2>1, <3>1, <3>2, <3>3, <3>4 DEF IsOrderly
    <2>4. Orderly(c)'
      BY <1>4, <2>1, <2>3 DEF Orderly
    <2>5. (DOMAIN backups \subseteq BackupIds /\ backups \in [DOMAIN backups -> Content])'
      BY <1>1 DEF SkillTypeOK
    <2> QED
      BY <2>1, <2>2, <2>4, <2>5, OthersGiveUp
  <1>7. CASE /\ skillHome' = [skillHome EXCEPT ![dir] = IF @ = Missing THEN Missing ELSE HalfDone]
             /\ skill' = Disturbed(c, BrokenOff(c))
    <2> DEFINE version == IF skillHome[dir] = Missing THEN Missing ELSE HalfDone
    <2>1. version \in Versions \cup {Missing, HalfDone} /\ skillHome' = [skillHome EXCEPT ![dir] = version]
      BY <1>7
    <2> HIDE DEF version, dir
    <2> QED
      BY <1>1, <1>3, <1>7, <2>1, BreaksWithHome
  <1> QED
    BY <1>5, <1>6, <1>7 DEF RemoveDir

LEMMA CopyBackStep ==
    ASSUME SkillTypeOK, RestoreIsOrderly, NEW c \in SkillCommands, CopyBack(c)
    PROVE  SkillTypeOK' /\ RestoreIsOrderly'
  <1> DEFINE r == skill[c]
             dir == Head(r.left)
             remaining == Tail(r.left)
             s == Moved(r, "removing", remaining)
             version == VersionIn(r.id, dir)
             after == IF version = Missing THEN skillHome[dir] ELSE Over(skillHome[dir], version)
  <1>1. r \in SkillType /\ r.stage = "replacing" /\ r.left \in Seq(ToSet(SkillDirs)) /\ r.left # <<>>
        /\ UNCHANGED backups
    BY DEF SkillTypeOK, CopyBack, SkillType, SkillRecords
  <1>2. /\ dir \in ToSet(SkillDirs) /\ remaining \in Seq(ToSet(SkillDirs))
        /\ \A x \in ToSet(r.left) : x = dir \/ x \in ToSet(remaining)
    BY <1>1, FirstAndRest
  <1>3. dir \in Parts /\ dir # ConfigTables
    BY <1>2, SkillAssumption DEF Parts
  <1>4. version \in Versions \cup {Missing, HalfDone} /\ skillHome[dir] \in Versions \cup {Missing, HalfDone}
    BY <1>3 DEF VersionIn, SkillTypeOK, Content
  <1>5. after \in Versions \cup {Missing, HalfDone}
    BY <1>4 DEF Over
  <1> HIDE DEF remaining
  <1>6. /\ s \in SkillType /\ s.stage = "removing" /\ s.left = remaining /\ s.restores = r.restores
        /\ s.source = r.source /\ s.id = r.id /\ s.current = r.current /\ s.before = r.before
        /\ s.alone = r.alone
    <2>1. "removing" \in Ended \cup RunningStages /\ r.stage \in RunningStages
      BY <1>1 DEF RunningStages
    <2> QED
      BY <1>1, <1>2, <2>1, MovedTyped
  <1>7. s = [AtStage(c, "removing") EXCEPT !.left = Tail(@)]
    BY <1>1 DEF AtStage, Moved, remaining, SkillType, SkillRecords
  <1> HIDE DEF s
  <1>8. CASE skillHome' = [skillHome EXCEPT ![dir] = after] /\ skill' = Disturbed(c, s)
    <2>1. skill' \in [SkillCommands -> SkillType] /\ skill'[c] = s /\ OthersMeddled(c)
      BY <1>6, <1>8, RecordDisturbs
    <2> HIDE DEF after
    <2>2. /\ (skillHome \in Content)'
          /\ skillHome'[dir] = after /\ \A q \in Parts : q # dir => skillHome'[q] = skillHome[q]
      BY <1>3, <1>5, <1>8, HomeChanges
    <2>3. ASSUME r.alone PROVE IsOrderly(skill[c])'
      <3>1. r.restores /\ SourceIsThere(r) /\ KeptWhole(r) /\ AlreadyBack(r) /\ skillHome[dir] = Missing
        BY <1>1, <2>3, WhileRestoring
      <3>2. SourceIsThere(skill[c])' /\ KeptWhole(skill[c])'
        BY <1>1, <1>6, <2>1, <3>1 DEF SourceIsThere, KeptWhole
      <3>3. after = r.source[dir]
        BY <3>1 DEF after, Over, VersionIn, SourceIsThere
      <3> HIDE DEF dir, version
      <3>4. AlreadyBack(skill[c])'
        <4>1. ConfigTables \in Parts /\ ToSet(SkillDirs) \subseteq Parts
          BY DEF Parts
        <4>2. \A q \in ToSet(SkillDirs) \ ToSet(remaining) : skillHome'[q] = r.source[q]
          <5>1. \A q \in ToSet(SkillDirs) \ ToSet(r.left) : skillHome[q] = r.source[q]
            BY <3>1 DEF AlreadyBack
          <5> QED
            BY <1>2, <2>2, <3>3, <4>1, <5>1
        <4>3. skillHome'[ConfigTables] = r.before[ConfigTables]
          BY <1>3, <2>2, <3>1, <4>1 DEF AlreadyBack
        <4> QED
          BY <1>6, <2>1, <4>2, <4>3 DEF AlreadyBack
      <3> QED
        BY <1>6, <2>1, <3>1, <3>2, <3>4 DEF IsOrderly
    <2>4. Orderly(c)'
      BY <1>6, <2>1, <2>3 DEF Orderly
    <2>5. (DOMAIN backups \subseteq BackupIds /\ backups \in [DOMAIN backups -> Content])'
      BY <1>1 DEF SkillTypeOK
    <2> QED
      BY <2>1, <2>2, <2>4, <2>5, OthersGiveUp
  <1>9. CASE skillHome' = [skillHome EXCEPT ![dir] = HalfDone] /\ skill' = Disturbed(c, BrokenOff(c))
    <2>1. HalfDone \in Versions \cup {Missing, HalfDone}
      OBVIOUS
    <2> HIDE DEF dir
    <2> QED
      BY <1>1, <1>3, <1>9, <2>1, BreaksWithHome
  <1> QED
    BY <1>7, <1>8, <1>9 DEF CopyBack

LEMMA RestoreTablesStep ==
    ASSUME SkillTypeOK, RestoreIsOrderly, NEW c \in SkillCommands, RestoreTables(c)
    PROVE  SkillTypeOK' /\ RestoreIsOrderly'
  <1> DEFINE r == skill[c]
             version == VersionIn(r.id, ConfigTables)
             after == IF version = Missing THEN skillHome[ConfigTables] ELSE version
             finished == Moved(r, "restored", r.left)
             s == IF r.alone THEN finished ELSE NoRestore
  <1>1. r \in SkillType /\ r.stage = "removing" /\ r.left = <<>> /\ UNCHANGED backups
    BY DEF SkillTypeOK, RestoreTables
  <1>2. ConfigTables \in Parts /\ ToSet(SkillDirs) \subseteq Parts
        /\ \A p \in Parts : p = ConfigTables \/ p \in ToSet(SkillDirs)
    BY DEF Parts
  <1>3. after \in Versions \cup {Missing, HalfDone}
    BY <1>2 DEF VersionIn, SkillTypeOK, Content
  <1>10. r \in SkillType
    BY <1>1
  <1>4. /\ finished \in SkillType /\ finished.stage = "restored" /\ finished.restores = r.restores
        /\ finished.source = r.source /\ finished.current = r.current /\ finished.before = r.before
        /\ finished.alone = r.alone
    <2>1. "restored" \in Ended \cup RunningStages /\ "restored" \notin RunningStages
      BY DEF Ended, RunningStages
    <2>2. r.left \in Seq(ToSet(SkillDirs))
      BY <1>1 DEF SkillType, SkillRecords
    <2> QED
      BY <1>10, <2>1, <2>2, MovedTyped
  <1>5. finished = AtStage(c, "restored")
    BY <1>1, SameLeft DEF AtStage
  <1> HIDE DEF finished
  <1>6. s \in SkillType /\ s.alone = r.alone
    BY <1>4, NoRestoreTyped DEF NoRestore, SkillType, SkillRecords
  <1>7. CASE skillHome' = [skillHome EXCEPT ![ConfigTables] = after] /\ skill' = Disturbed(c, s)
    <2> HIDE DEF s
    <2>1. skill' \in [SkillCommands -> SkillType] /\ skill'[c] = s /\ OthersMeddled(c)
      BY <1>6, <1>7, RecordDisturbs
    <2> HIDE DEF after
    <2>2. /\ (skillHome \in Content)' /\ skillHome'[ConfigTables] = after
          /\ \A q \in Parts : q # ConfigTables => skillHome'[q] = skillHome[q]
      BY <1>2, <1>3, <1>7, HomeChanges
    <2>3. ASSUME r.alone PROVE IsOrderly(skill[c])'
      <3>1. r.restores /\ SourceIsThere(r) /\ KeptWhole(r) /\ AlreadyBack(r)
        BY <1>1, <2>3, WhileRestoring
      <3>2. skill'[c] = finished
        BY <2>1, <2>3 DEF s
      <3>3. KeptWhole(skill[c])'
        BY <1>1, <1>4, <3>1, <3>2 DEF KeptWhole
      <3>4. after = IF r.source[ConfigTables] = Missing THEN r.before[ConfigTables]
                    ELSE r.source[ConfigTables]
        BY <3>1 DEF after, VersionIn, SourceIsThere, AlreadyBack
      <3>5. \A q \in ToSet(SkillDirs) : skillHome[q] = r.source[q]
        BY <1>1, <3>1, NoneLeft DEF AlreadyBack
      <3>6. SourceIsBack(skill[c])'
        BY <1>2, <1>4, <2>2, <3>2, <3>4, <3>5, SkillAssumption DEF SourceIsBack
      <3> QED
        BY <1>4, <3>1, <3>2, <3>3, <3>6 DEF IsOrderly, RunningStages
    <2>4. Orderly(c)'
      BY <1>6, <2>1, <2>3 DEF Orderly
    <2>5. (DOMAIN backups \subseteq BackupIds /\ backups \in [DOMAIN backups -> Content])'
      BY <1>1 DEF SkillTypeOK
    <2> QED
      BY <2>1, <2>2, <2>4, <2>5, OthersGiveUp
  <1>8. CASE UNCHANGED skillHome /\ Break(c)
    BY <1>1, <1>8, BreakStep DEF RunningStages
  <1> QED
    BY <1>5, <1>7, <1>8 DEF RestoreTables

\* Changes by others: nobody is alone afterwards.
LEMMA NobodyIsAlone ==
    ASSUME SkillTypeOK, skill' = [c \in SkillCommands |-> Meddled(skill[c])],
           (skillHome \in Content)',
           (DOMAIN backups \subseteq BackupIds /\ backups \in [DOMAIN backups -> Content])'
    PROVE  SkillTypeOK' /\ RestoreIsOrderly'
  <1>1. skill' \in [SkillCommands -> SkillType] /\ \A d \in SkillCommands : ~skill'[d].alone
    BY AllMeddled
  <1> QED
    BY <1>1 DEF SkillTypeOK, RestoreIsOrderly

LEMMA DeleteStep ==
    ASSUME SkillTypeOK, NEW id \in DOMAIN backups, DeleteBackup(id)
    PROVE  SkillTypeOK' /\ RestoreIsOrderly'
  <1>1. DOMAIN backups \subseteq BackupIds /\ \A i \in DOMAIN backups : backups[i] \in Content
        /\ backups \in [DOMAIN backups -> Content]
    BY DEF SkillTypeOK
  <1>2. (DOMAIN backups \subseteq BackupIds /\ backups \in [DOMAIN backups -> Content])'
    <2>1. CASE backups' = [i \in DOMAIN backups \ {id} |-> backups[i]]
      BY <1>1, <2>1
    <2>2. ASSUME NEW p \in Parts, backups' = [backups EXCEPT ![id][p] = HalfDone]
          PROVE  (DOMAIN backups \subseteq BackupIds /\ backups \in [DOMAIN backups -> Content])'
      <3> DEFINE torn == [backups[id] EXCEPT ![p] = HalfDone]
      <3>1. torn \in Content
        BY <1>1 DEF Content
      <3>2. backups' = [backups EXCEPT ![id] = torn]
        BY <2>2
      <3> HIDE DEF torn
      <3> QED
        BY <1>1, <3>1, <3>2
    <2> QED
      BY <2>1, <2>2 DEF DeleteBackup
  <1>3. (skillHome \in Content)'
    BY DEF SkillTypeOK, DeleteBackup
  <1> QED
    BY <1>2, <1>3, NobodyIsAlone DEF DeleteBackup

LEMMA EditStep ==
    ASSUME SkillTypeOK, NEW p \in Parts, NEW version \in Versions \cup {Missing}, Edit(p, version)
    PROVE  SkillTypeOK' /\ RestoreIsOrderly'
  <1>1. (skillHome \in Content)'
    BY HomeChanges DEF Edit
  <1>2. (DOMAIN backups \subseteq BackupIds /\ backups \in [DOMAIN backups -> Content])'
    BY DEF SkillTypeOK, Edit
  <1> QED
    BY <1>1, <1>2, NobodyIsAlone DEF Edit

LEMMA CrashStep ==
    ASSUME SkillTypeOK, RestoreIsOrderly, SkillCrash
    PROVE  SkillTypeOK' /\ RestoreIsOrderly'
  <1>1. UNCHANGED <<skillHome, backups>> /\ skill \in [SkillCommands -> SkillType]
        /\ skill' = [c \in SkillCommands |-> IF IsRunning(c) THEN BrokenOff(c) ELSE skill[c]]
    BY DEF SkillCrash, SkillTypeOK
  <1>2. \A c \in SkillCommands : BrokenOff(c) \in SkillType
    BY BrokenOffTyped
  <1> HIDE DEF BrokenOff, IsRunning
  <1>3. SkillTypeOK'
    BY <1>1, <1>2 DEF SkillTypeOK
  <1>4. ASSUME NEW c \in SkillCommands PROVE Orderly(c)'
    <2>1. CASE IsRunning(c)
      <3>1. skill'[c] = BrokenOff(c)
        BY <1>1, <2>1
      <3>2. skill[c].stage \in RunningStages
        BY <1>1, <2>1 DEF IsRunning, SkillType, SkillRecords
      <3>3. skill[c].alone => skill[c].restores /\ (KeptWhole(skill[c]) \/ skillHome = skill[c].before)
        BY <3>2 DEF RestoreIsOrderly, IsOrderly, RunningStages
      <3> QED
        BY <1>1, <3>1, <3>3, BreaksInOrder
    <2>2. CASE ~IsRunning(c)
      <3>1. skill'[c] = skill[c] /\ UNCHANGED <<skillHome, backups>>
        BY <1>1, <2>2
      <3>2. Orderly(c)
        BY DEF RestoreIsOrderly, Orderly
      <3> QED
        BY <3>1, <3>2 DEF Orderly, IsOrderly, SourceIsThere, KeptWhole, AlreadyCopied, AlreadyBack, SourceIsBack
    <2> QED
      BY <2>1, <2>2
  <1> QED
    BY <1>3, <1>4 DEF RestoreIsOrderly, Orderly

LEMMA SkillStart == SkillInit => SkillIInv
  <1> SUFFICES ASSUME SkillInit PROVE SkillIInv
    OBVIOUS
  <1>1. skillHome \in Content /\ skill = [c \in SkillCommands |-> NoRestore]
    BY DEF SkillInit, Content
  <1>2. DOMAIN backups = {Old} /\ \A i \in {Old} : backups[i] \in Content
    BY DEF SkillInit, Content
  <1>3. SkillTypeOK
    <2>1. backups \in [{Old} -> [Parts -> Versions \cup {Missing}]]
      BY DEF SkillInit
    <2> QED
      BY <1>1, <1>2, <2>1, NoRestoreTyped, SkillAssumption DEF SkillTypeOK
  <1>4. RestoreIsOrderly
    BY <1>1, NoRestoreTyped DEF RestoreIsOrderly
  <1> QED
    BY <1>3, <1>4 DEF SkillIInv

LEMMA SkillStep == SkillIInv /\ [SkillNext]_skillVars => SkillIInv'
  <1> SUFFICES ASSUME SkillTypeOK, RestoreIsOrderly, [SkillNext]_skillVars
               PROVE  SkillTypeOK' /\ RestoreIsOrderly'
    BY DEF SkillIInv
  <1>1. ASSUME NEW c \in SkillCommands,
               \/ BeginCreate(c) \/ BeginRestore(c) \/ MakeDir(c) \/ CopyOut(c) \/ Snapshot(c)
               \/ RemoveDir(c) \/ CopyBack(c) \/ RestoreTables(c)
        PROVE  SkillTypeOK' /\ RestoreIsOrderly'
    BY <1>1, BeginStep, MakeDirStep, CopyOutStep, SnapshotStep, RemoveDirStep, CopyBackStep,
       RestoreTablesStep
  <1>2. ASSUME NEW id \in DOMAIN backups, DeleteBackup(id) PROVE SkillTypeOK' /\ RestoreIsOrderly'
    BY <1>2, DeleteStep
  <1>3. ASSUME NEW p \in Parts, NEW version \in Versions \cup {Missing}, Edit(p, version)
        PROVE  SkillTypeOK' /\ RestoreIsOrderly'
    BY <1>3, EditStep
  <1>4. CASE SkillCrash
    BY <1>4, CrashStep
  <1>5. CASE UNCHANGED skillVars
    BY <1>5 DEF skillVars, SkillTypeOK, RestoreIsOrderly, IsOrderly, SourceIsThere, KeptWhole,
                AlreadyCopied, AlreadyBack, SourceIsBack
  <1> QED
    BY <1>1, <1>2, <1>3, <1>4, <1>5 DEF SkillNext

\* Whatever a restore has replaced, and wherever it failed, the backup made
\* before holds the home as it was, and one that succeeded has brought back what
\* the backup holds.
THEOREM RestoresCanBeTakenBack == SkillSpec => []RestoreIsReversible
  <1>1. SkillIInv => RestoreIsReversible
    <2> SUFFICES ASSUME SkillTypeOK, RestoreIsOrderly, NEW c \in SkillCommands, skill[c].alone
                 PROVE  /\ skillHome # skill[c].before => backups[skill[c].current] = skill[c].before
                        /\ skill[c].stage = "restored" => SourceIsBack(skill[c])
      BY DEF SkillIInv, RestoreIsReversible, SourceIsBack
    <2>1. IsOrderly(skill[c]) /\ skill[c].stage \in Ended \cup RunningStages
      BY DEF RestoreIsOrderly, SkillTypeOK, SkillType, SkillRecords
    <2>2. skill[c].stage # "idle"
      BY <2>1 DEF IsOrderly
    <2> QED
      BY <2>1, <2>2 DEF IsOrderly, KeptWhole, Ended, RunningStages
  <1> QED
    BY SkillStart, SkillStep, <1>1, PTL DEF SkillSpec

------------------------------------------------------------------------------
\* The launcher, for any number of launchers, launches and faults: the helper
\* and relay ports follow the guard, and on Windows the restart lock keeps
\* restarts apart.
USE ConstantsAssumption
USE DEF Windows, Active, Closing, Starting, Holding, Nobody

LEMMA InitIInv == Init => IInv
  BY DEF Init, IInv, TypeOK, PortsFollowGuard, ListenersAreUp, RestartsAreLocked,
     LocksAreOfRestarts, RestartLockFreed

\* The types alone: no other invariant is needed for them.
LEMMA TypeStep == TypeOK /\ [Next]_vars => TypeOK'
  <1> SUFFICES ASSUME TypeOK, [Next]_vars PROVE TypeOK'
    OBVIOUS
  <1> USE DEF TypeOK, asked, locks, Goto, Report, NoReport
  <1>1. CASE AppExits \/ UNCHANGED vars
    BY <1>1 DEF AppExits, vars
  <1>2. ASSUME NEW l \in Launchers, NEW k \in {"launch", "restart"}, Request(l, k)
        PROVE TypeOK'
    BY <1>2 DEF Request
  <1>3. ASSUME NEW l \in Launchers,
               \/ ManagerGivesUp(l) \/ ManagerAccepts(l) \/ Fail(l) \/ ChildEnds(l) \/ Crash(l) \/ GiveUp(l)
               \/ Reap(l) \/ Shutdown(l) \/ Release(l) \/ Ready(l)
        PROVE TypeOK'
    BY <1>3 DEF ManagerGivesUp, ManagerAccepts, Fail, ChildEnds, Crash, GiveUp, Reap, Shutdown, Release, Ready
  <1>4. ASSUME NEW l \in Launchers,
               \/ Coalesce(l) \/ TakeRestartLock(l) \/ TakeGuard(l) \/ GuardBusy(l)
               \/ Prepare(l) \/ Close(l) \/ DebugPortFree(l) \/ OtherPortsFree(l)
               \/ TakeGuardAgain(l) \/ Quit(l) \/ Listen(l) \/ StartApp(l)
        PROVE TypeOK'
    BY <1>4 DEF Coalesce, TakeRestartLock, TakeGuard, GuardBusy, Prepare, Close, DebugPortFree,
       OtherPortsFree, TakeGuardAgain, Quit, Listen, StartApp
  <1> QED
    BY <1>1, <1>2, <1>3, <1>4 DEF Next, Step

Locks == PortsFollowGuard /\ ListenersAreUp /\ RestartsAreLocked

\* Who has the guard, who listens, who has the restart lock.
LEMMA LockStep == IInv /\ [Next]_vars => Locks'
  <1> SUFFICES ASSUME IInv, [Next]_vars
               PROVE  Locks'
    OBVIOUS
  <1> USE DEF IInv, TypeOK, asked, locks, Goto, Locks, PortsFollowGuard, ListenersAreUp,
     RestartsAreLocked
  <1>1. CASE AppExits \/ UNCHANGED vars
    BY <1>1 DEF AppExits, vars
  <1>2. ASSUME NEW l \in Launchers, NEW k \in {"launch", "restart"}, Request(l, k)
        PROVE Locks'
    BY <1>2 DEF Request
  <1>3. ASSUME NEW l \in Launchers,
               \/ ManagerGivesUp(l) \/ ManagerAccepts(l) \/ Fail(l) \/ ChildEnds(l) \/ Crash(l) \/ GiveUp(l)
               \/ Reap(l) \/ Shutdown(l) \/ Release(l) \/ Ready(l)
        PROVE Locks'
    BY <1>3 DEF ManagerGivesUp, ManagerAccepts, Fail, ChildEnds, Crash, GiveUp, Reap, Shutdown, Release, Ready
  <1>4. ASSUME NEW l \in Launchers,
               \/ Coalesce(l) \/ TakeRestartLock(l) \/ TakeGuard(l) \/ GuardBusy(l)
               \/ Prepare(l) \/ Close(l) \/ DebugPortFree(l) \/ OtherPortsFree(l)
               \/ TakeGuardAgain(l) \/ Quit(l) \/ Listen(l) \/ StartApp(l)
        PROVE Locks'
    BY <1>4 DEF Coalesce, TakeRestartLock, TakeGuard, GuardBusy, Prepare, Close, DebugPortFree,
       OtherPortsFree, TakeGuardAgain, Quit, Listen, StartApp
  <1> QED
    BY <1>1, <1>2, <1>3, <1>4 DEF Next, Step

\* Who has the restart lock is between taking it and the report.
LEMMA FreedStep == IInv /\ [Next]_vars => LocksAreOfRestarts' /\ RestartLockFreed'
  <1> SUFFICES ASSUME TypeOK, LocksAreOfRestarts, RestartLockFreed, [Next]_vars
               PROVE  LocksAreOfRestarts' /\ RestartLockFreed'
    BY DEF IInv
  <1> USE DEF TypeOK, asked, locks, Goto, Report, NoReport, LocksAreOfRestarts, RestartLockFreed
  <1>1. CASE AppExits \/ UNCHANGED vars
    BY <1>1 DEF AppExits, vars
  <1>2. ASSUME NEW l \in Launchers, NEW k \in {"launch", "restart"}, Request(l, k)
        PROVE LocksAreOfRestarts' /\ RestartLockFreed'
    BY <1>2 DEF Request
  <1>3. ASSUME NEW l \in Launchers,
               \/ Fail(l) \/ ChildEnds(l) \/ GiveUp(l) \/ Shutdown(l)
               \/ Coalesce(l) \/ TakeRestartLock(l)
        PROVE LocksAreOfRestarts' /\ RestartLockFreed'
    BY <1>3 DEF Fail, ChildEnds, GiveUp, Shutdown, Coalesce, TakeRestartLock
  <1>6. ASSUME NEW l \in Launchers, Crash(l) \/ Release(l) \/ Ready(l)
        PROVE LocksAreOfRestarts' /\ RestartLockFreed'
    BY <1>6 DEF Crash, Release, Ready
  <1>4. ASSUME NEW l \in Launchers,
               \/ ManagerGivesUp(l) \/ ManagerAccepts(l) \/ Reap(l) \/ TakeGuard(l) \/ Prepare(l) \/ DebugPortFree(l)
        PROVE LocksAreOfRestarts' /\ RestartLockFreed'
    BY <1>4 DEF ManagerGivesUp, ManagerAccepts, Reap, TakeGuard, Prepare, DebugPortFree
  <1>7. ASSUME NEW l \in Launchers, GuardBusy(l)
        PROVE LocksAreOfRestarts' /\ RestartLockFreed'
    BY <1>7 DEF GuardBusy
  <1>8. ASSUME NEW l \in Launchers, Close(l)
        PROVE LocksAreOfRestarts' /\ RestartLockFreed'
    BY <1>8 DEF Close
  <1>5. ASSUME NEW l \in Launchers,
               \/ OtherPortsFree(l) \/ TakeGuardAgain(l) \/ Quit(l) \/ Listen(l) \/ StartApp(l)
        PROVE LocksAreOfRestarts' /\ RestartLockFreed'
    BY <1>5 DEF OtherPortsFree, TakeGuardAgain, Quit, Listen, StartApp
  <1> QED
    BY <1>1, <1>2, <1>3, <1>4, <1>5, <1>6, <1>7, <1>8 DEF Next, Step

LEMMA Invariance == Spec => []IInv
  <1>1. IInv /\ [Next]_vars => IInv'
    BY TypeStep, LockStep, FreedStep DEF IInv, Locks
  <1> QED
    BY InitIInv, <1>1, PTL DEF Spec

\* The variables keep their types.
THEOREM TypeCorrect == Spec => []TypeOK
  BY Invariance, PTL DEF IInv

\* Whoever listens or starts ChatGPT has the guard, through any crashes,
\* restarts and failures.
THEOREM PortsAreGuarded == Spec => []PortsFollowGuard
  BY Invariance, PTL DEF IInv

\* Who listens has the guard, no restart on Windows closes what another restart
\* is starting, and no restart lock outlives the report of a ready ChatGPT.
THEOREM RestartsInTurn == Spec => []RestartsTakeTurns
  <1>1. IInv => RestartsTakeTurns
    BY DEF IInv, RestartsAreLocked, RestartsDoNotFight, RestartsTakeTurns
  <1> QED
    BY <1>1, Invariance, PTL

\* Who is at work stays at it until it has said otherwise, unless it fails or
\* is killed.
LEMMA WordStep == TypeOK /\ WordIsKept /\ [Next]_vars => WordIsKept'
  <1> SUFFICES ASSUME TypeOK, WordIsKept, [Next]_vars, faults' = 0 PROVE WordIsKept'
    BY DEF WordIsKept
  <1> USE DEF TypeOK, asked, locks, Goto, Report, NoReport, WordIsKept, AtWork
  <1>1. CASE AppExits \/ UNCHANGED vars
    BY <1>1 DEF AppExits, vars
  <1>2. ASSUME NEW l \in Launchers, NEW k \in {"launch", "restart"}, Request(l, k)
        PROVE WordIsKept'
    BY <1>2 DEF Request
  <1>3. ASSUME NEW l \in Launchers, Fail(l) \/ Crash(l)
        PROVE WordIsKept'
    BY <1>3 DEF Fail, Crash
  <1>4. ASSUME NEW l \in Launchers, ManagerGivesUp(l) \/ ManagerAccepts(l) \/ GiveUp(l) \/ Reap(l)
        PROVE WordIsKept'
    BY <1>4 DEF ManagerGivesUp, ManagerAccepts, GiveUp, Reap
  <1>5. ASSUME NEW l \in Launchers,
               Prepare(l) \/ OtherPortsFree(l) \/ Listen(l) \/ Ready(l) \/ ChildEnds(l)
        PROVE WordIsKept'
    BY <1>5 DEF Prepare, OtherPortsFree, Listen, Ready, ChildEnds
  <1>6. ASSUME NEW l \in Launchers, StartApp(l)
        PROVE WordIsKept'
    BY <1>6 DEF StartApp
  <1>7. ASSUME NEW l \in Launchers,
               \/ Coalesce(l) \/ TakeRestartLock(l) \/ TakeGuard(l) \/ GuardBusy(l)
               \/ Shutdown(l) \/ Release(l)
        PROVE WordIsKept'
    BY <1>7 DEF Coalesce, TakeRestartLock, TakeGuard, GuardBusy, Shutdown, Release
  <1>8. ASSUME NEW l \in Launchers,
               Close(l) \/ DebugPortFree(l) \/ TakeGuardAgain(l) \/ Quit(l)
        PROVE WordIsKept'
    BY <1>8 DEF Close, DebugPortFree, TakeGuardAgain, Quit
  <1> QED
    BY <1>1, <1>2, <1>3, <1>4, <1>5, <1>6, <1>7, <1>8 DEF Next, Step

\* When every launcher has ended by itself, the last status promises nothing.
THEOREM StatusIsKept == Spec => []StatusSettles
  <1>1. Init => WordIsKept
    BY DEF Init, WordIsKept
  <1>2. WordIsKept => StatusSettles
    BY DEF WordIsKept, StatusSettles, AtWork
  <1> QED
    BY TypeCorrect, WordStep, <1>1, <1>2, PTL DEF Spec
=============================================================================
