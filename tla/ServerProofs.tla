---------------------------- MODULE ServerProofs ----------------------------
(***************************************************************************)
(* Proofs about Server, for every set of transactions, every capacity of   *)
(* the channel and every limit of a block: who can send to the block maker *)
(* when, in which order the routines stop, and what the work on a block    *)
(* does to the pool and the chain while other blocks arrive.               *)
(***************************************************************************)
EXTENDS Server, TLAPS

\* The places of the main goroutine by phase of the server.
Starting == {"init", "proxy", "listen", "start"}
Stopping == {"stopProxy", "waitChecker", "stopMaker", "waitMaker", "confirm", "waitEnd",
             "ended"}
ExitSent == {"waitMaker", "confirm", "waitEnd", "ended"}

\* Nobody stops a server that was not told to stop and did not fail.
StopHasReason ==
    /\ main \in Stopping => ~stopOpen \/ failed
    /\ main = "report" => failed

\* Before the block maker exists no other routine runs.
InitIsQuiet ==
    main = "init" => /\ ~proxyOn /\ backlog = {} /\ checker = "off"
                     /\ \A t \in Txs : at[t] = "away"

\* Where the main goroutine is when the channel is closed, the pointer is
\* dropped or the exit signal is on its way.
ChannelInv ==
    /\ ~open => main \in {"init"} \cup ExitSent
    /\ ~obj => main \in {"init", "waitEnd", "ended"}
    /\ \A i \in 1 .. Len(queue) : queue[i] = ExitSignal => main \in ExitSent

\* Which routines run in which phase.
PhaseInv ==
    /\ main \in Starting \cup {"report"} => maker = "off" /\ checker = "off"
    /\ checker \in {"loop", "signal", "complete"}
          => main \in {"notify", "accept", "stopProxy", "waitChecker", "ended"}
    /\ main = "confirm" => maker \in {"off", "gone"} 
    /\ main \in {"waitChecker", "stopMaker", "waitMaker", "confirm"} => ~proxyOn
    /\ confirmed => main \in {"waitEnd", "ended"}

\* A panic of a routine comes in the phase of stopping.
PanicInv == panicked # "no" => main \in Stopping

\* What the block under work and the transactions on their way have to do
\* with the pool and the chain.
WorkInv ==
    /\ sel \subseteq pool \cup chain
    /\ \A t \in pool \cup chain : at[t] \in {"signal", "done"}
    /\ \A t \in backlog \cap Txs : at[t] = "waiting"
    /\ base <= tip
    /\ maker \in {"lock", "work"} /\ base = tip => sel \cap chain = {}

StopInv == StopHasReason /\ InitIsQuiet /\ ChannelInv /\ PhaseInv /\ PanicInv

---------------------------------------------------------------------------
\* Type correctness.

\* The types hold at the start.
LEMMA TypeInit == InitServer => TypeOKServer
<1> SUFFICES ASSUME InitServer PROVE TypeOKServer
    OBVIOUS
<1>1. queue \in Seq(Signals) /\ Len(queue) <= Cap
  BY CapAssumption DEF InitServer
<1> QED
  BY <1>1, SignalAssumption DEF InitServer, TypeOKServer, MainSteps, MakerSteps, Signals

\* Every step of the server keeps the types.
LEMMA TypeStep == TypeOKServer /\ [NextServer]_vars => TypeOKServer'
<1> SUFFICES ASSUME TypeOKServer, [NextServer]_vars PROVE TypeOKServer'
    OBVIOUS
<1> USE CapAssumption, SignalAssumption DEF TypeOKServer
<1> USE DEF MainSteps, MakerSteps, Signals, daemonVars, workVars, checkerVars, dataVars,
            MainGoes, MakerGoes, CheckerGoes
<1>1. CASE MainStep
  <2>1. CASE InitBlocksMaker
    BY <2>1 DEF InitBlocksMaker
  <2>2. CASE StartDatabaseProxy
    BY <2>2 DEF StartDatabaseProxy
  <2>3. CASE Listen
    BY <2>3 DEF Listen
  <2>4. CASE StartRoutines
    BY <2>4 DEF StartRoutines
  <2>5. CASE SendResult
    BY <2>5 DEF SendResult
  <2>6. CASE AcceptAndStop
    BY <2>6 DEF AcceptAndStop
  <2>7. CASE StopProxyAndChecker
    <3>1. proxyOn' \in BOOLEAN /\ checkerStop' \in BOOLEAN
      BY <2>7, Zenon DEF StopProxyAndChecker
    <3> QED
      BY <2>7, <3>1 DEF StopProxyAndChecker
  <2>8. CASE CheckerStopped
    BY <2>8 DEF CheckerStopped
  <2>9. CASE CloseChannel
    <3>1. open' \in BOOLEAN
      BY <2>9, Zenon DEF CloseChannel
    <3> QED
      BY <2>9, <3>1 DEF CloseChannel
  <2>10. CASE SendExit
    BY <2>10 DEF SendExit
  <2>11. CASE MakerStopped
    BY <2>11 DEF MakerStopped
  <2>12. CASE Confirm
    <3>1. obj' \in BOOLEAN /\ confirmed' \in BOOLEAN
      BY <2>12, Zenon DEF Confirm
    <3> QED
      BY <2>12, <3>1 DEF Confirm
  <2>13. CASE Return
    BY <2>13 DEF Return
  <2> QED
    BY <1>1, <2>1, <2>2, <2>3, <2>4, <2>5, <2>6, <2>7, <2>8, <2>9, <2>10, <2>11, <2>12,
     <2>13 DEF MainStep
<1>2. CASE DaemonStep
  <2>1. CASE SendVoid
    BY <2>1 DEF SendVoid
  <2>2. CASE RemovePidFile
    BY <2>2 DEF RemovePidFile
  <2> QED
    BY <1>2, <2>1, <2>2 DEF DaemonStep
<1>3. CASE CheckerStep
  <2>1. CASE CheckerCompletes
    BY <2>1 DEF CheckerCompletes
  <2>2. CASE ProcessResults
    BY <2>2 DEF ProcessResults, NewTransaction
  <2> QED
    BY <1>3, <2>1, <2>2 DEF CheckerStep
<1>4. CASE MakerStep
  <2>1. CASE Receive
    BY <2>1 DEF Receive, IsExit
  <2>2. CASE ReceiveExit
    <3>1. open' \in BOOLEAN
      BY <2>2, Zenon DEF ReceiveExit
    <3> QED
      BY <2>2, <3>1 DEF ReceiveExit, IsExit
  <2>3. CASE TooFew
    BY <2>3 DEF TooFew
  <2>4. CASE Announce
    BY <2>4 DEF Announce, Unlock
  <2>5. CASE Prepare
    BY <2>5 DEF Prepare, Selections
  <2>6. CASE Lock
    BY <2>6 DEF Lock
  <2>7. CASE AddBlock
    BY <2>7 DEF AddBlock, OnTop
  <2>8. CASE SendBlock
    BY <2>8 DEF SendBlock, Unlock
  <2> QED
    BY <1>4, <2>1, <2>2, <2>3, <2>4, <2>5, <2>6, <2>7, <2>8 DEF MakerStep
<1>5. CASE Environment
  <2>1. CASE StartFails
    BY <2>1 DEF StartFails
  <2>2. CASE AcceptFails
    BY <2>2 DEF AcceptFails
  <2>3. CASE ReceiveSignal
    <3>1. stopOpen' \in BOOLEAN
      BY <2>3, Zenon DEF ReceiveSignal
    <3> QED
      BY <2>3, <3>1 DEF ReceiveSignal
  <2>4. CASE AttemptFails
    BY <2>4 DEF AttemptFails, Unlock
  <2>5. CASE \E t \in Txs : Connect(t)
    BY <2>5 DEF Connect
  <2>6. CASE \E t \in Txs : OpenSession(t)
    BY <2>6 DEF OpenSession
  <2>7. CASE \E t \in Txs : Refuse(t)
    BY <2>7 DEF Refuse
  <2>8. CASE \E t \in Txs : Pull(t)
    BY <2>8 DEF Pull
  <2>9. CASE \E s \in SUBSET pool : OtherBlock(s)
    BY <2>9 DEF OtherBlock
  <2>10. CASE VoidIsLost
    BY <2>10 DEF VoidIsLost
  <2> QED
    BY <1>5, <2>1, <2>2, <2>3, <2>4, <2>5, <2>6, <2>7, <2>8, <2>9, <2>10 DEF Environment
<1>6. CASE \E c \in backlog : Accept(c)
  <2>1. PICK c \in backlog : Accept(c)
    BY <1>6
  <2>2. at' \in [Txs -> {"away", "waiting", "running", "signal", "done"}]
    BY <2>1 DEF Accept
  <2>3. main' \in MainSteps /\ backlog' \subseteq Txs \cup {"void"}
    BY <2>1 DEF Accept
  <2> QED  BY <2>1, <2>2, <2>3 DEF Accept
<1>7. CASE \E t \in Txs : PutIntoPool(t) \/ SignalMaker(t)
  <2>1. PICK t \in Txs : PutIntoPool(t) \/ SignalMaker(t)
    BY <1>7
  <2>2. CASE PutIntoPool(t)
    BY <2>2 DEF PutIntoPool
  <2>3. CASE SignalMaker(t)
    <3>1. /\ at' \in [Txs -> {"away", "waiting", "running", "signal", "done"}]
          /\ UNCHANGED <<daemonVars, obj, open, workVars, checkerVars, proxyOn, dataVars>>
      BY <2>3 DEF SignalMaker
    <3>2. \E pointer \in BOOLEAN, signal \in Txs \cup {AnySignal},
             who \in {"session", "handler"} : NewTransaction(who, pointer, signal)
      BY <2>3 DEF SignalMaker
    <3>3. queue' \in Seq(Signals) /\ Len(queue') <= Cap
      BY <3>2 DEF NewTransaction
    <3>4. panicked' \in {"no", "handler", "session", "checker"}
      BY <3>2 DEF NewTransaction
    <3> QED  BY <3>1, <3>3, <3>4
  <2> QED  BY <2>1, <2>2, <2>3
<1>8. CASE UNCHANGED vars
  BY <1>8 DEF vars
<1> QED
  BY <1>1, <1>2, <1>3, <1>4, <1>5, <1>6, <1>7, <1>8 DEF NextServer

---------------------------------------------------------------------------
\* The order of the start and of the stop.

\* Nothing is stopped at the start.
LEMMA StopInit == InitServer => StopInv
BY DEF InitServer, StopInv, StopHasReason, InitIsQuiet, ChannelInv, PhaseInv, PanicInv,
       Starting, Stopping, ExitSent

\* The phase of stopping is only entered with a reason.
LEMMA ReasonStep == StopHasReason /\ [NextServer]_vars => StopHasReason'
<1> SUFFICES ASSUME StopHasReason, [NextServer]_vars PROVE StopHasReason'
    OBVIOUS
<1> USE DEF StopHasReason, Stopping
<1> USE DEF Running, MainGoes, MakerGoes, CheckerGoes, daemonVars, workVars, checkerVars,
            dataVars
<1>1. CASE MainStep
  BY <1>1 DEF MainStep, InitBlocksMaker, StartDatabaseProxy, Listen, StartRoutines,
              SendResult, AcceptAndStop, StopProxyAndChecker, CheckerStopped, CloseChannel,
              SendExit, MakerStopped, Confirm, Return
<1>2. CASE DaemonStep
  BY <1>2 DEF DaemonStep, SendVoid, RemovePidFile, Listening
<1>3. CASE CheckerStep
  BY <1>3 DEF CheckerStep, CheckerCompletes, ProcessResults, NewTransaction
<1>4. CASE MakerStep
  BY <1>4 DEF MakerStep, Receive, ReceiveExit, TooFew, Announce, Prepare, Lock, AddBlock,
              SendBlock, IsExit, Unlock, Selections, OnTop
<1>5. CASE Environment
  BY <1>5 DEF Environment, StartFails, AcceptFails, ReceiveSignal, VoidIsLost, AttemptFails,
              Connect, OpenSession, Refuse, Pull, OtherBlock, Unlock, Listening
<1>6. CASE \E c \in backlog : Accept(c)
  BY <1>6 DEF Accept
<1>7. CASE \E t \in Txs : PutIntoPool(t) \/ SignalMaker(t)
  BY <1>7 DEF PutIntoPool, SignalMaker, NewTransaction
<1>8. CASE UNCHANGED vars
  BY <1>8 DEF vars
<1> QED
  BY <1>1, <1>2, <1>3, <1>4, <1>5, <1>6, <1>7, <1>8 DEF NextServer

\* The first steps of the main goroutine come before all others.
LEMMA QuietStep == InitIsQuiet /\ [NextServer]_vars => InitIsQuiet'
<1> SUFFICES ASSUME InitIsQuiet, [NextServer]_vars PROVE InitIsQuiet'
    OBVIOUS
<1> USE DEF InitIsQuiet
<1> USE DEF Running, MainGoes, MakerGoes, CheckerGoes, daemonVars, workVars, checkerVars,
            dataVars
<1>1. CASE MainStep
  BY <1>1 DEF MainStep, InitBlocksMaker, StartDatabaseProxy, Listen, StartRoutines,
              SendResult, AcceptAndStop, StopProxyAndChecker, CheckerStopped, CloseChannel,
              SendExit, MakerStopped, Confirm, Return
<1>2. CASE DaemonStep
  BY <1>2 DEF DaemonStep, SendVoid, RemovePidFile, Listening
<1>3. CASE CheckerStep
  BY <1>3 DEF CheckerStep, CheckerCompletes, ProcessResults, NewTransaction
<1>4. CASE MakerStep
  BY <1>4 DEF MakerStep, Receive, ReceiveExit, TooFew, Announce, Prepare, Lock, AddBlock,
              SendBlock, IsExit, Unlock, Selections, OnTop
<1>5. CASE Environment
  BY <1>5 DEF Environment, StartFails, AcceptFails, ReceiveSignal, VoidIsLost, AttemptFails,
              Connect, OpenSession, Refuse, Pull, OtherBlock, Unlock, Listening
<1>6. CASE \E c \in backlog : Accept(c)
  BY <1>6 DEF Accept
<1>7. CASE \E t \in Txs : PutIntoPool(t) \/ SignalMaker(t)
  BY <1>7 DEF PutIntoPool, SignalMaker, NewTransaction
<1>8. CASE UNCHANGED vars
  BY <1>8 DEF vars
<1> QED
  BY <1>1, <1>2, <1>3, <1>4, <1>5, <1>6, <1>7, <1>8 DEF NextServer

\* A signal is never the exit signal, whether the channel takes it or not.
LEMMA SignalIsNoExit ==
    ASSUME queue \in Seq(Signals), NEW who, NEW pointer, NEW signal \in Signals,
           signal # ExitSignal, NewTransaction(who, pointer, signal)
    PROVE  \A i \in 1 .. Len(queue') : queue'[i] = ExitSignal
              => \E j \in 1 .. Len(queue) : queue[j] = ExitSignal
BY DEF NewTransaction

\* Only Stop sends the exit signal, and only it closes the channel.
LEMMA ChannelStep == TypeOKServer /\ ChannelInv /\ [NextServer]_vars => ChannelInv'
<1> SUFFICES ASSUME TypeOKServer, ChannelInv, [NextServer]_vars PROVE ChannelInv'
    OBVIOUS
<1> USE DEF TypeOKServer, Signals, ChannelInv, ExitSent
<1> USE DEF Running, MainGoes, MakerGoes, CheckerGoes, daemonVars, workVars, checkerVars,
            dataVars
<1>1. CASE MainStep
  BY <1>1 DEF MainStep, InitBlocksMaker, StartDatabaseProxy, Listen, StartRoutines,
              SendResult, AcceptAndStop, StopProxyAndChecker, CheckerStopped, CloseChannel,
              SendExit, MakerStopped, Confirm, Return
<1>2. CASE DaemonStep
  BY <1>2 DEF DaemonStep, SendVoid, RemovePidFile, Listening
<1>3. CASE CheckerStep
  <2>1. CASE CheckerCompletes
    BY <2>1 DEF CheckerCompletes
  <2>2. CASE ProcessResults
    BY <2>2, SignalIsNoExit, SignalAssumption DEF ProcessResults
  <2> QED
    BY <1>3, <2>1, <2>2 DEF CheckerStep
<1>4. CASE MakerStep
  BY <1>4 DEF MakerStep, Receive, ReceiveExit, TooFew, Announce, Prepare, Lock, AddBlock,
              SendBlock, IsExit, Unlock, Selections, OnTop
<1>5. CASE Environment
  BY <1>5 DEF Environment, StartFails, AcceptFails, ReceiveSignal, VoidIsLost, AttemptFails,
              Connect, OpenSession, Refuse, Pull, OtherBlock, Unlock, Listening
<1>6. CASE \E c \in backlog : Accept(c)
  BY <1>6 DEF Accept
<1>7. CASE \E t \in Txs : PutIntoPool(t) \/ SignalMaker(t)
  <2>1. CASE \E t \in Txs : PutIntoPool(t)
    BY <2>1 DEF PutIntoPool
  <2>2. ASSUME NEW t \in Txs, SignalMaker(t) PROVE ChannelInv'
    BY <2>2, SignalIsNoExit, SignalAssumption DEF SignalMaker
  <2> QED
    BY <1>7, <2>1, <2>2
<1>8. CASE UNCHANGED vars
  BY <1>8 DEF vars
<1> QED
  BY <1>1, <1>2, <1>3, <1>4, <1>5, <1>6, <1>7, <1>8 DEF NextServer

\* The routines start and stop in the order of StartServer and
\* stopAllSubroutines.
LEMMA PhaseStep == PhaseInv /\ [NextServer]_vars => PhaseInv'
<1> SUFFICES ASSUME PhaseInv, [NextServer]_vars PROVE PhaseInv'
    OBVIOUS
<1> USE DEF PhaseInv, Starting
<1> USE DEF Running, MainGoes, MakerGoes, CheckerGoes, daemonVars, workVars, checkerVars,
            dataVars
<1>1. CASE MainStep
  BY <1>1 DEF MainStep, InitBlocksMaker, StartDatabaseProxy, Listen, StartRoutines,
              SendResult, AcceptAndStop, StopProxyAndChecker, CheckerStopped, CloseChannel,
              SendExit, MakerStopped, Confirm, Return
<1>2. CASE DaemonStep
  BY <1>2 DEF DaemonStep, SendVoid, RemovePidFile, Listening
<1>3. CASE CheckerStep
  BY <1>3 DEF CheckerStep, CheckerCompletes, ProcessResults, NewTransaction
<1>4. CASE MakerStep
  BY <1>4 DEF MakerStep, Receive, ReceiveExit, TooFew, Announce, Prepare, Lock, AddBlock,
              SendBlock, IsExit, Unlock, Selections, OnTop
<1>5. CASE Environment
  BY <1>5 DEF Environment, StartFails, AcceptFails, ReceiveSignal, VoidIsLost, AttemptFails,
              Connect, OpenSession, Refuse, Pull, OtherBlock, Unlock, Listening
<1>6. CASE \E c \in backlog : Accept(c)
  BY <1>6 DEF Accept
<1>7. CASE \E t \in Txs : PutIntoPool(t) \/ SignalMaker(t)
  BY <1>7 DEF PutIntoPool, SignalMaker, NewTransaction
<1>8. CASE UNCHANGED vars
  BY <1>8 DEF vars
<1> QED
  BY <1>1, <1>2, <1>3, <1>4, <1>5, <1>6, <1>7, <1>8 DEF NextServer

\* A send to the block maker fails only when the pointer or the channel is
\* gone.
LEMMA PanicStep ==
    InitIsQuiet /\ ChannelInv /\ PhaseInv /\ PanicInv /\ [NextServer]_vars => PanicInv'
<1> SUFFICES ASSUME InitIsQuiet, ChannelInv, PhaseInv, PanicInv, [NextServer]_vars
             PROVE  PanicInv'
    OBVIOUS
<1> USE DEF InitIsQuiet, ChannelInv, PhaseInv, PanicInv, Starting, Stopping, ExitSent
<1> USE DEF Running, MainGoes, MakerGoes, CheckerGoes, daemonVars, workVars, checkerVars,
            dataVars
<1>1. CASE MainStep
  BY <1>1 DEF MainStep, InitBlocksMaker, StartDatabaseProxy, Listen, StartRoutines,
              SendResult, AcceptAndStop, StopProxyAndChecker, CheckerStopped, CloseChannel,
              SendExit, MakerStopped, Confirm, Return
<1>2. CASE DaemonStep
  BY <1>2 DEF DaemonStep, SendVoid, RemovePidFile, Listening
<1>3. CASE CheckerStep
  BY <1>3 DEF CheckerStep, CheckerCompletes, ProcessResults, NewTransaction
<1>4. CASE MakerStep
  BY <1>4 DEF MakerStep, Receive, ReceiveExit, TooFew, Announce, Prepare, Lock, AddBlock,
              SendBlock, IsExit, Unlock, Selections, OnTop
<1>5. CASE Environment
  BY <1>5 DEF Environment, StartFails, AcceptFails, ReceiveSignal, VoidIsLost, AttemptFails,
              Connect, OpenSession, Refuse, Pull, OtherBlock, Unlock, Listening
<1>6. CASE \E c \in backlog : Accept(c)
  BY <1>6 DEF Accept
<1>7. CASE \E t \in Txs : PutIntoPool(t) \/ SignalMaker(t)
  BY <1>7 DEF PutIntoPool, SignalMaker, NewTransaction
<1>8. CASE UNCHANGED vars
  BY <1>8 DEF vars
<1> QED
  BY <1>1, <1>2, <1>3, <1>4, <1>5, <1>6, <1>7, <1>8 DEF NextServer

---------------------------------------------------------------------------
\* The block maker, the pool and the chain.

\* Nothing is in work at the start.
LEMMA WorkInit == InitServer => WorkInv /\ NothingLost /\ LockedIsMinted
BY DEF InitServer, WorkInv, NothingLost, LockedIsMinted

\* The transactions of the block under work are pending or approved, and none
\* is approved while its base is the top.
LEMMA WorkStep == TypeOKServer /\ NothingLost /\ WorkInv /\ [NextServer]_vars => WorkInv'
<1> SUFFICES ASSUME TypeOKServer, NothingLost, WorkInv, [NextServer]_vars PROVE WorkInv'
    OBVIOUS
<1> USE DEF TypeOKServer, NothingLost, WorkInv
<1> USE DEF Running, MainGoes, MakerGoes, CheckerGoes, daemonVars, workVars, checkerVars,
            dataVars
<1>1. CASE MainStep
  BY <1>1 DEF MainStep, InitBlocksMaker, StartDatabaseProxy, Listen, StartRoutines,
              SendResult, AcceptAndStop, StopProxyAndChecker, CheckerStopped, CloseChannel,
              SendExit, MakerStopped, Confirm, Return
<1>2. CASE DaemonStep
  BY <1>2, SignalAssumption DEF DaemonStep, SendVoid, RemovePidFile, Listening
<1>3. CASE CheckerStep
  BY <1>3 DEF CheckerStep, CheckerCompletes, ProcessResults, NewTransaction
<1>4. CASE MakerStep
  BY <1>4 DEF MakerStep, Receive, ReceiveExit, TooFew, Announce, Prepare, Lock, AddBlock,
              SendBlock, IsExit, Unlock, Selections, OnTop
<1>5. CASE Environment
  BY <1>5 DEF Environment, StartFails, AcceptFails, ReceiveSignal, VoidIsLost, AttemptFails,
              Connect, OpenSession, Refuse, Pull, OtherBlock, Unlock, Listening
<1>6. CASE \E c \in backlog : Accept(c)
  BY <1>6 DEF Accept
<1>7. CASE \E t \in Txs : PutIntoPool(t) \/ SignalMaker(t)
  BY <1>7 DEF PutIntoPool, SignalMaker, NewTransaction
<1>8. CASE UNCHANGED vars
  BY <1>8 DEF vars
<1> QED
  BY <1>1, <1>2, <1>3, <1>4, <1>5, <1>6, <1>7, <1>8 DEF NextServer

\* No step loses a transaction.
LEMMA LostStep ==
  TypeOKServer /\ WorkInv /\ NothingLost /\ [NextServer]_vars => NothingLost'
<1> SUFFICES ASSUME TypeOKServer, WorkInv, NothingLost, [NextServer]_vars PROVE NothingLost'
    OBVIOUS
<1> USE DEF TypeOKServer, WorkInv, NothingLost
<1> USE DEF Running, MainGoes, MakerGoes, CheckerGoes, daemonVars, workVars, checkerVars,
            dataVars
<1>1. CASE MainStep
  BY <1>1 DEF MainStep, InitBlocksMaker, StartDatabaseProxy, Listen, StartRoutines,
              SendResult, AcceptAndStop, StopProxyAndChecker, CheckerStopped, CloseChannel,
              SendExit, MakerStopped, Confirm, Return
<1>2. CASE DaemonStep
  BY <1>2 DEF DaemonStep, SendVoid, RemovePidFile, Listening
<1>3. CASE CheckerStep
  BY <1>3 DEF CheckerStep, CheckerCompletes, ProcessResults, NewTransaction
<1>4. CASE MakerStep
  BY <1>4 DEF MakerStep, Receive, ReceiveExit, TooFew, Announce, Prepare, Lock, AddBlock,
              SendBlock, IsExit, Unlock, Selections, OnTop
<1>5. CASE Environment
  BY <1>5 DEF Environment, StartFails, AcceptFails, ReceiveSignal, VoidIsLost, AttemptFails,
              Connect, OpenSession, Refuse, Pull, OtherBlock, Unlock, Listening
<1>6. CASE \E c \in backlog : Accept(c)
  BY <1>6 DEF Accept
<1>7. CASE \E t \in Txs : PutIntoPool(t) \/ SignalMaker(t)
  BY <1>7 DEF PutIntoPool, SignalMaker, NewTransaction
<1>8. CASE UNCHANGED vars
  BY <1>8 DEF vars
<1> QED
  BY <1>1, <1>2, <1>3, <1>4, <1>5, <1>6, <1>7, <1>8 DEF NextServer

\* The list of locked transactions follows the block under work.
LEMMA LockedStep == PhaseInv /\ LockedIsMinted /\ [NextServer]_vars => LockedIsMinted'
<1> SUFFICES ASSUME PhaseInv, LockedIsMinted, [NextServer]_vars PROVE LockedIsMinted'
    OBVIOUS
<1> USE DEF PhaseInv, Starting, LockedIsMinted
<1> USE DEF Running, MainGoes, MakerGoes, CheckerGoes, daemonVars, workVars, checkerVars,
            dataVars
<1>1. CASE MainStep
  BY <1>1 DEF MainStep, InitBlocksMaker, StartDatabaseProxy, Listen, StartRoutines,
              SendResult, AcceptAndStop, StopProxyAndChecker, CheckerStopped, CloseChannel,
              SendExit, MakerStopped, Confirm, Return
<1>2. CASE DaemonStep
  BY <1>2 DEF DaemonStep, SendVoid, RemovePidFile, Listening
<1>3. CASE CheckerStep
  BY <1>3 DEF CheckerStep, CheckerCompletes, ProcessResults, NewTransaction
<1>4. CASE MakerStep
  BY <1>4 DEF MakerStep, Receive, ReceiveExit, TooFew, Announce, Prepare, Lock, AddBlock,
              SendBlock, IsExit, Unlock, Selections, OnTop
<1>5. CASE Environment
  BY <1>5 DEF Environment, StartFails, AcceptFails, ReceiveSignal, VoidIsLost, AttemptFails,
              Connect, OpenSession, Refuse, Pull, OtherBlock, Unlock, Listening
<1>6. CASE \E c \in backlog : Accept(c)
  BY <1>6 DEF Accept
<1>7. CASE \E t \in Txs : PutIntoPool(t) \/ SignalMaker(t)
  BY <1>7 DEF PutIntoPool, SignalMaker, NewTransaction
<1>8. CASE UNCHANGED vars
  BY <1>8 DEF vars
<1> QED
  BY <1>1, <1>2, <1>3, <1>4, <1>5, <1>6, <1>7, <1>8 DEF NextServer

---------------------------------------------------------------------------
\* The theorems.

FullInv == TypeOKServer /\ StopInv /\ WorkInv /\ NothingLost /\ LockedIsMinted

\* The parts of the invariant together.
LEMMA FullInvariant == SpecServer => []FullInv
<1>1. InitServer => FullInv
  BY TypeInit, StopInit, WorkInit DEF FullInv
<1>2. FullInv /\ [NextServer]_vars => FullInv'
  BY TypeStep, ReasonStep, QuietStep, ChannelStep, PhaseStep, PanicStep, WorkStep, LostStep,
     LockedStep DEF FullInv, StopInv
<1> QED
  BY <1>1, <1>2, PTL DEF SpecServer

\* Every part of the state keeps its type: the channel never holds more than
\* its capacity.
THEOREM ServerTypeOK == SpecServer => []TypeOKServer
<1>1. FullInv => TypeOKServer
  BY DEF FullInv
<1> QED
  BY <1>1, FullInvariant, PTL

CheckerIsSafe == panicked # "checker"

\* The changes checker is gone before the block maker is
\* (server.go:386-396).
THEOREM CheckerNeverPanics == SpecServer => []CheckerIsSafe
<1>1. InitServer => CheckerIsSafe
  BY DEF InitServer, CheckerIsSafe
<1>2. FullInv /\ CheckerIsSafe /\ [NextServer]_vars => CheckerIsSafe'
  <2> SUFFICES ASSUME FullInv, CheckerIsSafe, [NextServer]_vars PROVE CheckerIsSafe'
      OBVIOUS
  <2> USE DEF FullInv, StopInv, ChannelInv, PhaseInv, ExitSent, CheckerIsSafe
  <2> USE DEF Running, MainGoes, MakerGoes, CheckerGoes, daemonVars, workVars, checkerVars,
              dataVars
  <2>1. CASE MainStep
    BY <2>1 DEF MainStep, InitBlocksMaker, StartDatabaseProxy, Listen, StartRoutines,
                SendResult, AcceptAndStop, StopProxyAndChecker, CheckerStopped, CloseChannel,
                SendExit, MakerStopped, Confirm, Return
  <2>2. CASE DaemonStep
    BY <2>2 DEF DaemonStep, SendVoid, RemovePidFile, Listening
  <2>3. CASE CheckerStep
    BY <2>3 DEF CheckerStep, CheckerCompletes, ProcessResults, NewTransaction
  <2>4. CASE MakerStep
    BY <2>4 DEF MakerStep, Receive, ReceiveExit, TooFew, Announce, Prepare, Lock, AddBlock,
                SendBlock, IsExit, Unlock, Selections, OnTop
  <2>5. CASE Environment
    BY <2>5 DEF Environment, StartFails, AcceptFails, ReceiveSignal, VoidIsLost, AttemptFails,
                Connect, OpenSession, Refuse, Pull, OtherBlock, Unlock, Listening
  <2>6. CASE \E c \in backlog : Accept(c)
    BY <2>6 DEF Accept
  <2>7. CASE \E t \in Txs : PutIntoPool(t) \/ SignalMaker(t)
    BY <2>7 DEF PutIntoPool, SignalMaker, NewTransaction
  <2>8. CASE UNCHANGED vars
    BY <2>8 DEF vars
  <2> QED
    BY <2>1, <2>2, <2>3, <2>4, <2>5, <2>6, <2>7, <2>8 DEF NextServer
<1> QED
  BY <1>1, <1>2, FullInvariant, PTL DEF SpecServer

\* A working server never panics in a send to the block maker
\* (blocksmaker.go:91-98, server.go:375-399), and its checker never does.
THEOREM NoPanicInWork == SpecServer => []PanicOnlyInStop
<1>1. FullInv /\ CheckerIsSafe => PanicOnlyInStop
  BY DEF FullInv, StopInv, PanicInv, StopHasReason, CheckerIsSafe, PanicOnlyInStop
<1> QED
  BY <1>1, FullInvariant, CheckerNeverPanics, PTL

\* When the end is confirmed no routine works any more (server.go:375-399).
THEOREM StopIsComplete == SpecServer => []ConfirmedIsIdle
<1>1. InitServer => ConfirmedIsIdle
  BY DEF InitServer, ConfirmedIsIdle
<1>2. FullInv /\ ConfirmedIsIdle /\ [NextServer]_vars => ConfirmedIsIdle'
  <2> SUFFICES ASSUME FullInv, ConfirmedIsIdle, [NextServer]_vars PROVE ConfirmedIsIdle'
      OBVIOUS
  <2> USE DEF FullInv, StopInv, PhaseInv, ConfirmedIsIdle, TypeOKServer, Starting
  <2> USE DEF Running, MainGoes, MakerGoes, CheckerGoes, daemonVars, workVars, checkerVars,
              dataVars
  <2>1. CASE MainStep
    BY <2>1 DEF MainStep, InitBlocksMaker, StartDatabaseProxy, Listen, StartRoutines,
                SendResult, AcceptAndStop, StopProxyAndChecker, CheckerStopped, CloseChannel,
                SendExit, MakerStopped, Confirm, Return
  <2>2. CASE DaemonStep
    BY <2>2 DEF DaemonStep, SendVoid, RemovePidFile, Listening
  <2>3. CASE CheckerStep
    BY <2>3 DEF CheckerStep, CheckerCompletes, ProcessResults, NewTransaction
  <2>4. CASE MakerStep
    BY <2>4 DEF MakerStep, Receive, ReceiveExit, TooFew, Announce, Prepare, Lock, AddBlock,
                SendBlock, IsExit, Unlock, Selections, OnTop
  <2>5. CASE Environment
    BY <2>5 DEF Environment, StartFails, AcceptFails, ReceiveSignal, VoidIsLost, AttemptFails,
                Connect, OpenSession, Refuse, Pull, OtherBlock, Unlock, Listening
  <2>6. CASE \E c \in backlog : Accept(c)
    BY <2>6 DEF Accept
  <2>7. CASE \E t \in Txs : PutIntoPool(t) \/ SignalMaker(t)
    BY <2>7 DEF PutIntoPool, SignalMaker, NewTransaction
  <2>8. CASE UNCHANGED vars
    BY <2>8 DEF vars
  <2> QED
    BY <2>1, <2>2, <2>3, <2>4, <2>5, <2>6, <2>7, <2>8 DEF NextServer
<1> QED
  BY <1>1, <1>2, FullInvariant, PTL DEF SpecServer

\* The list that polling nodes do not get is that of the block under work
\* (blocksmaker.go:69-78).
THEOREM ListIsOfTheBlock == SpecServer => []LockedIsMinted
<1>1. FullInv => LockedIsMinted
  BY DEF FullInv
<1> QED
  BY <1>1, FullInvariant, PTL

\* Transactions stay in the pool until they are on the primary branch, with
\* any number of blocks added while one is made (node.go:434-445).
THEOREM PoolIsKept == SpecServer => []NothingLost
<1>1. FullInv => NothingLost
  BY DEF FullInv
<1> QED
  BY <1>1, FullInvariant, PTL

\* A block made here that goes on top approves nothing twice (node.go:441).
THEOREM NothingTwice == SpecServer => OwnBlockIsNew
<1>1. FullInv => [AddBlock /\ tip' # tip => sel \cap chain = {}]_vars
  BY DEF FullInv, WorkInv, AddBlock, OnTop, MakerGoes, Running
<1> QED
  BY <1>1, FullInvariant, PTL DEF OwnBlockIsNew
=============================================================================
