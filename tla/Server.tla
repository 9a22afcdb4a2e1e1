------------------------------- MODULE Server -------------------------------
(***************************************************************************)
(* The goroutines of a running node and the channels between them: the     *)
(* daemon and its signal routine (src/node/server/daemon.go), the server   *)
(* and its accept loop (server.go), the block maker (blocksmaker.go), the  *)
(* checker that polls other nodes (changeschecker.go), the connections of  *)
(* clients (handle.go) and the sessions of the database proxy              *)
(* (queryfilter.go).                                                       *)
(*                                                                         *)
(* A step is what one goroutine does between two points where another one  *)
(* can see it: a channel operation, a call that changes the pool or the    *)
(* chain, a read of the block maker object of the server.  The pool is a   *)
(* set of identifiers and the chain a height with the set of transactions  *)
(* on the primary branch; Pool and ChainStore model what is behind them.   *)
(***************************************************************************)
EXTENDS Naturals, Sequences, FiniteSets

CONSTANTS
    Txs,          \* transactions this node can meet
    Via,          \* how each one comes: "client", "peer", "proxy" or "pull"
    Cap,          \* capacity of the channel of the block maker, 100 in the code
    MinTxs,       \* transactions a block needs
    MaxTxs,       \* transactions a block can hold
    MaxTip,       \* bound on the height of the primary branch
    AnySignal,    \* the one byte signal {1}: try to make a block
    ExitSignal    \* the empty signal: leave the routine

ASSUME CapAssumption == Cap \in Nat \ {0}
ASSUME LimitsAssumption == MinTxs \in Nat \ {0} /\ MaxTxs \in Nat /\ MaxTip \in Nat
ASSUME ViaAssumption == Via \in [Txs -> {"client", "peer", "proxy", "pull"}]
ASSUME SignalAssumption == AnySignal \notin Txs /\ ExitSignal \notin Txs
                           /\ AnySignal # ExitSignal /\ "void" \notin Txs

VARIABLES
    main,         \* where the main goroutine is: StartServer and what calls it
    sig,          \* where the goroutine is that waits for the signal of the system
    stopOpen,     \* StopMainChan is open
    confirmed,    \* StopMainConfirmChan is closed
    theEnd,       \* theendchan is closed
    failed,       \* StartServer returns an error
    backlog,      \* connections waiting to be accepted: requests and "void"
    obj,          \* the server's pointer to the block maker is not nil
    open,         \* the channel of the block maker is open
    queue,        \* the signals in that channel
    maker,        \* where the routine of the block maker is
    cur,          \* the signal it works on
    locked,       \* transactionsInProgress
    sel,          \* transactions of the block it makes
    base,         \* height it makes that block on
    checker,      \* where the changes checker is
    checkerStop,  \* its stopChan is closed
    proxyOn,      \* the database proxy accepts sessions
    at,           \* where the goroutine is that brings each transaction
    pool,         \* pending transactions
    chain,        \* transactions on the primary branch
    tip,          \* its height
    gone,         \* transactions that were refused
    panicked      \* who brought the process down, or "no"

daemonVars == <<main, sig, stopOpen, confirmed, theEnd, failed, backlog>>
workVars == <<maker, cur, locked, sel, base>>
checkerVars == <<checker, checkerStop>>
dataVars == <<pool, chain, tip, gone>>
vars == <<daemonVars, obj, open, queue, workVars, checkerVars, proxyOn, at,
          dataVars, panicked>>

MainSteps == {"init", "proxy", "listen", "start", "notify", "accept", "report",
              "stopProxy", "waitChecker", "stopMaker", "waitMaker", "confirm",
              "waitEnd", "ended"}
MakerSteps == {"off", "receive", "try", "announce", "lock", "work", "send", "leave", "gone"}
Signals == Txs \cup {AnySignal, ExitSignal}

InitServer ==
    /\ main = "init" /\ sig = "wait" /\ stopOpen = TRUE /\ confirmed = FALSE
    /\ theEnd = FALSE /\ failed = FALSE /\ backlog = {}
    /\ obj = FALSE /\ open = FALSE /\ queue = <<>>
    /\ maker = "off" /\ cur = AnySignal /\ locked = {} /\ sel = {} /\ base = 0
    /\ checker = "off" /\ checkerStop = FALSE /\ proxyOn = FALSE
    /\ at = [t \in Txs |-> "away"]
    /\ pool = {} /\ chain = {} /\ tip = 0 /\ gone = {}
    /\ panicked = "no"

\* The process runs: main has not returned and nobody panicked.
Running == main # "ended" /\ panicked = "no"

\* The server is between net.Listen and ln.Close.
Listening == main \in {"start", "notify", "accept"}

\* A goroutine step that takes one routine from one place to the next.
MainGoes(from, to) == Running /\ main = from /\ main' = to
MakerGoes(from, to) == Running /\ maker = from /\ maker' = to
CheckerGoes(from, to) == Running /\ checker = from /\ checker' = to

---------------------------------------------------------------------------
\* Signals for the block maker.

\* Mutants of NewTransaction: the limit of the channel is forgotten; the
\* channel has no buffer, so that only a waiting routine gets the signal.
SendWithoutLimit(who, pointer, signal) ==
    IF pointer /\ open
    THEN queue' = Append(queue, signal) /\ UNCHANGED panicked
    ELSE panicked' = who /\ UNCHANGED queue

SendWithoutBuffer(who, pointer, signal) ==
    IF pointer /\ open
    THEN /\ queue' = IF queue = <<>> /\ maker = "receive" THEN <<signal>> ELSE queue
         /\ UNCHANGED panicked
    ELSE panicked' = who /\ UNCHANGED queue

\* NewTransaction of the block maker, called through a pointer that is nil
\* or not: select sends the signal or, when the channel is full, drops it.
\* A nil pointer and a closed channel are panics of the calling goroutine,
\* which nothing recovers.
NewTransaction(who, pointer, signal) ==
    IF pointer /\ open
    THEN /\ queue' = IF Len(queue) < Cap THEN Append(queue, signal) ELSE queue
         /\ UNCHANGED panicked
    ELSE panicked' = who /\ UNCHANGED queue

---------------------------------------------------------------------------
\* The main goroutine.

InitBlocksMaker ==
    /\ MainGoes("init", "proxy")
    /\ obj' = TRUE /\ open' = TRUE
    /\ UNCHANGED <<sig, stopOpen, confirmed, theEnd, failed, backlog, queue,
                   workVars, checkerVars, proxyOn, at, dataVars, panicked>>

\* startDatabaseProxy: with an address the proxy listens from here on,
\* without one the server goes on without it.
StartDatabaseProxy ==
    /\ MainGoes("proxy", "listen")
    /\ proxyOn' \in BOOLEAN
    /\ UNCHANGED <<sig, stopOpen, confirmed, theEnd, failed, backlog, obj, open,
                   queue, workVars, checkerVars, at, dataVars, panicked>>

\* The address of the proxy or the port of the node cannot be used.
StartFails ==
    /\ MainGoes("proxy", "report") \/ MainGoes("listen", "report")
    /\ failed' = TRUE
    /\ UNCHANGED <<sig, stopOpen, confirmed, theEnd, backlog, obj, open, queue,
                   workVars, checkerVars, proxyOn, at, dataVars, panicked>>

\* net.Listen, then the checker and the block maker are started.
Listen ==
    /\ MainGoes("listen", "start")
    /\ UNCHANGED <<sig, stopOpen, confirmed, theEnd, failed, backlog, obj, open,
                   queue, workVars, checkerVars, proxyOn, at, dataVars, panicked>>

StartRoutines ==
    /\ MainGoes("start", "notify")
    /\ checker' = "loop" /\ maker' = "receive"
    /\ UNCHANGED <<sig, stopOpen, confirmed, theEnd, failed, backlog, obj, open,
                   queue, cur, locked, sel, base, checkerStop, proxyOn, at, dataVars,
                   panicked>>

\* The result of the start goes to waitServerStarted, which always takes it
\* and ends.
SendResult ==
    /\ MainGoes("notify", "accept") \/ MainGoes("report", "stopProxy")
    /\ UNCHANGED <<sig, stopOpen, confirmed, theEnd, failed, backlog, obj, open, queue,
                   workVars, checkerVars, proxyOn, at, dataVars, panicked>>

\* The accept loop takes a connection, then looks at StopMainChan: it gives
\* the connection to a goroutine or closes the listener and stops.
Accept(c) ==
    /\ c \in backlog /\ stopOpen
    /\ MainGoes("accept", "accept")
    /\ backlog' = backlog \ {c}
    /\ at' = [t \in Txs |-> IF t = c THEN "running" ELSE at[t]]
    /\ UNCHANGED <<sig, stopOpen, confirmed, theEnd, failed, obj, open, queue,
                   workVars, checkerVars, proxyOn, dataVars, panicked>>

AcceptAndStop ==
    /\ backlog # {} /\ ~stopOpen
    /\ MainGoes("accept", "stopProxy")
    /\ backlog' = {}
    /\ UNCHANGED <<sig, stopOpen, confirmed, theEnd, failed, obj, open, queue,
                   workVars, checkerVars, proxyOn, at, dataVars, panicked>>

\* ln.Accept fails: StartServer returns the error and stops nothing.
AcceptFails ==
    /\ MainGoes("accept", "ended")
    /\ failed' = TRUE
    /\ UNCHANGED <<sig, stopOpen, confirmed, theEnd, backlog, obj, open, queue,
                   workVars, checkerVars, proxyOn, at, dataVars, panicked>>

\* stopAllSubroutines: the proxy, the checker, the block maker, each only
\* when there is one.  Stop of the proxy closes no session that is open;
\* Stop of the checker closes its stopChan and waits.
StopProxyAndChecker ==
    /\ MainGoes("stopProxy", IF checker = "off" THEN "stopMaker" ELSE "waitChecker")
    /\ proxyOn' = FALSE /\ checkerStop' = (checker # "off")
    /\ UNCHANGED <<sig, stopOpen, confirmed, theEnd, failed, backlog, obj, open,
                   queue, workVars, checker, at, dataVars, panicked>>

\* Mutant of CheckerStopped: completeChan of the checker is not waited for.
CheckerNotAwaited ==
    /\ MainGoes("waitChecker", "stopMaker")
    /\ UNCHANGED <<sig, stopOpen, confirmed, theEnd, failed, backlog, obj, open, queue,
                   workVars, checkerVars, proxyOn, at, dataVars, panicked>>

CheckerStopped ==
    /\ MainGoes("waitChecker", "stopMaker")
    /\ CheckerGoes("complete", "gone")
    /\ UNCHANGED <<sig, stopOpen, confirmed, theEnd, failed, backlog, obj, open,
                   queue, workVars, checkerStop, proxyOn, at, dataVars, panicked>>

\* Stop of a block maker that was not started closes the channel; otherwise
\* the exit signal is sent and waits for room in the channel.
CloseChannel ==
    /\ maker = "off"
    /\ MainGoes("stopMaker", "confirm")
    /\ open' = FALSE
    /\ UNCHANGED <<sig, stopOpen, confirmed, theEnd, failed, backlog, obj, queue,
                   workVars, checkerVars, proxyOn, at, dataVars, panicked>>

SendExit ==
    /\ maker # "off" /\ Len(queue) < Cap
    /\ MainGoes("stopMaker", "waitMaker")
    /\ queue' = Append(queue, ExitSignal)
    /\ UNCHANGED <<sig, stopOpen, confirmed, theEnd, failed, backlog, obj, open,
                   workVars, checkerVars, proxyOn, at, dataVars, panicked>>

\* Mutant of MakerStopped: completeChan of the block maker is not waited for.
MakerNotAwaited ==
    /\ MainGoes("waitMaker", "confirm")
    /\ UNCHANGED <<sig, stopOpen, confirmed, theEnd, failed, backlog, obj, open, queue,
                   workVars, checkerVars, proxyOn, at, dataVars, panicked>>

MakerStopped ==
    /\ MainGoes("waitMaker", "confirm")
    /\ MakerGoes("leave", "gone")
    /\ UNCHANGED <<sig, stopOpen, confirmed, theEnd, failed, backlog, obj, open,
                   queue, cur, locked, sel, base, checkerVars, proxyOn, at, dataVars,
                   panicked>>

\* The server drops its pointer to the block maker and confirms.
Confirm ==
    /\ MainGoes("confirm", IF failed THEN "ended" ELSE "waitEnd")
    /\ obj' = FALSE /\ confirmed' = TRUE
    /\ UNCHANGED <<sig, stopOpen, theEnd, failed, backlog, open, queue, workVars,
                   checkerVars, proxyOn, at, dataVars, panicked>>

\* DaemonizeServer after StartServer: unless the server failed it waits for
\* the signal routine.
Return ==
    /\ theEnd
    /\ MainGoes("waitEnd", "ended")
    /\ UNCHANGED <<sig, stopOpen, confirmed, theEnd, failed, backlog, obj, open, queue,
                   workVars, checkerVars, proxyOn, at, dataVars, panicked>>

---------------------------------------------------------------------------
\* The signal routine of the daemon.

\* A signal of the system arrives, at any time.
ReceiveSignal ==
    /\ Running /\ sig = "wait" /\ sig' = "wake"
    /\ stopOpen' = FALSE
    /\ UNCHANGED <<main, confirmed, theEnd, failed, backlog, obj, open, queue,
                   workVars, checkerVars, proxyOn, at, dataVars, panicked>>

\* Mutant of SendVoid: nothing wakes the accept loop up.
SendNoVoid ==
    /\ Running /\ sig = "wake" /\ sig' = "confirm"
    /\ UNCHANGED <<main, stopOpen, confirmed, theEnd, failed, backlog, obj, open, queue,
                   workVars, checkerVars, proxyOn, at, dataVars, panicked>>

\* The "void" connection wakes the accept loop up; nobody repeats it when
\* the server does not listen.
SendVoid ==
    /\ Running /\ sig = "wake" /\ sig' = "confirm"
    /\ backlog' = IF Listening THEN backlog \cup {"void"} ELSE backlog
    /\ UNCHANGED <<main, stopOpen, confirmed, theEnd, failed, obj, open, queue,
                   workVars, checkerVars, proxyOn, at, dataVars, panicked>>

\* The connection fails although the server listens: the error is logged and
\* the routine waits for the confirmation all the same.
VoidIsLost ==
    /\ Running /\ Listening /\ sig = "wake" /\ sig' = "unheard"
    /\ UNCHANGED <<main, stopOpen, confirmed, theEnd, failed, backlog, obj, open, queue,
                   workVars, checkerVars, proxyOn, at, dataVars, panicked>>

\* With the confirmation the PID file is removed.
RemovePidFile ==
    /\ Running /\ sig \in {"confirm", "unheard"} /\ confirmed /\ sig' = "done"
    /\ theEnd' = TRUE
    /\ UNCHANGED <<main, stopOpen, confirmed, failed, backlog, obj, open, queue,
                   workVars, checkerVars, proxyOn, at, dataVars, panicked>>

---------------------------------------------------------------------------
\* Connections and sessions that bring transactions.

Connect(t) ==
    /\ Running /\ Listening /\ at[t] = "away" /\ Via[t] \in {"client", "peer"}
    /\ at' = [at EXCEPT ![t] = "waiting"]
    /\ backlog' = backlog \cup {t}
    /\ UNCHANGED <<main, sig, stopOpen, confirmed, theEnd, failed, obj, open, queue,
                   workVars, checkerVars, proxyOn, dataVars, panicked>>

OpenSession(t) ==
    /\ Running /\ proxyOn /\ at[t] = "away" /\ Via[t] = "proxy"
    /\ at' = [at EXCEPT ![t] = "running"]
    /\ UNCHANGED <<daemonVars, obj, open, queue, workVars, checkerVars, proxyOn, dataVars,
                   panicked>>

\* ReceivedNewTransaction puts the transaction into the pool.
PutIntoPool(t) ==
    /\ Running /\ at[t] = "running"
    /\ at' = [at EXCEPT ![t] = "signal"]
    /\ pool' = pool \cup {t}
    /\ UNCHANGED <<daemonVars, obj, open, queue, workVars, checkerVars, proxyOn, chain, tip,
                   gone, panicked>>

\* It refuses it: a handler returns, the filter of the proxy only logs.
Refuse(t) ==
    /\ Running /\ at[t] = "running"
    /\ at' = [at EXCEPT ![t] = IF Via[t] = "proxy" THEN "signal" ELSE "done"]
    /\ gone' = gone \cup {t}
    /\ UNCHANGED <<daemonVars, obj, open, queue, workVars, checkerVars, proxyOn, pool, chain,
                   tip, panicked>>

\* A transaction of a client or of the proxy is new on this node: its
\* identifier is the signal.  The filter of the proxy has its own pointer to
\* the block maker.
SignalMaker(t) ==
    /\ Running /\ at[t] = "signal" /\ Via[t] # "pull"
    /\ at' = [at EXCEPT ![t] = "done"]
    /\ NewTransaction(IF Via[t] = "proxy" THEN "session" ELSE "handler",
                      obj \/ Via[t] = "proxy",
                      IF Via[t] = "peer" THEN AnySignal ELSE t)
    /\ UNCHANGED <<daemonVars, obj, open, workVars, checkerVars, proxyOn, dataVars>>

---------------------------------------------------------------------------
\* The changes checker.

\* The loop sees that it has to stop and waits for Stop to take notice.
CheckerCompletes ==
    /\ checkerStop
    /\ CheckerGoes("loop", "complete")
    /\ UNCHANGED <<daemonVars, obj, open, queue, workVars, checkerStop, proxyOn, at,
                   dataVars, panicked>>

\* CheckForChangesOnOtherNodes brings a transaction; a round that brings
\* none changes nothing here.
Pull(t) ==
    /\ ~checkerStop /\ at[t] = "away" /\ Via[t] = "pull"
    /\ CheckerGoes("loop", "signal")
    /\ at' = [at EXCEPT ![t] = "signal"]
    /\ pool' = pool \cup {t}
    /\ UNCHANGED <<daemonVars, obj, open, queue, workVars, checkerStop, proxyOn, chain, tip,
                   gone, panicked>>

\* processResults, after transactions were added.
ProcessResults ==
    /\ CheckerGoes("signal", "loop")
    /\ NewTransaction("checker", obj, AnySignal)
    /\ at' = [t \in Txs |-> IF Via[t] = "pull" /\ at[t] = "signal" THEN "done" ELSE at[t]]
    /\ UNCHANGED <<daemonVars, obj, open, workVars, checkerStop, proxyOn, dataVars>>

---------------------------------------------------------------------------
\* The routine of the block maker.

\* Mutant of IsExit: the one byte signal is taken for the exit signal.
IsShort(signal) == signal \notin Txs

\* The signal means that the routine has to exit.
IsExit(signal) == signal = ExitSignal

Receive ==
    /\ queue # <<>> /\ ~IsExit(Head(queue))
    /\ MakerGoes("receive", "try")
    /\ cur' = Head(queue) /\ queue' = Tail(queue)
    /\ UNCHANGED <<daemonVars, obj, open, locked, sel, base, checkerVars, proxyOn, at,
                   dataVars, panicked>>

\* The exit signal: the channel is closed with what is left in it.
ReceiveExit ==
    /\ queue # <<>> /\ IsExit(Head(queue))
    /\ MakerGoes("receive", "leave")
    /\ queue' = Tail(queue) /\ open' = FALSE
    /\ UNCHANGED <<daemonVars, obj, cur, locked, sel, base, checkerVars, proxyOn, at,
                   dataVars, panicked>>

\* TryToMakeBlock returns with the node object of this attempt; the routine
\* clears its list and receives again.
Unlock == locked' = {} /\ sel' = {} /\ base' = 0 /\ cur' = AnySignal

\* No address of a minter, or an error while the block is prepared,
\* completed or added.
AttemptFails ==
    /\ \E step \in {"try", "work"} : MakerGoes(step, "receive")
    /\ Unlock
    /\ UNCHANGED <<daemonVars, obj, open, queue, checkerVars, proxyOn, at, dataVars,
                   panicked>>

\* Not enough transactions in the pool.
TooFew ==
    /\ Cardinality(pool) < MinTxs
    /\ MakerGoes("try", "announce")
    /\ UNCHANGED <<daemonVars, obj, open, queue, cur, locked, sel, base, checkerVars,
                   proxyOn, at, dataVars, panicked>>

\* The identifier of a new transaction that is still in the pool goes to all
\* other nodes (Sync follows it there); a one byte signal is not an identifier.
Announce ==
    /\ MakerGoes("announce", "receive")
    /\ Unlock
    /\ UNCHANGED <<daemonVars, obj, open, queue, checkerVars, proxyOn, at, dataVars,
                   panicked>>

\* The largest selections that fit into a block.
Selections == {s \in SUBSET pool : /\ s # {}
                                   /\ Cardinality(s) <= MaxTxs
                                   /\ s = pool \/ Cardinality(s) = MaxTxs}

Prepare ==
    /\ Cardinality(pool) >= MinTxs
    /\ MakerGoes("try", "lock")
    /\ sel' \in Selections
    /\ base' = tip
    /\ UNCHANGED <<daemonVars, obj, open, queue, cur, locked, checkerVars, proxyOn, at,
                   dataVars, panicked>>

\* The callback stores the list of the transactions of the block.
Lock ==
    /\ MakerGoes("lock", "work")
    /\ locked' = sel
    /\ UNCHANGED <<daemonVars, obj, open, queue, cur, sel, base, checkerVars, proxyOn, at,
                   dataVars, panicked>>

\* Mutant of OnTop: the base of the block is not compared.
OnAnyTop == TRUE

\* The block goes on top when its base is still the top.
OnTop == base = tip

\* Mutant of AddBlock: a block of a parallel branch empties the pool too.
AddBlockAlways ==
    /\ MakerGoes("work", "send")
    /\ pool' = pool \ sel
    /\ IF OnTop
       THEN chain' = chain \cup sel /\ tip' = tip + 1
       ELSE UNCHANGED <<chain, tip>>
    /\ UNCHANGED <<daemonVars, obj, open, queue, cur, locked, sel, base, checkerVars,
                   proxyOn, at, gone, panicked>>

\* CompleteBlock does the proof of work, the longest time of all steps, and
\* then AddBlock of the node adds the block.  One that is not on top goes to a parallel
\* branch and leaves the pool as it is.
AddBlock ==
    /\ MakerGoes("work", "send")
    /\ IF OnTop
       THEN chain' = chain \cup sel /\ pool' = pool \ sel /\ tip' = tip + 1
       ELSE UNCHANGED <<chain, pool, tip>>
    /\ UNCHANGED <<daemonVars, obj, open, queue, cur, locked, sel, base, checkerVars,
                   proxyOn, at, gone, panicked>>

\* The block goes to all other nodes, as in Sync.
SendBlock ==
    /\ MakerGoes("send", "receive")
    /\ Unlock
    /\ UNCHANGED <<daemonVars, obj, open, queue, checkerVars, proxyOn, at, dataVars,
                   panicked>>

---------------------------------------------------------------------------
\* What other goroutines do to the pool and the chain.

\* A block of another node is added on top.
OtherBlock(s) ==
    /\ Running /\ maker # "off" /\ tip < MaxTip
    /\ tip' = tip + 1 /\ chain' = chain \cup s /\ pool' = pool \ s
    /\ UNCHANGED <<daemonVars, obj, open, queue, workVars, checkerVars, proxyOn, at, gone,
                   panicked>>

---------------------------------------------------------------------------

MainStep ==
    \/ InitBlocksMaker \/ StartDatabaseProxy \/ Listen \/ StartRoutines
    \/ SendResult \/ AcceptAndStop \/ StopProxyAndChecker
    \/ CheckerStopped \/ CloseChannel \/ SendExit \/ MakerStopped \/ Confirm
    \/ Return

DaemonStep == SendVoid \/ RemovePidFile

CheckerStep == CheckerCompletes \/ ProcessResults

MakerStep ==
    \/ Receive \/ ReceiveExit \/ TooFew \/ Announce \/ Prepare \/ Lock \/ AddBlock \/ SendBlock

Environment ==
    \/ StartFails \/ AcceptFails \/ ReceiveSignal \/ VoidIsLost \/ AttemptFails
    \/ \E t \in Txs : Connect(t) \/ OpenSession(t) \/ Refuse(t) \/ Pull(t)
    \/ \E s \in SUBSET pool : OtherBlock(s)

NextServer ==
    \/ MainStep
    \/ DaemonStep
    \/ CheckerStep
    \/ MakerStep
    \/ Environment
    \/ \E c \in backlog : Accept(c)
    \/ \E t \in Txs : PutIntoPool(t) \/ SignalMaker(t)

\* The scheduler runs every goroutine that can take a step; a proof of work,
\* a call to another node or to the database returns.
FairServer ==
    /\ WF_vars(MainStep) /\ WF_vars(DaemonStep) /\ WF_vars(CheckerStep)
    /\ WF_vars(MakerStep)
    /\ \A t \in Txs : WF_vars(PutIntoPool(t)) /\ WF_vars(SignalMaker(t))

SpecServer == InitServer /\ [][NextServer]_vars /\ FairServer

---------------------------------------------------------------------------
\* Properties.

\* Every part of the state has its type.
TypeOKServer ==
    /\ main \in MainSteps /\ sig \in {"wait", "wake", "confirm", "unheard", "done"}
    /\ stopOpen \in BOOLEAN /\ confirmed \in BOOLEAN /\ theEnd \in BOOLEAN
    /\ failed \in BOOLEAN
    /\ backlog \subseteq Txs \cup {"void"}
    /\ obj \in BOOLEAN /\ open \in BOOLEAN
    /\ queue \in Seq(Signals) /\ Len(queue) <= Cap
    /\ maker \in MakerSteps /\ cur \in Txs \cup {AnySignal}
    /\ locked \subseteq Txs /\ sel \subseteq Txs /\ base \in Nat
    /\ checker \in {"off", "loop", "signal", "complete", "gone"}
    /\ checkerStop \in BOOLEAN /\ proxyOn \in BOOLEAN
    /\ at \in [Txs -> {"away", "waiting", "running", "signal", "done"}]
    /\ pool \subseteq Txs /\ chain \subseteq Txs /\ gone \subseteq Txs /\ tip \in Nat
    /\ panicked \in {"no", "handler", "session", "checker"}

\* A send to the block maker brings the process down only after it was told
\* to stop or failed to start: while the server works its channel is open and
\* its pointer set (blocksmaker.go:58-62, server.go:391-396).  And it is never a
\* send of the changes checker, which must not meet a stopped block maker:
\* stopAllSubroutines waits for it first (server.go:386-396, changeschecker.go:99).
PanicOnlyInStop ==
    /\ panicked # "no" => ~stopOpen \/ failed
    /\ panicked # "checker"

\* When the end of the server is confirmed, and the daemon may leave, no
\* routine is in an attempt to make a block or in a pull (server.go:398).
ConfirmedIsIdle ==
    confirmed => maker \in {"off", "gone"} /\ checker \in {"off", "gone"} /\ ~proxyOn

\* The list that polling nodes do not get is that of the block under work
\* and is empty when there is none (blocksmaker.go:69-78).
LockedIsMinted == locked = IF maker \in {"work", "send"} THEN sel ELSE {}

\* A transaction that was put into the pool stays there until it is on the
\* primary branch, whatever happens between the preparation and the end of a
\* block (node.go:434-445).
NothingLost ==
    /\ \A t \in Txs : at[t] \in {"signal", "done"} => t \in pool \cup chain \cup gone
    /\ pool \cap chain = {}

\* A block made here that goes on top approves only transactions that no
\* block approved while the work was done (node.go:441).
OwnBlockIsNew == [][AddBlock /\ tip' # tip => sel \cap chain = {}]_vars

\* No more goroutine of this server runs, or the end has begun.
Over == panicked # "no" \/ failed \/ ~stopOpen

\* A signal may be dropped when the channel is full, "this will not be a
\* problem" (server.go:275-277): some attempt to make a block still finds the
\* transaction it was for, unless a block of another node was faster.
EveryoneIsTried ==
    \A t \in Txs : (at[t] = "signal" /\ t \in pool) ~> (maker = "try" \/ t \notin pool \/ Over)

\* A signal of the system that comes while the server listens ends the
\* process: no routine waits for another one for ever (daemon.go:297-352,
\* blocksmaker.go:113-132).  When the connection that should wake the server up
\* fails, the next one of anybody else does it.
StopEnds ==
    /\ (sig = "wake" /\ main = "accept") ~> (~Running \/ sig = "unheard")
    /\ (sig = "unheard" /\ main = "accept" /\ backlog # {}) ~> ~Running
=============================================================================
