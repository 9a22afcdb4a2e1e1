------------------------------ MODULE Payments ------------------------------
(***************************************************************************)
(* The money of the addresses: how a node prepares a payment out of the    *)
(* unspent outputs and of the pending transactions, what it answers for    *)
(* the balance and for the history of an address, and the command send,    *)
(* which makes a transaction while the server is not running.              *)
(*                                                                         *)
(* A value is a number of smallest units: the code has them as floats and  *)
(* rounds an amount to this unit when a payment is prepared.               *)
(***************************************************************************)
EXTENDS Pool

CONSTANTS
  Key,    \* the keys: an address stands for one
  Owner,  \* the key that an output is locked with
  Value,  \* the value of an output
  Amount  \* bound: the amounts that somebody wants to pay

AllOutputs == UNION {Outputs(t) : t \in Tx}
Unit == 1

\* The value of some outputs: as many smallest units as they have.
Units(S) == UNION {{x} \X (1..Value[x]) : x \in S}
Total(S) == Cardinality(Units(S))
TotalOf(s) == FoldLeft(LAMBDA sum, x : sum + Value[x], 0, s)

\* CreatedByPubKeyHash, of a transfer.
CreatedBy(t, k) == InsOf(t) # {} /\ \A x \in InsOf(t) : Owner[x] = k

\* What Verify sees to: one key signs for all inputs, which are outputs of the
\* transactions they name, and nothing is lost.  A transaction lists its outputs.
ASSUME Transfers ==
  /\ \A t \in Tx : IsFiniteSet(Outs[t])
  /\ Owner \in [AllOutputs -> Key]
  /\ Value \in [AllOutputs -> Nat \ {0}]
  /\ Amount \subseteq Nat \ {0}
  /\ \A t \in Tx \ Coinbase :
       /\ InsOf(t) \subseteq AllOutputs
       /\ InsOf(t) # {} => \E k \in Key : CreatedBy(t, k)
       /\ Total(InsOf(t)) = Total(Outputs(t))
  /\ \A t \in Coinbase : Ins[t] = <<>>

(***************************************************************************)
(* The two sources of a payment                                            *)
(***************************************************************************)

\* The unspent outputs of an address.
Locked(k) == {x \in utxo : Owner[x] = k}

\* Mutation of PreparedBy: a pending output counts although it has been used.
PreparedWithUsed(p, k) ==
  LET inputs  == UNION {InsOf(t) : t \in {x \in Known(p) : CreatedBy(x, k)}}
      outputs == {x \in UNION {Outputs(t) : t \in Known(p)} : Owner[x] = k}
  IN  [inputs |-> inputs, free |-> outputs, approved |-> inputs \ outputs]

\* GetCurrencyTXsPreparedBy: the outputs that pending transactions of the key use,
\* the pending outputs that nothing uses, and the first without pending outputs.
PreparedBy(p, k) ==
  LET inputs  == UNION {InsOf(t) : t \in {x \in Known(p) : CreatedBy(x, k)}}
      outputs == {x \in UNION {Outputs(t) : t \in Known(p)} : Owner[x] = k}
  IN  [inputs |-> inputs, free |-> outputs \ inputs, approved |-> inputs \ outputs]

\* As many of a list as it takes.
Until(s, have, amount) ==
  LET enough == {n \in DOMAIN s : have + TotalOf(SubSeq(s, 1, n)) >= amount}
  IN  IF enough = {} THEN s
      ELSE SubSeq(s, 1, CHOOSE n \in enough : \A m \in enough : n <= m)

\* ChooseSpendableOutputs: the smallest first, in any order when they are all
\* needed and do not suffice.
SmallestFirst(S) ==
  {s \in SetToSeqs(S) : \A j \in DOMAIN s : \A i \in 1..j : Value[s[i]] <= Value[s[j]]}
ChooseSpendable(k, amount, used) ==
  LET mine == Locked(k) \ used
  IN  IF Total(mine) < amount THEN SetToSeqs(mine)
      ELSE {Until(s, 0, amount) : s \in SmallestFirst(mine)}

\* The pending outputs come in the order of a map of transactions.
InMapOrder(S) ==
  {s \in SetToSeqs(S) :
     \A j \in DOMAIN s : \A i \in 1..(j - 1) : s[i][1] = s[j][1] =>
       s[i][2] < s[j][2] /\ \A m \in i..j : s[m][1] = s[i][1]}
Extend(s, amount, free) ==
  {s \o Until(e, TotalOf(s), amount) : e \in InMapOrder(free)}

\* prepareNewCurrencyTransactionStart: the inputs it can come to.
Inputs(p, k, amount) ==
  LET prepared == PreparedBy(p, k)
  IN  UNION {IF TotalOf(s) >= amount THEN {s} ELSE Extend(s, amount, prepared.free) :
               s \in ChooseSpendable(k, amount, prepared.inputs)}
Covers(s, amount) == TotalOf(s) >= amount

\* Mutation of Change: whatever is left is paid back, if it is nothing too.
AnyChange(s, amount) == <<TotalOf(s) - amount>>

\* prepareNewCurrencyTransactionComplete: a second output for what is left.
Change(s, amount) ==
  IF TotalOf(s) - amount > Unit THEN <<TotalOf(s) - amount>> ELSE <<>>

\* The part of Verify that is about values.
ValuesGood(s, values) ==
  LET sum == FoldLeft(LAMBDA n, v : n + v, 0, values)
  IN  /\ \A i \in DOMAIN values : values[i] >= Unit
      /\ TotalOf(s) - sum < Unit /\ sum - TotalOf(s) < Unit

\* PrepareNewSQLTransaction: with a payment when the query has a price, and a base.
PreparedSQL(p, k, price, t) ==
  LET paid == IF price = 0 THEN {<<>>} ELSE {s \in Inputs(p, k, price) : Covers(s, price)}
  IN  [inputs : paid, base : BasesFound(Derived, p, t)]

(***************************************************************************)
(* Balance and history                                                     *)
(***************************************************************************)

\* Mutation of PendingBalance: every output used is looked up and taken off.
PendingOfAll(p, k) ==
  LET prepared == PreparedBy(p, k)
  IN  [ok |-> TRUE, value |-> Total(prepared.free) - Total(prepared.inputs)]

\* getAddressPendingBalance: an error when an output that is used is not found.
PendingBalance(p, k) ==
  LET prepared == PreparedBy(p, k)
  IN  [ok |-> prepared.approved \subseteq utxo,
       value |-> Total(prepared.free) - Total(prepared.approved)]

\* GetAddressBalance
Balance(p, k) ==
  LET pending == PendingBalance(p, k)
  IN  [ok |-> pending.ok,
       approved |-> Total(Locked(k)),
       total |-> Total(Locked(k)) + pending.value]

\* Mutation of HistoryOf: what the key pays back to itself is spent too.
HistoryWithChange(t, k) ==
  IF CreatedBy(t, k) THEN -Total(Outputs(t))
  ELSE Total({x \in Outputs(t) : Owner[x] = k})

\* GetAddressHistory: what a transaction adds to the list, income less spending.
\* (One that pays to its own key is listed with the value 0.)
HistoryOf(t, k) ==
  LET own == {x \in Outputs(t) : Owner[x] = k}
  IN  IF CreatedBy(t, k) THEN -Total(Outputs(t) \ own)
      ELSE Total(own)
History(k) == FoldLeft(LAMBDA sum, t : sum + HistoryOf(t, k), 0, Downwards[top])

(***************************************************************************)
(* The command send: CreateCurrencyTransaction with a map of its own, and  *)
(* no verification.  (The command is given to the server when one runs, so *)
(* there is no map of a daemon here.)  The transaction is made now: it is  *)
(* neither in the pool nor, yet, in any block.                             *)
(***************************************************************************)

IsPayment(t, k, amount) ==
  LET values == <<amount>> \o Change(Ins[t], amount)
  IN  /\ t \notin SQL /\ CreatedBy(t, k) /\ Covers(Ins[t], amount)
      /\ Outs[t] = {i - 1 : i \in DOMAIN values}
      /\ \A i \in DOMAIN values : Value[<<t, i - 1>>] = values[i]

Send(t) ==
  /\ cache = NoCache /\ asked = NoTx /\ adding = {}
  /\ t \notin pool /\ links[t] = {}
  /\ \E k \in Key, amount \in Amount :
       IsPayment(t, k, amount) /\ Ins[t] \in Inputs(Renewed(Current), k, amount)
  /\ ByCommand(Kept(Renewed(Current), t))
  /\ UNCHANGED <<vars, asked, ran, adding, crossed>>

NextPayments == NextPool \/ \E t \in Members(Timeline) : Send(t)

SpecPayments == InitPool /\ [][NextPayments]_allVars

(***************************************************************************)
(* Properties                                                              *)
(***************************************************************************)

\* No command has changed the tables beside the daemon, no block was dropped, no
\* exchange of branches was cut short and nothing was put into the pool too late.
Undisturbed == ~touched /\ drops = 0 /\ ~CutShort /\ ~crossed

\* Reference: what the branch and the pool leave to a key, by a walk over both.
Available(k) ==
  LET txs == TxsOn(top) \cup pool
  IN  {x \in (UNION {Outputs(t) : t \in txs}) \ SpentBy(txs) : Owner[x] = k}

\* Whoever has the money, approved or pending, can pay, and only then: a prepared
\* payment has inputs that neither the branch nor the pool spends, each once, and
\* the node that has prepared it accepts it, unless one smallest unit is left.
PaymentsAreFunded ==
  Undisturbed =>
    \A k \in Key, amount \in Amount : \A s \in Inputs(Loaded(Current), k, amount) :
      /\ Covers(s, amount) <=> Total(Available(k)) >= amount
      /\ IsInjective(s)
      /\ \A i \in DOMAIN s :
           s[i] \in Available(k) /\ InputGood(Derived, Known(Loaded(Current)), s[i])
      /\ Covers(s, amount) /\ TotalOf(s) - amount # Unit =>
           ValuesGood(s, <<amount>> \o Change(s, amount))

\* The balance of an address is what the branch and the pool leave to it, and
\* there is one unless a pending transaction uses an output that has gone.
BalanceIsAvailable ==
  Undisturbed =>
    \A k \in Key :
      LET balance == Balance(Loaded(Current), k)
          gone == {x \in SpentBy({t \in pool : CreatedBy(t, k)}) :
                     x \notin UnspentOn(top) /\ x[1] \notin pool}
      IN  /\ balance.ok <=> gone = {}
          /\ balance.ok => balance.total = Total(Available(k))

\* The history of an address adds up to its approved balance, whatever branches
\* replaced one another: the first is read from the blocks, the second from the
\* unspent outputs.
HistoryIsBalance ==
  Undisturbed => \A k \in Key : History(k) = Balance(Loaded(Current), k).approved

\* A statement can be prepared by whoever can pay its price.  What is in force last
\* on its row is found as its base, and nothing else when no more than two pending
\* transactions are about the row: with three, the order of the map decides.
PendingOf(r) == {t \in pool : Ref[t] = r}
StatementsArePrepared ==
  Undisturbed =>
    \A t \in Held \cap SQL, k \in Key, price \in Amount \cup {0} :
      LET bases == {q.base : q \in PreparedSQL(Loaded(Current), k, price, t)}
          last == LastInForce(Ref[t])
      IN  Ref[t] \in DataRow \ torn /\ InForce(Ref[t]) # {} =>
            IF price > Total(Available(k)) THEN bases = {}
            ELSE /\ last \subseteq bases
                 /\ Cardinality(PendingOf(Ref[t])) < 3 => bases = last
=============================================================================
