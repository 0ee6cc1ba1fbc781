-------------------------------- MODULE Wallet --------------------------------
(***************************************************************************)
(* The wallet (wallet/cli.py): commands, each a process of its own, that   *)
(* share three files.  A file is read as a whole and replaced as a whole   *)
(* (_atomic_write), but a command reads and writes several of them one     *)
(* after the other, and extends the file of locked tokens by reading it,   *)
(* adding to it and replacing it.                                          *)
(*                                                                         *)
(* A node may answer a synchronisation with any of Answers: the wallet has *)
(* no means to tell an old answer from a new one.                          *)
(***************************************************************************)
EXTENDS Integers, Sequences, SequencesExt, FiniteSetsExt

CONSTANTS
  Commands,   \* processes of the command line
  Answers,    \* sets of tokens that a node may answer with
  Currencies,
  Subunits,   \* units of an asked amount that make a cent
  Asks,       \* payments that may be asked for, their amounts in those units
  ModelIds,   \* as in UtxoTypes: "uuid" as declared, "str" were it a string
  MaxPayments \* bound of the model

\* Amounts in the files are whole cents; pydantic compares an amount with zero
\* before it rounds it to cents, so 0.00 is among them.
Token == [id: Nat, amount: Nat, currency: Currencies]

ASSUME WalletAssumption ==
  /\ \A answer \in Answers : answer \subseteq Token /\ IsFiniteSet(answer)
  /\ Asks \subseteq [amount: Int, currency: Currencies]
  /\ Subunits \in Nat \ {0} /\ MaxPayments \in Nat
  /\ ModelIds \in {"uuid", "str"}

VARIABLES
  keys,     \* the keys that were created, the last of them in KEY_FILE;
            \* history: whether no other init ran meanwhile
  file,     \* UTXO_FILE
  locked,   \* LOCKED_FILE, strings
  payments, \* the transactions that build_payment returned
  pc, mem,  \* where each command is, and its locals
  alone     \* history: no other command of its kind ran meanwhile

vars == <<keys, file, locked, payments, pc, mem, alone>>

Nothing == [op |-> "NONE"]

Init ==
  /\ keys = <<>> /\ file = {} /\ locked = {} /\ payments = <<>>
  /\ pc = [c \in Commands |-> "idle"]
  /\ mem = [c \in Commands |-> Nothing]
  /\ alone = [c \in Commands |-> FALSE]

Goto(c, label) == pc' = [pc EXCEPT ![c] = label]

Finish(c) ==
  /\ Goto(c, "idle")
  /\ mem' = [mem EXCEPT ![c] = Nothing]
  /\ alone' = [alone EXCEPT ![c] = FALSE]

\* c comes to a point where the commands at these labels are in each other's way.
Meet(c, labels) ==
  LET others == {d \in Commands \ {c} : pc[d] \in labels}
  IN  alone' = [d \in Commands |-> IF d = c THEN others = {}
                                   ELSE alone[d] /\ d \notin others]

----------------------------------------------------------------------------
(* init *)

Initialized == keys # <<>>

\* The wallet does not exist yet: ask for a password.
CheckKeyFile(c) ==
  /\ pc[c] = "idle" /\ ~ Initialized
  /\ Goto(c, "prompt")
  /\ Meet(c, {"prompt"})
  /\ UNCHANGED <<keys, file, locked, payments, mem>>

Create(c) ==
  /\ pc[c] = "prompt"
  /\ keys' = Append(keys, alone[c])
  /\ Finish(c)
  /\ UNCHANGED <<file, locked, payments>>

----------------------------------------------------------------------------
(* sync_utxos *)

Fetch(c) ==
  /\ pc[c] = "idle" /\ Initialized
  /\ \E answer \in Answers :
       mem' = [mem EXCEPT ![c] = [op |-> "SYNC", tokens |-> answer]]
  /\ Goto(c, "fetched")
  /\ UNCHANGED <<keys, file, locked, payments, alone>>

WriteUtxos(c) ==
  /\ pc[c] = "fetched"
  /\ file' = mem[c].tokens
  /\ Finish(c)
  /\ UNCHANGED <<keys, locked, payments>>

----------------------------------------------------------------------------
(* build_payment *)

Total(tokens) == MapThenSumSet(LAMBDA u : u.amount, tokens)

\* The same in the units of what is asked for.
Worth(tokens) == Subunits * Total(tokens)

\* pydantic rounds an output to cents, half to even.
Cents(units) ==
  LET cents == units \div Subunits
      rest  == units % Subunits
  IN  IF 2 * rest > Subunits \/ (2 * rest = Subunits /\ cents % 2 = 1)
      THEN cents + 1 ELSE cents

\* Variant: the file of locked tokens is not asked.
AnyToken(tokens, currency, locks) == {u \in tokens : u.currency = currency}

\* A UUID is never among the strings of LOCKED_FILE.
Spendable(tokens, currency, locks) ==
  {u \in tokens : u.currency = currency /\ ~ (ModelIds = "str" /\ u.id \in locks)}

\* Variant: the list is not reversed.
SmallestFirst(tokens) ==
  {s \in SetToSeqs(tokens) : \A i, j \in DOMAIN s : i < j => s[i].amount =< s[j].amount}

\* The ways to sort the tokens: the file decides among equal amounts.
LargestFirst(tokens) ==
  {s \in SetToSeqs(tokens) : \A i, j \in DOMAIN s : i < j => s[i].amount >= s[j].amount}

\* From the front, one at least, until the amount is reached.
Chosen(seq, amount) ==
  LET enough == {n \in 1 .. Len(seq) : Worth(ToSet(SubSeq(seq, 1, n))) >= amount}
  IN  SubSeq(seq, 1, IF enough = {} THEN Len(seq) ELSE Min(enough))

\* The payment, and what is left, to oneself: the change is computed from the
\* amount as it was asked for, and then each output is rounded by itself.
Outputs(chosen, amount, currency) ==
  LET change     == Worth(ToSet(chosen)) - amount
      Out(to, a) == [to |-> to, amount |-> Cents(a), currency |-> currency]
  IN  <<Out("merchant", amount)>>
        \o (IF change > 0 THEN <<Out("self", change)>> ELSE <<>>)

ReadUtxos(c) ==
  /\ pc[c] = "idle" /\ Initialized
  /\ \E ask \in Asks :
       mem' = [mem EXCEPT ![c] = [op |-> "PAY", tokens |-> file, amount |-> ask.amount,
                                  currency |-> ask.currency]]
  /\ Goto(c, "select")
  /\ UNCHANGED <<keys, file, locked, payments, alone>>

\* Reads the locks and selects; raises if that is not enough, or if pydantic
\* refuses the amount.
Select(c) ==
  LET m         == mem[c]
      available == Spendable(m.tokens, m.currency, locked)
  IN  /\ pc[c] = "select"
      /\ \E seq \in LargestFirst(available) :
           LET chosen == Chosen(seq, m.amount)
           IN  IF Worth(ToSet(chosen)) < m.amount \/ m.amount =< 0
               THEN Finish(c)
               ELSE /\ mem' = [mem EXCEPT ![c] =
                                [op |-> "LOCK", inputs |-> chosen, amount |-> m.amount,
                                 outputs |-> Outputs(chosen, m.amount, m.currency),
                                 available |-> available, locks |-> {}]]
                    /\ Goto(c, "extend")
                    /\ Meet(c, {"extend", "write", "return"})
      /\ UNCHANGED <<keys, file, locked, payments>>

InputIds(p) == {u.id : u \in ToSet(p.inputs)}

\* _lock_tokens, which reads the locks once more.
ReadLocks(c) ==
  /\ pc[c] = "extend"
  /\ mem' = [mem EXCEPT ![c].locks = locked]
  /\ Goto(c, "write")
  /\ UNCHANGED <<keys, file, locked, payments, alone>>

\* json.dump refuses UUIDs; strings are written.
WriteLocks(c) ==
  /\ pc[c] = "write"
  /\ IF ModelIds = "uuid"
     THEN Finish(c) /\ UNCHANGED locked
     ELSE /\ locked' = mem[c].locks \cup InputIds(mem[c])
          /\ Goto(c, "return")
          /\ UNCHANGED <<mem, alone>>
  /\ UNCHANGED <<keys, file, payments>>

ReturnPayment(c) ==
  /\ pc[c] = "return" /\ Len(payments) < MaxPayments
  /\ payments' = Append(payments, [inputs |-> mem[c].inputs, outputs |-> mem[c].outputs,
                                   signed |-> 0, alone |-> alone[c]])
  /\ Finish(c)
  /\ UNCHANGED <<keys, file, locked>>

----------------------------------------------------------------------------
(* sign, and the end of a process *)

\* One input after the other is signed; raises at the first whose token is
\* no longer in the file.
Sign(i) ==
  LET p       == payments[i]
      there   == {u.id : u \in file}
      missing == {n \in DOMAIN p.inputs : p.inputs[n].id \notin there}
  IN  /\ Initialized
      /\ payments' = [payments EXCEPT ![i].signed =
                        IF missing = {} THEN Len(p.inputs) ELSE Max({@, Min(missing) - 1})]
      /\ UNCHANGED <<keys, file, locked, pc, mem, alone>>

\* A command is interrupted, its passwords differ, or the node is not reached.
Stop(c) ==
  /\ pc[c] # "idle"
  /\ Finish(c)
  /\ UNCHANGED <<keys, file, locked, payments>>

Next ==
  \/ \E c \in Commands :
       \/ CheckKeyFile(c) \/ Create(c)
       \/ Fetch(c) \/ WriteUtxos(c)
       \/ ReadUtxos(c) \/ Select(c) \/ ReadLocks(c) \/ WriteLocks(c)
       \/ ReturnPayment(c) \/ Stop(c)
  \/ \E i \in DOMAIN payments : Sign(i)

Spec == Init /\ [][Next]_vars

----------------------------------------------------------------------------
(* Properties *)

SumOf(list) == MapThenSumSet(LAMBDA i : list[i].amount, DOMAIN list)

\* verify_economic_validity of core/models.py; build_payment's fee is zero.
EconomicallyValid(inputs, outputs) ==
  /\ \A i \in DOMAIN inputs : inputs[i].currency = outputs[1].currency
  /\ SumOf(inputs) = SumOf(outputs)

\* The amount ends in half a cent, as the change then does too, and the inputs
\* are worth an odd number of cents: both outputs are rounded the same way.
RoundedAlike(m) == 2 * (m.amount % Subunits) = Subunits /\ SumOf(m.inputs) % 2 = 1

\* The inputs of a payment are the wallet's own and cover what was asked for,
\* and no choice of fewer tokens would ("largest first to minimize tx size").
\* Although the amount and the change are rounded separately, the payment is
\* valid, except when both are rounded alike: it is then a cent off.
FewestInputs ==
  \A c \in Commands :
    pc[c] = "extend" =>
      LET m == mem[c]
      IN  /\ ToSet(m.inputs) \subseteq m.available
          /\ Worth(ToSet(m.inputs)) >= m.amount
          /\ \A s \in SUBSET m.available :
               Cardinality(s) < Len(m.inputs) => Worth(s) < m.amount
          /\ IF RoundedAlike(m)
             THEN SumOf(m.outputs) - SumOf(m.inputs) \in {-1, 1}
             ELSE EconomicallyValid(m.inputs, m.outputs)

\* "Validates value conservation (inputs = outputs + fee)": no payment that the
\* wallet returns makes or loses value.  It does: see RoundedAlike.
PaymentsConserveValue ==
  \A i \in DOMAIN payments : EconomicallyValid(payments[i].inputs, payments[i].outputs)

\* What a command did alone, no later one undoes, whatever a node answers in
\* between, old answers included, and however many commands are interrupted: a
\* key stays the wallet's key, and a payment's tokens stay locked and go into
\* no later payment.
AloneIsKept ==
  /\ \A i \in DOMAIN keys : keys[i] => i = Len(keys)
  /\ \A i \in DOMAIN payments :
       payments[i].alone =>
         /\ InputIds(payments[i]) \subseteq locked
         /\ \A j \in DOMAIN payments :
              i < j => InputIds(payments[i]) \cap InputIds(payments[j]) = {}
============================================================================
