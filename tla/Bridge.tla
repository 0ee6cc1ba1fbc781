------------------------------- MODULE Bridge -------------------------------
(***************************************************************************)
(* The liquidity bridge (bridge/main.py): mints and burns against pools of *)
(* liquidity.  Its endpoints are plain functions, so every request runs in *)
(* a thread of its own, over one SQLite file in WAL mode.  A request makes *)
(* three transactions: it is counted by the rate limiter, its signature is *)
(* used up, and then the business itself is done; a failure between them   *)
(* leaves the earlier ones in place.                                       *)
(***************************************************************************)
EXTENDS Integers, Sequences, FiniteSetsExt

CONSTANTS
  Threads,    \* threads serving requests
  NoThread,   \* the holder of a free write lock
  Currencies,
  Sends,      \* signed requests: [sig, type, currency, amount, bank_reference]
  RATE_LIMIT, \* requests that one address may make in a window
  MaxWindow   \* bound of the model: requests counted in a window, refused
              \* ones included

ASSUME BridgeAssumption ==
  /\ NoThread \notin Threads
  /\ RATE_LIMIT \in Nat /\ MaxWindow \in Nat
  /\ \A s \in Sends : /\ s.type \in {"mint", "burn"}
                      /\ s.amount \in Nat \ {0} /\ s.currency \in Currencies
  \* a signature covers the body and the time, so it is good for one request
  /\ \A s, t \in Sends : s.sig = t.sig => s = t

VARIABLES
  transactions, \* completed mints and burns, by bank_reference
  liquidity,    \* liquidity[c]: total and available, or NoPool
  replay,       \* signatures seen
  window,       \* the rate_limit rows of the current window: TRUE if let through
  writer,       \* the thread holding SQLite's write lock
  pc, send,     \* where thread t is, and the request it serves
  count, row,   \* its locals: requests counted, and the pool as it was read
  code          \* code[t]: what it answers

vars == <<transactions, liquidity, replay, window, writer, pc, send, count, row, code>>
tables == <<transactions, liquidity, replay, window>>
locals == <<count, row>>

Sigs == {s.sig : s \in Sends}
References == {s.bank_reference : s \in Sends}

NoPool == [total |-> 0, available |-> 0, exists |-> FALSE]
NoSend == [type |-> "NONE"]

Init ==
  /\ transactions = {}
  /\ liquidity = [c \in Currencies |-> NoPool]
  /\ replay = {}
  /\ window = <<>>
  /\ writer = NoThread
  /\ pc = [t \in Threads |-> "idle"]
  /\ send = [t \in Threads |-> NoSend]
  /\ count = [t \in Threads |-> 0]
  /\ row = [t \in Threads |-> NoPool]
  /\ code = [t \in Threads |-> "NONE"]

Goto(t, label) == pc' = [pc EXCEPT ![t] = label]

Finish(t, status) ==
  /\ Goto(t, "respond")
  /\ count' = [count EXCEPT ![t] = 0]
  /\ row' = [row EXCEPT ![t] = NoPool]
  /\ code' = [code EXCEPT ![t] = status]

----------------------------------------------------------------------------
\* A request with a good API key arrives, the first time or again.
Arrive(t) ==
  /\ pc[t] = "idle"
  /\ \E s \in Sends : send' = [send EXCEPT ![t] = s]
  /\ Goto(t, "rate")
  /\ UNCHANGED <<tables, locals, writer, code>>

(* check_rate_limit: one transaction, which the INSERT opens *)

\* Variant: the requests are counted before this one is inserted, so that
\* nothing is locked meanwhile.
CountFirst(t) ==
  /\ pc[t] = "rate" /\ Len(window) < MaxWindow
  /\ Goto(t, "count")
  /\ count' = [count EXCEPT ![t] = 1]
  /\ UNCHANGED <<tables, row, writer, send, code>>

\* Takes the write lock; the clock is read with it.  No one else sees the row.
InsertRequest(t) ==
  /\ pc[t] = "rate" /\ Len(window) < MaxWindow
  /\ writer = NoThread
  /\ writer' = t
  /\ Goto(t, "count")
  /\ count' = [count EXCEPT ![t] = 1]
  /\ UNCHANGED <<tables, row, send, code>>

CountRequests(t) ==
  /\ pc[t] = "count"
  /\ count' = [count EXCEPT ![t] = @ + Len(window)]
  /\ Goto(t, "counted")
  /\ UNCHANGED <<tables, row, writer, send, code>>

\* count > RATE_LIMIT is refused; the count includes this request.
Within(n) == n =< RATE_LIMIT

\* Commits, then refuses or goes on.  A refused request stays in the count.
CommitCount(t) ==
  /\ pc[t] = "counted"
  /\ window' = Append(window, Within(count[t]))
  /\ writer' = NoThread
  /\ IF Within(count[t])
     THEN /\ Goto(t, "signature")
          /\ count' = [count EXCEPT ![t] = 0]
          /\ UNCHANGED <<row, code>>
     ELSE Finish(t, "LIMITED")
  /\ UNCHANGED <<transactions, liquidity, replay, send>>

\* The oldest request leaves the window, though not the window of a request
\* that read the clock before and is still to count.
WindowSlides ==
  /\ window # <<>>
  /\ window' = Tail(window)
  /\ count' = [t \in Threads |-> IF pc[t] = "count" THEN count[t] + 1 ELSE count[t]]
  /\ UNCHANGED <<transactions, liquidity, replay, writer, pc, send, row, code>>

----------------------------------------------------------------------------
(* verify_signature *)

\* Variant: INSERT OR IGNORE.
Unseen(sig) == TRUE

New(sig) == sig \notin replay

\* The signature is stored and committed before any
\* business is done.  The INSERT that finds it there has opened a
\* transaction, which nobody ends before the connection is closed.
VerifySignature(t) ==
  /\ pc[t] = "signature"
  /\ writer = NoThread
  /\ IF New(send[t].sig)
     THEN /\ replay' = replay \cup {send[t].sig}
          /\ Goto(t, "begin")
          /\ UNCHANGED <<locals, writer, code>>
     ELSE /\ writer' = t
          /\ Finish(t, "REPLAY")
          /\ UNCHANGED replay
  /\ UNCHANGED <<transactions, liquidity, window, send>>

\* A timestamp outside MAX_DRIFT_SECONDS, or a bad signature.
RejectSignature(t) ==
  /\ pc[t] = "signature"
  /\ Finish(t, "REFUSED")
  /\ UNCHANGED <<tables, writer, send>>

----------------------------------------------------------------------------
(* process_liquidity_transaction *)

\* Variant: no BEGIN IMMEDIATE.  Python would begin at the first write, after
\* the pool was read.
ReadUnlocked(t) ==
  /\ pc[t] = "begin"
  /\ Goto(t, "check")
  /\ UNCHANGED <<tables, locals, writer, send, code>>

Begin(t) ==
  /\ pc[t] = "begin"
  /\ writer = NoThread
  /\ writer' = t
  /\ Goto(t, "check")
  /\ UNCHANGED <<tables, locals, send, code>>

\* An exception: rollback.  Nothing was written that others could see.
Abort(t, status) ==
  /\ writer' = NoThread
  /\ Finish(t, status)
  /\ UNCHANGED <<tables, send>>

Delta(s) == IF s.type = "mint" THEN s.amount ELSE - s.amount

\* Variant: only the signature is trusted to stop duplicates.
NotLooked(s) == FALSE

Duplicate(s) == \E x \in transactions : x.bank_reference = s.bank_reference

\* Variant: the test is made on the balance before the burn.
WasShort(s) == liquidity[s.currency].available < 0

\* A burn of a pool that does not exist, or of more than is available.
Insufficient(s) ==
  IF liquidity[s.currency].exists
  THEN liquidity[s.currency].available + Delta(s) < 0
  ELSE s.type = "burn"

CheckRequest(t) ==
  /\ pc[t] = "check"
  /\ IF Duplicate(send[t]) THEN Abort(t, "DUPLICATE")
     ELSE IF Insufficient(send[t]) THEN Abort(t, "INSUFFICIENT")
     ELSE /\ row' = [row EXCEPT ![t] = liquidity[send[t].currency]]
          /\ Goto(t, "commit")
          /\ UNCHANGED <<tables, count, writer, send, code>>

\* The pool as it was read, moved by the request: total and available together.
Adjusted(pool, s) ==
  [total |-> pool.total + Delta(s), available |-> pool.available + Delta(s), exists |-> TRUE]

\* The pool and the record of the transaction are written and committed.
\* The INSERT cannot meet UNIQUE(bank_reference): Duplicate found no record, and
\* no one else has written since BEGIN IMMEDIATE.
Commit(t) ==
  /\ pc[t] = "commit"
  /\ transactions' = transactions \cup {send[t]}
  /\ liquidity' = [liquidity EXCEPT ![send[t].currency] = Adjusted(row[t], send[t])]
  /\ writer' = NoThread
  /\ Finish(t, "COMPLETED")
  /\ UNCHANGED <<replay, window, send>>

----------------------------------------------------------------------------
Waiting(t) == pc[t] \in {"rate", "signature", "begin"} /\ writer # NoThread

\* "database is locked" after five seconds behind another writer.
Busy(t) ==
  /\ Waiting(t)
  /\ Finish(t, "ERROR")
  /\ UNCHANGED <<tables, writer, send>>

\* Variant: the connection is kept for the next request.
KeepOpen(t) == writer' = writer

\* conn.close() ends whatever transaction is still open.
Close(t) == writer' = IF writer = t THEN NoThread ELSE writer

\* A statement raises: whatever transaction was open is undone.
Fault(t) ==
  /\ pc[t] \in {"rate", "count", "counted", "signature", "begin", "check", "commit"}
  /\ writer' = IF writer = t THEN NoThread ELSE writer
  /\ Finish(t, "ERROR")
  /\ UNCHANGED <<tables, send>>

Respond(t) ==
  /\ pc[t] = "respond"
  /\ Close(t)
  /\ Goto(t, "idle")
  /\ send' = [send EXCEPT ![t] = NoSend]
  /\ code' = [code EXCEPT ![t] = "NONE"]
  /\ UNCHANGED <<tables, locals>>

\* The process dies with all its threads; the file keeps what was committed.
Crash ==
  /\ \E t \in Threads : pc[t] # "idle"
  /\ writer' = NoThread
  /\ pc' = [t \in Threads |-> "idle"]
  /\ send' = [t \in Threads |-> NoSend]
  /\ count' = [t \in Threads |-> 0]
  /\ row' = [t \in Threads |-> NoPool]
  /\ code' = [t \in Threads |-> "NONE"]
  /\ UNCHANGED tables

Serve(t) ==
  \/ InsertRequest(t) \/ CountRequests(t) \/ CommitCount(t) \/ VerifySignature(t)
  \/ Begin(t) \/ CheckRequest(t) \/ Commit(t) \/ Busy(t) \/ Respond(t)

Next ==
  \/ \E t \in Threads : Arrive(t) \/ RejectSignature(t) \/ Serve(t) \/ Fault(t)
  \/ WindowSlides \/ Crash

Spec == Init /\ [][Next]_vars

\* Threads that serve a request run on, SQLite's waits being bounded.
FairSpec == Spec /\ \A t \in Threads : WF_vars(Serve(t))

----------------------------------------------------------------------------
(* Properties *)

\* The tables hold what they are meant to: no pool is ever negative.
TypeOK ==
  /\ transactions \subseteq Sends
  /\ liquidity \in [Currencies -> [total: Nat, available: Nat, exists: BOOLEAN]]
  /\ row \in [Threads -> [total: Nat, available: Nat, exists: BOOLEAN]]
  /\ count \in [Threads -> Nat]
  /\ replay \subseteq Sigs
  /\ window \in Seq(BOOLEAN)
  /\ writer \in Threads \cup {NoThread}

NetValue(S) == MapThenSumSet(Delta, S)

\* The pool of each currency is what the recorded mints brought in less what
\* the recorded burns took out, and all of it is available: no thread writes
\* back a pool that another has changed since it was read, and a request that
\* fails half-way moves no money and leaves no record.
PoolsMatchRecords ==
  \A c \in Currencies :
    LET net == NetValue({x \in transactions : x.currency = c})
    IN  liquidity[c].total = net /\ liquidity[c].available = net

\* One bank reference moves money at most once, whatever is sent, signed and
\* retried by several threads at once.
OncePerReference ==
  \A x, y \in transactions : x.bank_reference = y.bank_reference => x = y

\* One signature starts the business of one request only: two deliveries of a
\* request are never both past verify_signature, together or one after the
\* other.
SignatureOnce ==
  LET inBusiness == {t \in Threads : pc[t] \in {"begin", "check", "commit"}}
  IN  /\ \A t, u \in inBusiness : send[t].sig = send[u].sig => t = u
      /\ \A t \in inBusiness : send[t] \notin transactions

\* No window holds more than RATE_LIMIT requests that were let through, even
\* when threads count at the same time.
RateHolds == Cardinality({i \in 1 .. Len(window) : window[i]}) =< RATE_LIMIT

\* The write lock is always given back: also by the request whose signature
\* was a replay, which leaves a transaction open behind it.
LockReleased == \A t \in Threads : writer = t ~> writer # t
============================================================================
