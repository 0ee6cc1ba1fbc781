------------------------------ MODULE Admission ------------------------------
(***************************************************************************)
(* What lets a request in.  Processes of hamilton-core give each client a  *)
(* secret when they start (init_db), recognise clients by it               *)
(* (authenticate) and count their requests in Redis (_rate_limit);         *)
(* processes of the merchant service count requests by address             *)
(* (enforce_rate_limit).                                                   *)
(*                                                                         *)
(* A process of the model serves one request at a time; requests that one  *)
(* process serves at once are several processes here.                      *)
(*                                                                         *)
(* Both count with INCR and, if they were the first, a separate EXPIRE.    *)
(* hamilton-core's key names the minute, the merchant's does not.          *)
(***************************************************************************)
EXTENDS Integers, Sequences

CONSTANTS
  Servers,    \* processes of hamilton-core
  Shops,      \* processes of the merchant service
  Clients,    \* the clients of init_db's loop, a sequence
  Senders,    \* clients whose requests are followed
  Addresses,  \* callers of the merchant service
  LIMIT       \* RL_LIMIT_* and the 20 of enforce_rate_limit

ASSUME AdmissionAssumption ==
  /\ LIMIT \in Nat \ {0}
  /\ Senders \subseteq {Clients[i] : i \in DOMAIN Clients}
  /\ Servers \cap Shops = {}

ClientIds == {Clients[i] : i \in DOMAIN Clients}
Callers == Senders \cup Addresses
Processes == Servers \cup Shops
CallersOf(p) == IF p \in Servers THEN Senders ELSE Addresses

NoSecret == 0
Nobody == <<>>

VARIABLES
  secret, \* the column hmac_key, secrets numbered as they are drawn
  drawn,  \* how many were drawn for each client
  count,  \* the counter that a caller's requests go to now
  timed,  \* whether that counter has a time to live
  pc, at, \* where a process is, and at which row of the loop
  found,  \* the secret that its SELECT found
  caller, \* whose request it serves
  past,   \* the minute of the counter that it knows is over
  raced   \* history: clients for whom two start-ups found no secret at once

database == <<secret, drawn>>
redis == <<count, timed>>
local == <<pc, at, found, caller, past>>
vars == <<database, redis, local, raced>>

Init ==
  /\ secret = [c \in ClientIds |-> NoSecret] /\ drawn = [c \in ClientIds |-> 0]
  /\ count = [k \in Callers |-> 0] /\ timed = [k \in Callers |-> FALSE]
  /\ pc = [p \in Processes |-> IF p \in Servers THEN "select" ELSE "idle"]
  /\ at = [p \in Processes |-> 1]
  /\ found = [p \in Processes |-> NoSecret]
  /\ caller = [p \in Processes |-> Nobody]
  /\ past = [p \in Processes |-> FALSE]
  /\ raced = {}

Goto(p, label) == pc' = [pc EXCEPT ![p] = label]

----------------------------------------------------------------------------
(* init_db: the loop over the clients.  Statements commit one by one.      *)

\* Those that have found no secret for c and go on to store one.
Blind(c) == {s \in Servers : pc[s] = "insert" /\ Clients[at[s]] = c /\ found[s] = NoSecret}

SelectSecret(s) ==
  LET c == Clients[at[s]]
  IN  /\ pc[s] = "select"
      /\ found' = [found EXCEPT ![s] = secret[c]]
      /\ raced' = IF secret[c] = NoSecret /\ Blind(c) # {} THEN raced \cup {c} ELSE raced
      /\ Goto(s, "insert")
      /\ UNCHANGED <<database, redis, at, caller, past>>

\* Variant: each start draws new secrets.
Redrawn(s) == drawn[Clients[at[s]]] + 1

\* The secret that was found, or else a new one.
Kept(s) == IF found[s] # NoSecret THEN found[s] ELSE drawn[Clients[at[s]]] + 1

\* INSERT OR REPLACE.
InsertSecret(s) ==
  LET c == Clients[at[s]]
  IN  /\ pc[s] = "insert"
      /\ secret' = [secret EXCEPT ![c] = Kept(s)]
      /\ drawn' = [drawn EXCEPT ![c] = IF Kept(s) > @ THEN Kept(s) ELSE @]
      /\ found' = [found EXCEPT ![s] = NoSecret]
      /\ IF at[s] < Len(Clients)
         THEN at' = [at EXCEPT ![s] = @ + 1] /\ Goto(s, "select")
         ELSE at' = [at EXCEPT ![s] = 1] /\ Goto(s, "idle")
      /\ UNCHANGED <<redis, caller, past, raced>>

----------------------------------------------------------------------------
(* authenticate, _rate_limit, enforce_rate_limit *)

\* A request arrives and is signed with the client's secret; others get a 401.
Recognise(p, k) ==
  /\ pc[p] = "idle"
  /\ k \in CallersOf(p)
  /\ k \in Senders => secret[k] # NoSecret
  /\ caller' = [caller EXCEPT ![p] = k]
  /\ Goto(p, "incr")
  /\ UNCHANGED <<database, redis, at, found, past, raced>>

\* The request goes on, or a 429 is sent: either way its check is over.
Done(p) ==
  /\ Goto(p, "idle")
  /\ caller' = [caller EXCEPT ![p] = Nobody]
  /\ past' = [past EXCEPT ![p] = FALSE]

\* Beyond LIMIT the count makes no difference and is kept at LIMIT + 1.
Counted(k) == [count EXCEPT ![k] = IF @ > LIMIT THEN @ ELSE @ + 1]

Incr(p) ==
  LET k == caller[p]
  IN  /\ pc[p] = "incr"
      /\ count' = Counted(k)
      /\ IF count[k] = 0 THEN Goto(p, "expire") /\ UNCHANGED <<caller, past>> ELSE Done(p)
      /\ UNCHANGED <<database, timed, at, found, raced>>

\* EXPIRE, for the counter that was incremented.
Expire(p) ==
  /\ pc[p] = "expire"
  /\ timed' = IF past[p] THEN timed ELSE [timed EXCEPT ![caller[p]] = TRUE]
  /\ Done(p)
  /\ UNCHANGED <<database, count, at, found, raced>>

----------------------------------------------------------------------------
(* The clock and failures *)

\* Sixty seconds after EXPIRE.
Elapse(k) ==
  /\ timed[k]
  /\ count' = [count EXCEPT ![k] = 0]
  /\ timed' = [timed EXCEPT ![k] = FALSE]
  /\ UNCHANGED <<database, local, raced>>

\* Variant: hamilton-core's key does not name the minute either.
Unbucketed == {}

\* Callers whose key names the minute.
Bucketed == Senders

\* A new minute: counting goes on under new keys.
Tick ==
  /\ \E k \in Bucketed : count[k] # 0
  /\ count' = [k \in Callers |-> IF k \in Bucketed THEN 0 ELSE count[k]]
  /\ timed' = [k \in Callers |-> IF k \in Bucketed THEN FALSE ELSE timed[k]]
  /\ past' = [p \in Processes |-> past[p] \/ (pc[p] = "expire" /\ caller[p] \in Bucketed)]
  /\ UNCHANGED <<database, pc, at, found, caller, raced>>

\* Redis does not answer, although it may have counted: 503 or 500.
LoseRedis(p) ==
  /\ \/ pc[p] = "incr" /\ count' \in {count, Counted(caller[p])}
     \/ pc[p] = "expire" /\ UNCHANGED count
  /\ Done(p)
  /\ UNCHANGED <<database, timed, at, found, raced>>

\* A process is killed and started again.
Kill(p) ==
  /\ Goto(p, IF p \in Servers THEN "select" ELSE "idle")
  /\ at' = [at EXCEPT ![p] = 1]
  /\ found' = [found EXCEPT ![p] = NoSecret]
  /\ caller' = [caller EXCEPT ![p] = Nobody]
  /\ past' = [past EXCEPT ![p] = FALSE]
  /\ UNCHANGED <<database, redis, raced>>

----------------------------------------------------------------------------
Next ==
  \/ \E s \in Servers : SelectSecret(s) \/ InsertSecret(s)
  \/ \E p \in Processes :
       \/ \E k \in Callers : Recognise(p, k)
       \/ Incr(p) \/ Expire(p) \/ LoseRedis(p) \/ Kill(p)
  \/ \E k \in Callers : Elapse(k)
  \/ Tick

Spec == Init /\ [][Next]_vars

\* The clock goes on; a handler of the merchant's that has counted goes on.
Fairness ==
  /\ WF_vars(Tick)
  /\ \A k \in Addresses : WF_vars(Elapse(k))
  /\ \A p \in Shops : WF_vars(Expire(p))

FairSpec == Spec /\ Fairness

----------------------------------------------------------------------------
(* Properties *)

\* A client's secret stays what it is, over any number of starts and kills of
\* processes, unless two first starts raced for its row: a client that was told
\* its secret is recognised from then on.
SecretKept ==
  [][\A c \in ClientIds :
       secret[c] # NoSecret /\ c \notin raced => secret'[c] = secret[c]]_vars

\* The counter has no time to live, and nobody is left to give it one.
Orphaned(k) ==
  /\ count[k] # 0 /\ ~ timed[k]
  /\ ~ \E p \in Processes : pc[p] = "expire" /\ caller[p] = k /\ ~ past[p]

\* A caller that has used up its requests gets some again.  A client of
\* hamilton-core does so whatever failed; an address at the merchant's, unless
\* the process that counted its first request got no further than INCR.
Readmitted ==
  \A k \in Callers :
    count[k] >= LIMIT ~> \/ count[k] < LIMIT
                         \/ k \in Addresses /\ Orphaned(k)
============================================================================
