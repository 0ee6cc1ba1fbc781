----------------------------- MODULE Connections -----------------------------
(***************************************************************************)
(* Which thread opens, uses and closes the connection of a request.        *)
(*                                                                         *)
(* FastAPI runs plain functions, generator dependencies such as get_db     *)
(* among them, in worker threads, and coroutines in the thread of the      *)
(* event loop.  sqlite3 refuses a connection outside the thread that       *)
(* opened it, unless it was opened with check_same_thread=False.           *)
(***************************************************************************)
EXTENDS Naturals, Sequences

CONSTANTS
  Requests,
  Loop,           \* the event loop's thread
  Pool,           \* worker threads
  Steps,          \* what a request runs on its connection: "coroutine" or "function"
  CheckSameThread \* how get_db opens it

VARIABLES
  at,      \* at[r]: 0 before get_db, then the step that r runs next
  opener,  \* opener[r]: the thread that opened r's connection
  job,     \* job[t]: the request that worker thread t is busy with
  refused  \* requests that got a ProgrammingError from their connection

vars == <<at, opener, job, refused>>

Nobody == "nobody"
Closed == Len(Steps) + 2

Init ==
  /\ at = [r \in Requests |-> 0]
  /\ opener = [r \in Requests |-> Nobody]
  /\ job = [t \in Pool |-> Nobody]
  /\ refused = {}

Idle(t) == job[t] = Nobody

Waits(r) == \A t \in Pool : job[t] # r

\* A worker thread is free again.
Return(t) ==
  /\ ~ Idle(t)
  /\ job' = [job EXCEPT ![t] = Nobody]
  /\ UNCHANGED <<at, opener, refused>>

\* get_db up to its yield.
Open(r, t) ==
  /\ at[r] = 0 /\ Idle(t)
  /\ opener' = [opener EXCEPT ![r] = t]
  /\ at' = [at EXCEPT ![r] = 1]
  /\ job' = [job EXCEPT ![t] = r]
  /\ UNCHANGED refused

Allowed(r, t) == ~ CheckSameThread \/ opener[r] = t

\* A step of r on thread t.  An error ends the request: get_db closes.
Use(r, t) ==
  IF Allowed(r, t)
  THEN at' = [at EXCEPT ![r] = @ + 1] /\ UNCHANGED refused
  ELSE at' = [at EXCEPT ![r] = Len(Steps) + 1] /\ refused' = refused \cup {r}

RunCoroutine(r) ==
  /\ at[r] \in DOMAIN Steps /\ Steps[at[r]] = "coroutine" /\ Waits(r)
  /\ Use(r, Loop)
  /\ UNCHANGED <<opener, job>>

RunFunction(r, t) ==
  /\ at[r] \in DOMAIN Steps /\ Steps[at[r]] = "function" /\ Waits(r) /\ Idle(t)
  /\ Use(r, t)
  /\ job' = [job EXCEPT ![t] = r]
  /\ UNCHANGED opener

\* The finally of get_db; a close that is refused leaves the connection open.
Close(r, t) ==
  /\ at[r] = Len(Steps) + 1 /\ Waits(r) /\ Idle(t)
  /\ at' = [at EXCEPT ![r] = Closed]
  /\ refused' = IF Allowed(r, t) THEN refused ELSE refused \cup {r}
  /\ job' = [job EXCEPT ![t] = r]
  /\ UNCHANGED opener

Next ==
  \/ \E r \in Requests : RunCoroutine(r)
  \/ \E r \in Requests, t \in Pool : Open(r, t) \/ RunFunction(r, t) \/ Close(r, t)
  \/ \E t \in Pool : Return(t)

Spec == Init /\ [][Next]_vars

----------------------------------------------------------------------------
\* "Yields a properly managed database connection", says get_db: whatever
\* request it serves may use and close what it was given.
ProperlyManaged == refused = {}
============================================================================
