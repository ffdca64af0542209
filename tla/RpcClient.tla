---------------------------- MODULE RpcClient ----------------------------
(***************************************************************************)
(* The JSONL RPC client of app/app_server.py (AppServerClient): connecting *)
(* to `codex app-server --stdio`, numbering requests, matching answers to  *)
(* the futures that wait for them, timing out, and retrying what the       *)
(* server refused as overloaded.                                           *)
(*                                                                         *)
(* A client is a coroutine of the gateway that calls connect and then makes *)
(* one request of its own (a job).  connect holds no lock, so two          *)
(* clients may each start a process; _read_stdout looks self.process up    *)
(* again for every line, so a reader may move to the stream of another     *)
(* process than the one it was started for.  A step is what a coroutine    *)
(* does between two suspensions.                                           *)
(***************************************************************************)
EXTENDS Naturals, Sequences, FiniteSets

CONSTANTS
  Client,       \* coroutines that use the client
  MaxConn,      \* bound: app-server processes ever started
  MaxJob,       \* bound: jobs ever started
  MaxRetry,     \* times a request is sent again, 3 in the code
  Overloadable  \* methods the server may refuse as overloaded

Conn == 1..MaxConn
Job == 1..MaxJob
Handshake == {"initialize", "model/list"}
Method == Handshake \cup {"thread/start"}

ASSUME RpcAssumption ==
  /\ MaxConn \in Nat /\ MaxJob \in Nat /\ MaxRetry \in Nat
  /\ Overloadable \subseteq Method

VARIABLES
  process,    \* the process self.process holds, 0 for None
  os,         \* of each process: not started, up, dead, or dead and reaped
  stdout,     \* of each process: the lines not read yet
  asked,      \* of each process: the requests it has read and not answered
  reader,     \* of each process' reader task: the stream it waits on, 0 ended
  pending,    \* futures by request id
  requestId,
  coro,       \* the clients
  jobs,       \* jobs started so far
  executed    \* how often a process carried out the request of each job

vars ==
  <<process, os, stdout, asked, reader, pending, requestId, coro, jobs, executed>>

Idle == [at |-> "idle"]
Ask == [id : Nat \ {0}, job : Job, method : Method]
Answer == [ask : Ask, kind : {"result", "error", "overloaded"}]
Running ==
  [at : {"preparing"}, job : Job]
    \cup [at : {"queued", "waiting", "failed"}, ask : Ask, retry : 0..MaxRetry]
    \cup [at : {"draining"}, ask : Ask, retry : 0..MaxRetry, to : Conn]
    \cup [at : {"resolved"}, ask : Ask, retry : 0..MaxRetry, answer : Answer]
    \cup [at : {"backoff"}, ask : Ask, retry : 0..MaxRetry]

TypeOK ==
  /\ process \in 0..MaxConn
  /\ os \in [Conn -> {"none", "up", "dead", "reaped"}]
  /\ stdout \in [Conn -> Seq(Answer)]
  /\ asked \in [Conn -> SUBSET Ask]
  /\ reader \in [Conn -> 0..MaxConn]
  /\ pending \in SUBSET [id : Nat \ {0}, by : Client]
  /\ requestId \in Nat
  /\ coro \in [Client -> {Idle} \cup Running]
  /\ jobs \in 0..MaxJob
  /\ executed \in [Job -> Nat]

Init ==
  /\ process = 0
  /\ os = [c \in Conn |-> "none"]
  /\ stdout = [c \in Conn |-> <<>>]
  /\ asked = [c \in Conn |-> {}]
  /\ reader = [c \in Conn |-> 0]
  /\ pending = {}
  /\ requestId = 0
  /\ coro = [k \in Client |-> Idle]
  /\ jobs = 0
  /\ executed = [j \in Job |-> 0]

\* Popen.returncode is None until the child watcher has reaped the process.
Connected(p) == p # 0 /\ os[p] \in {"up", "dead"}

------------------------------------------------------------------------------
(* Sending. *)

\* Mutant: a new connection numbers its requests from one again.
IssueFromOne(k, p, job, method, retry, from) ==
  LET next == IF method = "initialize" THEN 1 ELSE requestId + 1
      ask == [id |-> next, job |-> job, method |-> method]
  IN  /\ p # 0 /\ from[p] = "up"
      /\ requestId' = next
      /\ pending' = pending \cup {[id |-> next, by |-> k]}
      /\ asked' = [asked EXCEPT ![p] = @ \cup {ask}]
      /\ coro' = [coro EXCEPT ![k] = [at |-> "waiting", ask |-> ask, retry |-> retry]]

Future(k, ask) == [id |-> ask.id, by |-> k]
Unsent(k) == coro[k].at \in {"queued", "draining"}

\* What the sender finds after drain: a reader that ended has failed its future.
Sent(k, ask, retry) ==
  [at |-> IF Future(k, ask) \in pending' THEN "waiting" ELSE "failed",
   ask |-> ask, retry |-> retry]

\* _send with write_lock held: a line on the stdin of p.  drain returns at once or,
\* over a full pipe, suspends; a dead process loses the line, or drain raises
\* and the entry of pending stays behind.
Write(k, p, ask, retry, from) ==
  \/ /\ coro' = [coro EXCEPT ![k] = Sent(k, ask, retry)]
     /\ asked' = IF from[p] = "up" THEN [asked EXCEPT ![p] = @ \cup {ask}] ELSE asked
  \/ /\ coro' = [coro EXCEPT ![k] =
          [at |-> "draining", ask |-> ask, retry |-> retry, to |-> p]]
     /\ UNCHANGED asked
  \/ /\ from[p] # "up"
     /\ coro' = [coro EXCEPT ![k] = Idle]
     /\ UNCHANGED asked

\* _request_once up to its await: the next id, a future and, unless others hold
\* write_lock or queue for it, the line.  Without a connection nothing is registered.
Issue(k, p, job, method, retry, from) ==
  IF p = 0 \/ from[p] \notin {"up", "dead"}
    THEN /\ coro' = [coro EXCEPT ![k] = Idle]
         /\ UNCHANGED <<asked, pending, requestId>>
    ELSE LET ask == [id |-> requestId + 1, job |-> job, method |-> method]
         IN  /\ requestId' = requestId + 1
             /\ pending' = pending \cup {Future(k, ask)}
             /\ IF \E l \in Client : Unsent(l)
                  THEN /\ coro' = [coro EXCEPT ![k] =
                            [at |-> "queued", ask |-> ask, retry |-> retry]]
                       /\ UNCHANGED asked
                  ELSE Write(k, p, ask, retry, from)

\* AppServerClient.connect for a new job: when connected it goes straight on to its
\* own request, whether or not the connection has been initialized.
StartJob(k) ==
  /\ coro[k] = Idle /\ jobs < MaxJob
  /\ jobs' = jobs + 1
  /\ IF Connected(process)
       THEN Issue(k, process, jobs + 1, "thread/start", 0, os)
       ELSE /\ coro' = [coro EXCEPT ![k] = [at |-> "preparing", job |-> jobs + 1]]
            /\ UNCHANGED <<asked, pending, requestId>>
  /\ UNCHANGED <<process, os, stdout, reader, executed>>

\* The version, the schema or the process could not be had.
PrepareFails(k) ==
  /\ coro[k].at = "preparing"
  /\ coro' = [coro EXCEPT ![k] = Idle]
  /\ UNCHANGED <<process, os, stdout, asked, reader, pending, requestId, jobs, executed>>

\* create_subprocess_exec returned: self.process is overwritten, whatever it held;
\* a reader is started and `initialize` sent.
Spawn(k) ==
  /\ coro[k].at = "preparing"
  /\ \E c \in Conn :
       /\ os[c] = "none" /\ \A d \in Conn : d < c => os[d] # "none"
       /\ process' = c
       /\ os' = [os EXCEPT ![c] = "up"]
       /\ reader' = [reader EXCEPT ![c] = c]
       /\ Issue(k, c, coro[k].job, "initialize", 0, os')
  /\ UNCHANGED <<stdout, jobs, executed>>

\* write_lock is handed on; self.process is looked up again.
Dequeue(k) ==
  /\ coro[k].at = "queued"
  /\ \A l \in Client : coro[l].at # "draining"
  /\ UNCHANGED pending
  /\ Write(k, process, coro[k].ask, coro[k].retry, os)
  /\ UNCHANGED <<process, os, stdout, reader, requestId, jobs, executed>>

\* The app-server has read on, and drain returns.
Drained(k) ==
  /\ coro[k].at = "draining" /\ os[coro[k].to] = "up"
  /\ UNCHANGED pending
  /\ asked' = [asked EXCEPT ![coro[k].to] = @ \cup {coro[k].ask}]
  /\ coro' = [coro EXCEPT ![k] = Sent(k, @.ask, @.retry)]
  /\ UNCHANGED <<process, os, stdout, reader, requestId, jobs, executed>>

\* The pipe breaks: drain raises, and the entry of pending stays behind.
DrainRaises(k) ==
  /\ coro[k].at = "draining" /\ os[coro[k].to] # "up"
  /\ coro' = [coro EXCEPT ![k] = Idle]
  /\ UNCHANGED <<process, os, stdout, asked, reader, pending, requestId, jobs, executed>>

------------------------------------------------------------------------------
(* The reader. *)

\* Mutant: the futures are forgotten without being failed.
EndReaderQuietly(r) ==
  /\ reader' = [reader EXCEPT ![r] = 0]
  /\ pending' = {}
  /\ UNCHANGED coro

\* The finally block of _read_stdout: every pending future fails, whichever
\* process its request went to.
EndReader(r) ==
  /\ reader' = [reader EXCEPT ![r] = 0]
  /\ coro' = [k \in Client |->
       IF coro[k].at = "waiting"
            /\ Future(k, coro[k].ask) \in pending
         THEN [coro[k] EXCEPT !.at = "failed"] ELSE coro[k]]
  /\ pending' = {}

\* The line settles k's future: an error is its exception, of which only the
\* overload matters for what follows.
Settled(k, line) ==
  IF line.kind = "error"
    THEN [coro[k] EXCEPT !.at = "failed"]
    ELSE [at |-> "resolved", ask |-> coro[k].ask, retry |-> coro[k].retry,
          answer |-> line]

\* The future of the line's id, if there is one, gets the line.
Deliver(line) ==
  /\ pending' = {f \in pending : f.id # line.ask.id}
  /\ coro' = [k \in Client |->
       IF coro[k].at = "waiting"
            /\ Future(k, line.ask) \in pending
            /\ coro[k].ask.id = line.ask.id
         THEN Settled(k, line) ELSE coro[k]]

\* StreamReader.readline raises when another coroutine waits on the stream.
Taken(r, c, lines) ==
  lines[c] = <<>> /\ \E o \in Conn \ {r} : reader[o] = c

\* One line, after which the reader turns to the stream of whatever process
\* self.process holds now.
ReadLine(r) ==
  /\ reader[r] # 0 /\ stdout[reader[r]] # <<>>
  /\ stdout' = [stdout EXCEPT ![reader[r]] = Tail(@)]
  /\ ~Taken(r, process, stdout')
  /\ Deliver(Head(stdout[reader[r]]))
  /\ reader' = [reader EXCEPT ![r] = process]
  /\ UNCHANGED <<process, os, asked, requestId, jobs, executed>>

\* The same, when the next readline raises: the line has been delivered, and
\* every other future fails.
ReadLineAndFail(r) ==
  /\ reader[r] # 0 /\ stdout[reader[r]] # <<>>
  /\ stdout' = [stdout EXCEPT ![reader[r]] = Tail(@)]
  /\ Taken(r, process, stdout')
  /\ LET line == Head(stdout[reader[r]])
     IN  coro' = [k \in Client |->
           IF coro[k].at # "waiting" THEN coro[k]
           ELSE IF coro[k].ask.id = line.ask.id THEN Settled(k, line)
             ELSE [coro[k] EXCEPT !.at = "failed"]]
  /\ pending' = {}
  /\ reader' = [reader EXCEPT ![r] = 0]
  /\ UNCHANGED <<process, os, asked, requestId, jobs, executed>>

\* End of the stream.
ReadEof(r) ==
  /\ reader[r] # 0 /\ stdout[reader[r]] = <<>>
  /\ os[reader[r]] \in {"dead", "reaped"}
  /\ EndReader(r)
  /\ UNCHANGED <<process, os, stdout, asked, requestId, jobs, executed>>

------------------------------------------------------------------------------
(* Going on after an await. *)

\* Mutant: a request whose answer is late is sent again.
TimeoutAndRetry(k) ==
  /\ coro[k].at = "waiting"
  /\ pending' = {f \in pending : f.id # coro[k].ask.id}
  /\ coro' = [coro EXCEPT ![k] =
       IF @.retry < MaxRetry
         THEN [at |-> "backoff", ask |-> @.ask, retry |-> @.retry] ELSE Idle]
  /\ UNCHANGED <<process, os, stdout, asked, reader, requestId, jobs, executed>>

\* Mutant: only the handshake is given a timeout.
TimeoutOfHandshake(k) ==
  /\ coro[k].at = "waiting" /\ coro[k].ask.method \in Handshake
  /\ pending' = {f \in pending : f.id # coro[k].ask.id}
  /\ coro' = [coro EXCEPT ![k] = Idle]
  /\ UNCHANGED <<process, os, stdout, asked, reader, requestId, jobs, executed>>

\* wait_for gives up (asyncio.wait_for prefers a future already done).
Timeout(k) ==
  /\ coro[k].at = "waiting"
  /\ pending' = {f \in pending : f.id # coro[k].ask.id}
  /\ coro' = [coro EXCEPT ![k] = Idle]
  /\ UNCHANGED <<process, os, stdout, asked, reader, requestId, jobs, executed>>

\* The exception of a future, other than an overload, ends the job.
Raise(k) ==
  /\ coro[k].at = "failed"
  /\ coro' = [coro EXCEPT ![k] = Idle]
  /\ UNCHANGED <<process, os, stdout, asked, reader, pending, requestId, jobs, executed>>

Refused(k) == coro[k].at = "resolved" /\ coro[k].answer.kind = "overloaded"
Granted(k, method) ==
  coro[k].at = "resolved" /\ coro[k].answer.kind = "result"
    /\ coro[k].ask.method = method

\* Mutant: one retry too many.
BackOffOnceMore(k) ==
  /\ Refused(k)
  /\ coro' = [coro EXCEPT ![k] =
       IF @.retry <= MaxRetry
         THEN [at |-> "backoff", ask |-> @.ask, retry |-> @.retry]
         ELSE Idle]
  /\ UNCHANGED <<process, os, stdout, asked, reader, pending, requestId, jobs, executed>>

\* Overloaded (-32001): sleep and try again, MaxRetry times at most.
BackOff(k) ==
  /\ Refused(k)
  /\ coro' = [coro EXCEPT ![k] =
       IF @.retry < MaxRetry
         THEN [at |-> "backoff", ask |-> @.ask, retry |-> @.retry]
         ELSE Idle]
  /\ UNCHANGED <<process, os, stdout, asked, reader, pending, requestId, jobs, executed>>

\* The retry is a new request, to the process held now.
Retry(k) ==
  /\ coro[k].at = "backoff"
  /\ Issue(k, process, coro[k].ask.job, coro[k].ask.method, coro[k].retry + 1, os)
  /\ UNCHANGED <<process, os, stdout, reader, jobs, executed>>

\* `initialize` answered: `initialized` is notified, and connect asks for the
\* models (a list of one page); then the job makes its request.
Continue(k) ==
  /\ \E step \in {<<"initialize", "model/list">>, <<"model/list", "thread/start">>} :
       /\ Granted(k, step[1])
       /\ Issue(k, process, coro[k].ask.job, step[2], 0, os)
  /\ UNCHANGED <<process, os, stdout, reader, jobs, executed>>

FinishJob(k) ==
  /\ Granted(k, "thread/start")
  /\ coro' = [coro EXCEPT ![k] = Idle]
  /\ UNCHANGED <<process, os, stdout, asked, reader, pending, requestId, jobs, executed>>

------------------------------------------------------------------------------
(* The app-server: it answers in any order, or never, and may die. *)

Reply(c, ask, kind) ==
  /\ os[c] = "up" /\ ask \in asked[c]
  /\ asked' = [asked EXCEPT ![c] = @ \ {ask}]
  /\ stdout' = [stdout EXCEPT ![c] = Append(@, [ask |-> ask, kind |-> kind])]
  /\ UNCHANGED <<process, os, reader, pending, requestId, coro, jobs>>

\* An error may be answered after the request was carried out, and counts as that.
Execute(c) ==
  \E ask \in asked[c], kind \in {"result", "error"} :
    /\ Reply(c, ask, kind)
    /\ executed' = IF ask.method = "thread/start"
                     THEN [executed EXCEPT ![ask.job] = @ + 1] ELSE executed

Refuse(c) ==
  \E ask \in asked[c] :
    /\ ask.method \in Overloadable
    /\ Reply(c, ask, "overloaded")
    /\ UNCHANGED executed

Die(c) ==
  /\ os[c] = "up"
  /\ os' = [os EXCEPT ![c] = "dead"]
  /\ asked' = [asked EXCEPT ![c] = {}]
  /\ UNCHANGED <<process, stdout, reader, pending, requestId, coro, jobs, executed>>

\* The child watcher sets returncode; the end of stdout may be read before or after.
Reap(c) ==
  /\ os[c] = "dead"
  /\ os' = [os EXCEPT ![c] = "reaped"]
  /\ UNCHANGED <<process, stdout, asked, reader, pending, requestId, coro, jobs, executed>>

------------------------------------------------------------------------------
Resume(k) ==
  Spawn(k) \/ PrepareFails(k) \/ Dequeue(k) \/ DrainRaises(k) \/ Timeout(k)
    \/ Raise(k) \/ BackOff(k) \/ Retry(k) \/ Continue(k) \/ FinishJob(k)

Next ==
  \/ \E k \in Client :
       \/ StartJob(k) \/ Spawn(k) \/ PrepareFails(k)
       \/ Dequeue(k) \/ Drained(k) \/ DrainRaises(k) \/ Timeout(k) \/ Raise(k)
       \/ BackOff(k) \/ Retry(k) \/ Continue(k) \/ FinishJob(k)
  \/ \E c \in Conn :
       \/ ReadLine(c) \/ ReadLineAndFail(c) \/ ReadEof(c)
       \/ Execute(c) \/ Refuse(c) \/ Die(c) \/ Reap(c)

Spec == Init /\ [][Next]_vars

\* The event loop runs what is ready and its timers fire.  Nothing is asked of the
\* app-server, which may never answer nor even read (Drained), nor of the readers.
Fairness == \A k \in Client : WF_vars(Resume(k))
FairSpec == Spec /\ Fairness

------------------------------------------------------------------------------
(* Properties. *)

\* What a coroutine gets as the answer to its request is the answer to that very
\* request, whatever came late, and from whichever process.
AnswerIsOwn ==
  \A k \in Client : coro[k].at = "resolved" => coro[k].answer.ask = coro[k].ask

\* A coroutine waiting for an answer can be reached: its future is in pending, so
\* that the end of a connection fails it, and no two of them share an id.
WaitingIsReachable ==
  \A k \in Client :
    /\ coro[k].at = "waiting" => Future(k, coro[k].ask) \in pending
    /\ coro[k].at = "waiting" \/ Unsent(k) =>
         \A f \in pending : f.id = coro[k].ask.id => f.by = k

\* Types, and a way out of every wait.
WaitsInOrder == TypeOK /\ WaitingIsReachable

\* The request of a job is carried out at most once, by any of the processes: it is
\* sent again only when it was refused, never because its answer is late.
ExecutedOnce == \A j \in Job : executed[j] <= 1

\* A job comes to an end, though the app-server never answers: every request is
\* answered, fails with the connection, or times out, and retries are counted.
\* The one way out of this is an app-server that lives on and no longer reads: drain
\* is under no timeout, and whoever has to write queues behind it for ever.
JobSettles ==
  \A k \in Client :
    \/ []<>(coro[k].at = "idle")
    \/ <>[](\E l \in Client : coro[l].at = "draining" /\ os[coro[l].to] = "up")
=============================================================================
