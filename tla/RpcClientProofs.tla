---------------------------- MODULE RpcClientProofs ----------------------------
(***************************************************************************)
(* The safety of RpcClient for any number of clients, connections, jobs    *)
(* and retries, and whichever methods the server may refuse: an answer is  *)
(* given to the request it answers, a wait can be ended, and the request   *)
(* of a job is carried out at most once.                                   *)
(***************************************************************************)
EXTENDS RpcClient, SequenceTheorems, TLAPS

Asking(k) ==
  coro[k].at \in {"queued", "draining", "waiting", "failed", "resolved", "backoff"}

JobOf(k) == IF coro[k].at = "preparing" THEN coro[k].job ELSE coro[k].ask.job

\* The lines no reader has read yet, of every process.
Lines == UNION {{stdout[c][i] : i \in 1 .. Len(stdout[c])} : c \in Conn}

\* The requests that have left a trace: a process holds them, or their answer
\* is under way, or a client remembers them.
Asks ==
  (UNION {asked[c] : c \in Conn}) \cup {line.ask : line \in Lines}
    \cup {coro[k].ask : k \in {l \in Client : Asking(l)}}

\* An id names one request, and the next id none.
Numbered ==
  /\ \A a \in Asks : a.id <= requestId /\ \A b \in Asks : a.id = b.id => a = b
  /\ \A f \in pending : f.id <= requestId

\* A job is the business of one client.
JobsApart ==
  \A k \in Client : coro[k] # Idle =>
    /\ JobOf(k) <= jobs
    /\ \A l \in Client : coro[l] # Idle /\ JobOf(l) = JobOf(k) => l = k

Starts(a, j) == a.method = "thread/start" /\ a.job = j

\* The job has not been carried out and no process has been asked to.
Untouched(j) == executed[j] = 0 /\ \A c \in Conn : \A a \in asked[c] : ~Starts(a, j)

\* A client that will ask for its job, or ask again: it is still connecting, its
\* request is not written yet, or its last request was refused, even if it has
\* not read the refusal yet.
WillAsk(k) ==
  \/ coro[k].at = "preparing"
  \/ Unsent(k)
  \/ Asking(k) /\ coro[k].ask.method \in Handshake
  \/ coro[k].at = "backoff"
  \/ Refused(k)
  \/ coro[k].at = "waiting" /\ [ask |-> coro[k].ask, kind |-> "overloaded"] \in Lines

\* Before a job is asked for it is untouched; at most one process has been asked,
\* and none after one has carried it out.
AskedOnce ==
  /\ \A j \in Job : j > jobs => Untouched(j)
  /\ \A k \in Client : coro[k] # Idle /\ WillAsk(k) => Untouched(JobOf(k))
  /\ \A c, d \in Conn : \A a \in asked[c], b \in asked[d] :
       a.method = "thread/start" /\ Starts(b, a.job) =>
         a = b /\ c = d /\ executed[a.job] = 0

\* A request that is to be sent again may be.
RetriesLeft == \A k \in Client : coro[k].at = "backoff" => coro[k].retry < MaxRetry

\* A request that is not written has left no trace but its sender, and the sender
\* has a process to write to.
NotSentYet ==
  \A k \in Client : Unsent(k) =>
    /\ process # 0
    /\ \A c \in Conn : coro[k].ask \notin asked[c]
    /\ \A line \in Lines : line.ask # coro[k].ask

IInv ==
  /\ TypeOK /\ RetriesLeft /\ NotSentYet /\ Numbered /\ WaitingIsReachable /\ AnswerIsOwn
  /\ JobsApart /\ AskedOnce /\ ExecutedOnce

--------------------------------------------------------------------------------
(* Types. *)

\* What a client holds, by where it is.
LEMMA Kinds ==
  ASSUME TypeOK, NEW k \in Client
  PROVE  /\ coro[k].at \in {"idle", "preparing", "queued", "draining", "waiting", "failed",
                            "resolved", "backoff"}
         /\ coro[k] = Idle <=> coro[k].at = "idle"
         /\ coro[k].at = "preparing" => coro[k].job \in Job
         /\ Asking(k) => coro[k].ask \in Ask /\ coro[k].retry \in 0 .. MaxRetry
         /\ coro[k].at = "draining" => coro[k].to \in Conn
         /\ coro[k].at = "resolved" => coro[k].answer \in Answer
<1>1. coro[k] \in {Idle} \cup Running
  BY DEF TypeOK
<1> QED
  BY <1>1 DEF Idle, Running, Asking

\* What asking for the next id does: nothing, or the client waits, for its turn to
\* write, for the pipe or for the answer; only then has a process got the request.
NextAsk(job, method) == [id |-> requestId + 1, job |-> job, method |-> method]

At(place, ask, retry) == [at |-> place, ask |-> ask, retry |-> retry]
Draining(p, ask, retry) == [at |-> "draining", ask |-> ask, retry |-> retry, to |-> p]

\* What k is after it has written, or tried to.
Written(k, p, ask, retry) ==
  \/ /\ coro'[k] = At("waiting", ask, retry) \/ coro'[k] = At("failed", ask, retry)
     /\ coro'[k].at = "waiting" => Future(k, ask) \in pending'
     /\ asked' = asked \/ asked' = [asked EXCEPT ![p] = @ \cup {ask}]
  \/ coro'[k] = Draining(p, ask, retry) /\ asked' = asked
  \/ coro'[k] = Idle /\ asked' = asked

LEMMA Places ==
  ASSUME NEW p \in Conn, NEW ask \in Ask, NEW retry \in 0 .. MaxRetry
  PROVE  /\ Idle \in {Idle} \cup Running
         /\ \A place \in {"queued", "waiting", "failed"} : At(place, ask, retry) \in Running
         /\ Draining(p, ask, retry) \in Running
BY DEF At, Draining, Running

LEMMA WriteEffect ==
  ASSUME TypeOK, NEW k \in Client, NEW p \in Conn, NEW ask \in Ask,
         NEW retry \in 0 .. MaxRetry,
         NEW from \in [Conn -> {"none", "up", "dead", "reaped"}],
         Write(k, p, ask, retry, from)
  PROVE  /\ \A l \in Client \ {k} : coro'[l] = coro[l]
         /\ coro' \in [Client -> {Idle} \cup Running]
         /\ Written(k, p, ask, retry)
<1>1. coro \in [Client -> {Idle} \cup Running]
  BY DEF TypeOK
<1>2. PICK state \in {Idle, At("waiting", ask, retry), At("failed", ask, retry),
                     Draining(p, ask, retry)} :
        coro' = [coro EXCEPT ![k] = state]
  BY DEF Write, Sent, At, Draining
<1>3. coro' \in [Client -> {Idle} \cup Running]
  BY <1>1, <1>2, Places
<1>4. Written(k, p, ask, retry)
  <2>1. CASE /\ coro' = [coro EXCEPT ![k] = Sent(k, ask, retry)]
             /\ asked' = IF from[p] = "up" THEN [asked EXCEPT ![p] = @ \cup {ask}] ELSE asked
    <3>1. coro'[k] = Sent(k, ask, retry)
      BY <1>1, <2>1
    <3>2. CASE Future(k, ask) \in pending'
      BY <2>1, <3>1, <3>2 DEF Sent, At, Written
    <3>3. CASE Future(k, ask) \notin pending'
      BY <2>1, <3>1, <3>3 DEF Sent, At, Written
    <3> QED
      BY <3>2, <3>3
  <2>2. CASE coro' = [coro EXCEPT ![k] = Draining(p, ask, retry)] /\ UNCHANGED asked
    BY <1>1, <2>2 DEF Written
  <2>3. CASE coro' = [coro EXCEPT ![k] = Idle] /\ UNCHANGED asked
    BY <1>1, <2>3 DEF Written
  <2> QED
    BY <2>1, <2>2, <2>3 DEF Write, Draining
<1> QED
  BY <1>1, <1>2, <1>3, <1>4

\* What the rest of the proof uses of it.
LEMMA WrittenPlaces ==
  ASSUME NEW k \in Client, NEW p \in Conn, NEW ask, NEW retry, Written(k, p, ask, retry)
  PROVE  /\ \/ coro'[k] = Idle
            \/ coro'[k].at \in {"draining", "waiting", "failed"} /\ coro'[k].ask = ask
         /\ coro'[k].at = "waiting" => Future(k, ask) \in pending'
         /\ Unsent(k)' => asked' = asked
         /\ asked' = asked \/ asked' = [asked EXCEPT ![p] = @ \cup {ask}]
BY DEF Written, At, Draining, Idle, Unsent

LEMMA IssueEffect ==
  ASSUME TypeOK, NEW k \in Client, NEW p \in 0 .. MaxConn, NEW job \in Job,
         NEW method \in Method, NEW retry \in 0 .. MaxRetry,
         NEW from \in [Conn -> {"none", "up", "dead", "reaped"}],
         Issue(k, p, job, method, retry, from)
  PROVE  /\ NextAsk(job, method) \in Ask
         /\ \A l \in Client \ {k} : coro'[l] = coro[l]
         /\ coro' \in [Client -> {Idle} \cup Running]
         /\ \/ coro'[k] = Idle /\ UNCHANGED <<asked, pending, requestId>>
            \/ /\ p \in Conn
               /\ requestId' = requestId + 1
               /\ pending' = pending \cup {Future(k, NextAsk(job, method))}
               /\ \/ coro'[k] = At("queued", NextAsk(job, method), retry) /\ asked' = asked
                  \/ Written(k, p, NextAsk(job, method), retry)
<1> DEFINE ask == NextAsk(job, method)
<1>1. ask \in Ask
  BY DEF TypeOK, NextAsk, Ask
<1>2. coro \in [Client -> {Idle} \cup Running] /\ Idle \in {Idle} \cup Running
  BY DEF TypeOK
<1>3. CASE p = 0 \/ from[p] \notin {"up", "dead"}
  BY <1>1, <1>2, <1>3 DEF Issue
<1>4. CASE ~(p = 0 \/ from[p] \notin {"up", "dead"})
  <2>1. p \in Conn
    BY <1>4, RpcAssumption DEF Conn
  <2>2. /\ requestId' = requestId + 1
        /\ pending' = pending \cup {Future(k, ask)}
        /\ \/ coro' = [coro EXCEPT ![k] = At("queued", ask, retry)] /\ UNCHANGED asked
           \/ Write(k, p, ask, retry, from)
    BY <1>4 DEF Issue, NextAsk, At
  <2> HIDE DEF ask
  <2>3. CASE coro' = [coro EXCEPT ![k] = At("queued", ask, retry)] /\ UNCHANGED asked
    <3>1. At("queued", ask, retry) \in Running
      BY <1>1, <2>1, Places
    <3> QED
      BY <1>1, <1>2, <2>1, <2>2, <2>3, <3>1 DEF ask
  <2>4. CASE Write(k, p, ask, retry, from)
    <3>1. /\ \A l \in Client \ {k} : coro'[l] = coro[l]
          /\ coro' \in [Client -> {Idle} \cup Running]
          /\ Written(k, p, ask, retry)
      BY <1>1, <2>1, <2>4, WriteEffect
    <3> QED
      BY <1>1, <2>1, <2>2, <3>1 DEF ask
  <2> QED
    BY <2>2, <2>3, <2>4
<1> QED
  BY <1>3, <1>4

\* The line of a request that had to wait is written, or given to the pipe.
Flush(k) == Dequeue(k) \/ Drained(k)

LEMMA FlushEffect ==
  ASSUME TypeOK, NotSentYet, NEW k \in Client, Flush(k)
  PROVE  /\ UNCHANGED <<process, os, stdout, reader, pending, requestId, jobs, executed>>
         /\ Unsent(k) /\ coro[k].ask \in Ask
         /\ \A l \in Client \ {k} : coro'[l] = coro[l]
         /\ coro' \in [Client -> {Idle} \cup Running]
         /\ \E p \in Conn : Written(k, p, coro[k].ask, coro[k].retry)
<1>1. coro \in [Client -> {Idle} \cup Running]
  BY DEF TypeOK
<1>2. Unsent(k) /\ coro[k].ask \in Ask /\ coro[k].retry \in 0 .. MaxRetry
  <2>1. Unsent(k)
    BY DEF Flush, Dequeue, Drained, Unsent
  <2> QED
    BY <2>1, Kinds DEF Unsent, Asking
<1>3. CASE Dequeue(k)
  <2>1. process \in Conn
    BY <1>2, RpcAssumption DEF NotSentYet, TypeOK, Conn
  <2>2. os \in [Conn -> {"none", "up", "dead", "reaped"}]
    BY DEF TypeOK
  <2>3. Write(k, process, coro[k].ask, coro[k].retry, os)
    BY <1>3 DEF Dequeue
  <2>4. UNCHANGED <<process, os, stdout, reader, pending, requestId, jobs, executed>>
    BY <1>3 DEF Dequeue
  <2> QED
    BY <1>2, <2>1, <2>2, <2>3, <2>4, WriteEffect
<1>4. CASE Drained(k)
  <2>1. coro[k].to \in Conn
    BY <1>4, Kinds DEF Drained
  <2>2. /\ UNCHANGED <<process, os, stdout, reader, pending, requestId, jobs, executed>>
        /\ asked' = [asked EXCEPT ![coro[k].to] = @ \cup {coro[k].ask}]
        /\ coro' = [coro EXCEPT ![k] = Sent(k, coro[k].ask, coro[k].retry)]
    BY <1>1, <1>4 DEF Drained
  <2>3. /\ coro'[k] = At("waiting", coro[k].ask, coro[k].retry)
             \/ coro'[k] = At("failed", coro[k].ask, coro[k].retry)
        /\ coro'[k].at = "waiting" => Future(k, coro[k].ask) \in pending'
        /\ \A l \in Client \ {k} : coro'[l] = coro[l]
    BY <1>1, <2>2 DEF Sent, At
  <2>4. coro' \in [Client -> {Idle} \cup Running]
    <3>1. Sent(k, coro[k].ask, coro[k].retry) \in Running
      BY <1>2, <2>1, Places DEF Sent, At
    <3> QED
      BY <1>1, <2>2, <3>1
  <2> QED
    BY <1>2, <2>1, <2>2, <2>3, <2>4 DEF Written
<1> QED
  BY <1>3, <1>4 DEF Flush

--------------------------------------------------------------------------------
(* Lines of stdout. *)

LEMMA LinesAreAnswers ==
  ASSUME TypeOK
  PROVE  Lines \subseteq Answer
<1> SUFFICES ASSUME NEW c \in Conn, NEW i \in 1 .. Len(stdout[c])
             PROVE  stdout[c][i] \in Answer
  BY DEF Lines
<1> QED
  BY ElementOfSeq DEF TypeOK

\* Reading the first line of a stream.
LEMMA LineRead ==
  ASSUME TypeOK, NEW c \in Conn, stdout[c] # <<>>, stdout' = [stdout EXCEPT ![c] = Tail(@)]
  PROVE  /\ Head(stdout[c]) \in Lines
         /\ Lines' \subseteq Lines
         /\ stdout' \in [Conn -> Seq(Answer)]
<1>1. stdout \in [Conn -> Seq(Answer)] /\ stdout[c] \in Seq(Answer)
  BY DEF TypeOK
<1>2. /\ Tail(stdout[c]) \in Seq(Answer)
      /\ Len(Tail(stdout[c])) = Len(stdout[c]) - 1
      /\ \A i \in 1 .. Len(Tail(stdout[c])) : Tail(stdout[c])[i] = stdout[c][i + 1]
  BY <1>1, HeadTailProperties
<1>3. Len(stdout[c]) \in Nat \ {0}
  BY <1>1, EmptySeq
<1>4. Head(stdout[c]) = stdout[c][1] /\ 1 \in 1 .. Len(stdout[c])
  BY <1>1, <1>3
<1>5. ASSUME NEW d \in Conn, NEW i \in 1 .. Len(stdout'[d])
      PROVE  stdout'[d][i] \in Lines
  <2>1. CASE d = c
    <3>1. stdout'[d] = Tail(stdout[c])
      BY <1>1, <2>1
    <3>2. i \in 1 .. Len(Tail(stdout[c]))
      BY <3>1
    <3>3. i + 1 \in 1 .. Len(stdout[c])
      BY <1>2, <1>3, <3>2
    <3> QED
      BY <1>2, <3>1, <3>2, <3>3 DEF Lines
  <2>2. CASE d # c
    BY <1>1, <2>2 DEF Lines
  <2> QED
    BY <2>1, <2>2
<1>6. Lines' \subseteq Lines
  BY <1>5 DEF Lines
<1>7. stdout' \in [Conn -> Seq(Answer)]
  BY <1>1, <1>2
<1> QED
  BY <1>4, <1>6, <1>7 DEF Lines

\* Writing a line at the end of a stream.
LEMMA LineWritten ==
  ASSUME TypeOK, NEW c \in Conn, NEW new \in Answer,
         stdout' = [stdout EXCEPT ![c] = Append(@, new)]
  PROVE  /\ Lines' \subseteq Lines \cup {new}
         /\ stdout' \in [Conn -> Seq(Answer)]
<1>1. stdout \in [Conn -> Seq(Answer)] /\ stdout[c] \in Seq(Answer)
  BY DEF TypeOK
<1>2. /\ Append(stdout[c], new) \in Seq(Answer)
      /\ Len(Append(stdout[c], new)) = Len(stdout[c]) + 1
      /\ \A i \in 1 .. Len(stdout[c]) : Append(stdout[c], new)[i] = stdout[c][i]
      /\ Append(stdout[c], new)[Len(stdout[c]) + 1] = new
      /\ Len(stdout[c]) \in Nat
  BY <1>1, AppendProperties, LenProperties
<1>3. ASSUME NEW d \in Conn, NEW i \in 1 .. Len(stdout'[d])
      PROVE  stdout'[d][i] \in Lines \cup {new}
  <2>1. CASE d = c
    <3>1. stdout'[d] = Append(stdout[c], new)
      BY <1>1, <2>1
    <3>2. i \in 1 .. Len(stdout[c]) \/ i = Len(stdout[c]) + 1
      BY <1>2, <3>1
    <3> QED
      BY <1>2, <3>1, <3>2 DEF Lines
  <2>2. CASE d # c
    BY <1>1, <2>2 DEF Lines
  <2> QED
    BY <2>1, <2>2
<1>4. Lines' \subseteq Lines \cup {new}
  BY <1>3 DEF Lines
<1> QED
  BY <1>1, <1>2, <1>4

--------------------------------------------------------------------------------
(* What the other steps do. *)

\* A client comes to the end of its job, or backs off from a refusal.
Leave(k) ==
  \/ PrepareFails(k) \/ DrainRaises(k) \/ Timeout(k) \/ Raise(k) \/ BackOff(k)
  \/ FinishJob(k)

LEMMA LeaveEffect ==
  ASSUME TypeOK, WaitingIsReachable, NEW k \in Client, Leave(k)
  PROVE  /\ UNCHANGED <<process, os, stdout, asked, reader, requestId, jobs, executed>>
         /\ coro' \in [Client -> {Idle} \cup Running]
         /\ \A l \in Client \ {k} : coro'[l] = coro[l]
         /\ \/ coro'[k] = Idle
            \/ /\ Refused(k) /\ coro[k].retry < MaxRetry
               /\ coro'[k] = [at |-> "backoff", ask |-> coro[k].ask, retry |-> coro[k].retry]
         /\ pending' \subseteq pending
         /\ \A l \in Client \ {k} :
              coro[l].at = "waiting" => Future(l, coro[l].ask) \in pending'
<1>1. coro \in [Client -> {Idle} \cup Running] /\ Idle \in {Idle} \cup Running
  BY DEF TypeOK
<1>2. CASE Timeout(k)
  <2>1. coro[k].at = "waiting" /\ coro' = [coro EXCEPT ![k] = Idle]
    BY <1>2 DEF Timeout
  <2>2. \A l \in Client \ {k} :
          coro[l].at = "waiting" => Future(l, coro[l].ask) \in pending'
    BY <1>2, <2>1 DEF Timeout, WaitingIsReachable, Future
  <2> QED
    BY <1>1, <1>2, <2>1, <2>2 DEF Timeout
<1>3. CASE PrepareFails(k) \/ DrainRaises(k) \/ Raise(k) \/ FinishJob(k)
  BY <1>1, <1>3 DEF PrepareFails, DrainRaises, Raise, FinishJob, WaitingIsReachable
<1>4. CASE BackOff(k)
  <2>1. coro[k].ask \in Ask /\ coro[k].retry \in 0 .. MaxRetry
    BY <1>4, Kinds DEF BackOff, Refused, Asking
  <2>2. [at |-> "backoff", ask |-> coro[k].ask, retry |-> coro[k].retry] \in Running
    BY <2>1 DEF Running
  <2>3. /\ UNCHANGED <<process, os, stdout, asked, reader, pending, requestId, jobs, executed>>
        /\ Refused(k)
        /\ coro' = [coro EXCEPT ![k] =
             IF coro[k].retry < MaxRetry
               THEN [at |-> "backoff", ask |-> coro[k].ask, retry |-> coro[k].retry] ELSE Idle]
    BY <1>1, <1>4 DEF BackOff
  <2> QED
    BY <1>1, <2>2, <2>3 DEF WaitingIsReachable
<1> QED
  BY <1>2, <1>3, <1>4 DEF Leave

\* A reader takes a line, or ends.
Read(r) == ReadLine(r) \/ ReadLineAndFail(r) \/ ReadEof(r)

Failing(k) == [coro[k] EXCEPT !.at = "failed"]
Resolved(k, line) ==
  [at |-> "resolved", ask |-> coro[k].ask, retry |-> coro[k].retry, answer |-> line]

LEMMA SettledEffect ==
  ASSUME NEW k, NEW line
  PROVE  Settled(k, line) = Failing(k) \/ Settled(k, line) = Resolved(k, line)
BY DEF Settled, Failing, Resolved

LEMMA ReadEffect ==
  ASSUME TypeOK, WaitingIsReachable, NEW r \in Conn, Read(r)
  PROVE  /\ UNCHANGED <<process, os, asked, requestId, jobs, executed>>
         /\ stdout' \in [Conn -> Seq(Answer)] /\ Lines' \subseteq Lines
         /\ reader' \in [Conn -> 0 .. MaxConn]
         /\ pending' \subseteq pending
         /\ coro' \in [Client -> {Idle} \cup Running]
         /\ \A k \in Client :
              \/ /\ coro'[k] = coro[k]
                 /\ coro[k].at = "waiting" => Future(k, coro[k].ask) \in pending'
              \/ coro[k].at = "waiting" /\ coro'[k] = Failing(k)
              \/ /\ coro[k].at = "waiting"
                 /\ \E line \in Lines :
                      line.ask.id = coro[k].ask.id /\ coro'[k] = Resolved(k, line)
<1>1. \A k \in Client : coro[k].at = "waiting" =>
        /\ coro[k] \in [at : {"queued", "waiting", "failed"}, ask : Ask, retry : 0 .. MaxRetry]
        /\ Future(k, coro[k].ask) \in pending
  BY DEF TypeOK, WaitingIsReachable, Idle, Running
<1>2. \A k \in Client : coro[k].at = "waiting" =>
        /\ Failing(k) \in Running
        /\ \A line \in Lines : Resolved(k, line) \in Running
  <2> SUFFICES ASSUME NEW k \in Client, coro[k].at = "waiting"
               PROVE  Failing(k) \in Running /\ \A line \in Lines : Resolved(k, line) \in Running
    OBVIOUS
  <2>1. Failing(k) \in [at : {"queued", "waiting", "failed"}, ask : Ask, retry : 0 .. MaxRetry]
    BY <1>1 DEF Failing
  <2>2. \A line \in Lines : Resolved(k, line) \in
          [at : {"resolved"}, ask : Ask, retry : 0 .. MaxRetry, answer : Answer]
    BY <1>1, LinesAreAnswers DEF Resolved
  <2> QED
    BY <2>1, <2>2 DEF Running
<1>3. CASE ReadLine(r)
  <2> DEFINE line == Head(stdout[reader[r]])
  <2>1. reader[r] \in Conn
    BY <1>3, RpcAssumption DEF ReadLine, TypeOK, Conn
  <2>2. line \in Lines /\ Lines' \subseteq Lines /\ stdout' \in [Conn -> Seq(Answer)]
    BY <1>3, <2>1, LineRead DEF ReadLine
  <2>3. /\ coro' = [k \in Client |->
              IF /\ coro[k].at = "waiting" /\ Future(k, line.ask) \in pending
                 /\ coro[k].ask.id = line.ask.id
                THEN Settled(k, line) ELSE coro[k]]
        /\ pending' = {f \in pending : f.id # line.ask.id}
        /\ reader' = [reader EXCEPT ![r] = process]
        /\ UNCHANGED <<process, os, asked, requestId, jobs, executed>>
    BY <1>3 DEF ReadLine, Deliver
  <2>4. coro' \in [Client -> {Idle} \cup Running]
    <3>1. \A k \in Client : coro[k] \in {Idle} \cup Running
      BY DEF TypeOK
    <3>2. \A k \in Client : coro[k].at = "waiting" =>
            Settled(k, line) \in Running /\ Failing(k) \in Running
      BY <1>2, <2>2, SettledEffect
    <3> HIDE DEF line
    <3> QED
      BY <2>3, <3>1, <3>2
  <2>5. \A k \in Client :
          \/ /\ coro'[k] = coro[k]
             /\ coro[k].at = "waiting" => Future(k, coro[k].ask) \in pending'
          \/ coro[k].at = "waiting" /\ coro'[k] = Failing(k)
          \/ /\ coro[k].at = "waiting"
             /\ line.ask.id = coro[k].ask.id /\ coro'[k] = Resolved(k, line)
    BY <1>1, <2>3, SettledEffect DEF Future
  <2>6. reader' \in [Conn -> 0 .. MaxConn]
    BY <2>3 DEF TypeOK
  <2> QED
    BY <2>2, <2>3, <2>4, <2>5, <2>6
<1>4. CASE ReadLineAndFail(r)
  <2> DEFINE line == Head(stdout[reader[r]])
  <2>1. reader[r] \in Conn
    BY <1>4, RpcAssumption DEF ReadLineAndFail, TypeOK, Conn
  <2>2. line \in Lines /\ Lines' \subseteq Lines /\ stdout' \in [Conn -> Seq(Answer)]
    BY <1>4, <2>1, LineRead DEF ReadLineAndFail
  <2>3. /\ coro' = [k \in Client |->
              IF coro[k].at # "waiting" THEN coro[k]
              ELSE IF coro[k].ask.id = line.ask.id THEN Settled(k, line) ELSE Failing(k)]
        /\ pending' = {}
        /\ reader' = [reader EXCEPT ![r] = 0]
        /\ UNCHANGED <<process, os, asked, requestId, jobs, executed>>
    BY <1>4 DEF ReadLineAndFail, Failing
  <2>4. coro' \in [Client -> {Idle} \cup Running]
    <3>1. \A k \in Client : coro[k] \in {Idle} \cup Running
      BY DEF TypeOK
    <3>2. \A k \in Client : coro[k].at = "waiting" =>
            Settled(k, line) \in Running /\ Failing(k) \in Running
      BY <1>2, <2>2, SettledEffect
    <3> HIDE DEF line
    <3> QED
      BY <2>3, <3>1, <3>2
  <2>5. \A k \in Client :
          \/ coro'[k] = coro[k] /\ coro[k].at # "waiting"
          \/ coro[k].at = "waiting" /\ coro'[k] = Failing(k)
          \/ /\ coro[k].at = "waiting"
             /\ line.ask.id = coro[k].ask.id /\ coro'[k] = Resolved(k, line)
    BY <2>3, SettledEffect
  <2>6. reader' \in [Conn -> 0 .. MaxConn]
    BY <2>3, RpcAssumption DEF TypeOK
  <2> QED
    BY <2>2, <2>3, <2>4, <2>5, <2>6
<1>5. CASE ReadEof(r)
  <2>1. /\ coro' = [k \in Client |->
              IF coro[k].at = "waiting" /\ Future(k, coro[k].ask) \in pending
                THEN Failing(k) ELSE coro[k]]
        /\ pending' = {}
        /\ reader' = [reader EXCEPT ![r] = 0]
        /\ UNCHANGED <<process, os, stdout, asked, requestId, jobs, executed>>
    BY <1>5 DEF ReadEof, EndReader, Failing
  <2>2. coro' \in [Client -> {Idle} \cup Running]
    BY <1>2, <2>1 DEF TypeOK
  <2>3. \A k \in Client :
          \/ coro'[k] = coro[k] /\ coro[k].at # "waiting"
          \/ coro[k].at = "waiting" /\ coro'[k] = Failing(k)
    BY <1>1, <2>1
  <2>4. reader' \in [Conn -> 0 .. MaxConn]
    BY <2>1, RpcAssumption DEF TypeOK
  <2>5. stdout' \in [Conn -> Seq(Answer)] /\ Lines' \subseteq Lines
    BY <2>1 DEF TypeOK, Lines
  <2> QED
    BY <2>1, <2>2, <2>3, <2>4, <2>5
<1> QED
  BY <1>3, <1>4, <1>5 DEF Read

\* A process answers a request, dies, or is reaped.
Serve(c) == Execute(c) \/ Refuse(c) \/ Die(c) \/ Reap(c)

LEMMA ServeEffect ==
  ASSUME TypeOK, NEW c \in Conn, Serve(c)
  PROVE  /\ UNCHANGED <<process, reader, pending, requestId, coro, jobs>>
         /\ os' \in [Conn -> {"none", "up", "dead", "reaped"}]
         /\ stdout' \in [Conn -> Seq(Answer)]
         /\ asked' \in [Conn -> SUBSET Ask]
         /\ executed' \in [Job -> Nat]
         /\ \A d \in Conn : asked'[d] \subseteq asked[d]
         /\ \/ executed' = executed /\ Lines' \subseteq Lines
            \/ \E ask \in asked[c] :
                 /\ asked'[c] = asked[c] \ {ask}
                 /\ \/ /\ \E kind \in {"result", "error"} :
                            Lines' \subseteq Lines \cup {[ask |-> ask, kind |-> kind]}
                       /\ \/ executed' = executed
                          \/ /\ ask.method = "thread/start"
                             /\ executed' = [executed EXCEPT ![ask.job] = @ + 1]
                    \/ /\ Lines' \subseteq Lines \cup {[ask |-> ask, kind |-> "overloaded"]}
                       /\ executed' = executed
<1>1. ASSUME NEW ask \in asked[c], NEW kind \in {"result", "error", "overloaded"},
             Reply(c, ask, kind)
      PROVE  /\ UNCHANGED <<process, os, reader, pending, requestId, coro, jobs>>
             /\ ask \in Ask /\ ask.job \in Job
             /\ asked' \in [Conn -> SUBSET Ask]
             /\ \A d \in Conn : asked'[d] \subseteq asked[d]
             /\ asked'[c] = asked[c] \ {ask}
             /\ Lines' \subseteq Lines \cup {[ask |-> ask, kind |-> kind]}
             /\ stdout' \in [Conn -> Seq(Answer)]
  <2>1. ask \in Ask /\ ask.job \in Job
    BY DEF TypeOK, Ask
  <2>2. [ask |-> ask, kind |-> kind] \in Answer
    BY <2>1 DEF Answer
  <2>3. /\ Lines' \subseteq Lines \cup {[ask |-> ask, kind |-> kind]}
        /\ stdout' \in [Conn -> Seq(Answer)]
    BY <1>1, <2>2, LineWritten DEF Reply
  <2>4. /\ asked' \in [Conn -> SUBSET Ask]
        /\ \A d \in Conn : asked'[d] \subseteq asked[d]
        /\ asked'[c] = asked[c] \ {ask}
    BY <1>1 DEF Reply, TypeOK
  <2> QED
    BY <1>1, <2>1, <2>3, <2>4 DEF Reply
<1>2. CASE Execute(c)
  <2>1. PICK ask \in asked[c], kind \in {"result", "error"} :
          /\ Reply(c, ask, kind)
          /\ executed' = IF ask.method = "thread/start"
                           THEN [executed EXCEPT ![ask.job] = @ + 1] ELSE executed
    BY <1>2 DEF Execute
  <2>2. executed' \in [Job -> Nat]
    BY <1>1, <2>1 DEF TypeOK
  <2>3. /\ UNCHANGED <<process, os, reader, pending, requestId, coro, jobs>>
        /\ asked' \in [Conn -> SUBSET Ask] /\ stdout' \in [Conn -> Seq(Answer)]
        /\ \A d \in Conn : asked'[d] \subseteq asked[d]
        /\ asked'[c] = asked[c] \ {ask}
        /\ Lines' \subseteq Lines \cup {[ask |-> ask, kind |-> kind]}
    BY <1>1, <2>1
  <2>4. \/ executed' = executed
        \/ /\ ask.method = "thread/start"
           /\ executed' = [executed EXCEPT ![ask.job] = @ + 1]
    BY <2>1
  <2>5. os' \in [Conn -> {"none", "up", "dead", "reaped"}]
    BY <2>3 DEF TypeOK
  <2> QED
    BY <2>2, <2>3, <2>4, <2>5
<1>3. CASE Refuse(c)
  <2>1. PICK ask \in asked[c] : Reply(c, ask, "overloaded") /\ UNCHANGED executed
    BY <1>3 DEF Refuse
  <2> QED
    BY <1>1, <2>1 DEF TypeOK
<1>4. CASE Die(c) \/ Reap(c)
  <2>1. UNCHANGED <<process, reader, pending, requestId, coro, jobs, stdout, executed>>
    BY <1>4 DEF Die, Reap
  <2>2. Lines' \subseteq Lines
    BY <2>1 DEF Lines
  <2>3. /\ os' \in [Conn -> {"none", "up", "dead", "reaped"}]
        /\ asked' \in [Conn -> SUBSET Ask]
        /\ \A d \in Conn : asked'[d] \subseteq asked[d]
    BY <1>4 DEF Die, Reap, TypeOK
  <2> QED
    BY <2>1, <2>2, <2>3 DEF TypeOK
<1> QED
  BY <1>2, <1>3, <1>4 DEF Serve

--------------------------------------------------------------------------------
(* What a client does when it sends a request: who sends, to which process,    *)
(* which method, and what holds of the job before.                             *)

\* A request for job, which is k's, and which nobody has been asked to start.
Sends(k, p, job, method, retry, from) ==
  /\ Issue(k, p, job, method, retry, from)
  /\ UNCHANGED <<stdout, executed>>
  /\ p = process' /\ (process # 0 => process' # 0)
  /\ jobs' \in 0 .. MaxJob /\ jobs <= jobs' /\ job <= jobs'
  /\ Untouched(job)
  /\ \A l \in Client \ {k} : coro[l] # Idle => JobOf(l) # job

Send(k) == StartJob(k) \/ Spawn(k) \/ Retry(k) \/ Continue(k)

\* Either the client only begins to prepare a connection for a new job, or it
\* sends a request for a job that is its own and untouched.
LEMMA SendEffect ==
  ASSUME IInv, NEW k \in Client, Send(k)
  PROVE  /\ process' \in 0 .. MaxConn
         /\ os' \in [Conn -> {"none", "up", "dead", "reaped"}]
         /\ reader' \in [Conn -> 0 .. MaxConn]
         /\ \/ /\ coro' = [coro EXCEPT ![k] = [at |-> "preparing", job |-> jobs + 1]]
               /\ jobs' = jobs + 1 /\ jobs < MaxJob
               /\ UNCHANGED <<process, stdout, asked, pending, requestId, executed>>
            \/ \E p \in 0 .. MaxConn, job \in Job, method \in Method, retry \in 0 .. MaxRetry,
                  from \in [Conn -> {"none", "up", "dead", "reaped"}] :
                 Sends(k, p, job, method, retry, from)
<1>1. /\ TypeOK /\ JobsApart /\ AskedOnce
      /\ process \in 0 .. MaxConn /\ os \in [Conn -> {"none", "up", "dead", "reaped"}]
      /\ reader \in [Conn -> 0 .. MaxConn] /\ jobs \in 0 .. MaxJob
      /\ 0 \in 0 .. MaxRetry /\ MaxJob \in Nat
  BY RpcAssumption DEF IInv, TypeOK
<1>2. \A m \in {"initialize", "model/list", "thread/start"} : m \in Method
  BY DEF Method, Handshake
<1>3. CASE StartJob(k)
  <2>1. jobs + 1 \in Job /\ jobs' = jobs + 1 /\ jobs < MaxJob /\ jobs' \in 0 .. MaxJob
    BY <1>1, <1>3 DEF StartJob, Job
  <2>2. Untouched(jobs + 1)
    BY <1>1, <2>1 DEF AskedOnce
  <2>3. \A l \in Client \ {k} : coro[l] # Idle => JobOf(l) # jobs + 1
    <3>1. ASSUME NEW l \in Client, coro[l] # Idle PROVE JobOf(l) \in Job /\ JobOf(l) <= jobs
      BY <1>1, <3>1, Kinds DEF JobsApart, JobOf, Asking, Ask
    <3> QED
      BY <1>1, <3>1 DEF Job
  <2>4. CASE Connected(process)
    <3>1. Sends(k, process, jobs + 1, "thread/start", 0, os)
      BY <1>1, <1>3, <2>1, <2>2, <2>3, <2>4 DEF StartJob, Sends
    <3> QED
      BY <1>1, <1>2, <1>3, <2>1, <3>1 DEF StartJob
  <2>5. CASE ~Connected(process)
    BY <1>1, <1>3, <2>1, <2>5 DEF StartJob
  <2> QED
    BY <2>4, <2>5
\* The other three are of a client with a job, which it still has to ask for.
<1>4. ASSUME NEW p \in 0 .. MaxConn, NEW job \in Job, job = JobOf(k), coro[k] # Idle,
             WillAsk(k), NEW method \in Method, NEW retry \in 0 .. MaxRetry,
             NEW from \in [Conn -> {"none", "up", "dead", "reaped"}],
             Issue(k, p, job, method, retry, from), UNCHANGED <<stdout, jobs, executed>>,
             p = process', process # 0 => process' # 0
      PROVE  Sends(k, p, job, method, retry, from)
  <2>1. Untouched(job)
    BY <1>1, <1>4 DEF AskedOnce
  <2>2. job <= jobs /\ \A l \in Client \ {k} : coro[l] # Idle => JobOf(l) # job
    BY <1>1, <1>4 DEF JobsApart
  <2> QED
    BY <1>1, <1>4, <2>1, <2>2 DEF Sends
<1>5. CASE Spawn(k)
  <2>1. PICK c \in Conn :
          /\ process' = c
          /\ os' = [os EXCEPT ![c] = "up"]
          /\ reader' = [reader EXCEPT ![c] = c]
          /\ Issue(k, c, coro[k].job, "initialize", 0, os')
    BY <1>5 DEF Spawn
  <2>2. coro[k].at = "preparing" /\ UNCHANGED <<stdout, jobs, executed>>
    BY <1>5 DEF Spawn
  <2>3. c \in 0 .. MaxConn /\ c # 0 /\ os' \in [Conn -> {"none", "up", "dead", "reaped"}]
    BY <1>1, <2>1, RpcAssumption DEF Conn
  <2>4. coro[k].job \in Job /\ coro[k].job = JobOf(k) /\ coro[k] # Idle /\ WillAsk(k)
    BY <1>1, <2>2, Kinds DEF JobOf, WillAsk
  <2>5. Sends(k, c, coro[k].job, "initialize", 0, os')
    BY <1>1, <1>2, <1>4, <2>1, <2>2, <2>3, <2>4
  <2> QED
    BY <1>1, <1>2, <2>1, <2>3, <2>4, <2>5
<1>6. CASE Retry(k)
  <2>1. /\ coro[k].at = "backoff" /\ UNCHANGED <<process, os, reader, stdout, jobs, executed>>
        /\ Issue(k, process, coro[k].ask.job, coro[k].ask.method, coro[k].retry + 1, os)
    BY <1>6 DEF Retry
  <2>2. coro[k].ask \in Ask /\ coro[k].retry + 1 \in 0 .. MaxRetry
    BY <1>1, <2>1, Kinds, RpcAssumption DEF Asking, IInv, RetriesLeft
  <2>3. coro[k].ask.job \in Job /\ coro[k].ask.method \in Method
    BY <2>2 DEF Ask
  <2>4. coro[k].ask.job = JobOf(k) /\ coro[k] # Idle /\ WillAsk(k)
    BY <1>1, <2>1, Kinds DEF JobOf, WillAsk
  <2>5. Sends(k, process, coro[k].ask.job, coro[k].ask.method, coro[k].retry + 1, os)
    BY <1>1, <1>4, <2>1, <2>2, <2>3, <2>4
  <2> QED
    BY <1>1, <2>1, <2>2, <2>3, <2>5
<1>7. CASE Continue(k)
  <2>1. PICK step \in {<<"initialize", "model/list">>, <<"model/list", "thread/start">>} :
          /\ Granted(k, step[1])
          /\ Issue(k, process, coro[k].ask.job, step[2], 0, os)
    BY <1>7 DEF Continue
  <2>2. UNCHANGED <<process, os, reader, stdout, jobs, executed>>
    BY <1>7 DEF Continue
  <2>3. /\ coro[k].at = "resolved" /\ coro[k].ask.method \in Handshake
        /\ step[2] \in Method
    BY <1>2, <2>1 DEF Granted, Handshake
  <2>4. coro[k].ask.job \in Job
    BY <1>1, <2>3, Kinds DEF Asking, Ask
  <2>5. coro[k].ask.job = JobOf(k) /\ coro[k] # Idle /\ WillAsk(k)
    BY <1>1, <2>3, Kinds DEF JobOf, WillAsk, Asking
  <2>6. Sends(k, process, coro[k].ask.job, step[2], 0, os)
    BY <1>1, <1>4, <2>1, <2>2, <2>3, <2>4, <2>5
  <2> QED
    BY <1>1, <2>2, <2>3, <2>4, <2>6
<1> QED
  BY <1>3, <1>5, <1>6, <1>7 DEF Send

--------------------------------------------------------------------------------
(* The invariant is kept. *)

LEMMA InvariantStarts == Init => IInv
<1> SUFFICES ASSUME Init PROVE IInv
  OBVIOUS
<1>1. TypeOK
  <2>1. 0 \in 0 .. MaxConn /\ 0 \in 0 .. MaxJob /\ <<>> \in Seq(Answer)
    BY RpcAssumption
  <2> QED
    BY <2>1 DEF Init, TypeOK
<1>2. \A k \in Client : coro[k] = Idle /\ coro[k].at = "idle"
  BY DEF Init, Idle
<1>3. Numbered
  <2>1. Lines = {}
    BY DEF Init, Lines
  <2>2. Asks = {}
    BY <1>2, <2>1 DEF Init, Asks, Asking
  <2> QED
    BY <2>2 DEF Init, Numbered
<1>4. AskedOnce
  <2>1. \A j \in Job : Untouched(j)
    BY DEF Init, Untouched
  <2>2. \A c \in Conn : asked[c] = {}
    BY DEF Init
  <2> QED
    BY <1>2, <2>1, <2>2 DEF AskedOnce
<1>5. RetriesLeft /\ NotSentYet /\ WaitingIsReachable /\ AnswerIsOwn /\ JobsApart
  BY <1>2 DEF RetriesLeft, NotSentYet, Unsent, WaitingIsReachable, AnswerIsOwn, JobsApart
<1>6. ExecutedOnce
  BY DEF Init, ExecutedOnce
<1> QED
  BY <1>1, <1>3, <1>4, <1>5, <1>6 DEF IInv

\* A client begins to prepare a connection for the next job.
LEMMA PrepareKeeps ==
  ASSUME IInv, NEW k \in Client, TypeOK',
         coro' = [coro EXCEPT ![k] = [at |-> "preparing", job |-> jobs + 1]],
         jobs' = jobs + 1, jobs < MaxJob,
         UNCHANGED <<process, stdout, asked, pending, requestId, executed>>
  PROVE  IInv'
<1>1. TypeOK /\ jobs \in Nat /\ \A l \in Client : coro[l] # Idle => JobOf(l) \in Nat
  <2>1. TypeOK /\ jobs \in Nat
    BY RpcAssumption DEF IInv, TypeOK
  <2>2. ASSUME NEW l \in Client, coro[l] # Idle PROVE JobOf(l) \in Job
    <3>1. CASE coro[l].at = "preparing"
      BY <2>1, <3>1, Kinds DEF JobOf
    <3>2. CASE coro[l].at # "preparing"
      <4>1. Asking(l)
        BY <2>1, <2>2, <3>2, Kinds DEF Asking
      <4>2. coro[l].ask \in Ask
        BY <2>1, <4>1, Kinds
      <4> QED
        BY <3>2, <4>2 DEF JobOf, Ask
    <3> QED
      BY <3>1, <3>2
  <2>3. Job \subseteq Nat
    BY DEF Job
  <2> QED
    BY <2>1, <2>2, <2>3
<1>2. /\ \A l \in Client \ {k} : coro'[l] = coro[l]
      /\ coro'[k] = [at |-> "preparing", job |-> jobs + 1]
  BY <1>1 DEF TypeOK
<1>3. Lines' = Lines
  BY DEF Lines
<1>4. Asks' \subseteq Asks
  BY <1>2, <1>3 DEF Asks, Asking
<1>5. Numbered'
  BY <1>4 DEF IInv, Numbered
<1>6. WaitingIsReachable' /\ AnswerIsOwn' /\ RetriesLeft' /\ NotSentYet'
  <2>1. ~ Unsent(k)' /\ \A l \in Client \ {k} : Unsent(l)' <=> Unsent(l)
    BY <1>2 DEF Unsent
  <2> QED
    BY <1>2, <1>3, <2>1 DEF IInv, WaitingIsReachable, AnswerIsOwn, RetriesLeft, NotSentYet
<1>7. JobsApart'
  <2>1. \A l \in Client \ {k} : coro[l] # Idle => JobOf(l)' = JobOf(l) /\ JobOf(l) <= jobs
    BY <1>2 DEF IInv, JobsApart, JobOf
  <2>2. JobOf(k)' = jobs + 1
    BY <1>2 DEF JobOf
  <2> QED
    BY <1>1, <1>2, <2>1, <2>2 DEF IInv, JobsApart
<1>8. AskedOnce'
  <2>1. \A j \in Job : Untouched(j)' <=> Untouched(j)
    BY DEF Untouched
  <2>2. \A j \in Job : j > jobs' => Untouched(j)'
    BY <1>1, <2>1 DEF IInv, AskedOnce, Job
  <2>3. ASSUME NEW l \in Client, coro'[l] # Idle, WillAsk(l)' PROVE Untouched(JobOf(l))'
    <3>1. CASE l = k
      <4>1. JobOf(k)' = jobs + 1 /\ jobs + 1 \in Job /\ jobs + 1 > jobs
        BY <1>1, <1>2, RpcAssumption DEF JobOf, Job
      <4> QED
        BY <2>1, <3>1, <4>1 DEF IInv, AskedOnce
    <3>2. CASE l # k
      <4>1. coro[l] # Idle /\ WillAsk(l) /\ JobOf(l)' = JobOf(l)
        BY <1>2, <1>3, <2>3, <3>2 DEF WillAsk, Unsent, Asking, Refused, JobOf
      <4>2. Untouched(JobOf(l))
        BY <4>1 DEF IInv, AskedOnce
      <4> QED
        BY <4>1, <4>2 DEF Untouched
    <3> QED
      BY <3>1, <3>2
  <2>4. \A c, d \in Conn : \A a \in asked'[c], b \in asked'[d] :
          a.method = "thread/start" /\ Starts(b, a.job) =>
            a = b /\ c = d /\ executed'[a.job] = 0
    BY DEF IInv, AskedOnce
  <2> QED
    BY <2>2, <2>3, <2>4 DEF AskedOnce
<1>9. ExecutedOnce'
  BY DEF IInv, ExecutedOnce
<1> QED
  BY <1>5, <1>6, <1>7, <1>8, <1>9 DEF IInv

\* The writing of a request, or the wait for it, for a job no other client has and
\* no process has been asked for.
Hands(k, p, new) ==
  /\ UNCHANGED <<stdout, executed>> /\ (process # 0 => process' # 0)
  /\ jobs <= jobs' /\ new.job <= jobs' /\ Untouched(new.job)
  /\ \A c \in Conn : new \notin asked[c]
  /\ \A line \in Lines : line.ask # new
  /\ \A l \in Client \ {k} :
       coro'[l] = coro[l] /\ (coro[l] # Idle => JobOf(l) # new.job)
  /\ \/ coro'[k] = Idle
     \/ /\ coro'[k].at \in {"queued", "draining", "waiting", "failed"}
        /\ coro'[k].ask = new
  /\ Unsent(k)' => asked' = asked /\ process' # 0
  /\ asked' = asked \/ (p \in Conn /\ asked' = [asked EXCEPT ![p] = @ \cup {new}])

LEMMA HandsKeeps ==
  ASSUME IInv, TypeOK', NEW k \in Client, NEW p \in 0 .. MaxConn, NEW new \in Ask,
         Hands(k, p, new)
  PROVE  AskedOnce' /\ NotSentYet' /\ JobsApart' /\ AnswerIsOwn' /\ RetriesLeft'
         /\ ExecutedOnce'
<1>1. /\ TypeOK /\ JobsApart /\ AskedOnce /\ NotSentYet
      /\ jobs \in Nat /\ jobs' \in Nat /\ jobs <= jobs' /\ new.job \in Job /\ Job \subseteq Nat
      /\ UNCHANGED <<stdout, executed>>
  BY RpcAssumption DEF IInv, TypeOK, Hands, Ask, Job
<1>2. Lines' = Lines
  BY <1>1 DEF Lines
<1>3. \A c \in Conn : asked'[c] \subseteq asked[c] \cup {new}
  BY <1>1 DEF Hands, TypeOK
<1>4. \A l \in Client \ {k} : /\ coro'[l] = coro[l] /\ (coro[l] # Idle => JobOf(l) # new.job)
                              /\ JobOf(l)' = JobOf(l)
  BY DEF Hands, JobOf
<1>5. \A l \in Client : coro[l] # Idle => JobOf(l) \in Job
  BY <1>1, Kinds DEF JobOf, Asking, Ask
<1>6. coro'[k] # Idle => JobOf(k)' = new.job
  BY DEF Hands, JobOf
<1>7. NotSentYet'
  <2> SUFFICES ASSUME NEW l \in Client, Unsent(l)'
               PROVE  /\ process' # 0
                      /\ \A c \in Conn : coro'[l].ask \notin asked'[c]
                      /\ \A line \in Lines' : line.ask # coro'[l].ask
    BY DEF NotSentYet
  <2>1. CASE l = k
    BY <1>2, <2>1 DEF Hands, Unsent, Idle
  <2>2. CASE l # k
    <3>1. coro'[l] = coro[l] /\ Unsent(l) /\ process' # 0
      BY <1>1, <1>4, <2>2 DEF Unsent, Hands, NotSentYet
    <3>2. coro[l].ask # new
      <4>1. coro[l] # Idle /\ JobOf(l) = coro[l].ask.job
        BY <1>1, <3>1, Kinds DEF Unsent, JobOf
      <4> QED
        BY <1>4, <2>2, <4>1
    <3> QED
      BY <1>1, <1>2, <1>3, <3>1, <3>2 DEF NotSentYet
  <2> QED
    BY <2>1, <2>2
<1>8. JobsApart'
  <2>1. \A l \in Client \ {k} : coro[l] # Idle => JobOf(l) <= jobs /\ JobOf(l) \in Nat
    BY <1>1, <1>5 DEF JobsApart
  <2>2. new.job <= jobs'
    BY DEF Hands
  <2> QED
    BY <1>1, <1>4, <1>6, <2>1, <2>2 DEF JobsApart
<1>9. AnswerIsOwn' /\ RetriesLeft'
  <2>1. coro'[k].at \notin {"resolved", "backoff"}
    BY DEF Hands, Idle
  <2> QED
    BY <1>4, <2>1 DEF AnswerIsOwn, RetriesLeft, IInv
<1>10. \A j \in Job : j # new.job => (Untouched(j) => Untouched(j)')
  BY <1>1, <1>3 DEF Untouched, Starts
<1>11. \A j \in Job : j > jobs' => Untouched(j)'
  <2> SUFFICES ASSUME NEW j \in Job, j > jobs' PROVE Untouched(j)'
    OBVIOUS
  <2>1. new.job <= jobs' /\ new.job \in Nat /\ j \in Nat
    BY <1>1 DEF Hands
  <2>2. j # new.job /\ j > jobs
    BY <1>1, <2>1
  <2> QED
    BY <1>1, <1>10, <2>2 DEF AskedOnce
<1>12. ASSUME NEW l \in Client, coro'[l] # Idle, WillAsk(l)' PROVE Untouched(JobOf(l))'
  <2>1. CASE l = k
    <3>1. coro'[k].at \in {"queued", "draining", "waiting", "failed"} /\ coro'[k].ask = new
      BY <1>12, <2>1 DEF Hands
    <3>2. [ask |-> new, kind |-> "overloaded"] \notin Lines
      <4>1. [ask |-> new, kind |-> "overloaded"].ask = new
        OBVIOUS
      <4> QED
        BY <4>1 DEF Hands
    <3>3. asked' = asked \/ new.method \in Handshake
      BY <1>2, <1>12, <2>1, <3>1, <3>2 DEF WillAsk, Asking, Refused, Hands
    <3>4. Untouched(new.job)'
      <4>1. Untouched(new.job)
        BY DEF Hands
      <4> QED
        BY <1>1, <1>3, <3>3, <4>1 DEF Untouched, Starts, Handshake
    <3> QED
      BY <1>6, <1>12, <2>1, <3>4
  <2>2. CASE l # k
    <3>1. coro[l] # Idle /\ WillAsk(l) /\ JobOf(l)' = JobOf(l)
      BY <1>2, <1>4, <1>12, <2>2 DEF WillAsk, Unsent, Asking, Refused
    <3>2. Untouched(JobOf(l)) /\ JobOf(l) # new.job /\ JobOf(l) \in Job
      BY <1>1, <1>4, <1>5, <2>2, <3>1 DEF AskedOnce
    <3> QED
      BY <1>10, <3>1, <3>2
  <2> QED
    BY <2>1, <2>2
<1>13. ASSUME NEW c \in Conn, NEW d \in Conn, NEW a \in asked'[c], NEW b \in asked'[d],
              a.method = "thread/start", Starts(b, a.job)
       PROVE  a = b /\ c = d /\ executed'[a.job] = 0
  <2>1. CASE a \in asked[c] /\ b \in asked[d]
    BY <1>1, <1>13, <2>1 DEF AskedOnce
  <2>2. CASE ~ (a \in asked[c] /\ b \in asked[d])
    <3>1. p \in Conn /\ asked' = [asked EXCEPT ![p] = @ \cup {new}]
      BY <2>2 DEF Hands
    <3>2. a.job = new.job /\ Starts(a, new.job) /\ Starts(b, new.job)
      BY <1>3, <1>13, <2>2 DEF Starts
    <3>3. a \notin asked[c] /\ b \notin asked[d] /\ executed[new.job] = 0
      BY <3>2 DEF Untouched, Hands
    <3>4. a = new /\ b = new
      BY <1>3, <3>3
    <3>5. c = p /\ d = p
      BY <1>1, <3>1, <3>3 DEF TypeOK
    <3> QED
      BY <1>1, <3>2, <3>3, <3>4, <3>5
  <2> QED
    BY <2>1, <2>2
<1>14. AskedOnce'
  BY <1>11, <1>12, <1>13 DEF AskedOnce
<1>15. ExecutedOnce'
  BY <1>1 DEF IInv, ExecutedOnce
<1> QED
  BY <1>7, <1>8, <1>9, <1>14, <1>15

LEMMA AsksAreAsk ==
  ASSUME TypeOK
  PROVE  Asks \subseteq Ask
<1>1. \A line \in Lines : line.ask \in Ask
  BY LinesAreAnswers DEF Answer
<1>2. \A k \in Client : Asking(k) => coro[k].ask \in Ask
  BY Kinds
<1>3. UNION {asked[c] : c \in Conn} \subseteq Ask
  BY DEF TypeOK
<1> QED
  BY <1>1, <1>2, <1>3 DEF Asks

\* A request takes the next id, and its job is untouched by any other client.
LEMMA SendsKeeps ==
  ASSUME IInv, NEW k \in Client, NEW p \in 0 .. MaxConn, NEW job \in Job,
         NEW method \in Method, NEW retry \in 0 .. MaxRetry,
         NEW from \in [Conn -> {"none", "up", "dead", "reaped"}],
         Sends(k, p, job, method, retry, from), TypeOK'
  PROVE  IInv'
<1> DEFINE new == NextAsk(job, method)
<1>1. /\ TypeOK /\ Numbered /\ WaitingIsReachable /\ NotSentYet
      /\ requestId \in Nat
      /\ UNCHANGED <<stdout, executed>>
  BY DEF IInv, TypeOK, Sends
<1>2. new \in Ask /\ new.id = requestId + 1 /\ new.job = job
  BY <1>1, IssueEffect DEF Sends, NextAsk
<1>3. /\ \A l \in Client \ {k} : coro'[l] = coro[l]
      /\ \/ coro'[k] = Idle /\ UNCHANGED <<asked, pending, requestId>>
         \/ /\ p \in Conn /\ requestId' = requestId + 1
            /\ pending' = pending \cup {Future(k, new)}
            /\ \/ coro'[k] = Idle
               \/ /\ coro'[k].at \in {"queued", "draining", "waiting", "failed"}
                  /\ coro'[k].ask = new
            /\ coro'[k].at = "waiting" => Future(k, new) \in pending'
            /\ Unsent(k)' => asked' = asked
            /\ asked' = asked \/ asked' = [asked EXCEPT ![p] = @ \cup {new}]
  <2>1. /\ \A l \in Client \ {k} : coro'[l] = coro[l]
        /\ \/ coro'[k] = Idle /\ UNCHANGED <<asked, pending, requestId>>
           \/ /\ p \in Conn
              /\ requestId' = requestId + 1
              /\ pending' = pending \cup {Future(k, new)}
              /\ \/ coro'[k] = At("queued", new, retry) /\ asked' = asked
                 \/ Written(k, p, new, retry)
    BY <1>1, IssueEffect DEF Sends
  <2> HIDE DEF new
  <2>2. CASE coro'[k] = At("queued", new, retry) /\ asked' = asked
    BY <2>1, <2>2 DEF At
  <2>3. ASSUME p \in Conn, Written(k, p, new, retry)
        PROVE  /\ \/ coro'[k] = Idle
                  \/ coro'[k].at \in {"draining", "waiting", "failed"} /\ coro'[k].ask = new
               /\ coro'[k].at = "waiting" => Future(k, new) \in pending'
               /\ Unsent(k)' => asked' = asked
               /\ asked' = asked \/ asked' = [asked EXCEPT ![p] = @ \cup {new}]
    BY <2>3, WrittenPlaces
  <2> QED
    BY <2>1, <2>2, <2>3
<1> HIDE DEF new
<1>4. Asks \subseteq Ask /\ \A a \in Asks : a.id \in Nat /\ a.id <= requestId
  BY <1>1, AsksAreAsk DEF Ask, Numbered
<1>5. \A f \in pending : f.id \in Nat /\ f.id <= requestId
  BY <1>1 DEF TypeOK, Numbered
<1>6. new \notin Asks
  BY <1>1, <1>2, <1>4
<1>7. Lines' = Lines
  BY <1>1 DEF Lines
<1>8. Asks' \subseteq Asks \cup {new} /\ (requestId' = requestId => Asks' \subseteq Asks)
  <2>1. \A c \in Conn : asked'[c] \subseteq asked[c] \cup {new}
    BY <1>1, <1>3 DEF TypeOK
  <2>2. requestId' = requestId => asked' = asked /\ coro'[k] = Idle
    BY <1>1, <1>3
  <2> QED
    BY <1>3, <1>7, <2>1, <2>2 DEF Asks, Asking, Idle
<1>9. Numbered'
  <2>1. CASE requestId' = requestId
    BY <1>1, <1>3, <1>8, <2>1 DEF Numbered
  <2>2. CASE requestId' = requestId + 1
    <3>1. \A a \in Asks' : a.id <= requestId + 1
      BY <1>1, <1>2, <1>8, <1>4
    <3>2. \A a, b \in Asks' : a.id = b.id => a = b
      BY <1>1, <1>2, <1>8, <1>4 DEF Numbered
    <3>3. \A f \in pending' : f.id <= requestId + 1
      BY <1>1, <1>2, <1>3, <1>5 DEF Future
    <3> QED
      BY <2>2, <3>1, <3>2, <3>3 DEF Numbered
  <2> QED
    BY <1>3, <2>1, <2>2
<1>10. WaitingIsReachable'
  <2> SUFFICES ASSUME NEW l \in Client, coro'[l].at = "waiting" \/ Unsent(l)'
               PROVE  /\ coro'[l].at = "waiting" => Future(l, coro'[l].ask) \in pending'
                      /\ \A f \in pending' : f.id = coro'[l].ask.id => f.by = l
    BY DEF WaitingIsReachable
  <2>1. CASE l = k
    <3>1. /\ coro'[k].ask = new /\ pending' = pending \cup {Future(k, new)}
          /\ coro'[k].at = "waiting" => Future(k, new) \in pending'
      BY <1>3, <2>1 DEF Idle, Unsent
    <3>2. \A f \in pending : f.id # new.id
      BY <1>1, <1>2, <1>5
    <3> QED
      BY <2>1, <3>1, <3>2 DEF Future
  <2>2. CASE l # k
    <3>1. /\ coro'[l] = coro[l] /\ (coro[l].at = "waiting" \/ Unsent(l))
          /\ coro[l].at = "waiting" => Future(l, coro[l].ask) \in pending
          /\ \A f \in pending : f.id = coro[l].ask.id => f.by = l
      BY <1>1, <1>3, <2>2 DEF WaitingIsReachable, Unsent
    <3>2. coro[l].ask.id # new.id
      <4>1. coro[l].ask \in Asks
        BY <3>1 DEF Asks, Asking, Unsent
      <4> QED
        BY <1>1, <1>2, <1>4, <4>1
    <3> QED
      BY <1>3, <3>1, <3>2 DEF Future
  <2> QED
    BY <2>1, <2>2
<1>11. Hands(k, p, new)
  <2>1. /\ UNCHANGED <<stdout, executed>> /\ (process # 0 => process' # 0)
        /\ jobs <= jobs' /\ job <= jobs' /\ Untouched(job) /\ p = process'
        /\ \A l \in Client \ {k} : coro[l] # Idle => JobOf(l) # job
    BY DEF Sends
  <2>2. /\ \A c \in Conn : new \notin asked[c]
        /\ \A line \in Lines : line.ask # new
    BY <1>6 DEF Asks
  <2>3. p \in Conn => p # 0
    BY DEF Conn
  <2>4. Unsent(k)' => coro'[k] # Idle
    BY DEF Unsent, Idle
  <2> QED
    BY <1>2, <1>3, <2>1, <2>2, <2>3, <2>4 DEF Hands
<1> QED
  BY <1>2, <1>9, <1>10, <1>11, HandsKeeps DEF IInv

\* A request that had to wait is written under the id it has.
LEMMA FlushKeeps ==
  ASSUME IInv, NEW k \in Client, Flush(k), TypeOK'
  PROVE  IInv'
<1> DEFINE new == coro[k].ask
<1>1. /\ TypeOK /\ Numbered /\ WaitingIsReachable /\ NotSentYet /\ JobsApart /\ AskedOnce
      /\ jobs \in Nat
  BY RpcAssumption DEF IInv, TypeOK
<1>2. /\ UNCHANGED <<process, os, stdout, reader, pending, requestId, jobs, executed>>
      /\ Unsent(k) /\ new \in Ask
      /\ \A l \in Client \ {k} : coro'[l] = coro[l]
  BY <1>1, FlushEffect
<1>3. PICK p \in Conn : Written(k, p, new, coro[k].retry)
  BY <1>1, FlushEffect
<1>4. /\ \/ coro'[k] = Idle
         \/ coro'[k].at \in {"draining", "waiting", "failed"} /\ coro'[k].ask = new
      /\ coro'[k].at = "waiting" => Future(k, new) \in pending'
      /\ Unsent(k)' => asked' = asked
      /\ asked' = asked \/ asked' = [asked EXCEPT ![p] = @ \cup {new}]
  BY <1>3, WrittenPlaces
<1>5. coro[k] # Idle /\ JobOf(k) = new.job /\ WillAsk(k) /\ Asking(k)
  BY <1>1, <1>2, Kinds DEF JobOf, WillAsk, Unsent, Asking
<1> HIDE DEF new
<1>6. new \in Asks
  BY <1>5 DEF Asks, new
<1>7. Lines' = Lines
  BY <1>2 DEF Lines
<1>8. Asks' \subseteq Asks
  <2>1. \A c \in Conn : asked'[c] \subseteq asked[c] \cup {new}
    BY <1>1, <1>4 DEF TypeOK
  <2> QED
    BY <1>2, <1>4, <1>6, <1>7, <2>1 DEF Asks, Asking, Idle
<1>9. Numbered'
  BY <1>1, <1>2, <1>8 DEF Numbered
<1>10. WaitingIsReachable'
  <2> SUFFICES ASSUME NEW l \in Client, coro'[l].at = "waiting" \/ Unsent(l)'
               PROVE  /\ coro'[l].at = "waiting" => Future(l, coro'[l].ask) \in pending'
                      /\ \A f \in pending' : f.id = coro'[l].ask.id => f.by = l
    BY DEF WaitingIsReachable
  <2>1. CASE l = k
    <3>1. coro'[k].ask = new
      BY <1>4, <2>1 DEF Idle, Unsent
    <3>2. \A f \in pending : f.id = new.id => f.by = k
      BY <1>1, <1>2 DEF WaitingIsReachable, new
    <3> QED
      BY <1>2, <1>4, <2>1, <3>1, <3>2
  <2>2. CASE l # k
    BY <1>1, <1>2, <2>2 DEF WaitingIsReachable, Unsent
  <2> QED
    BY <2>1, <2>2
<1>11. Hands(k, p, new)
  <2>1. /\ new.job <= jobs /\ Untouched(new.job)
        /\ \A l \in Client \ {k} : coro[l] # Idle => JobOf(l) # new.job
    BY <1>1, <1>5 DEF JobsApart, AskedOnce
  <2>2. /\ process # 0 /\ \A c \in Conn : new \notin asked[c]
        /\ \A line \in Lines : line.ask # new
    BY <1>1, <1>2 DEF NotSentYet, new
  <2> QED
    BY <1>1, <1>2, <1>4, <2>1, <2>2 DEF Hands
<1>12. p \in 0 .. MaxConn
  BY RpcAssumption DEF Conn
<1> QED
  BY <1>2, <1>9, <1>10, <1>11, <1>12, HandsKeeps DEF IInv

\* A client that leaves its job, or backs off, disturbs no other.
LEMMA LeaveKeeps ==
  ASSUME IInv, NEW k \in Client, Leave(k), TypeOK'
  PROVE  IInv'
<1>1. TypeOK /\ Numbered /\ WaitingIsReachable /\ AnswerIsOwn /\ JobsApart /\ AskedOnce
  BY DEF IInv
<1>2. /\ UNCHANGED <<process, os, stdout, asked, reader, requestId, jobs, executed>>
      /\ \A l \in Client \ {k} : coro'[l] = coro[l]
      /\ \/ coro'[k] = Idle
         \/ /\ Refused(k) /\ coro[k].retry < MaxRetry
            /\ coro'[k] = [at |-> "backoff", ask |-> coro[k].ask, retry |-> coro[k].retry]
      /\ pending' \subseteq pending
      /\ \A l \in Client \ {k} :
           coro[l].at = "waiting" => Future(l, coro[l].ask) \in pending'
  BY <1>1, LeaveEffect
<1>3. Refused(k) => coro[k] # Idle /\ Asking(k) /\ coro[k].at # "preparing"
  BY <1>1, Kinds DEF Refused, Asking
<1>4. Lines' = Lines
  BY <1>2 DEF Lines
<1>5. Asks' \subseteq Asks
  BY <1>2, <1>3, <1>4 DEF Asks, Asking, Idle
<1>6. Numbered'
  BY <1>1, <1>2, <1>5 DEF Numbered
<1>7. coro'[k].at \notin {"preparing", "queued", "draining", "waiting", "resolved"}
  BY <1>2 DEF Idle
<1>8. WaitingIsReachable' /\ AnswerIsOwn' /\ NotSentYet'
  <2>1. ~ Unsent(k)' /\ \A l \in Client \ {k} : Unsent(l)' <=> Unsent(l)
    BY <1>2, <1>7 DEF Unsent
  <2>2. WaitingIsReachable' /\ AnswerIsOwn'
    BY <1>1, <1>2, <1>7, <2>1 DEF WaitingIsReachable, AnswerIsOwn
  <2> QED
    BY <1>2, <1>4, <2>1, <2>2 DEF IInv, NotSentYet
<1>9. RetriesLeft'
  <2>1. coro'[k].at = "backoff" => coro'[k].retry < MaxRetry
    BY <1>2 DEF Idle
  <2> QED
    BY <1>2, <2>1 DEF IInv, RetriesLeft
<1>10. \A l \in Client : coro'[l] # Idle => coro[l] # Idle /\ JobOf(l)' = JobOf(l)
  BY <1>2, <1>3 DEF JobOf
<1>11. JobsApart'
  BY <1>1, <1>2, <1>10 DEF JobsApart
<1>12. \A l \in Client : coro'[l] # Idle /\ WillAsk(l)' => WillAsk(l)
  <2>1. coro'[k] # Idle => WillAsk(k)
    BY <1>2 DEF WillAsk
  <2> QED
    BY <1>2, <1>4, <2>1 DEF WillAsk, Unsent, Asking, Refused
<1>13. AskedOnce'
  <2>1. \A j : Untouched(j)' <=> Untouched(j)
    BY <1>2 DEF Untouched
  <2>2. \A l \in Client : coro'[l] # Idle /\ WillAsk(l)' => Untouched(JobOf(l))'
    BY <1>1, <1>10, <1>12, <2>1 DEF AskedOnce
  <2> QED
    BY <1>1, <1>2, <2>1, <2>2 DEF AskedOnce
<1>14. ExecutedOnce'
  BY <1>2 DEF IInv, ExecutedOnce
<1> QED
  BY <1>6, <1>8, <1>9, <1>11, <1>13, <1>14 DEF IInv

\* A line that is read resolves the request it answers, because ids are not reused.
LEMMA ReadKeeps ==
  ASSUME IInv, NEW r \in Conn, Read(r), TypeOK'
  PROVE  IInv'
<1>1. TypeOK /\ Numbered /\ WaitingIsReachable /\ AnswerIsOwn /\ JobsApart /\ AskedOnce
  BY DEF IInv
<1>2. /\ UNCHANGED <<process, os, asked, requestId, jobs, executed>>
      /\ Lines' \subseteq Lines /\ pending' \subseteq pending
      /\ \A k \in Client :
           \/ /\ coro'[k] = coro[k]
              /\ coro[k].at = "waiting" => Future(k, coro[k].ask) \in pending'
           \/ coro[k].at = "waiting" /\ coro'[k] = Failing(k)
           \/ /\ coro[k].at = "waiting"
              /\ \E line \in Lines :
                   line.ask.id = coro[k].ask.id /\ coro'[k] = Resolved(k, line)
  BY <1>1, ReadEffect
<1>3. ASSUME NEW k \in Client, coro'[k] # coro[k]
      PROVE  /\ coro[k].at = "waiting" /\ coro'[k].ask = coro[k].ask
             /\ \/ coro'[k].at = "failed"
                \/ /\ coro'[k].at = "resolved" /\ coro'[k].answer \in Lines
                   /\ coro'[k].answer.ask = coro[k].ask
  <2>1. coro[k].at = "waiting"
    BY <1>2, <1>3
  <2>2. coro[k] \in [at : {"queued", "waiting", "failed"}, ask : Ask, retry : 0 .. MaxRetry]
    BY <1>1, <2>1 DEF TypeOK, Idle, Running
  <2>3. CASE coro'[k] = Failing(k)
    BY <2>1, <2>2, <2>3 DEF Failing
  <2>4. ASSUME NEW line \in Lines, line.ask.id = coro[k].ask.id, coro'[k] = Resolved(k, line)
        PROVE  /\ coro'[k].ask = coro[k].ask /\ coro'[k].at = "resolved"
               /\ coro'[k].answer = line /\ line.ask = coro[k].ask
    <3>1. line.ask \in Asks /\ coro[k].ask \in Asks
      BY <2>1 DEF Asks, Asking
    <3> QED
      BY <1>1, <2>4, <3>1 DEF Numbered, Resolved
  <2> QED
    BY <1>2, <1>3, <2>1, <2>3, <2>4
<1>4. \A k \in Client : Asking(k)' => Asking(k) /\ coro'[k].ask = coro[k].ask
  BY <1>3 DEF Asking
<1>5. Asks' \subseteq Asks
  BY <1>2, <1>4 DEF Asks
<1>6. Numbered'
  BY <1>1, <1>2, <1>5 DEF Numbered
<1>7. \A k \in Client : Unsent(k)' => Unsent(k) /\ coro'[k] = coro[k]
  BY <1>3 DEF Unsent
<1>8. NotSentYet'
  BY <1>2, <1>7 DEF IInv, NotSentYet
<1>9. WaitingIsReachable'
  <2>a. ASSUME NEW k \in Client, coro'[k].at = "waiting" \/ Unsent(k)',
               NEW f \in pending', f.id = coro'[k].ask.id
        PROVE  f.by = k
    <3>1. coro'[k] = coro[k] /\ (coro[k].at = "waiting" \/ Unsent(k))
      BY <1>3, <1>7, <2>a
    <3> QED
      BY <1>1, <1>2, <2>a, <3>1 DEF WaitingIsReachable
  <2> SUFFICES ASSUME NEW k \in Client, coro'[k].at = "waiting"
               PROVE  Future(k, coro'[k].ask) \in pending'
    BY <2>a DEF WaitingIsReachable, Future
  <2>1. coro'[k] = coro[k]
    BY <1>3
  <2>2. coro[k] \in [at : {"queued", "waiting", "failed"}, ask : Ask, retry : 0 .. MaxRetry]
    BY <1>1, <2>1 DEF TypeOK, Idle, Running
  <2>3. coro'[k] # Failing(k) /\ \A line \in Lines : coro'[k] # Resolved(k, line)
    BY <2>1, <2>2 DEF Failing, Resolved
  <2>4. Future(k, coro[k].ask) \in pending'
    BY <1>2, <2>1, <2>3
  <2> QED
    BY <2>1, <2>4
<1>10. AnswerIsOwn' /\ RetriesLeft'
  BY <1>1, <1>3 DEF AnswerIsOwn, IInv, RetriesLeft
<1>11. \A k \in Client : /\ coro'[k] # Idle => coro[k] # Idle
                        /\ JobOf(k)' = JobOf(k)
  BY <1>1, <1>3, Kinds DEF JobOf, Idle
<1>12. JobsApart'
  BY <1>1, <1>2, <1>11 DEF JobsApart
<1>13. ASSUME NEW k \in Client, WillAsk(k)' PROVE WillAsk(k)
  <2>1. CASE coro'[k] = coro[k]
    BY <1>2, <1>13, <2>1 DEF WillAsk, Unsent, Asking, Refused
  <2>2. CASE coro'[k] # coro[k]
    <3>1. CASE coro[k].ask.method \in Handshake
      BY <1>3, <2>2, <3>1 DEF WillAsk, Asking
    <3>2. CASE coro[k].ask.method \notin Handshake
      <4>1. coro[k].at = "waiting" /\ coro'[k].ask = coro[k].ask
        BY <1>3, <2>2
      <4>2. Refused(k)'
        BY <1>3, <1>7, <1>13, <2>2, <3>2 DEF WillAsk, Asking
      <4>3. /\ coro'[k].answer \in Lines /\ coro'[k].answer.ask = coro[k].ask
            /\ coro'[k].answer.kind = "overloaded"
        BY <1>3, <2>2, <4>2 DEF Refused
      <4>4. coro'[k].answer = [ask |-> coro[k].ask, kind |-> "overloaded"]
        BY <1>1, <4>3, LinesAreAnswers DEF Answer
      <4> QED
        BY <4>1, <4>3, <4>4 DEF WillAsk
    <3> QED
      BY <3>1, <3>2
  <2> QED
    BY <2>1, <2>2
<1>14. AskedOnce'
  <2>1. \A j : Untouched(j)' <=> Untouched(j)
    BY <1>2 DEF Untouched
  <2>2. \A k \in Client : coro'[k] # Idle /\ WillAsk(k)' => Untouched(JobOf(k))'
    BY <1>1, <1>11, <1>13, <2>1 DEF AskedOnce
  <2> QED
    BY <1>1, <1>2, <2>1, <2>2 DEF AskedOnce
<1>15. ExecutedOnce'
  BY <1>2 DEF IInv, ExecutedOnce
<1> QED
  BY <1>6, <1>9, <1>10, <1>8, <1>12, <1>14, <1>15 DEF IInv

\* A process carries out a job that was untouched but for this one request, or
\* refuses it and leaves it untouched.
LEMMA ServeKeeps ==
  ASSUME IInv, NEW c \in Conn, Serve(c), TypeOK'
  PROVE  IInv'
<1>1. TypeOK /\ Numbered /\ WaitingIsReachable /\ AnswerIsOwn /\ JobsApart /\ AskedOnce
      /\ ExecutedOnce /\ RetriesLeft
  BY DEF IInv
<1>2. /\ UNCHANGED <<process, reader, pending, requestId, coro, jobs>>
      /\ \A d \in Conn : asked'[d] \subseteq asked[d]
  BY <1>1, ServeEffect
<1>3. WaitingIsReachable' /\ AnswerIsOwn' /\ JobsApart' /\ RetriesLeft'
  BY <1>1, <1>2 DEF WaitingIsReachable, Unsent, AnswerIsOwn, JobsApart, JobOf, RetriesLeft
<1>4. \A line \in Lines' : line \in Lines \/ \E ask \in asked[c] : line.ask = ask
  BY <1>1, ServeEffect
<1>5. Asks' \subseteq Asks
  BY <1>2, <1>4 DEF Asks, Asking
<1>6. Numbered'
  BY <1>1, <1>2, <1>5 DEF Numbered
<1>7. NotSentYet'
  BY <1>2, <1>4 DEF IInv, NotSentYet, Unsent
\* Nothing is carried out and no refusal is written.
<1>8. ASSUME executed' = executed,
             \A line \in Lines' : line.kind = "overloaded" => line \in Lines
      PROVE  AskedOnce' /\ ExecutedOnce'
  <2>1. \A j : Untouched(j) => Untouched(j)'
    BY <1>2, <1>8 DEF Untouched
  <2>2. \A k \in Client : WillAsk(k)' => WillAsk(k)
    BY <1>2, <1>8 DEF WillAsk, Unsent, Asking, Refused
  <2>3. \A k \in Client : coro'[k] # Idle /\ WillAsk(k)' => Untouched(JobOf(k))'
    BY <1>1, <1>2, <2>1, <2>2 DEF AskedOnce, JobOf
  <2>4. \A d, e \in Conn : \A a \in asked'[d], b \in asked'[e] :
          a.method = "thread/start" /\ Starts(b, a.job) =>
            a = b /\ d = e /\ executed'[a.job] = 0
    BY <1>1, <1>2, <1>8 DEF AskedOnce
  <2> QED
    BY <1>1, <1>2, <1>8, <2>1, <2>3, <2>4 DEF AskedOnce, ExecutedOnce
\* The request of a job is carried out.
<1>9. ASSUME NEW ask \in asked[c], asked'[c] = asked[c] \ {ask}, ask.method = "thread/start",
             executed' = [executed EXCEPT ![ask.job] = @ + 1],
             \A line \in Lines' : line.kind = "overloaded" => line \in Lines
      PROVE  AskedOnce' /\ ExecutedOnce'
  <2>1. ask.job \in Job /\ Starts(ask, ask.job)
    BY <1>1, <1>9 DEF TypeOK, Ask, Starts
  <2>2. executed[ask.job] = 0 /\ ~ Untouched(ask.job)
    BY <1>1, <1>9, <2>1 DEF AskedOnce, Untouched
  <2>3. /\ executed'[ask.job] = 1
        /\ \A j \in Job : j # ask.job => executed'[j] = executed[j]
    BY <1>1, <1>9, <2>1, <2>2 DEF TypeOK
  <2>4. \A j \in Job : Untouched(j) => Untouched(j)'
    BY <1>2, <2>2, <2>3 DEF Untouched
  <2>5. \A k \in Client : WillAsk(k)' => WillAsk(k)
    BY <1>2, <1>9 DEF WillAsk, Unsent, Asking, Refused
  <2>6. \A k \in Client : coro[k] # Idle => JobOf(k) \in Job
    BY <1>1, Kinds DEF JobOf, Asking, Ask
  <2>7. \A k \in Client : coro'[k] # Idle /\ WillAsk(k)' => Untouched(JobOf(k))'
    BY <1>1, <1>2, <2>4, <2>5, <2>6 DEF AskedOnce, JobOf
  <2>8. \A d \in Conn : \A a \in asked'[d] : ~ Starts(a, ask.job)
    <3> SUFFICES ASSUME NEW d \in Conn, NEW a \in asked'[d], Starts(a, ask.job) PROVE FALSE
      OBVIOUS
    <3>1. a = ask /\ d = c
      BY <1>1, <1>2, <1>9 DEF AskedOnce
    <3> QED
      BY <1>9, <3>1
  <2>9. \A d, e \in Conn : \A a \in asked'[d], b \in asked'[e] :
          a.method = "thread/start" /\ Starts(b, a.job) =>
            a = b /\ d = e /\ executed'[a.job] = 0
    <3> SUFFICES ASSUME NEW d \in Conn, NEW e \in Conn,
                        NEW a \in asked'[d], NEW b \in asked'[e],
                        a.method = "thread/start", Starts(b, a.job)
                 PROVE  a = b /\ d = e /\ executed'[a.job] = 0
      OBVIOUS
    <3>a. a \in asked[d] /\ b \in asked[e]
      BY <1>1, <1>2
    <3>b. a.job \in Job
      BY <1>1, <3>a DEF TypeOK, Ask
    <3>c. Starts(a, a.job)
      BY DEF Starts
    <3>d. a.job # ask.job
      BY <2>8, <3>c
    <3>1. a \in asked[d] /\ b \in asked[e] /\ a.job \in Job /\ a.job # ask.job
      BY <3>a, <3>b, <3>d
    <3> QED
      BY <1>1, <2>3, <3>1 DEF AskedOnce
  <2> QED
    BY <1>1, <1>2, <2>3, <2>4, <2>7, <2>9 DEF AskedOnce, ExecutedOnce
\* A request is refused.
<1>10. ASSUME NEW ask \in asked[c], asked'[c] = asked[c] \ {ask}, executed' = executed,
             Lines' \subseteq Lines \cup {[ask |-> ask, kind |-> "overloaded"]}
      PROVE  AskedOnce' /\ ExecutedOnce'
  <2>1. \A j : Untouched(j) => Untouched(j)'
    BY <1>2, <1>10 DEF Untouched
  <2>2. ASSUME NEW k \in Client, coro'[k] # Idle, WillAsk(k)' PROVE Untouched(JobOf(k))'
    <3>1. CASE WillAsk(k)
      BY <1>1, <1>2, <2>1, <2>2, <3>1 DEF AskedOnce, JobOf
    <3>2. CASE ~ WillAsk(k)
      <4>1. /\ coro[k].at = "waiting"
            /\ [ask |-> coro[k].ask, kind |-> "overloaded"] \in Lines'
            /\ [ask |-> coro[k].ask, kind |-> "overloaded"] \notin Lines
        BY <1>2, <2>2, <3>2 DEF WillAsk, Unsent, Asking, Refused
      <4>2. [ask |-> coro[k].ask, kind |-> "overloaded"] = [ask |-> ask, kind |-> "overloaded"]
        BY <1>10, <4>1
      <4>3. coro[k].ask = ask
        BY <4>2
      <4>4. JobOf(k)' = ask.job /\ ask \in Ask
        BY <1>1, <1>2, <1>10, <4>1, <4>3 DEF JobOf, TypeOK
      <4>5. ask.method = "thread/start"
        BY <3>2, <4>1, <4>3, <4>4 DEF WillAsk, Asking, Ask, Method
      <4>6. executed[ask.job] = 0 /\ Starts(ask, ask.job)
        BY <1>1, <1>10, <4>5 DEF AskedOnce, Starts
      <4>7. \A d \in Conn : \A a \in asked'[d] : ~ Starts(a, ask.job)
        <5> SUFFICES ASSUME NEW d \in Conn, NEW a \in asked'[d], Starts(a, ask.job) PROVE FALSE
          OBVIOUS
        <5>1. a = ask /\ d = c
          BY <1>1, <1>2, <1>10, <4>5 DEF AskedOnce
        <5> QED
          BY <1>10, <5>1
      <4> QED
        BY <1>10, <4>4, <4>6, <4>7 DEF Untouched
    <3> QED
      BY <3>1, <3>2
  <2>3. \A d, e \in Conn : \A a \in asked'[d], b \in asked'[e] :
          a.method = "thread/start" /\ Starts(b, a.job) =>
            a = b /\ d = e /\ executed'[a.job] = 0
    BY <1>1, <1>2, <1>10 DEF AskedOnce
  <2> QED
    BY <1>1, <1>2, <1>10, <2>1, <2>2, <2>3 DEF AskedOnce, ExecutedOnce
<1>11. AskedOnce' /\ ExecutedOnce'
  <2>1. CASE executed' = executed /\ Lines' \subseteq Lines
    BY <1>8, <2>1
  <2>2. ASSUME NEW ask \in asked[c], asked'[c] = asked[c] \ {ask},
               NEW kind \in {"result", "error"},
               Lines' \subseteq Lines \cup {[ask |-> ask, kind |-> kind]},
               \/ executed' = executed
               \/ /\ ask.method = "thread/start"
                  /\ executed' = [executed EXCEPT ![ask.job] = @ + 1]
        PROVE  AskedOnce' /\ ExecutedOnce'
    <3>1. \A line \in Lines' : line.kind = "overloaded" => line \in Lines
      BY <2>2
    <3> QED
      BY <1>8, <1>9, <2>2, <3>1
  <2> QED
    BY <1>1, <1>10, <2>1, <2>2, ServeEffect
<1> QED
  BY <1>3, <1>6, <1>11, <1>7 DEF IInv

\* The steps, by what they do.
LEMMA StepKinds ==
  ASSUME [Next]_vars
  PROVE  \/ \E k \in Client : Send(k) \/ Flush(k) \/ Leave(k)
         \/ \E c \in Conn : Read(c) \/ Serve(c)
         \/ UNCHANGED vars
BY DEF Next, Send, Flush, Leave, Read, Serve

LEMMA TypeKept ==
  ASSUME IInv, [Next]_vars
  PROVE  TypeOK'
<1>1. TypeOK /\ WaitingIsReachable
  BY DEF IInv
<1>2. ASSUME NEW k \in Client, Send(k) PROVE TypeOK'
  <2>1. /\ process' \in 0 .. MaxConn
        /\ os' \in [Conn -> {"none", "up", "dead", "reaped"}]
        /\ reader' \in [Conn -> 0 .. MaxConn]
    BY <1>2, SendEffect
  <2>2. CASE /\ coro' = [coro EXCEPT ![k] = [at |-> "preparing", job |-> jobs + 1]]
             /\ jobs' = jobs + 1 /\ jobs < MaxJob
             /\ UNCHANGED <<process, stdout, asked, pending, requestId, executed>>
    <3>1. jobs' \in 0 .. MaxJob /\ jobs + 1 \in Job
      BY <1>1, <2>2, RpcAssumption DEF TypeOK, Job
    <3>2. [at |-> "preparing", job |-> jobs + 1] \in Running
      BY <3>1 DEF Running
    <3>3. coro' \in [Client -> {Idle} \cup Running]
      BY <1>1, <2>2, <3>2 DEF TypeOK
    <3> QED
      BY <1>1, <2>1, <2>2, <3>1, <3>3 DEF TypeOK
  <2>3. ASSUME NEW p \in 0 .. MaxConn, NEW job \in Job, NEW method \in Method,
               NEW retry \in 0 .. MaxRetry,
               NEW from \in [Conn -> {"none", "up", "dead", "reaped"}],
               Sends(k, p, job, method, retry, from)
        PROVE  TypeOK'
    <3>0. Issue(k, p, job, method, retry, from)
      BY <2>3 DEF Sends
    <3>1. /\ NextAsk(job, method) \in Ask
          /\ coro' \in [Client -> {Idle} \cup Running]
          /\ requestId' \in {requestId, requestId + 1}
          /\ pending' \subseteq pending \cup {Future(k, NextAsk(job, method))}
          /\ \/ asked' = asked
             \/ p \in Conn /\ asked' = [asked EXCEPT ![p] = @ \cup {NextAsk(job, method)}]
      BY <1>1, <3>0, IssueEffect, WrittenPlaces
    <3>2. asked' \in [Conn -> SUBSET Ask]
      <4>1. asked \in [Conn -> SUBSET Ask]
        BY <1>1 DEF TypeOK
      <4> QED
        BY <3>1, <4>1
    <3>3. requestId' \in Nat /\ pending' \in SUBSET [id : Nat \ {0}, by : Client]
      BY <1>1, <3>1 DEF TypeOK, Future, Ask
    <3> QED
      BY <1>1, <2>1, <2>3, <3>1, <3>2, <3>3 DEF Sends, TypeOK
  <2> QED
    BY <1>2, <2>2, <2>3, SendEffect
<1>3. ASSUME NEW k \in Client, Leave(k) PROVE TypeOK'
  <2>1. /\ UNCHANGED <<process, os, stdout, asked, reader, requestId, jobs, executed>>
        /\ coro' \in [Client -> {Idle} \cup Running]
        /\ pending' \subseteq pending
    BY <1>1, <1>3, LeaveEffect
  <2> QED
    BY <1>1, <2>1 DEF TypeOK
<1>4. ASSUME NEW c \in Conn, Read(c) PROVE TypeOK'
  <2>1. /\ UNCHANGED <<process, os, asked, requestId, jobs, executed>>
        /\ stdout' \in [Conn -> Seq(Answer)] /\ reader' \in [Conn -> 0 .. MaxConn]
        /\ pending' \subseteq pending /\ coro' \in [Client -> {Idle} \cup Running]
    BY <1>1, <1>4, ReadEffect
  <2> QED
    BY <1>1, <2>1 DEF TypeOK
<1>5. ASSUME NEW c \in Conn, Serve(c) PROVE TypeOK'
  <2>1. /\ UNCHANGED <<process, reader, pending, requestId, coro, jobs>>
        /\ os' \in [Conn -> {"none", "up", "dead", "reaped"}]
        /\ stdout' \in [Conn -> Seq(Answer)]
        /\ asked' \in [Conn -> SUBSET Ask]
        /\ executed' \in [Job -> Nat]
    BY <1>1, <1>5, ServeEffect
  <2> QED
    BY <1>1, <2>1 DEF TypeOK
<1>6. CASE UNCHANGED vars
  BY <1>1, <1>6 DEF TypeOK, vars
<1>7. ASSUME NEW k \in Client, Flush(k) PROVE TypeOK'
  <2>1. /\ UNCHANGED <<process, os, stdout, reader, pending, requestId, jobs, executed>>
        /\ coro[k].ask \in Ask /\ coro' \in [Client -> {Idle} \cup Running]
        /\ \E p \in Conn : Written(k, p, coro[k].ask, coro[k].retry)
    BY <1>1, <1>7, FlushEffect DEF IInv
  <2>2. PICK p \in Conn :
          asked' = asked \/ asked' = [asked EXCEPT ![p] = @ \cup {coro[k].ask}]
    BY <2>1, WrittenPlaces
  <2>3. asked' \in [Conn -> SUBSET Ask]
    <3>1. asked \in [Conn -> SUBSET Ask] /\ asked[p] \cup {coro[k].ask} \in SUBSET Ask
      BY <1>1, <2>1 DEF TypeOK
    <3> QED
      BY <2>2, <3>1
  <2> QED
    BY <1>1, <2>1, <2>3 DEF TypeOK
<1> QED
  BY <1>2, <1>3, <1>4, <1>5, <1>6, <1>7, StepKinds

LEMMA InvariantKept == IInv /\ [Next]_vars => IInv'
<1> SUFFICES ASSUME IInv, [Next]_vars PROVE IInv'
  OBVIOUS
<1>1. TypeOK'
  BY TypeKept
<1>2. ASSUME NEW k \in Client, Send(k) PROVE IInv'
  BY <1>1, <1>2, SendEffect, SendsKeeps, PrepareKeeps
<1>3. ASSUME NEW k \in Client, Leave(k) PROVE IInv'
  BY <1>1, <1>3, LeaveKeeps
<1>4. ASSUME NEW c \in Conn, Read(c) \/ Serve(c) PROVE IInv'
  BY <1>1, <1>4, ReadKeeps, ServeKeeps
<1>5. ASSUME NEW k \in Client, Flush(k) PROVE IInv'
  BY <1>1, <1>5, FlushKeeps
<1>6. CASE UNCHANGED vars
  <2>1. Asks' = Asks /\ Lines' = Lines
    BY <1>6 DEF Asks, Lines, Asking, vars
  <2>2. Numbered' /\ WaitingIsReachable' /\ AnswerIsOwn' /\ RetriesLeft' /\ NotSentYet'
    BY <1>6, <2>1 DEF IInv, Numbered, WaitingIsReachable, AnswerIsOwn, RetriesLeft,
                      NotSentYet, Unsent, vars
  <2>3. JobsApart' /\ ExecutedOnce'
    BY <1>6 DEF IInv, JobsApart, JobOf, ExecutedOnce, vars
  <2>4. \A j : Untouched(j)' <=> Untouched(j)
    BY <1>6 DEF Untouched, vars
  <2>5. \A k \in Client : WillAsk(k)' <=> WillAsk(k)
    BY <1>6, <2>1 DEF WillAsk, Unsent, Asking, Refused, vars
  <2>6. AskedOnce'
    BY <1>6, <2>4, <2>5 DEF IInv, AskedOnce, JobOf, vars
  <2> QED
    BY <1>1, <2>2, <2>3, <2>6 DEF IInv
<1> QED
  BY <1>2, <1>3, <1>4, <1>6, <1>5, StepKinds

\* The inductive invariant holds in every run.
THEOREM RequestsAreInOrder == Spec => []IInv
BY InvariantStarts, InvariantKept, PTL DEF Spec

\* Whoever waits for an answer has its future in pending, under an id no other
\* client waits for: the end of a connection leaves nobody waiting.
THEOREM EveryWaitIsReachable == Spec => []WaitsInOrder
<1>1. IInv => WaitsInOrder
  BY DEF IInv, WaitsInOrder
<1> QED
  BY <1>1, RequestsAreInOrder, PTL

\* A client is given the answer to its own request, although answers come late, in
\* any order, and from the stream of a process it has not asked.
THEOREM AnswersAreOwn == Spec => []AnswerIsOwn
<1>1. IInv => AnswerIsOwn
  BY DEF IInv
<1> QED
  BY <1>1, RequestsAreInOrder, PTL

\* However often it is sent again, by one process or another the request of a job
\* is carried out at most once.
THEOREM JobsAreExecutedOnce == Spec => []ExecutedOnce
<1>1. IInv => ExecutedOnce
  BY DEF IInv
<1> QED
  BY <1>1, RequestsAreInOrder, PTL
================================================================================
