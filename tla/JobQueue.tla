------------------------------ MODULE JobQueue ------------------------------
(***************************************************************************)
(* internal/jobs: workers that share the PGMQ queue openlocal_jobs.  A     *)
(* read hides the messages it returns for a while; the batch is processed  *)
(* under a shorter deadline, message by message, and ends at the first     *)
(* error of a queue statement.  Times are counted down: hidden[m] is how   *)
(* long m stays invisible, left[w] how long the batch of w may still run.  *)
(***************************************************************************)
EXTENDS Integers, Sequences, SequencesExt

CONSTANTS
  Workers,      \* worker processes
  Messages,     \* msg_id, in the order of sending
  Poison,       \* messages whose job fails whenever it is run
  BatchSize,    \* 10 in openlocal_read_jobs
  Visibility,   \* 60 seconds in openlocal_read_jobs
  Deadline,     \* 45 seconds in Run
  Slack,        \* how long a cancelled statement may take to return
  MaxReads,     \* 8 in Process
  MaxDelay, Step    \* 3600 and 5 seconds in Process

ASSUME JobQueueAssumption ==
  /\ Messages \subseteq Nat /\ Poison \subseteq Messages
  /\ BatchSize \in Nat \ {0} /\ MaxReads \in Nat \ {0}
  /\ Deadline \in Nat \ {0} /\ Slack \in Nat /\ Visibility \in Nat
  /\ Deadline + Slack < Visibility
  /\ MaxDelay \in Nat /\ Step \in Nat

VARIABLES
  queue,      \* q_openlocal_jobs: message -> times read; counted up to MaxReads
  hidden,     \* time until a message of the queue is visible
  archive,    \* a_openlocal_jobs
  failed,     \* openlocal_failed, with repetitions
  batch,      \* worker -> what is left of its batch, the head being processed
  outcome,    \* worker -> outcome of the job of the head, if it has run
  left        \* worker -> time left to its batch

vars == <<queue, hidden, archive, failed, batch, outcome, left>>

Smaller(a, b) == IF a < b THEN a ELSE b
Larger(a, b) == IF a < b THEN b ELSE a
-----------------------------------------------------------------------------
\* A message that was ever sent; msg_id follows the order of sending.
Sent(m) == m \in DOMAIN queue \union archive \union Range(failed)

\* EnqueueJob; the delay is the time to the expiry of a request, or zero.
Enqueue(m) ==
  /\ ~ Sent(m) /\ \A n \in Messages : n < m => Sent(n)
  /\ queue' = [n \in DOMAIN queue \union {m} |-> IF n = m THEN 0 ELSE queue[n]]
  /\ \E delay \in {0, MaxDelay} : hidden' = [hidden EXCEPT ![m] = delay]
  /\ UNCHANGED <<archive, failed, batch, outcome, left>>

Visible == {m \in DOMAIN queue : hidden[m] = 0}

\* The first messages that can be read, in the order of sending.
Oldest(taken) ==
  /\ \A n, k \in DOMAIN taken : n < k => taken[n] < taken[k]
  /\ Len(taken) = BatchSize \/ Range(taken) = Visible
  /\ \A n \in DOMAIN taken : \A m \in Visible \ Range(taken) : taken[n] < m

\* openlocal_read_jobs: the oldest visible messages are counted, hidden for a
\* time, and returned.
ReadFor(w, time) ==
  /\ batch[w] = <<>>
  /\ \E size \in 1 .. BatchSize : \E taken \in [1 .. size -> Visible] :
       LET reads(m) == Smaller(queue[m] + 1, MaxReads)
       IN  /\ Oldest(taken)
           /\ queue' = [m \in DOMAIN queue |-> IF m \in Range(taken) THEN reads(m) ELSE queue[m]]
           /\ hidden' = [m \in Messages |-> IF m \in Range(taken) THEN time ELSE hidden[m]]
           /\ batch' = [batch EXCEPT ![w] =
                          [n \in 1 .. size |-> [id |-> taken[n], reads |-> reads(taken[n])]]]

\* Mutant: messages are hidden no longer than a batch may run.
ReadJobsBriefly(w) == ReadFor(w, Deadline)

ReadJobs(w) == ReadFor(w, Visibility)

\* Run starts a batch with a deadline of its own.
Poll(w) ==
  /\ ReadJobs(w)
  /\ left' = [left EXCEPT ![w] = Deadline]
  /\ outcome' = [outcome EXCEPT ![w] = "none"]
  /\ UNCHANGED <<archive, failed>>

Processing(w) == batch[w] # <<>> /\ left[w] > 0

\* The job of the head runs: Expire, Reconcile, or an unknown type.
RunJob(w, result) ==
  /\ Processing(w) /\ outcome[w] = "none"
  /\ Head(batch[w]).id \in Poison => result = "failed"
  /\ outcome' = [outcome EXCEPT ![w] = result]
  /\ UNCHANGED <<queue, hidden, archive, failed, batch, left>>

\* The statement on the head is done, and the next message is processed.
Recorded(w) ==
  /\ batch' = [batch EXCEPT ![w] = Tail(@)]
  /\ outcome' = [outcome EXCEPT ![w] = "none"]
  /\ left' = [left EXCEPT ![w] = IF Len(batch[w]) = 1 THEN 0 ELSE @]

DeleteMessage(m) == queue' = [n \in DOMAIN queue \ {m} |-> queue[n]]

\* Mutant: a message is acknowledged whatever became of its job.
AckJobAlways(w) ==
  LET m == Head(batch[w]).id
  IN  /\ Processing(w) /\ outcome[w] # "none"
      /\ DeleteMessage(m) /\ archive' = archive \union (DOMAIN queue \intersect {m})
      /\ Recorded(w)
      /\ UNCHANGED <<hidden, failed>>

AckJob(w) ==
  LET m == Head(batch[w]).id
  IN  /\ Processing(w) /\ outcome[w] = "ok"
      /\ DeleteMessage(m) /\ archive' = archive \union (DOMAIN queue \intersect {m})
      /\ Recorded(w)
      /\ UNCHANGED <<hidden, failed>>

\* FailJob: send to the failed queue, delete from this one.
FailJob(w) ==
  LET h == Head(batch[w])
  IN  /\ Processing(w) /\ outcome[w] = "failed" /\ h.reads >= MaxReads
      /\ DeleteMessage(h.id) /\ failed' = Append(failed, h.id)
      /\ Recorded(w)
      /\ UNCHANGED <<hidden, archive>>

\* Mutant: the delay has no upper limit.
RetryDelayUncapped(reads) == Step * 2 ^ Smaller(reads, 10)

\* The delay before the next attempt.
RetryDelay(reads) == Smaller(MaxDelay, Step * 2 ^ Smaller(reads, 10))

\* Mutant: a failing message is never given up.
RetryForever(w) ==
  LET h == Head(batch[w])
  IN  /\ Processing(w) /\ outcome[w] = "failed"
      /\ hidden' = [hidden EXCEPT ![h.id] = RetryDelay(h.reads)]
      /\ Recorded(w)
      /\ UNCHANGED <<queue, archive, failed>>

RetryJob(w) ==
  LET h == Head(batch[w])
  IN  /\ Processing(w) /\ outcome[w] = "failed" /\ h.reads < MaxReads
      /\ hidden' = [hidden EXCEPT ![h.id] = RetryDelay(h.reads)]
      /\ Recorded(w)
      /\ UNCHANGED <<queue, archive, failed>>

\* A queue statement fails, the deadline cancels it, or the worker stops: the
\* rest of the batch is abandoned, and comes back when it is visible again.
Abandon(w) ==
  /\ batch[w] # <<>>
  /\ batch' = [batch EXCEPT ![w] = <<>>]
  /\ outcome' = [outcome EXCEPT ![w] = "none"]
  /\ left' = [left EXCEPT ![w] = 0]
  /\ UNCHANGED <<queue, hidden, archive, failed>>

\* Time passes; a batch past its deadline returns within Slack.
Tick ==
  /\ \A w \in Workers : batch[w] # <<>> => left[w] > - Slack
  /\ hidden' = [m \in Messages |-> Larger(hidden[m] - 1, 0)]
  /\ left' = [w \in Workers |-> IF batch[w] = <<>> THEN 0 ELSE left[w] - 1]
  /\ UNCHANGED <<queue, archive, failed, batch, outcome>>

Init ==
  /\ queue = [m \in {} |-> 0]
  /\ hidden = [m \in Messages |-> 0]
  /\ archive = {} /\ failed = <<>>
  /\ batch = [w \in Workers |-> <<>>]
  /\ outcome = [w \in Workers |-> "none"]
  /\ left = [w \in Workers |-> 0]

HeadIs(w, m) == batch[w] # <<>> /\ Head(batch[w]).id = m
Record(w) == AckJob(w) \/ FailJob(w) \/ RetryJob(w)
Process(w) ==
  Poll(w) \/ RunJob(w, "ok") \/ RunJob(w, "failed") \/ Record(w) \/ Abandon(w)

Next == Tick \/ (\E m \in Messages : Enqueue(m)) \/ (\E w \in Workers : Process(w))

Spec == Init /\ [][Next]_vars

\* Time passes and workers poll.  A job does not outlast every deadline, and the
\* statement that records an outcome does not fail every time; jobs may fail
\* always, and messages need not be sent.
FairSpec ==
  /\ Spec
  /\ WF_vars(Tick)
  /\ \A w \in Workers :
       /\ WF_vars(Poll(w))
       /\ WF_vars(left[w] <= 0 /\ Abandon(w))
       /\ \A m \in Messages :
            /\ SF_vars(HeadIs(w, m) /\ (RunJob(w, "ok") \/ RunJob(w, "failed")))
            /\ SF_vars(HeadIs(w, m) /\ Record(w))
-----------------------------------------------------------------------------
\* Rows and batches are well formed, and times within what the code sets.
TypeOK ==
  /\ DOMAIN queue \subseteq Messages
  /\ \A m \in DOMAIN queue : queue[m] \in 0 .. MaxReads
  /\ \A m \in Messages : hidden[m] \in 0 .. Larger(Visibility, MaxDelay)
  /\ archive \subseteq Messages
  /\ \A n \in DOMAIN failed : failed[n] \in Messages
  /\ \A w \in Workers :
       /\ left[w] \in - Slack .. Deadline
       /\ outcome[w] \in {"none", "ok", "failed"}
       /\ \A n \in DOMAIN batch[w] : batch[w][n].id \in Messages

\* A batch is over before the messages it was given are visible to others: two
\* workers never process the same message, nor the same one twice in a row.
OneWorkerPerMessage ==
  \A w, x \in Workers : \A n \in DOMAIN batch[w], k \in DOMAIN batch[x] :
    batch[w][n].id = batch[x][k].id => w = x /\ n = k

\* Where a message is, for Delivery.
Where(m) ==
  IF m \in archive THEN "archived"
  ELSE IF m \in Range(failed) THEN "failed"
  ELSE IF m \notin DOMAIN queue THEN "unsent"
  ELSE IF \E w \in Workers : HeadIs(w, m)
  THEN LET w == CHOOSE x \in Workers : HeadIs(x, m)
       IN  CASE outcome[w] = "none" -> "running"
             [] outcome[w] = "ok" -> "succeeded"
             [] OTHER -> "faulted"
  ELSE "waiting"

\* Whatever expires, is lost or is abandoned, a message moves as Delivery says.
Promise == INSTANCE Delivery WITH state <- [m \in Messages |-> Where(m)]
DeliversOnce == Promise!Spec

\* Every message that is sent is archived or given up, also behind messages that
\* fail each time and batches that are abandoned.
EachSettles ==
  \A m \in Messages : Where(m) = "waiting" ~> Where(m) \in {"archived", "failed"}
=============================================================================
