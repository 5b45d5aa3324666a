--------------------------- MODULE JobQueueProofs ---------------------------
(***************************************************************************)
(* Proofs about JobQueue, for any workers, messages, batch size, limits    *)
(* and times such that a batch is over before its messages are visible.    *)
(***************************************************************************)
EXTENDS JobQueue, TLAPS

Entry == [id : Messages, reads : Nat]

\* The types of the variables, tighter than TypeOK where the provers need functions.
Shape ==
  /\ DOMAIN queue \subseteq Messages /\ queue \in [DOMAIN queue -> 0 .. MaxReads]
  /\ hidden \in [Messages -> 0 .. Larger(Visibility, MaxDelay)]
  /\ archive \subseteq Messages /\ failed \in Seq(Messages)
  /\ batch \in [Workers -> Seq(Entry)]
  /\ outcome \in [Workers -> {"none", "ok", "failed"}]
  /\ left \in [Workers -> - Slack .. Deadline]

\* A message is in one place.
Apart ==
  /\ \A m \in DOMAIN queue : m \notin archive /\ m \notin Range(failed)
  /\ \A m \in archive : m \notin Range(failed)

\* What a worker holds is in the queue and stays hidden for longer than the batch lasts.
Held ==
  \A w \in Workers : \A n \in DOMAIN batch[w] :
    /\ batch[w][n].id \in DOMAIN queue
    /\ hidden[batch[w][n].id] > left[w] + Slack

Inv == Shape /\ Apart /\ Held /\ OneWorkerPerMessage

-----------------------------------------------------------------------------
(* Numbers and sequences *)

\* The delay before an attempt is a time that hidden may take.
LEMMA RetryDelayType ==
  ASSUME NEW reads \in Nat
  PROVE  RetryDelay(reads) \in 0 .. Larger(Visibility, MaxDelay)
<1> DEFINE k == Smaller(reads, 10)
<1>1. k \in 0 .. 10
  BY DEF Smaller
<1>2. \A n \in 0 .. 10 : Step * 2 ^ n \in Nat
  <2> SUFFICES ASSUME NEW n \in 0 .. 10 PROVE Step * 2 ^ n \in Nat
    OBVIOUS
  <2>1. n \in {0, 1, 2, 3, 4, 5, 6, 7, 8, 9, 10}
    OBVIOUS
  <2>2. /\ 2 ^ 0 \in Nat /\ 2 ^ 1 \in Nat /\ 2 ^ 2 \in Nat /\ 2 ^ 3 \in Nat /\ 2 ^ 4 \in Nat /\ 2 ^ 5 \in Nat
        /\ 2 ^ 6 \in Nat /\ 2 ^ 7 \in Nat /\ 2 ^ 8 \in Nat /\ 2 ^ 9 \in Nat /\ 2 ^ 10 \in Nat
    OBVIOUS
  <2>3. 2 ^ n \in Nat
    BY <2>1, <2>2, ZenonT(30)
  <2> QED
    BY <2>3, JobQueueAssumption
<1>3. Step * 2 ^ k \in Nat
  BY <1>1, <1>2
<1> HIDE DEF k
<1>4. RetryDelay(reads) = Smaller(MaxDelay, Step * 2 ^ k)
  BY DEF k, RetryDelay
<1> QED
  BY <1>3, <1>4, JobQueueAssumption DEF Smaller, Larger

\* A batch that loses its head keeps the others, in their order.
LEMMA TailEntries ==
  ASSUME NEW S, NEW s \in Seq(S), s # <<>>
  PROVE  /\ Tail(s) \in Seq(S) /\ Head(s) = s[1] /\ 1 \in DOMAIN s
         /\ \A n \in DOMAIN Tail(s) : n + 1 \in DOMAIN s /\ Tail(s)[n] = s[n + 1] /\ n + 1 # 1
         /\ Len(s) = 1 => Tail(s) = <<>>
<1>1. Len(s) \in Nat /\ Len(s) # 0 /\ DOMAIN s = 1 .. Len(s)
  OBVIOUS
<1>2. Tail(s) \in Seq(S) /\ Len(Tail(s)) = Len(s) - 1 /\ DOMAIN Tail(s) = 1 .. Len(s) - 1
  BY <1>1
<1>3. \A n \in 1 .. Len(s) - 1 : Tail(s)[n] = s[n + 1]
  BY <1>1
<1>4. Head(s) = s[1]
  OBVIOUS
<1>5. Len(s) = 1 => Tail(s) = <<>>
  BY <1>2
<1> QED
  BY <1>1, <1>2, <1>3, <1>4, <1>5

\* Appending adds one message to those given up.
LEMMA AppendRange ==
  ASSUME NEW s \in Seq(Messages), NEW m \in Messages
  PROVE  Append(s, m) \in Seq(Messages) /\ Range(Append(s, m)) = Range(s) \union {m}
<1>1. Append(s, m) \in Seq(Messages) /\ DOMAIN Append(s, m) = 1 .. Len(s) + 1
  OBVIOUS
<1>2. Append(s, m)[Len(s) + 1] = m /\ \A n \in DOMAIN s : Append(s, m)[n] = s[n]
  OBVIOUS
<1>3. DOMAIN s = 1 .. Len(s) /\ Len(s) \in Nat
  OBVIOUS
<1>4. \A n \in 1 .. Len(s) + 1 : n = Len(s) + 1 \/ n \in 1 .. Len(s)
  BY <1>3
<1> QED
  BY <1>1, <1>2, <1>3, <1>4 DEF Range

-----------------------------------------------------------------------------
(* The invariant *)

\* What is at the head of a batch is a message of the queue.
LEMMA HeadHeld ==
  ASSUME Inv, NEW w \in Workers, batch[w] # <<>>
  PROVE  /\ 1 \in DOMAIN batch[w] /\ Head(batch[w]) = batch[w][1] /\ Head(batch[w]) \in Entry
         /\ Head(batch[w]).id \in DOMAIN queue /\ Head(batch[w]).id \in Messages
<1>1. batch[w] \in Seq(Entry)
  BY DEF Inv, Shape
<1>2. 1 \in DOMAIN batch[w] /\ Head(batch[w]) = batch[w][1]
  BY <1>1, TailEntries
<1>3. batch[w][1] \in Entry
  BY <1>1, <1>2
<1>4. batch[w][1].id \in DOMAIN queue
  BY <1>2 DEF Inv, Held
<1> QED
  BY <1>2, <1>3, <1>4 DEF Entry

\* When the head is done, every entry that is left was there before, belongs to another
\* message, and has as much time as before.
LEMMA RecordedKeeps ==
  ASSUME Inv, NEW w \in Workers, Processing(w), Recorded(w)
  PROVE  /\ batch' \in [Workers -> Seq(Entry)]
         /\ outcome' \in [Workers -> {"none", "ok", "failed"}]
         /\ left' \in [Workers -> - Slack .. Deadline]
         /\ \A x \in Workers : \A n \in DOMAIN batch'[x] :
              /\ left'[x] = left[x]
              /\ \E k \in DOMAIN batch[x] : /\ batch'[x][n] = batch[x][k]
                                            /\ batch[x][k].id # Head(batch[w]).id
         /\ OneWorkerPerMessage'
<1> DEFINE t == Tail(batch[w])
<1>1. batch[w] \in Seq(Entry) /\ batch[w] # <<>> /\ batch \in [Workers -> Seq(Entry)]
  BY DEF Inv, Shape, Processing
<1>2. /\ t \in Seq(Entry) /\ Head(batch[w]) = batch[w][1] /\ 1 \in DOMAIN batch[w]
      /\ \A n \in DOMAIN t : n + 1 \in DOMAIN batch[w] /\ t[n] = batch[w][n + 1] /\ n + 1 # 1
      /\ Len(batch[w]) = 1 => t = <<>>
  BY <1>1, TailEntries
<1> HIDE DEF t
<1>3. batch' = [batch EXCEPT ![w] = t]
  BY DEF Recorded, t
<1>4. batch' \in [Workers -> Seq(Entry)]
  BY <1>1, <1>2, <1>3
<1>5. batch'[w] = t /\ \A x \in Workers \ {w} : batch'[x] = batch[x]
  BY <1>1, <1>3
<1>6. outcome' \in [Workers -> {"none", "ok", "failed"}]
  BY DEF Recorded, Inv, Shape
<1>7. left' \in [Workers -> - Slack .. Deadline]
  BY JobQueueAssumption DEF Recorded, Inv, Shape
<1>8. \A x \in Workers : \A n \in DOMAIN batch'[x] : left'[x] = left[x]
  <2> SUFFICES ASSUME NEW x \in Workers, NEW n \in DOMAIN batch'[x] PROVE left'[x] = left[x]
    OBVIOUS
  <2>1. CASE x = w
    <3>1. Len(batch[w]) # 1
      BY <2>1, <1>2, <1>5
    <3> QED
      BY <2>1, <3>1 DEF Recorded, Inv, Shape
  <2>2. CASE x # w
    BY <2>2 DEF Recorded, Inv, Shape
  <2> QED
    BY <2>1, <2>2
<1>9. \A x \in Workers : \A n \in DOMAIN batch'[x] :
        \E k \in DOMAIN batch[x] : /\ batch'[x][n] = batch[x][k]
                                   /\ x = w => k = n + 1
                                   /\ x # w => k = n
                                   /\ batch[x][k].id # Head(batch[w]).id
  <2> SUFFICES ASSUME NEW x \in Workers, NEW n \in DOMAIN batch'[x]
               PROVE  \E k \in DOMAIN batch[x] : /\ batch'[x][n] = batch[x][k]
                                                 /\ x = w => k = n + 1
                                                 /\ x # w => k = n
                                                 /\ batch[x][k].id # Head(batch[w]).id
    OBVIOUS
  <2>1. CASE x = w
    <3>1. n + 1 \in DOMAIN batch[w] /\ batch'[x][n] = batch[w][n + 1] /\ n + 1 # 1
      BY <2>1, <1>2, <1>5
    <3>2. batch[w][n + 1].id # batch[w][1].id
      BY <3>1, <1>2 DEF Inv, OneWorkerPerMessage
    <3> QED
      BY <2>1, <3>1, <3>2, <1>2
  <2>2. CASE x # w
    <3>1. batch'[x] = batch[x]
      BY <2>2, <1>5
    <3>2. batch[x][n].id # batch[w][1].id
      BY <2>2, <3>1, <1>2 DEF Inv, OneWorkerPerMessage
    <3> QED
      BY <2>2, <3>1, <3>2, <1>2
  <2> QED
    BY <2>1, <2>2
<1>10. OneWorkerPerMessage'
  <2> SUFFICES ASSUME NEW x \in Workers, NEW y \in Workers,
                      NEW n \in DOMAIN batch'[x], NEW k \in DOMAIN batch'[y],
                      batch'[x][n].id = batch'[y][k].id
               PROVE  x = y /\ n = k
    BY DEF OneWorkerPerMessage
  <2>1. PICK i \in DOMAIN batch[x] : /\ batch'[x][n] = batch[x][i]
                                     /\ x = w => i = n + 1 
                                     /\ x # w => i = n
    BY <1>9
  <2>2. PICK j \in DOMAIN batch[y] : /\ batch'[y][k] = batch[y][j]
                                     /\ y = w => j = k + 1 
                                     /\ y # w => j = k
    BY <1>9
  <2>3. x = y /\ i = j
    BY <2>1, <2>2 DEF Inv, OneWorkerPerMessage
  <2>4. batch'[x] \in Seq(Entry) /\ batch'[y] \in Seq(Entry)
    BY <1>4
  <2>5. n \in Int /\ k \in Int
    BY <2>4
  <2> QED
    BY <2>1, <2>2, <2>3, <2>5
<1> QED
  BY <1>4, <1>6, <1>7, <1>8, <1>9, <1>10

\* The invariant holds at the start.
LEMMA InitInv == Init => Inv
<1> SUFFICES ASSUME Init PROVE Inv
  OBVIOUS
<1>1. Shape
  BY JobQueueAssumption DEF Init, Shape, Larger
<1>2. Apart
  BY DEF Init, Apart, Range
<1>3. Held /\ OneWorkerPerMessage
  BY DEF Init, Held, OneWorkerPerMessage
<1> QED
  BY <1>1, <1>2, <1>3 DEF Inv

\* A new message was nowhere before.
LEMMA EnqueueInv ==
  ASSUME Inv, NEW m \in Messages, Enqueue(m)
  PROVE  Inv'
<1> USE DEF Inv
<1>1. m \notin DOMAIN queue /\ m \notin archive /\ m \notin Range(failed)
  BY DEF Enqueue, Sent
<1>2. /\ DOMAIN queue' = DOMAIN queue \union {m}
      /\ \A n \in Messages : n # m => hidden'[n] = hidden[n]
      /\ UNCHANGED <<archive, failed, batch, outcome, left>>
  BY DEF Enqueue, Shape
<1>3. Shape'
  BY <1>2, JobQueueAssumption DEF Enqueue, Shape, Larger
<1>4. Apart'
  BY <1>1, <1>2 DEF Apart
<1>5. Held'
  BY <1>1, <1>2 DEF Held, Shape
<1>6. OneWorkerPerMessage'
  BY <1>2 DEF OneWorkerPerMessage
<1> QED
  BY <1>3, <1>4, <1>5, <1>6

\* What is read was visible, so no batch held it, and it is hidden for longer than the
\* new batch may last.
LEMMA PollInv ==
  ASSUME Inv, NEW w \in Workers, Poll(w)
  PROVE  Inv'
<1> USE DEF Inv
<1>1. PICK size \in 1 .. BatchSize : \E taken \in [1 .. size -> Visible] :
        /\ Oldest(taken)
        /\ queue' = [m \in DOMAIN queue |->
                       IF m \in Range(taken) THEN Smaller(queue[m] + 1, MaxReads) ELSE queue[m]]
        /\ hidden' = [m \in Messages |-> IF m \in Range(taken) THEN Visibility ELSE hidden[m]]
        /\ batch' = [batch EXCEPT ![w] =
             [n \in 1 .. size |-> [id |-> taken[n], reads |-> Smaller(queue[taken[n]] + 1, MaxReads)]]]
  BY DEF Poll, ReadJobs, ReadFor
<1>2. PICK taken \in [1 .. size -> Visible] :
        /\ Oldest(taken)
        /\ queue' = [m \in DOMAIN queue |->
                       IF m \in Range(taken) THEN Smaller(queue[m] + 1, MaxReads) ELSE queue[m]]
        /\ hidden' = [m \in Messages |-> IF m \in Range(taken) THEN Visibility ELSE hidden[m]]
        /\ batch' = [batch EXCEPT ![w] =
             [n \in 1 .. size |-> [id |-> taken[n], reads |-> Smaller(queue[taken[n]] + 1, MaxReads)]]]
  BY <1>1
<1> DEFINE new == [n \in 1 .. size |-> [id |-> taken[n], reads |-> Smaller(queue[taken[n]] + 1, MaxReads)]]
<1>3. /\ size \in Nat /\ Range(taken) \subseteq Visible
      /\ \A n \in 1 .. size : taken[n] \in Visible /\ taken[n] \in Range(taken)
      /\ \A n, k \in 1 .. size : taken[n] = taken[k] => n = k
  <2>1. \A n \in 1 .. size : taken[n] \in Visible /\ taken[n] \in Nat
    BY JobQueueAssumption DEF Visible, Shape
  <2>2. \A n, k \in 1 .. size : n < k => taken[n] < taken[k]
    BY <1>2 DEF Oldest
  <2>3. \A n, k \in 1 .. size : n < k \/ n = k \/ k < n
    OBVIOUS
  <2> QED
    BY <2>1, <2>2, <2>3, JobQueueAssumption DEF Range
<1>4. \A m \in Visible : m \in DOMAIN queue /\ m \in Messages /\ hidden[m] = 0
  BY DEF Visible, Shape
<1>5. new \in Seq(Entry) /\ DOMAIN new = 1 .. size /\ \A n \in 1 .. size : new[n].id = taken[n]
  <2>1. \A n \in 1 .. size : new[n] \in Entry
    BY <1>3, <1>4, JobQueueAssumption DEF Entry, Smaller, Shape
  <2> QED
    BY <2>1, <1>3
<1>6. batch'[w] = new /\ \A x \in Workers \ {w} : batch'[x] = batch[x]
  BY <1>2 DEF Shape
<1>7. left' = [left EXCEPT ![w] = Deadline] /\ outcome' = [outcome EXCEPT ![w] = "none"]
      /\ UNCHANGED <<archive, failed>>
  BY DEF Poll
<1>8. DOMAIN queue' = DOMAIN queue
  BY <1>2
<1> HIDE DEF new
<1>9. Shape'
  <2>1. queue' \in [DOMAIN queue' -> 0 .. MaxReads]
    <3>1. \A m \in DOMAIN queue : queue[m] \in 0 .. MaxReads
      BY DEF Shape
    <3>2. \A m \in DOMAIN queue : Smaller(queue[m] + 1, MaxReads) \in 0 .. MaxReads
      BY <3>1, JobQueueAssumption DEF Smaller
    <3> QED
      BY <3>1, <3>2, <1>2
  <2>2. hidden' \in [Messages -> 0 .. Larger(Visibility, MaxDelay)]
    <3>1. Visibility \in 0 .. Larger(Visibility, MaxDelay)
      BY JobQueueAssumption DEF Larger
    <3>2. \A m \in Messages : hidden[m] \in 0 .. Larger(Visibility, MaxDelay)
      BY DEF Shape
    <3> QED
      BY <3>1, <3>2, <1>2
  <2>3. batch' \in [Workers -> Seq(Entry)]
    BY <1>2, <1>5 DEF Shape, new
  <2>4. left' \in [Workers -> - Slack .. Deadline] /\ outcome' \in [Workers -> {"none", "ok", "failed"}]
    BY <1>7, JobQueueAssumption DEF Shape
  <2> QED
    BY <2>1, <2>2, <2>3, <2>4, <1>7, <1>8 DEF Shape
<1>10. Apart'
  BY <1>7, <1>8 DEF Apart
<1>11. \A x \in Workers \ {w} : \A n \in DOMAIN batch[x] : batch[x][n].id \notin Visible
  <2> SUFFICES ASSUME NEW x \in Workers \ {w}, NEW n \in DOMAIN batch[x], hidden[batch[x][n].id] = 0
               PROVE  FALSE
    BY <1>4
  <2>1. left[x] \in Int /\ left[x] >= - Slack
    BY JobQueueAssumption DEF Shape
  <2>2. hidden[batch[x][n].id] > left[x] + Slack
    BY DEF Held
  <2> QED
    BY <2>1, <2>2, JobQueueAssumption
<1>12. Held'
  <2> SUFFICES ASSUME NEW x \in Workers, NEW n \in DOMAIN batch'[x]
               PROVE  batch'[x][n].id \in DOMAIN queue' /\ hidden'[batch'[x][n].id] > left'[x] + Slack
    BY DEF Held
  <2>1. CASE x = w
    <3>1. n \in 1 .. size /\ batch'[x][n].id = taken[n]
      BY <2>1, <1>5, <1>6
    <3>2. hidden'[taken[n]] = Visibility /\ left'[x] = Deadline
      BY <2>1, <3>1, <1>2, <1>3, <1>4, <1>7 DEF Shape
    <3> QED
      BY <3>1, <3>2, <1>3, <1>4, <1>8, JobQueueAssumption
  <2>2. CASE x # w
    <3>1. batch'[x] = batch[x] /\ left'[x] = left[x]
      BY <2>2, <1>6, <1>7 DEF Shape
    <3>2. batch[x][n].id \notin Range(taken) /\ batch[x][n].id \in DOMAIN queue
      BY <2>2, <3>1, <1>3, <1>11 DEF Held
    <3>3. hidden'[batch[x][n].id] = hidden[batch[x][n].id]
      BY <3>2, <1>2 DEF Shape
    <3> QED
      BY <3>1, <3>2, <3>3, <1>8 DEF Held
  <2> QED
    BY <2>1, <2>2
<1>13. OneWorkerPerMessage'
  <2> SUFFICES ASSUME NEW x \in Workers, NEW y \in Workers,
                      NEW n \in DOMAIN batch'[x], NEW k \in DOMAIN batch'[y],
                      batch'[x][n].id = batch'[y][k].id
               PROVE  x = y /\ n = k
    BY DEF OneWorkerPerMessage
  <2>1. CASE x = w /\ y = w
    BY <2>1, <1>3, <1>5, <1>6
  <2>2. CASE x # w /\ y # w
    BY <2>2, <1>6 DEF OneWorkerPerMessage
  <2>3. CASE x = w /\ y # w
    BY <2>3, <1>3, <1>5, <1>6, <1>11
  <2>4. CASE x # w /\ y = w
    BY <2>4, <1>3, <1>5, <1>6, <1>11
  <2> QED
    BY <2>1, <2>2, <2>3, <2>4
<1> QED
  BY <1>9, <1>10, <1>12, <1>13

\* The job of the head has run: only its outcome changes.
LEMMA RunJobInv ==
  ASSUME Inv, NEW w \in Workers, NEW result \in {"ok", "failed"}, RunJob(w, result)
  PROVE  Inv'
<1>1. outcome' = [outcome EXCEPT ![w] = result] /\ UNCHANGED <<queue, hidden, archive, failed, batch, left>>
  BY DEF RunJob
<1>2. Shape'
  BY <1>1 DEF Inv, Shape
<1>3. Apart' /\ Held' /\ OneWorkerPerMessage'
  BY <1>1 DEF Inv, Apart, Held, OneWorkerPerMessage
<1> QED
  BY <1>2, <1>3 DEF Inv

\* A batch that is abandoned holds nothing.
LEMMA AbandonInv ==
  ASSUME Inv, NEW w \in Workers, Abandon(w)
  PROVE  Inv'
<1> USE DEF Inv
<1>1. /\ batch' = [batch EXCEPT ![w] = <<>>] /\ outcome' = [outcome EXCEPT ![w] = "none"]
      /\ left' = [left EXCEPT ![w] = 0] /\ UNCHANGED <<queue, hidden, archive, failed>>
  BY DEF Abandon
<1>2. batch'[w] = <<>> /\ \A x \in Workers \ {w} : batch'[x] = batch[x] /\ left'[x] = left[x]
  BY <1>1 DEF Shape
<1>3. Shape'
  BY <1>1, JobQueueAssumption DEF Shape
<1>4. Apart'
  BY <1>1 DEF Apart
<1>5. Held'
  BY <1>1, <1>2 DEF Held
<1>6. OneWorkerPerMessage'
  BY <1>2 DEF OneWorkerPerMessage
<1> QED
  BY <1>3, <1>4, <1>5, <1>6

\* The head leaves the queue for the archive or the failed queue, which then hold it alone.
LEMMA SettleInv ==
  ASSUME Inv, NEW w \in Workers, AckJob(w) \/ FailJob(w)
  PROVE  Inv'
<1> USE DEF Inv
<1> DEFINE m == Head(batch[w]).id
<1>1. /\ Processing(w) /\ Recorded(w) /\ DeleteMessage(m) /\ hidden' = hidden
      /\ \/ archive' = archive \union (DOMAIN queue \intersect {m}) /\ failed' = failed
         \/ archive' = archive /\ failed' = Append(failed, m)
  BY DEF AckJob, FailJob
<1>2. batch[w] # <<>>
  BY <1>1 DEF Processing
<1>3. m \in DOMAIN queue /\ m \in Messages
  BY <1>2, HeadHeld
<1> HIDE DEF m
<1>4. /\ DOMAIN queue' = DOMAIN queue \ {m}
      /\ \A n \in DOMAIN queue' : queue'[n] = queue[n]
  BY <1>1 DEF DeleteMessage
<1>5. /\ batch' \in [Workers -> Seq(Entry)]
      /\ outcome' \in [Workers -> {"none", "ok", "failed"}]
      /\ left' \in [Workers -> - Slack .. Deadline]
      /\ \A x \in Workers : \A n \in DOMAIN batch'[x] :
           /\ left'[x] = left[x]
           /\ \E k \in DOMAIN batch[x] : batch'[x][n] = batch[x][k] /\ batch[x][k].id # m
      /\ OneWorkerPerMessage'
  BY <1>1, RecordedKeeps DEF m
<1>6. failed' \in Seq(Messages) /\ Range(failed') \subseteq Range(failed) \union {m}
  BY <1>1, <1>3, AppendRange DEF Shape
<1>7. archive' \subseteq archive \union {m}
  BY <1>1
<1>8. Shape'
  <2>1. queue' \in [DOMAIN queue' -> 0 .. MaxReads] /\ DOMAIN queue' \subseteq Messages
    BY <1>1, <1>4 DEF DeleteMessage, Shape
  <2> QED
    BY <2>1, <1>1, <1>3, <1>5, <1>6, <1>7 DEF Shape
<1>9. Apart'
  <2>1. \A n \in DOMAIN queue' : n \notin archive' /\ n \notin Range(failed')
    BY <1>4, <1>6, <1>7 DEF Apart
  <2>2. m \notin archive /\ m \notin Range(failed)
    BY <1>3 DEF Apart
  <2>3. \A n \in archive' : n \notin Range(failed')
    BY <1>1, <1>3, <1>6, <1>7, <2>2 DEF Apart
  <2> QED
    BY <2>1, <2>3 DEF Apart
<1>10. Held'
  <2> SUFFICES ASSUME NEW x \in Workers, NEW n \in DOMAIN batch'[x]
               PROVE  batch'[x][n].id \in DOMAIN queue' /\ hidden'[batch'[x][n].id] > left'[x] + Slack
    BY DEF Held
  <2>1. PICK k \in DOMAIN batch[x] : batch'[x][n] = batch[x][k] /\ batch[x][k].id # m
    BY <1>5
  <2> QED
    BY <2>1, <1>1, <1>4, <1>5 DEF Held
<1> QED
  BY <1>5, <1>8, <1>9, <1>10

\* The head is hidden for another time: nothing else in a batch is the same message.
LEMMA RetryJobInv ==
  ASSUME Inv, NEW w \in Workers, RetryJob(w)
  PROVE  Inv'
<1> USE DEF Inv
<1> DEFINE h == Head(batch[w])
<1>1. /\ Processing(w) /\ Recorded(w) /\ UNCHANGED <<queue, archive, failed>>
      /\ hidden' = [hidden EXCEPT ![h.id] = RetryDelay(h.reads)]
  BY DEF RetryJob
<1>2. h \in Entry
  BY <1>1, HeadHeld DEF Processing
<1>3. RetryDelay(h.reads) \in 0 .. Larger(Visibility, MaxDelay)
  BY <1>2, RetryDelayType DEF Entry
<1>4. /\ batch' \in [Workers -> Seq(Entry)]
      /\ outcome' \in [Workers -> {"none", "ok", "failed"}]
      /\ left' \in [Workers -> - Slack .. Deadline]
      /\ \A x \in Workers : \A n \in DOMAIN batch'[x] :
           /\ left'[x] = left[x]
           /\ \E k \in DOMAIN batch[x] : batch'[x][n] = batch[x][k] /\ batch[x][k].id # h.id
      /\ OneWorkerPerMessage'
  BY <1>1, RecordedKeeps
<1> HIDE DEF h
<1>5. Shape'
  BY <1>1, <1>3, <1>4 DEF Shape
<1>6. Apart'
  BY <1>1 DEF Apart
<1>7. Held'
  <2> SUFFICES ASSUME NEW x \in Workers, NEW n \in DOMAIN batch'[x]
               PROVE  batch'[x][n].id \in DOMAIN queue' /\ hidden'[batch'[x][n].id] > left'[x] + Slack
    BY DEF Held
  <2>1. PICK k \in DOMAIN batch[x] : batch'[x][n] = batch[x][k] /\ batch[x][k].id # h.id
    BY <1>4
  <2>2. batch[x][k].id \in DOMAIN queue /\ batch[x][k].id \in Messages
    BY DEF Held, Shape
  <2>3. hidden'[batch[x][k].id] = hidden[batch[x][k].id]
    BY <2>1, <2>2, <1>1 DEF Shape
  <2> QED
    BY <2>1, <2>2, <2>3, <1>1, <1>4 DEF Held
<1> QED
  BY <1>4, <1>5, <1>6, <1>7

\* Time passes for messages and batches alike.
LEMMA TickInv ==
  ASSUME Inv, Tick
  PROVE  Inv'
<1> USE DEF Inv
<1>1. /\ \A m \in Messages : hidden'[m] = Larger(hidden[m] - 1, 0)
      /\ \A w \in Workers : batch[w] # <<>> => left[w] > - Slack /\ left'[w] = left[w] - 1
      /\ \A w \in Workers : batch[w] = <<>> => left'[w] = 0
      /\ UNCHANGED <<queue, archive, failed, batch, outcome>>
  BY DEF Tick
<1>2. hidden' \in [Messages -> 0 .. Larger(Visibility, MaxDelay)]
  <2>1. \A m \in Messages : Larger(hidden[m] - 1, 0) \in 0 .. Larger(Visibility, MaxDelay)
    BY JobQueueAssumption DEF Shape, Larger
  <2> QED
    BY <2>1 DEF Tick
<1>3. left' \in [Workers -> - Slack .. Deadline]
  <2>1. \A w \in Workers : left'[w] \in - Slack .. Deadline
    BY <1>1, JobQueueAssumption DEF Shape
  <2> QED
    BY <2>1 DEF Tick
<1>4. Shape'
  BY <1>1, <1>2, <1>3 DEF Shape
<1>5. Apart'
  BY <1>1 DEF Apart
<1>6. Held'
  <2> SUFFICES ASSUME NEW w \in Workers, NEW n \in DOMAIN batch[w]
               PROVE  hidden'[batch[w][n].id] > left'[w] + Slack
    BY <1>1 DEF Held
  <2>1. batch[w] # <<>>
    OBVIOUS
  <2>2. batch[w][n].id \in Messages /\ hidden[batch[w][n].id] > left[w] + Slack
    BY DEF Held, Shape
  <2>3. hidden[batch[w][n].id] \in Int /\ left[w] \in Int
    BY <2>2, JobQueueAssumption DEF Shape
  <2>4. hidden'[batch[w][n].id] = hidden[batch[w][n].id] - 1
    <3>1. hidden'[batch[w][n].id] = Larger(hidden[batch[w][n].id] - 1, 0)
      BY <2>2, <1>1
    <3>2. left[w] > - Slack
      BY <2>1, <1>1
    <3>3. hidden[batch[w][n].id] > 0
      BY <2>2, <2>3, <3>2, JobQueueAssumption
    <3> QED
      BY <2>3, <3>1, <3>3 DEF Larger
  <2>5. left'[w] = left[w] - 1
    BY <2>1, <1>1
  <2> QED
    BY <2>2, <2>3, <2>4, <2>5, JobQueueAssumption
<1>7. OneWorkerPerMessage'
  BY <1>1 DEF OneWorkerPerMessage
<1> QED
  BY <1>4, <1>5, <1>6, <1>7

\* Every step of the queue keeps the invariant.
LEMMA NextInv == Inv /\ [Next]_vars => Inv'
<1> SUFFICES ASSUME Inv, [Next]_vars PROVE Inv'
  OBVIOUS
<1>1. CASE Tick
  BY <1>1, TickInv
<1>2. ASSUME NEW m \in Messages, Enqueue(m) PROVE Inv'
  BY <1>2, EnqueueInv
<1>3. ASSUME NEW w \in Workers, Process(w) PROVE Inv'
  <2>1. CASE Poll(w)
    BY <2>1, PollInv
  <2>2. CASE RunJob(w, "ok") \/ RunJob(w, "failed")
    BY <2>2, RunJobInv
  <2>3. CASE AckJob(w) \/ FailJob(w)
    BY <2>3, SettleInv
  <2>4. CASE RetryJob(w)
    BY <2>4, RetryJobInv
  <2>5. CASE Abandon(w)
    BY <2>5, AbandonInv
  <2> QED
    BY <1>3, <2>1, <2>2, <2>3, <2>4, <2>5 DEF Process, Record
<1>4. CASE UNCHANGED vars
  BY <1>4 DEF vars, Inv, Shape, Apart, Held, OneWorkerPerMessage, Range
<1> QED
  BY <1>1, <1>2, <1>3, <1>4 DEF Next

\* So it holds in every state of every behaviour.
LEMMA Always == Spec => []Inv
  BY InitInv, NextInv, PTL DEF Spec

\* The types of JobQueue hold in every state of every queue.
THEOREM TypeCorrect == Spec => []TypeOK
<1>1. Inv => TypeOK
  <2> SUFFICES ASSUME Inv PROVE TypeOK
    OBVIOUS
  <2>1. \A n \in DOMAIN failed : failed[n] \in Messages
    BY DEF Inv, Shape
  <2>2. \A w \in Workers : \A n \in DOMAIN batch[w] : batch[w][n].id \in Messages
    BY DEF Inv, Shape, Held
  <2> QED
    BY <2>1, <2>2 DEF TypeOK, Inv, Shape
<1> QED
  BY <1>1, Always, PTL

\* Two workers never hold the same message, nor one of them the same one twice.
THEOREM HeldByOne == Spec => []OneWorkerPerMessage
<1>1. Inv => OneWorkerPerMessage
  BY DEF Inv
<1> QED
  BY <1>1, Always, PTL

-----------------------------------------------------------------------------
(* The queue implements Delivery *)

\* What Delivery says of the outcome of a run.
Came(result) ==
  CASE result = "none" -> "running" [] result = "ok" -> "succeeded" [] OTHER -> "faulted"

\* Where says of a message that a worker has at its head how its run came out, and of the
\* others in which table they are.
LEMMA WhereIs ==
  Inv => \A m \in Messages :
    /\ m \in archive => Where(m) = "archived"
    /\ m \in Range(failed) => Where(m) = "failed"
    /\ ~ Sent(m) => Where(m) = "unsent"
    /\ \A w \in Workers : HeadIs(w, m) => Where(m) = Came(outcome[w])
    /\ m \in DOMAIN queue /\ (\A w \in Workers : ~ HeadIs(w, m)) => Where(m) = "waiting"
<1> SUFFICES ASSUME Inv, NEW m \in Messages
             PROVE  /\ m \in archive => Where(m) = "archived"
                    /\ m \in Range(failed) => Where(m) = "failed"
                    /\ ~ Sent(m) => Where(m) = "unsent"
                    /\ \A w \in Workers : HeadIs(w, m) => Where(m) = Came(outcome[w])
                    /\ m \in DOMAIN queue /\ (\A w \in Workers : ~ HeadIs(w, m)) => Where(m) = "waiting"
  OBVIOUS
<1>1. m \in archive => Where(m) = "archived"
  BY DEF Where
<1>2. m \in Range(failed) => Where(m) = "failed"
  BY DEF Where, Inv, Apart
<1>3. ~ Sent(m) => Where(m) = "unsent"
  BY DEF Where, Sent
<1>4. m \in DOMAIN queue => m \notin archive /\ m \notin Range(failed)
  BY DEF Inv, Apart
<1>5. m \in DOMAIN queue /\ (\A w \in Workers : ~ HeadIs(w, m)) => Where(m) = "waiting"
  BY <1>4 DEF Where
<1>6. ASSUME NEW w \in Workers, HeadIs(w, m) PROVE Where(m) = Came(outcome[w])
  <2>1. m \in DOMAIN queue
    BY <1>6, HeadHeld DEF HeadIs
  <2>2. \A x \in Workers : HeadIs(x, m) => x = w
    <3> SUFFICES ASSUME NEW x \in Workers, HeadIs(x, m) PROVE x = w
      OBVIOUS
    <3>1. 1 \in DOMAIN batch[w] /\ 1 \in DOMAIN batch[x] /\ batch[w][1].id = m /\ batch[x][1].id = m
      BY <1>6, HeadHeld DEF HeadIs
    <3> QED
      BY <3>1 DEF Inv, OneWorkerPerMessage
  <2>3. (CHOOSE x \in Workers : HeadIs(x, m)) = w
    BY <1>6, <2>2
  <2> QED
    BY <1>4, <1>6, <2>1, <2>3 DEF Where, Came
<1> QED
  BY <1>1, <1>2, <1>3, <1>5, <1>6

\* Every step of the invariant is between two states of which WhereIs speaks.
LEMMA WhereNext ==
  Inv' => \A m \in Messages :
    /\ m \in archive' => Where(m)' = "archived"
    /\ m \in Range(failed') => Where(m)' = "failed"
    /\ ~ Sent(m)' => Where(m)' = "unsent"
    /\ \A w \in Workers : HeadIs(w, m)' => Where(m)' = Came(outcome'[w])
    /\ m \in DOMAIN queue' /\ (\A w \in Workers : ~ HeadIs(w, m)') => Where(m)' = "waiting"
<1>1. (Inv => \A m \in Messages :
         /\ m \in archive => Where(m) = "archived"
         /\ m \in Range(failed) => Where(m) = "failed"
         /\ ~ Sent(m) => Where(m) = "unsent"
         /\ \A w \in Workers : HeadIs(w, m) => Where(m) = Came(outcome[w])
         /\ m \in DOMAIN queue /\ (\A w \in Workers : ~ HeadIs(w, m)) => Where(m) = "waiting")'
  BY WhereIs, PTL
<1> QED
  BY <1>1 DEF Came, Range

\* No two workers have a message at their head.
LEMMA OneHead ==
  ASSUME Inv, NEW m \in Messages, NEW w \in Workers, NEW x \in Workers, HeadIs(w, m), HeadIs(x, m)
  PROVE  w = x
<1>1. 1 \in DOMAIN batch[w] /\ 1 \in DOMAIN batch[x] /\ batch[w][1].id = m /\ batch[x][1].id = m
  BY HeadHeld DEF HeadIs
<1> QED
  BY <1>1 DEF Inv, OneWorkerPerMessage

\* The same of the next state, where a message at a head is in the queue as well.
LEMMA HeadNext ==
  Inv' => \A m \in Messages :
    /\ \A w, x \in Workers : HeadIs(w, m)' /\ HeadIs(x, m)' => w = x
    /\ \A w \in Workers : HeadIs(w, m)' => m \in DOMAIN queue'
<1>1. Inv => \A m \in Messages :
        /\ \A w, x \in Workers : HeadIs(w, m) /\ HeadIs(x, m) => w = x
        /\ \A w \in Workers : HeadIs(w, m) => m \in DOMAIN queue
  BY OneHead, HeadHeld DEF HeadIs
<1>2. (Inv => \A m \in Messages :
         /\ \A w, x \in Workers : HeadIs(w, m) /\ HeadIs(x, m) => w = x
         /\ \A w \in Workers : HeadIs(w, m) => m \in DOMAIN queue)'
  BY <1>1, PTL
<1> QED
  BY <1>2

\* A batch that is not empty has a first entry in the next state, too.
LEMMA HeadHeldNext ==
  Inv' => \A w \in Workers : batch'[w] # <<>> => 1 \in DOMAIN batch'[w] /\ Head(batch'[w]) = batch'[w][1]
<1>1. Inv => \A w \in Workers : batch[w] # <<>> => 1 \in DOMAIN batch[w] /\ Head(batch[w]) = batch[w][1]
  BY HeadHeld
<1>2. (Inv => \A w \in Workers : batch[w] # <<>> => 1 \in DOMAIN batch[w] /\ Head(batch[w]) = batch[w][1])'
  BY <1>1, PTL
<1> QED
  BY <1>2

\* A message that is at the head of nothing new and whose tables are the same stays.
LEMMA StaysPut ==
  ASSUME Inv, Inv', NEW m \in Messages,
         m \in archive' <=> m \in archive, m \in Range(failed') <=> m \in Range(failed),
         m \in DOMAIN queue' <=> m \in DOMAIN queue,
         \A w \in Workers : HeadIs(w, m)' <=> HeadIs(w, m),
         \A w \in Workers : HeadIs(w, m) => outcome'[w] = outcome[w]
  PROVE  Where(m)' = Where(m)
<1>1. CASE m \in archive \/ m \in Range(failed)
  BY <1>1, WhereIs, WhereNext
<1>2. CASE m \notin archive /\ m \notin Range(failed) /\ m \notin DOMAIN queue
  BY <1>2, WhereIs, WhereNext DEF Sent, Range
<1>3. CASE m \in DOMAIN queue /\ \A w \in Workers : ~ HeadIs(w, m)
  BY <1>3, WhereIs, WhereNext
<1>4. ASSUME NEW w \in Workers, HeadIs(w, m) PROVE Where(m)' = Where(m)
  BY <1>4, WhereIs, WhereNext
<1> QED
  BY <1>1, <1>2, <1>3, <1>4

\* While one worker does something, a message that is not at its head waits on or comes
\* to its head, and then it is running.
LEMMA OtherMoves ==
  ASSUME Inv, Inv', NEW w \in Workers, NEW m \in Messages,
         \A x \in Workers \ {w} : batch'[x] = batch[x] /\ outcome'[x] = outcome[x],
         batch'[w] # <<>> => outcome'[w] = "none",
         ~ HeadIs(w, m),
         m \in archive' <=> m \in archive, m \in Range(failed') <=> m \in Range(failed),
         m \in DOMAIN queue' <=> m \in DOMAIN queue
  PROVE  Where(m)' = Where(m) \/ <<Where(m), Where(m)'>> = <<"waiting", "running">>
<1>1. \A x \in Workers \ {w} : HeadIs(x, m)' <=> HeadIs(x, m)
  BY DEF HeadIs
<1>2. CASE HeadIs(w, m)'
  <2>1. Where(m)' = "running"
    <3>1. outcome'[w] = "none"
      BY <1>2 DEF HeadIs
    <3> QED
      BY <1>2, <3>1, WhereNext DEF Came
  <2>2. \A x \in Workers : ~ HeadIs(x, m)
    <3>1. \A x, y \in Workers : HeadIs(x, m)' /\ HeadIs(y, m)' => x = y
      BY HeadNext
    <3> QED
      BY <1>1, <1>2, <3>1
  <2>3. m \in DOMAIN queue
    BY <1>2, HeadNext
  <2>4. Where(m) = "waiting"
    BY <2>2, <2>3, WhereIs
  <2> QED
    BY <2>1, <2>4
<1>3. CASE ~ HeadIs(w, m)'
  <2>1. \A x \in Workers : HeadIs(x, m)' <=> HeadIs(x, m)
    BY <1>1, <1>3
  <2>2. \A x \in Workers : HeadIs(x, m) => outcome'[x] = outcome[x]
    OBVIOUS
  <2> QED
    BY <2>1, <2>2, StaysPut
<1> QED
  BY <1>2, <1>3

\* The head that a worker gives back waits again.
LEMMA BackToWaiting ==
  ASSUME Inv, Inv', NEW w \in Workers, NEW m \in Messages, HeadIs(w, m), ~ HeadIs(w, m)',
         \A x \in Workers \ {w} : batch'[x] = batch[x], m \in DOMAIN queue'
  PROVE  <<Where(m), Where(m)'>> \in Promise!Moves
<1>1. \A x \in Workers : ~ HeadIs(x, m)'
  <2> SUFFICES ASSUME NEW x \in Workers, HeadIs(x, m)' PROVE FALSE
    OBVIOUS
  <2>1. x # w /\ HeadIs(x, m)
    BY DEF HeadIs
  <2> QED
    BY <2>1, OneHead
<1>2. Where(m)' = "waiting"
  BY <1>1, WhereNext
<1>3. Where(m) \in {"running", "succeeded", "faulted"}
  BY WhereIs DEF Came
<1> QED
  BY <1>2, <1>3 DEF Promise!Moves

\* A step moves a message as Delivery says, or leaves it where it is.
LEMMA StepMoves ==
  ASSUME Inv, Inv', [Next]_vars, NEW m \in Messages
  PROVE  Where(m)' # Where(m) => <<Where(m), Where(m)'>> \in Promise!Moves
<1>1. CASE Tick \/ UNCHANGED vars
  <2>1. UNCHANGED <<queue, archive, failed, batch, outcome>>
    BY <1>1 DEF Tick, vars
  <2>2. \A w \in Workers : HeadIs(w, m)' <=> HeadIs(w, m)
    BY <2>1 DEF HeadIs
  <2> QED
    BY <2>1, <2>2, StaysPut
<1>2. ASSUME NEW k \in Messages, Enqueue(k)
      PROVE  Where(m)' # Where(m) => <<Where(m), Where(m)'>> \in Promise!Moves
  <2>1. /\ ~ Sent(k) /\ DOMAIN queue' = DOMAIN queue \union {k}
        /\ UNCHANGED <<archive, failed, batch, outcome>>
    BY <1>2 DEF Enqueue
  <2>2. \A w \in Workers : HeadIs(w, m)' <=> HeadIs(w, m)
    BY <2>1 DEF HeadIs
  <2>3. CASE m # k
    BY <2>1, <2>2, <2>3, StaysPut
  <2>4. CASE m = k
    <3>1. Where(m) = "unsent"
      BY <2>1, <2>4, WhereIs
    <3>2. \A w \in Workers : ~ HeadIs(w, m)
      BY <2>1, <2>4, HeadHeld DEF HeadIs, Sent
    <3>3. Where(m)' = "waiting"
      BY <2>1, <2>2, <2>4, <3>2, WhereNext
    <3> QED
      BY <3>1, <3>3 DEF Promise!Moves
  <2> QED
    BY <2>3, <2>4
<1>3. ASSUME NEW w \in Workers, Process(w)
      PROVE  Where(m)' # Where(m) => <<Where(m), Where(m)'>> \in Promise!Moves
  <2>1. ASSUME NEW r \in {"ok", "failed"}, RunJob(w, r)
        PROVE  Where(m)' # Where(m) => <<Where(m), Where(m)'>> \in Promise!Moves
    <3>1. /\ outcome[w] = "none" /\ outcome' = [outcome EXCEPT ![w] = r]
          /\ UNCHANGED <<queue, hidden, archive, failed, batch, left>>
      BY <2>1 DEF RunJob
    <3>2. \A x \in Workers : HeadIs(x, m)' <=> HeadIs(x, m)
      BY <3>1 DEF HeadIs
    <3>3. outcome'[w] = r /\ \A x \in Workers \ {w} : outcome'[x] = outcome[x]
      BY <3>1 DEF Inv, Shape
    <3>4. CASE ~ HeadIs(w, m)
      <4>1. \A x \in Workers : HeadIs(x, m) => outcome'[x] = outcome[x]
        BY <3>3, <3>4
      <4> QED
        BY <3>1, <3>2, <4>1, StaysPut
    <3>5. CASE HeadIs(w, m)
      <4>1. Where(m) = "running"
        BY <3>1, <3>5, WhereIs DEF Came
      <4>2. Where(m)' = Came(r)
        BY <3>2, <3>3, <3>5, WhereNext
      <4>3. Came(r) \in {"succeeded", "faulted"}
        BY DEF Came
      <4> QED
        BY <4>1, <4>2, <4>3 DEF Promise!Moves
    <3> QED
      BY <3>4, <3>5
  <2>2. ASSUME Poll(w) \/ Record(w) \/ Abandon(w)
        PROVE  /\ \A x \in Workers \ {w} : batch'[x] = batch[x] /\ outcome'[x] = outcome[x]
               /\ outcome'[w] = "none"
    <3>1. CASE Poll(w)
      <4>1. \A x \in Workers \ {w} : batch'[x] = batch[x]
        BY <3>1 DEF Poll, ReadJobs, ReadFor, Inv, Shape
      <4> QED
        BY <3>1, <4>1 DEF Poll, Inv, Shape
    <3>2. CASE Record(w)
      BY <3>2 DEF Record, AckJob, FailJob, RetryJob, Recorded, Inv, Shape
    <3>3. CASE Abandon(w)
      BY <3>3 DEF Abandon, Inv, Shape
    <3> QED
      BY <2>2, <3>1, <3>2, <3>3
  <2>3. CASE Poll(w)
    <3>1. UNCHANGED <<archive, failed>> /\ DOMAIN queue' = DOMAIN queue /\ batch[w] = <<>>
      BY <2>3 DEF Poll, ReadJobs, ReadFor
    <3>2. ~ HeadIs(w, m)
      BY <3>1 DEF HeadIs
    <3> QED
      BY <2>2, <2>3, <3>1, <3>2, OtherMoves DEF Promise!Moves
  <2>4. CASE Abandon(w)
    <3>1. UNCHANGED <<queue, archive, failed>> /\ batch'[w] = <<>>
      BY <2>4 DEF Abandon, Inv, Shape
    <3>2. CASE ~ HeadIs(w, m)
      BY <2>2, <2>4, <3>1, <3>2, OtherMoves DEF Promise!Moves
    <3>3. CASE HeadIs(w, m)
      <4>1. ~ HeadIs(w, m)' /\ m \in DOMAIN queue'
        BY <3>1, <3>3, HeadHeld DEF HeadIs
      <4> QED
        BY <2>2, <2>4, <3>3, <4>1, BackToWaiting
    <3> QED
      BY <3>2, <3>3
  <2>5. CASE RetryJob(w)
    <3>1. UNCHANGED <<queue, archive, failed>> /\ Processing(w) /\ Recorded(w) /\ Record(w)
      BY <2>5 DEF RetryJob, Record
    <3>2. CASE ~ HeadIs(w, m)
      BY <2>2, <3>1, <3>2, OtherMoves DEF Promise!Moves
    <3>3. CASE HeadIs(w, m)
      <4>1. ~ HeadIs(w, m)'
        <5> SUFFICES ASSUME HeadIs(w, m)' PROVE FALSE
          OBVIOUS
        <5>1. 1 \in DOMAIN batch'[w] /\ batch'[w][1].id = m
          BY HeadHeldNext DEF HeadIs
        <5> QED
          BY <3>1, <3>3, <5>1, RecordedKeeps DEF HeadIs
      <4>2. m \in DOMAIN queue'
        BY <3>1, <3>3, HeadHeld DEF HeadIs
      <4> QED
        BY <2>2, <3>1, <3>3, <4>1, <4>2, BackToWaiting
    <3> QED
      BY <3>2, <3>3
  <2>6. CASE AckJob(w)
    <3>1. /\ Processing(w) /\ outcome[w] = "ok" /\ Record(w) /\ failed' = failed
          /\ DOMAIN queue' = DOMAIN queue \ {Head(batch[w]).id}
          /\ archive' = archive \union (DOMAIN queue \intersect {Head(batch[w]).id})
      BY <2>6 DEF AckJob, DeleteMessage, Record
    <3>2. CASE ~ HeadIs(w, m)
      <4>1. m # Head(batch[w]).id
        BY <3>1, <3>2 DEF HeadIs, Processing
      <4> QED
        BY <2>2, <3>1, <3>2, <4>1, OtherMoves DEF Promise!Moves
    <3>3. CASE HeadIs(w, m)
      <4>1. m \in archive'
        BY <3>1, <3>3, HeadHeld DEF HeadIs
      <4>2. Where(m) = "succeeded" /\ Where(m)' = "archived"
        BY <3>1, <3>3, <4>1, WhereIs, WhereNext DEF Came
      <4> QED
        BY <4>2 DEF Promise!Moves
    <3> QED
      BY <3>2, <3>3
  <2>7. CASE FailJob(w)
    <3>1. /\ Processing(w) /\ outcome[w] = "failed" /\ Record(w) /\ archive' = archive
          /\ DOMAIN queue' = DOMAIN queue \ {Head(batch[w]).id}
          /\ failed' = Append(failed, Head(batch[w]).id)
      BY <2>7 DEF FailJob, DeleteMessage, Record
    <3>2. Range(failed') = Range(failed) \union {Head(batch[w]).id}
      BY <3>1, HeadHeld, AppendRange DEF Processing, Inv, Shape
    <3>3. CASE ~ HeadIs(w, m)
      <4>1. m # Head(batch[w]).id
        BY <3>1, <3>3 DEF HeadIs, Processing
      <4> QED
        BY <2>2, <3>1, <3>2, <3>3, <4>1, OtherMoves DEF Promise!Moves
    <3>4. CASE HeadIs(w, m)
      <4>1. m \in Range(failed')
        BY <3>2, <3>4 DEF HeadIs
      <4>2. Where(m) = "faulted" /\ Where(m)' = "failed"
        BY <3>1, <3>4, <4>1, WhereIs, WhereNext DEF Came
      <4> QED
        BY <4>2 DEF Promise!Moves
    <3> QED
      BY <3>3, <3>4
  <2> QED
    BY <1>3, <2>1, <2>3, <2>4, <2>5, <2>6, <2>7 DEF Process, Record
<1> QED
  BY <1>1, <1>2, <1>3 DEF Next

\* The whole queue, its workers, time-outs, losses and retries, does what Delivery promises.
THEOREM Delivers == Spec => DeliversOnce
<1>1. Init => Promise!Init
  <2> SUFFICES ASSUME Init PROVE Promise!Init
    OBVIOUS
  <2>1. \A m \in Messages : Where(m) = "unsent"
    BY DEF Init, Where, Range
  <2> QED
    BY <2>1 DEF Promise!Init
<1>2. Inv /\ Inv' /\ [Next]_vars => [Promise!Next]_([m \in Messages |-> Where(m)])
  <2> SUFFICES ASSUME Inv, Inv', [Next]_vars PROVE Promise!Next
    OBVIOUS
  <2>1. \A m \in Messages : Where(m)' # Where(m) => <<Where(m), Where(m)'>> \in Promise!Moves
    BY StepMoves
  <2> QED
    BY <2>1 DEF Promise!Next
<1> QED
  BY <1>1, <1>2, Always, PTL DEF Spec, DeliversOnce, Promise!Spec
=============================================================================
