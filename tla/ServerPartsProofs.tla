------------------------- MODULE ServerPartsProofs --------------------------
(***************************************************************************)
(* The two parts under the handlers, for every number of threads and       *)
(* tasks, and for every capacity, header size and payload limit.           *)
(*                                                                         *)
(* The pool runs each accepted task once, and has run all of them when     *)
(* shutdown has joined the workers: PoolInv is inductive, one lemma for    *)
(* the control state and one for the place of the tasks.  The stream       *)
(* implements Channel: however the bytes are split, the reader gets the    *)
(* packets that were written, whole and in order.                          *)
(***************************************************************************)
EXTENDS MCServerParts, SequenceTheorems, TLAPS

-----------------------------------------------------------------------------
(***************************************************************************)
(* The pool.                                                               *)
(***************************************************************************)
\* Appending a new element to a queue of distinct ones adds it and no other.
LEMMA AppendOnce ==
  ASSUME NEW q \in Seq(Tasks), IsInjective(q), NEW t \in Tasks, t \notin Range(q)
  PROVE  /\ IsInjective(Append(q, t))
         /\ Range(Append(q, t)) = Range(q) \cup {t}
<1> DEFINE r == Append(q, t)
<1>1. /\ DOMAIN q = 1 .. Len(q) /\ Len(q) \in Nat
      /\ DOMAIN r = 1 .. Len(q) + 1
      /\ \A i \in 1 .. Len(q) : r[i] = q[i]
      /\ r[Len(q) + 1] = t
  OBVIOUS
<1> HIDE DEF r
<1>2. IsInjective(r)
  BY <1>1 DEF IsInjective, Range
<1>3. Range(r) = Range(q) \cup {t}
  BY <1>1 DEF Range
<1> QED
  BY <1>2, <1>3 DEF r

\* The head of a queue of distinct elements is not in its tail.
LEMMA TailOnce ==
  ASSUME NEW q \in Seq(Tasks), IsInjective(q), q # <<>>
  PROVE  /\ Head(q) \in Tasks /\ Tail(q) \in Seq(Tasks) /\ Len(Tail(q)) = Len(q) - 1
         /\ IsInjective(Tail(q))
         /\ Range(q) = Range(Tail(q)) \cup {Head(q)}
         /\ Head(q) \notin Range(Tail(q))
<1> DEFINE r == Tail(q)
<1>1. /\ DOMAIN q = 1 .. Len(q) /\ Len(q) \in Nat \ {0}
      /\ r \in Seq(Tasks) /\ Len(r) = Len(q) - 1
      /\ DOMAIN r = 1 .. Len(q) - 1
      /\ \A i \in 1 .. Len(q) - 1 : r[i] = q[i + 1]
      /\ Head(q) = q[1] /\ Head(q) \in Tasks
  OBVIOUS
<1> HIDE DEF r
<1>2. IsInjective(r)
  <2> SUFFICES ASSUME NEW i \in DOMAIN r, NEW j \in DOMAIN r, r[i] = r[j]
               PROVE  i = j
    BY DEF IsInjective
  <2>1. /\ i + 1 \in DOMAIN q /\ j + 1 \in DOMAIN q /\ i \in Int /\ j \in Int
        /\ q[i + 1] = q[j + 1]
    BY <1>1
  <2>2. i + 1 = j + 1
    BY <2>1 DEF IsInjective
  <2> QED
    BY <2>1, <2>2
<1>3. q[1] \notin Range(r)
  BY <1>1 DEF IsInjective, Range
<1>4. Range(q) = Range(r) \cup {q[1]}
  <2>1. \A i \in DOMAIN q : i = 1 \/ (i - 1 \in DOMAIN r /\ r[i - 1] = q[i])
    BY <1>1
  <2>2. \A i \in DOMAIN r : i + 1 \in DOMAIN q /\ r[i] = q[i + 1]
    BY <1>1
  <2>3. 1 \in DOMAIN q
    BY <1>1
  <2> QED
    BY <2>1, <2>2, <2>3 DEF Range
<1> QED
  BY <1>1, <1>2, <1>3, <1>4 DEF r

\* The pool starts empty.
LEMMA InitInv == Init => PoolInv
<1> SUFFICES ASSUME Init PROVE PoolInv
  OBVIOUS
<1> USE DEF Init
<1>1. TypeOK
  <2>1. queue \in Seq(Tasks) /\ Len(queue) = 0
    OBVIOUS
  <2>2. Len(queue) <= Capacity
    BY <2>1, PoolAssumption DEF PoolAssumption
  <2> QED
    BY <2>1, <2>2 DEF TypeOK
<1>2. OfferOK /\ TaskOK /\ EndedOK /\ JoinedOK
  BY DEF OfferOK, TaskOK, EndedOK, JoinedOK
<1>3. RunsOnce
  <2>1. Range(queue) = {} /\ IsInjective(queue)
    BY DEF Range, IsInjective
  <2>2. Range(task) \ {NoTask} = {}
    BY DEF Range
  <2> QED
    BY <2>1, <2>2 DEF RunsOnce, accepted
<1> QED
  BY <1>1, <1>2, <1>3 DEF PoolInv

\* The types and the control state: flags, waiting threads, who has ended.
LEMMA NextControl ==
  ASSUME PoolInv, [Next]_vars
  PROVE  (TypeOK /\ OfferOK /\ TaskOK /\ EndedOK /\ JoinedOK)'
<1> DEFINE Control == TypeOK /\ OfferOK /\ TaskOK /\ EndedOK /\ JoinedOK
<1> USE DEF PoolInv, TypeOK, OfferOK, TaskOK, EndedOK, JoinedOK
<1>0. CASE UNCHANGED vars
  BY <1>0 DEF vars, queueVars
<1>1. ASSUME NEW s \in Submitters, NEW t \in Tasks, Submit(s, t)
      PROVE  Control'
  BY <1>1, PoolAssumption DEF PoolAssumption, Submit, return, queueVars
<1>2. ASSUME NEW s \in Submitters, PushRefused(s)
      PROVE  Control'
  BY <1>2, PoolAssumption DEF PoolAssumption, PushRefused, Pushing, return, queueVars
<1>3. ASSUME NEW s \in Submitters, Push(s)
      PROVE  Control'
  BY <1>3, PoolAssumption DEF PoolAssumption, Push, Pushing, return, NotifyOne
<1>4. ASSUME NEW s \in Submitters, WaitNotFull(s)
      PROVE  Control'
  BY <1>4 DEF WaitNotFull, Pushing
<1>5. ASSUME NEW w \in Workers, Pop(w)
      PROVE  Control'
  BY <1>5, PoolAssumption DEF PoolAssumption, Pop, Popping, NotifyOne
<1>6. ASSUME NEW w \in Workers, PopFails(w)
      PROVE  Control'
  BY <1>6 DEF PopFails, Popping, queueVars
<1>7. ASSUME NEW w \in Workers, WaitNotEmpty(w)
      PROVE  Control'
  BY <1>7 DEF WaitNotEmpty, Popping
<1>8. ASSUME NEW w \in Workers, EndTask(w)
      PROVE  Control'
  BY <1>8 DEF EndTask, queueVars
<1>9. ASSUME NEW d \in Stoppers, Shutdown(d) \/ SetShutdown(d)
      PROVE  Control'
  <2>1. CASE Shutdown(d) /\ stopped_
    BY <2>1 DEF Shutdown, step, queueVars
  <2>2. CASE Shutdown(d) /\ ~ stopped_
    BY <2>2 DEF Shutdown, step, queueVars
  <2>3. CASE SetShutdown(d)
    BY <2>3 DEF SetShutdown, step
  <2> QED
    BY <1>9, <2>1, <2>2, <2>3
<1>10. ASSUME NEW d \in Stoppers, WakeWorkers(d) \/ WakeSubmitters(d) \/ Join(d)
       PROVE  Control'
  BY <1>10 DEF WakeWorkers, WakeSubmitters, Join, step, queueVars
<1>11. CASE Spurious
  BY <1>11 DEF Spurious
<1> QED
  BY <1>0, <1>1, <1>2, <1>3, <1>4, <1>5, <1>6, <1>7, <1>8, <1>9, <1>10, <1>11
     DEF Next, Submitter, Worker, Stopper

\* The place of the tasks: a task goes from its submitter to the queue, to a
\* worker, and is then run; nothing else moves one.
LEMMA NextRunsOnce ==
  ASSUME PoolInv, [Next]_vars
  PROVE  RunsOnce'
<1>a. TypeOK /\ OfferOK /\ TaskOK /\ RunsOnce
  BY DEF PoolInv
<1>1. ASSUME UNCHANGED <<queue, task, ran, accepted>>
      PROVE  RunsOnce'
  BY <1>a, <1>1 DEF RunsOnce
<1>2. ASSUME NEW s \in Submitters, Push(s)
      PROVE  RunsOnce'
  <2> DEFINE t == offer[s]
  <2>1. t \in Tasks /\ t # NoTask /\ answer[t] = "none"
    BY <1>2, <1>a DEF Push, Pushing, OfferOK, TypeOK
  <2>2. t \notin accepted /\ accepted' = accepted \cup {t}
    BY <2>1, <1>2, <1>a DEF Push, return, accepted, TypeOK
  <2>3. t \notin ran \cup Range(queue) /\ \A w \in Workers : task[w] # t
    BY <2>1, <2>2, <1>a DEF RunsOnce, Range, TypeOK
  <2>4. IsInjective(queue') /\ Range(queue') = Range(queue) \cup {t}
    BY <2>1, <2>3, <1>2, <1>a, AppendOnce DEF Push, RunsOnce, TypeOK
  <2> QED
    BY <2>1, <2>2, <2>3, <2>4, <1>2, <1>a DEF Push, RunsOnce
<1>3. ASSUME NEW w \in Workers, Pop(w)
      PROVE  RunsOnce'
  <2> DEFINE t == Head(queue)
  <2>1. /\ t \in Tasks /\ t # NoTask
        /\ IsInjective(queue') /\ t \notin Range(queue')
        /\ Range(queue) = Range(queue') \cup {t}
    BY <1>3, <1>a, TailOnce, PoolAssumption DEF PoolAssumption, Pop, RunsOnce, TypeOK
  <2>2. task[w] = NoTask
    BY <1>3, <1>a DEF Pop, Popping, TaskOK
  <2>3. task' = [task EXCEPT ![w] = t] /\ task \in [Workers -> Tasks \cup {NoTask}]
    BY <1>3, <1>a DEF Pop, TypeOK
  <2>4. Range(task') \ {NoTask} = (Range(task) \ {NoTask}) \cup {t}
    BY <2>1, <2>2, <2>3 DEF Range
  <2>5. t \notin ran /\ \A v \in Workers : task[v] # t
    BY <2>1, <1>a DEF RunsOnce
  <2>6. ran' = ran /\ accepted' = accepted
    BY <1>3 DEF Pop, accepted
  <2> QED
    BY <2>1, <2>2, <2>3, <2>4, <2>5, <2>6, <1>a DEF RunsOnce
<1>4. ASSUME NEW w \in Workers, EndTask(w)
      PROVE  RunsOnce'
  <2> DEFINE t == task[w]
  <2>1. t # NoTask /\ t \in Tasks
    BY <1>4, <1>a DEF EndTask, TaskOK, TypeOK
  <2>2. task' = [task EXCEPT ![w] = NoTask] /\ task \in [Workers -> Tasks \cup {NoTask}]
    BY <1>4, <1>a DEF EndTask, TypeOK
  <2>3. \A v \in Workers \ {w} : task[v] # t
    BY <2>1, <1>a DEF RunsOnce
  <2>4. Range(task) \ {NoTask} = (Range(task') \ {NoTask}) \cup {t}
    BY <2>1, <2>2, <2>3 DEF Range
  <2>5. t \notin Range(queue) /\ ran' = ran \cup {t}
    BY <2>1, <1>4, <1>a DEF EndTask, RunsOnce
  <2>6. queue' = queue /\ accepted' = accepted
    BY <1>4 DEF EndTask, queueVars, accepted
  <2>7. \A v \in Workers : task'[v] # NoTask => v # w /\ task'[v] = task[v] /\ task'[v] # t
    BY <2>2, <2>3
  <2>8. \A v \in Workers : task[v] # NoTask =>
          /\ task[v] \notin ran \cup Range(queue)
          /\ \A u \in Workers : task[u] = task[v] => u = v
    BY <1>a DEF RunsOnce
  <2>9. \A v \in Workers : task'[v] # NoTask =>
          /\ task'[v] \notin ran' \cup Range(queue')
          /\ \A u \in Workers : task'[u] = task'[v] => u = v
    BY <2>5, <2>6, <2>7, <2>8
  <2>10. IsInjective(queue) /\ Range(queue) \cap ran = {}
         /\ accepted = ran \cup Range(queue) \cup (Range(task) \ {NoTask})
    BY <1>a DEF RunsOnce
  <2> HIDE DEF t
  <2>11. accepted' = ran' \cup Range(queue') \cup (Range(task') \ {NoTask})
    BY <2>4, <2>5, <2>6, <2>10
  <2>12. IsInjective(queue') /\ Range(queue') \cap ran' = {}
    BY <2>5, <2>6, <2>10
  <2> QED
    BY <2>9, <2>11, <2>12 DEF RunsOnce
<1>5. ASSUME NEW s \in Submitters, NEW t \in Tasks, Submit(s, t)
      PROVE  UNCHANGED <<queue, task, ran, accepted>>
  BY <1>5, <1>a DEF Submit, return, accepted, queueVars, TypeOK
<1>6. ASSUME NEW s \in Submitters, PushRefused(s)
      PROVE  UNCHANGED <<queue, task, ran, accepted>>
  <2>1. offer[s] \in Tasks /\ answer[offer[s]] = "none"
    BY <1>6, <1>a DEF PushRefused, Pushing, OfferOK, TypeOK
  <2> QED
    BY <2>1, <1>6, <1>a DEF PushRefused, return, accepted, queueVars, TypeOK
<1>7. ASSUME NEW s \in Submitters, WaitNotFull(s)
      PROVE  UNCHANGED <<queue, task, ran, accepted>>
  BY <1>7 DEF WaitNotFull, accepted
<1>8. ASSUME NEW w \in Workers, PopFails(w) \/ WaitNotEmpty(w)
      PROVE  UNCHANGED <<queue, task, ran, accepted>>
  BY <1>8 DEF PopFails, WaitNotEmpty, accepted, queueVars
<1>9. ASSUME NEW d \in Stoppers, Shutdown(d) \/ Stopper(d)
      PROVE  UNCHANGED <<queue, task, ran, accepted>>
  BY <1>9 DEF Shutdown, Stopper, SetShutdown, WakeWorkers, WakeSubmitters, Join,
              accepted, queueVars
<1>10. CASE Spurious \/ UNCHANGED vars
  BY <1>10, <1>1 DEF Spurious, vars, queueVars, accepted
<1> QED
  BY <1>1, <1>2, <1>3, <1>4, <1>5, <1>6, <1>7, <1>8, <1>9, <1>10
     DEF Next, Submitter, Worker

\* PoolInv holds in every reachable state.
LEMMA PoolInvariant == Spec => []PoolInv
<1>1. PoolInv /\ [Next]_vars => PoolInv'
  BY NextControl, NextRunsOnce DEF PoolInv
<1> QED
  BY InitInv, <1>1, PTL DEF Spec

\* The queue holds tasks and never more than its capacity (BoundedQueue::push).
THEOREM PoolTypeCorrect == Spec => []TypeOK
<1>1. PoolInv => TypeOK
  BY DEF PoolInv
<1> QED
  BY PoolInvariant, <1>1, PTL

\* A task that submit accepted is in the queue, with a worker or done, once.
THEOREM EachTaskRunsOnce == Spec => []RunsOnce
<1>1. PoolInv => RunsOnce
  BY DEF PoolInv
<1> QED
  BY PoolInvariant, <1>1, PTL

\* When ThreadPool::shutdown has joined its workers, all accepted tasks are done.
THEOREM ShutdownDrains == Spec => []DrainedAtShutdown
<1>1. PoolInv => DrainedAtShutdown
  <2> SUFFICES ASSUME PoolInv, NEW d \in Stoppers, dpc[d] = "joined"
               PROVE  queue = <<>> /\ accepted = ran
    BY DEF DrainedAtShutdown
  <2>1. \A w \in Workers : wpc[w] = "ended" /\ task[w] = NoTask
    BY DEF PoolInv, JoinedOK, TaskOK
  <2>2. queue = <<>>
    BY <2>1, PoolAssumption DEF PoolAssumption, PoolInv, EndedOK
  <2>3. Range(queue) = {} /\ Range(task) \ {NoTask} = {}
    BY <2>1, <2>2 DEF PoolInv, TypeOK, Range
  <2> QED
    BY <2>2, <2>3 DEF PoolInv, RunsOnce
<1> QED
  BY PoolInvariant, <1>1, PTL

-----------------------------------------------------------------------------
(***************************************************************************)
(* Sequences.                                                              *)
(***************************************************************************)

\* Cutting a sequence in two and joining the pieces gives it back.
LEMMA CutAndJoin ==
  ASSUME NEW S, NEW s \in Seq(S), NEW n \in 0 .. Len(s)
  PROVE  /\ SubSeq(s, 1, n) \in Seq(S) /\ SubSeq(s, n + 1, Len(s)) \in Seq(S)
         /\ Len(SubSeq(s, 1, n)) = n /\ Len(SubSeq(s, n + 1, Len(s))) = Len(s) - n
         /\ SubSeq(s, 1, n) \o SubSeq(s, n + 1, Len(s)) = s
<1>1. Len(s) \in Nat /\ \A i \in 1 .. Len(s) : s[i] \in S
  OBVIOUS
<1>2. SubSeq(s, 1, n) \in Seq(S) /\ Len(SubSeq(s, 1, n)) = n
  OBVIOUS
<1>3. SubSeq(s, n + 1, Len(s)) \in Seq(S) /\ Len(SubSeq(s, n + 1, Len(s))) = Len(s) - n
  OBVIOUS
<1>4. SubSeq(s, 1, n) \o SubSeq(s, n + 1, Len(s)) = SubSeq(s, 1, Len(s))
  <2>1. 1 \in 1 .. Len(s) + 1 /\ n \in 1 - 1 .. Len(s) /\ Len(s) \in n .. Len(s)
    BY <1>1
  <2> QED
    BY <2>1, ConcatAdjacentSubSeq, Zenon
<1> QED
  BY <1>2, <1>3, <1>4, SubSeqFull

\* Concatenation, under a name that the provers do not look into.
Cat(a, b) == a \o b

LEMMA CatSeq ==
  ASSUME NEW S, NEW a \in Seq(S), NEW b \in Seq(S)
  PROVE  /\ Cat(a, b) \in Seq(S)
         /\ Len(Cat(a, b)) = Len(a) + Len(b)
         /\ \A i \in 1 .. Len(a) : Cat(a, b)[i] = a[i]
         /\ \A i \in 1 .. Len(b) : Cat(a, b)[Len(a) + i] = b[i]
BY DEF Cat

LEMMA CatEmpty ==
  ASSUME NEW S, NEW a \in Seq(S)
  PROVE  Cat(a, <<>>) = a /\ Cat(<<>>, a) = a
BY DEF Cat

LEMMA CatAssociative ==
  ASSUME NEW S, NEW a \in Seq(S), NEW b \in Seq(S), NEW c \in Seq(S)
  PROVE  Cat(Cat(a, b), c) = Cat(a, Cat(b, c))
BY ConcatAssociative DEF Cat

\* Bytes x that move from the front of Cat(x, y) to the end of a.
LEMMA MoveBytes ==
  ASSUME NEW S, NEW a \in Seq(S), NEW c \in Seq(S), NEW x \in Seq(S), NEW y \in Seq(S)
  PROVE  Cat(Cat(a, x), Cat(y, c)) = Cat(a, Cat(Cat(x, y), c))
<1>1. Cat(y, c) \in Seq(S)
  BY CatSeq
<1>2. Cat(Cat(a, x), Cat(y, c)) = Cat(a, Cat(x, Cat(y, c)))
  BY <1>1, CatAssociative
<1>3. Cat(x, Cat(y, c)) = Cat(Cat(x, y), c)
  BY CatAssociative
<1> QED
  BY <1>2, <1>3

\* The packet as a sequence of bytes.
LEMMA Encoded ==
  ASSUME NEW p \in Packets
  PROVE  /\ encode(p) \in Seq(Bytes)
         /\ Len(encode(p)) = HeaderSize + p.size
         /\ Len(encode(p)) > 0
         /\ \A i \in 1 .. Len(encode(p)) : encode(p)[i] = [id |-> p.id, size |-> p.size, at |-> i]
<1>1. HeaderSize \in Nat /\ HeaderSize > 0 /\ p.size \in Nat /\ p.size \in Sizes /\ p.id \in 1 .. MaxPackets
  BY StreamAssumption DEF Packets
<1> DEFINE n == HeaderSize + p.size
<1>2. n \in Nat /\ n > 0
  BY <1>1
<1>3. \A i \in 1 .. n : [id |-> p.id, size |-> p.size, at |-> i] \in Bytes
  BY <1>1, <1>2 DEF Bytes
<1>4. encode(p) \in [1 .. n -> Bytes]
  BY <1>3 DEF encode
<1> HIDE DEF n
<1>5. encode(p) \in Seq(Bytes) /\ Len(encode(p)) = n
  BY <1>2, <1>4
<1> QED
  BY <1>2, <1>5 DEF encode, n

-----------------------------------------------------------------------------
(***************************************************************************)
(* What happens to the bytes of the stream.                                *)
(***************************************************************************)

\* A part of a stream: t is s without its first d bytes, and perhaps shorter.
LEMMA PartOfBytes ==
  ASSUME NEW w \in Seq(Packets), NEW s \in Seq(Bytes), NEW t \in Seq(Bytes), NEW d \in Nat,
         Len(t) + d <= Len(s),
         \A i \in 1 .. Len(t) : t[i] = s[d + i],
         BytesOK(s, w)
  PROVE  BytesOK(t, w)
<1>1. \A i \in 1 .. Len(t) : d + i \in 1 .. Len(s)
  OBVIOUS
<1>2. ASSUME NEW i \in 1 .. Len(t)
      PROVE  /\ t[i].id \in 1 .. Len(w)
             /\ t[i].size = w[t[i].id].size
             /\ t[i].at \in 1 .. HeaderSize + t[i].size
  BY <1>1, <1>2 DEF BytesOK
<1>3. ASSUME NEW i \in 1 .. Len(t), NEW j \in 1 .. Len(t),
             i <= j, t[i].at + (j - i) <= HeaderSize + t[i].size
      PROVE  t[j] = Later(t[i], j - i)
  <2>1. d + i \in 1 .. Len(s) /\ d + j \in 1 .. Len(s) /\ d + i <= d + j /\ (d + j) - (d + i) = j - i
    BY <1>1, <1>3
  <2>2. t[i] = s[d + i] /\ t[j] = s[d + j]
    OBVIOUS
  <2> QED
    BY <1>3, <2>1, <2>2 DEF BytesOK
<1>4. ASSUME NEW i \in 1 .. Len(t) - 1, EndsPacket(t[i])
      PROVE  t[i + 1].at = 1 /\ t[i + 1].id = t[i].id + 1
  <2>1. d + i \in 1 .. Len(s) - 1 /\ (d + i) + 1 = d + (i + 1)
    OBVIOUS
  <2>2. t[i] = s[d + i] /\ t[i + 1] = s[(d + i) + 1]
    BY <2>1
  <2> QED
    BY <1>4, <2>1, <2>2 DEF BytesOK
<1> QED
  BY <1>2, <1>3, <1>4 DEF BytesOK

\* A packet behind a stream that ends with the packet before it.
LEMMA BytesAndPacket ==
  ASSUME NEW w \in Seq(Packets), NEW s \in Seq(Bytes), NEW p \in Packets,
         p.id = Len(w) + 1,
         BytesOK(s, w),
         Len(s) > 0 => EndsPacket(s[Len(s)]) /\ s[Len(s)].id = Len(w)
  PROVE  BytesOK(Cat(s, encode(p)), Append(w, p))
<1> DEFINE e == encode(p)
           t == Cat(s, e)
           v == Append(w, p)
<1>1. /\ HeaderSize \in Nat /\ p.size \in Nat
      /\ e \in Seq(Bytes) /\ Len(e) = HeaderSize + p.size /\ Len(e) > 0
      /\ \A i \in 1 .. Len(e) : e[i] = [id |-> p.id, size |-> p.size, at |-> i]
  BY Encoded, StreamAssumption DEF Packets
<1> HIDE DEF e
<1>0. /\ Len(s) \in Nat
      /\ \A i \in 1 .. Len(s) : s[i].at \in Nat /\ s[i].size \in Nat
  <2>1. Len(s) \in Nat /\ \A i \in 1 .. Len(s) : s[i] \in Bytes
    OBVIOUS
  <2>2. ASSUME NEW b \in Bytes
        PROVE  b.at \in Nat /\ b.size \in Nat
    BY StreamAssumption DEF Bytes
  <2> QED
    BY <2>1, <2>2
<1>2. /\ t \in Seq(Bytes) /\ Len(t) = Len(s) + Len(e)
      /\ \A i \in 1 .. Len(s) : t[i] = s[i]
      /\ \A i \in 1 .. Len(e) : t[Len(s) + i] = e[i]
  <2>1. s \in Seq(Bytes) /\ e \in Seq(Bytes)
    BY <1>1
  <2> HIDE DEF v
  <2>2. t \in Seq(Bytes) /\ Len(t) = Len(s) + Len(e)
    BY <2>1, CatSeq
  <2>3. \A i \in 1 .. Len(s) : t[i] = s[i]
    BY <2>1, CatSeq
  <2>4. ASSUME NEW i \in 1 .. Len(e)
        PROVE  t[Len(s) + i] = e[i]
    BY <2>1, CatSeq
  <2> QED
    BY <2>2, <2>3, <2>4
<1>3. Len(e) \in Nat /\ Len(t) = Len(s) + Len(e)
  BY <1>1, <1>2
<1>4. /\ Len(v) = Len(w) + 1 /\ v[Len(w) + 1] = p
      /\ \A i \in 1 .. Len(w) : v[i] = w[i]
  OBVIOUS
<1> HIDE DEF t, v
<1>5. \A i \in 1 .. Len(e) :
         /\ t[Len(s) + i].id = Len(w) + 1 /\ t[Len(s) + i].size = p.size
         /\ t[Len(s) + i].at = i
  <2> TAKE i \in 1 .. Len(e)
  <2>1. t[Len(s) + i] = e[i] /\ e[i] = [id |-> p.id, size |-> p.size, at |-> i]
    BY <1>1, <1>2
  <2> QED
    BY <2>1
<1>6. \A i \in 1 .. Len(t) : i \in 1 .. Len(s) \/ \E k \in 1 .. Len(e) : i = Len(s) + k
  <2> SUFFICES ASSUME NEW i \in 1 .. Len(t), i \notin 1 .. Len(s)
               PROVE  \E k \in 1 .. Len(e) : i = Len(s) + k
    OBVIOUS
  <2>1. i - Len(s) \in 1 .. Len(e) /\ i = Len(s) + (i - Len(s))
    BY <1>0, <1>3
  <2> QED
    BY <2>1
<1>7. ASSUME NEW i \in 1 .. Len(t)
      PROVE  /\ t[i].id \in 1 .. Len(v)
             /\ t[i].size = v[t[i].id].size
             /\ t[i].at \in 1 .. HeaderSize + t[i].size
  <2>1. CASE i \in 1 .. Len(s)
    <3>1. t[i] = s[i]
      BY <1>2, <2>1
    <3>2. /\ s[i].id \in 1 .. Len(w) /\ s[i].size = w[s[i].id].size
          /\ s[i].at \in 1 .. HeaderSize + s[i].size
      BY <2>1 DEF BytesOK
    <3>3. v[s[i].id] = w[s[i].id] /\ s[i].id \in 1 .. Len(v)
      BY <1>4, <3>2
    <3> QED
      BY <3>1, <3>2, <3>3
  <2>2. CASE i \notin 1 .. Len(s)
    <3>1. PICK k \in 1 .. Len(e) : i = Len(s) + k
      BY <1>6, <2>2
    <3>2. k \in 1 .. HeaderSize + p.size /\ Len(w) + 1 \in 1 .. Len(v)
      BY <1>1, <1>4
    <3>3. t[i].id = Len(w) + 1 /\ t[i].size = p.size /\ t[i].at = k
      BY <3>1, <1>5
    <3> QED
      BY <3>2, <3>3, <1>4
  <2> QED
    BY <2>1, <2>2
<1>8. ASSUME NEW i \in 1 .. Len(t), NEW j \in 1 .. Len(t),
             i <= j, t[i].at + (j - i) <= HeaderSize + t[i].size
      PROVE  t[j] = Later(t[i], j - i)
  <2>1. CASE j \in 1 .. Len(s)
    <3>1. i \in 1 .. Len(s)
      BY <1>0, <1>8, <2>1
    <3>2. t[i] = s[i] /\ t[j] = s[j]
      BY <1>2, <2>1, <3>1
    <3> QED
      BY <3>1, <3>2, <2>1, <1>8 DEF BytesOK
  <2>2. CASE i \in 1 .. Len(s) /\ j \notin 1 .. Len(s)
    <3>1. Len(s) \in 1 .. Len(s) /\ i <= Len(s) /\ j > Len(s)
      BY <2>2
    <3>2. s[i].at \in Nat /\ s[i].size \in Nat /\ t[i] = s[i]
      BY <2>2, <1>0, <1>2
    <3> DEFINE at == s[i].at
               last == HeaderSize + s[i].size
               near == Len(s) - i
               far == j - i
    <3>3. at + far <= last
      BY <1>8, <3>2
    <3>4. /\ at \in Nat /\ last \in Nat /\ near \in Int /\ far \in Int
          /\ near < far
      BY <1>0, <1>1, <3>1, <3>2
    <3> HIDE DEF at, last, near, far
    <3>5. at + near < last /\ at + near # last
      BY <3>3, <3>4
    <3>6. s[i].at + (Len(s) - i) <= HeaderSize + s[i].size
      BY <3>4, <3>5 DEF at, last, near
    <3>7. s[Len(s)] = Later(s[i], Len(s) - i)
      BY <2>2, <3>1, <3>6 DEF BytesOK
    <3>8. at + near = last
      BY <3>1, <3>7 DEF EndsPacket, Later, at, last, near
    <3> QED
      BY <3>5, <3>8
  <2>3. CASE i \notin 1 .. Len(s) /\ j \notin 1 .. Len(s)
    <3>1. PICK k \in 1 .. Len(e) : i = Len(s) + k
      BY <1>6, <2>3
    <3>2. PICK l \in 1 .. Len(e) : j = Len(s) + l
      BY <1>6, <2>3
    <3>3. t[j] = [id |-> p.id, size |-> p.size, at |-> l] /\ t[i] = [id |-> p.id, size |-> p.size, at |-> k]
      BY <1>1, <1>2, <3>1, <3>2
    <3>4. k + (j - i) = l
      BY <3>1, <3>2
    <3> QED
      BY <3>3, <3>4 DEF Later
  <2> QED
    BY <2>1, <2>2, <2>3
<1>9. ASSUME NEW i \in 1 .. Len(t) - 1, EndsPacket(t[i])
      PROVE  t[i + 1].at = 1 /\ t[i + 1].id = t[i].id + 1
  <2>1. CASE i \in 1 .. Len(s) - 1
    <3>1. i \in 1 .. Len(s) /\ i + 1 \in 1 .. Len(s)
      BY <1>0, <2>1
    <3>2. t[i] = s[i] /\ t[i + 1] = s[i + 1]
      BY <1>2, <3>1
    <3> QED
      BY <3>2, <2>1, <1>9 DEF BytesOK
  <2>2. CASE i = Len(s)
    <3>1. 1 \in 1 .. Len(e) /\ Len(s) \in 1 .. Len(s) /\ i + 1 = Len(s) + 1
      BY <1>0, <1>1, <1>3, <1>9, <2>2
    <3>2. t[Len(s) + 1].at = 1 /\ t[Len(s) + 1].id = Len(w) + 1
      BY <1>5, <3>1
    <3>3. t[i].id = Len(w)
      BY <1>2, <2>2, <3>1
    <3> QED
      BY <3>1, <3>2, <3>3
  <2>3. CASE i > Len(s)
    <3>1. i \in 1 .. Len(t) /\ i \notin 1 .. Len(s)
      BY <1>0, <1>3, <1>9, <2>3
    <3>2. PICK k \in 1 .. Len(e) : i = Len(s) + k
      BY <1>6, <3>1
    <3>3. k = Len(e)
      <4>1. t[i].size = p.size /\ t[i].at = k
        BY <1>5, <3>2
      <4> QED
        BY <1>1, <1>9, <4>1 DEF EndsPacket
    <3> QED
      BY <1>1, <1>2, <3>2, <3>3
  <2> QED
    BY <1>1, <1>2, <2>1, <2>2, <2>3
<1> QED
  BY <1>7, <1>8, <1>9 DEF BytesOK, t, v, e

-----------------------------------------------------------------------------
(***************************************************************************)
(* The invariant StreamInv.                                                *)
(***************************************************************************)

\* The stream starts with the bytes that the reader has.
LEMMA StreamBytes ==
  ASSUME StreamTypeOK
  PROVE  /\ stream \in Seq(Bytes)
         /\ stream = Cat(frame, Cat(wire, out))
         /\ Cat(wire, out) \in Seq(Bytes)
         /\ Len(stream) = Len(frame) + (Len(wire) + Len(out))
         /\ \A i \in 1 .. Len(frame) : stream[i] = frame[i]
<1>1. frame \in Seq(Bytes) /\ wire \in Seq(Bytes) /\ out \in Seq(Bytes)
  BY DEF StreamTypeOK
<1>2. stream = Cat(frame, Cat(wire, out))
  BY DEF stream, Cat
<1>3. Cat(wire, out) \in Seq(Bytes)
  BY <1>1, CatSeq
<1>4. Len(Cat(wire, out)) = Len(wire) + Len(out)
  BY <1>1, CatSeq
<1>5. Cat(frame, Cat(wire, out)) \in Seq(Bytes)
  BY <1>1, <1>3, CatSeq
<1>6. Len(Cat(frame, Cat(wire, out))) = Len(frame) + Len(Cat(wire, out))
  BY <1>1, <1>3, CatSeq
<1>7. \A i \in 1 .. Len(frame) : Cat(frame, Cat(wire, out))[i] = frame[i]
  BY <1>1, <1>3, CatSeq
<1> QED
  BY <1>2, <1>3, <1>4, <1>5, <1>6, <1>7

\* The frame is the first part of the packet that is delivered next.
LEMMA FrameOfPacket ==
  ASSUME StreamInv, Live, Len(frame) >= HeaderSize
  PROVE  /\ Len(delivered) + 1 \in 1 .. Len(written)
         /\ written[Len(delivered) + 1] \in Packets
         /\ written[Len(delivered) + 1].id = Len(delivered) + 1
         /\ written[Len(delivered) + 1].size = payloadSize(frame)
         /\ payloadSize(frame) \in Nat /\ payloadSize(frame) <= MaxPayload
         /\ \A i \in 1 .. Len(frame) :
               frame[i] = [id |-> Len(delivered) + 1, size |-> payloadSize(frame), at |-> i]
<1> DEFINE k == Len(delivered) + 1
           b == stream[1]
<1>1. /\ HeaderSize \in Nat /\ HeaderSize > 0 /\ MaxPayload \in Nat
      /\ StreamTypeOK /\ Numbered /\ FrameOK /\ BytesOK(stream, written)
      /\ Len(stream) > 0 => stream[1].at = 1 /\ stream[1].id = Len(delivered) + 1
  BY StreamAssumption DEF StreamInv, StreamOK
<1>2. /\ Len(frame) \in Nat /\ Len(wire) \in Nat /\ Len(out) \in Nat /\ Len(delivered) \in Nat
      /\ written \in Seq(Packets)
  BY <1>1 DEF StreamTypeOK
<1>3. /\ stream \in Seq(Bytes) /\ Len(stream) = Len(frame) + (Len(wire) + Len(out))
      /\ \A i \in 1 .. Len(frame) : stream[i] = frame[i]
  BY <1>1, StreamBytes
<1>4. Len(stream) \in Nat /\ Len(frame) <= Len(stream) /\ 1 \in 1 .. Len(stream)
  BY <1>1, <1>2, <1>3
<1> HIDE DEF b
<1>5. b.at = 1 /\ b.id = k
  BY <1>1, <1>4 DEF b
<1>6. k \in 1 .. Len(written) /\ b.size = written[k].size
  BY <1>1, <1>4, <1>5 DEF BytesOK, b
<1>7. written[k] \in Packets /\ written[k].id = k
  BY <1>1, <1>2, <1>6 DEF Numbered
<1>8. b.size \in Nat /\ b.size <= MaxPayload
  <2>1. ASSUME NEW q \in Packets
        PROVE  q.size \in Nat /\ q.size <= MaxPayload
    BY <1>1 DEF Packets
  <2> QED
    BY <1>6, <1>7, <2>1
<1>9. \A i \in 1 .. Len(frame) : i <= HeaderSize + b.size => frame[i] = [id |-> k, size |-> b.size, at |-> i]
  <2> SUFFICES ASSUME NEW i \in 1 .. Len(frame), i <= HeaderSize + b.size
               PROVE  frame[i] = [id |-> k, size |-> b.size, at |-> i]
    OBVIOUS
  <2>1. i \in 1 .. Len(stream) /\ 1 <= i /\ b.at + (i - 1) <= HeaderSize + b.size
    BY <1>2, <1>4, <1>5, <1>8
  <2>2. stream[i] = Later(b, i - 1)
    BY <1>1, <1>4, <2>1 DEF BytesOK, b
  <2> QED
    BY <1>2, <1>3, <1>5, <2>2 DEF Later
<1>10. payloadSize(frame) = b.size
  <2>1. HeaderSize \in 1 .. Len(frame) /\ HeaderSize <= HeaderSize + b.size
    BY <1>1, <1>2, <1>8
  <2>2. frame[HeaderSize] = [id |-> k, size |-> b.size, at |-> HeaderSize]
    BY <1>9, <2>1
  <2> QED
    BY <2>2 DEF payloadSize
<1>11. Len(frame) <= HeaderSize + b.size
  BY <1>1, <1>2, <1>8, <1>10 DEF FrameOK, Live
<1>12. \A i \in 1 .. Len(frame) : frame[i] = [id |-> k, size |-> b.size, at |-> i]
  BY <1>2, <1>8, <1>9, <1>11, <1>1
<1> QED
  BY <1>6, <1>7, <1>8, <1>10, <1>12

\* Reading and writing some bytes moves them within the stream.
LEMMA StreamStays ==
  ASSUME StreamInv, stream' = stream, UNCHANGED <<written, writer, reader, delivered>>
  PROVE  Numbered' /\ StreamOK'
<1>1. Numbered'
  BY DEF StreamInv, Numbered
<1>2. StreamOK
  BY DEF StreamInv
<1> QED
  BY <1>1, <1>2 DEF StreamOK, Live

LEMMA WriteSomeInvariant ==
  ASSUME StreamInv, WriteSome
  PROVE  StreamInv'
<1>1. StreamTypeOK /\ FrameOK /\ SocketCapacity \in Nat
  BY StreamAssumption DEF StreamInv
<1>2. frame \in Seq(Bytes) /\ wire \in Seq(Bytes) /\ out \in Seq(Bytes)
  BY <1>1 DEF StreamTypeOK
<1>3. PICK n \in 1 .. Len(out) :
         /\ Len(wire) + n <= SocketCapacity
         /\ wire' = wire \o SubSeq(out, 1, n)
         /\ out' = SubSeq(out, n + 1, Len(out))
  BY DEF WriteSome
<1>4. UNCHANGED <<written, writer, reader, frame, delivered>>
  BY DEF WriteSome
<1> DEFINE x == SubSeq(out, 1, n)
           y == SubSeq(out, n + 1, Len(out))
<1>5. n \in 0 .. Len(out)
  BY <1>2
<1>6. x \in Seq(Bytes) /\ y \in Seq(Bytes) /\ Len(x) = n /\ x \o y = out
  BY <1>2, <1>5, CutAndJoin
<1>7. wire' = Cat(wire, x) /\ out' = y /\ Cat(x, y) = out
  BY <1>3, <1>6 DEF Cat
<1> HIDE DEF x, y
<1>8. wire' \in Seq(Bytes)
  BY <1>2, <1>6, <1>7, CatSeq
<1>9. Len(wire') = Len(wire) + n
  BY <1>2, <1>6, <1>7, CatSeq
<1>10. StreamTypeOK'
  BY <1>1, <1>3, <1>4, <1>6, <1>7, <1>8, <1>9 DEF StreamTypeOK
<1>11. Cat(wire', out') = Cat(wire, out)
  BY <1>2, <1>6, <1>7, CatAssociative
<1>12. stream' = Cat(frame', Cat(wire', out')) /\ stream = Cat(frame, Cat(wire, out))
  BY DEF stream, Cat
<1>13. stream' = stream
  BY <1>4, <1>11, <1>12
<1>14. Numbered' /\ StreamOK'
  BY <1>4, <1>13, StreamStays
<1>15. FrameOK'
  BY <1>1, <1>4 DEF FrameOK
<1> QED
  BY <1>10, <1>14, <1>15 DEF StreamInv

LEMMA ReadSomeInvariant ==
  ASSUME StreamInv, ReadSome
  PROVE  StreamInv'
<1>1. StreamTypeOK /\ FrameOK /\ HeaderSize \in Nat /\ HeaderSize > 0 /\ MaxPayload \in Nat
  BY StreamAssumption DEF StreamInv
<1>2. /\ frame \in Seq(Bytes) /\ wire \in Seq(Bytes) /\ out \in Seq(Bytes)
      /\ Len(frame) \in Nat /\ Len(wire) \in Nat /\ Len(wire) <= SocketCapacity
  BY <1>1 DEF StreamTypeOK
<1>3. PICK n \in 1 .. Wanted :
         /\ n <= Len(wire)
         /\ frame' = frame \o SubSeq(wire, 1, n)
         /\ wire' = SubSeq(wire, n + 1, Len(wire))
  BY DEF ReadSome
<1>4. UNCHANGED <<written, out, writer, reader, delivered>>
  BY DEF ReadSome
<1> DEFINE x == SubSeq(wire, 1, n)
           y == SubSeq(wire, n + 1, Len(wire))
<1>5. Live
  BY <1>1, <1>3 DEF Wanted, Live, StreamTypeOK
<1>6. reader = "payload" => payloadSize(frame) \in Nat /\ payloadSize(frame) <= MaxPayload
  BY <1>1, <1>5, FrameOfPacket DEF FrameOK
<1>7. /\ n \in Nat /\ n \in 0 .. Len(wire)
      /\ reader = "header" => Len(frame) + n <= HeaderSize
      /\ reader = "payload" => Len(frame) + n <= HeaderSize + payloadSize(frame)
  BY <1>1, <1>2, <1>3, <1>5, <1>6 DEF Wanted, Live
<1>8. x \in Seq(Bytes) /\ y \in Seq(Bytes) /\ Len(x) = n /\ Len(y) = Len(wire) - n /\ x \o y = wire
  BY <1>2, <1>7, CutAndJoin
<1>9. frame' = Cat(frame, x) /\ wire' = y /\ Cat(x, y) = wire
  BY <1>3, <1>8 DEF Cat
<1> HIDE DEF x, y
<1>10. frame' \in Seq(Bytes)
  BY <1>2, <1>8, <1>9, CatSeq
<1>11. Len(frame') = Len(frame) + n
  BY <1>2, <1>8, <1>9, CatSeq
<1>12. \A i \in 1 .. Len(frame) : frame'[i] = frame[i]
  BY <1>2, <1>8, <1>9, CatSeq
<1>13. FrameOK'
  <2>1. reader = "payload" => payloadSize(frame)' = payloadSize(frame)
    BY <1>1, <1>2, <1>12 DEF payloadSize, FrameOK
  <2> QED
    BY <1>1, <1>2, <1>4, <1>6, <1>7, <1>11, <2>1 DEF FrameOK
<1>14. StreamTypeOK'
  <2>1. Len(frame') <= HeaderSize + MaxPayload
    BY <1>1, <1>2, <1>5, <1>6, <1>7, <1>11 DEF Live
  <2>2. Len(wire') <= SocketCapacity
    BY <1>2, <1>7, <1>8, <1>9, StreamAssumption
  <2> QED
    BY <1>1, <1>4, <1>8, <1>9, <1>10, <2>1, <2>2 DEF StreamTypeOK
<1>15. Cat(frame', Cat(wire', out')) = Cat(frame, Cat(wire, out))
  BY <1>2, <1>4, <1>8, <1>9, MoveBytes
<1>16. stream' = Cat(frame', Cat(wire', out')) /\ stream = Cat(frame, Cat(wire, out))
  BY DEF stream, Cat
<1>17. Numbered' /\ StreamOK'
  BY <1>4, <1>15, <1>16, StreamStays
<1> QED
  BY <1>13, <1>14, <1>17 DEF StreamInv

LEMMA HeaderReadInvariant ==
  ASSUME StreamInv, HeaderRead
  PROVE  StreamInv'
<1>1. StreamTypeOK /\ FrameOK /\ Numbered /\ StreamOK /\ HeaderSize \in Nat /\ MaxPayload \in Nat
  BY StreamAssumption DEF StreamInv
<1>2. CASE fail
  BY <1>1, <1>2 DEF fail, StreamInv, StreamTypeOK, FrameOK, Numbered, StreamOK, Live
<1>3. CASE reader' = "payload" /\ UNCHANGED <<written, out, wire, writer, frame, delivered>>
  <2>1. Len(frame) = HeaderSize /\ Live
    BY <1>1 DEF HeaderRead, Wanted, StreamTypeOK, Live
  <2>2. payloadSize(frame) \in Nat
    BY <1>1, <2>1, FrameOfPacket
  <2>3. FrameOK'
    BY <1>1, <1>3, <2>1, <2>2 DEF FrameOK, payloadSize
  <2>4. stream' = stream /\ Live'
    BY <1>3 DEF stream, Live
  <2>5. StreamOK'
    BY <1>1, <1>3, <2>1, <2>4 DEF StreamOK
  <2>6. StreamTypeOK' /\ Numbered'
    BY <1>1, <1>3 DEF StreamTypeOK, Numbered
  <2> QED
    BY <2>3, <2>5, <2>6 DEF StreamInv
<1> QED
  BY <1>2, <1>3 DEF HeaderRead

\* What readPacket returns is the next packet, whole.
LEMMA WholePacket ==
  ASSUME StreamInv, reader = "payload", Wanted = 0
  PROVE  /\ HeaderOK(frame)
         /\ Len(delivered) + 1 \in 1 .. Len(written)
         /\ Len(frame) = HeaderSize + payloadSize(frame)
         /\ payloadSize(frame) \in Nat
         /\ decode(frame) = whole(written[Len(delivered) + 1])
         /\ decode(frame) \in [id : 1 .. MaxPackets, size : Sizes, payload : Seq(Bytes)]
<1> DEFINE k == Len(delivered) + 1
           n == payloadSize(frame)
           q == written[k]
<1>1. /\ HeaderSize \in Nat /\ HeaderSize > 0
      /\ StreamTypeOK /\ FrameOK /\ Live /\ Len(frame) >= HeaderSize
  BY StreamAssumption DEF StreamInv, FrameOK, Live
<1>2. frame \in Seq(Bytes) /\ Len(frame) \in Nat
  BY <1>1 DEF StreamTypeOK
<1>3. /\ k \in 1 .. Len(written) /\ q \in Packets /\ q.id = k /\ q.size = n
      /\ n \in Nat
      /\ \A i \in 1 .. Len(frame) : frame[i] = [id |-> k, size |-> n, at |-> i]
  BY <1>1, FrameOfPacket
<1> HIDE DEF n, q, k
<1>4. Len(frame) = HeaderSize + n
  BY <1>1, <1>2, <1>3 DEF Wanted, FrameOK, n
<1>5. frame[1].id = k /\ \A i \in 1 .. HeaderSize : i \in 1 .. Len(frame)
  <2>1. 1 \in 1 .. Len(frame)
    BY <1>1, <1>2
  <2>2. frame[1] = [id |-> k, size |-> n, at |-> 1]
    BY <1>3, <2>1
  <2> QED
    BY <1>1, <1>2, <2>2
<1>6. HeaderOK(frame)
  BY <1>3, <1>5 DEF HeaderOK, n
<1>7. frame = encode(q)
  <2>1. encode(q) \in Seq(Bytes) /\ Len(encode(q)) = Len(frame)
    BY <1>3, <1>4, Encoded
  <2>2. \A i \in 1 .. Len(frame) : frame[i] = encode(q)[i]
    BY <1>3, <2>1, Encoded
  <2> QED
    BY <1>2, <2>1, <2>2, SeqEqual
<1>8. decode(frame) = whole(q)
  BY <1>3, <1>4, <1>5, <1>7 DEF decode, whole, n
<1>9. decode(frame) \in [id : 1 .. MaxPackets, size : Sizes, payload : Seq(Bytes)]
  <2>1. q.id \in 1 .. MaxPackets /\ q.size \in Sizes
    BY <1>3 DEF Packets
  <2>2. SubSeq(frame, HeaderSize + 1, Len(frame)) \in Seq(Bytes)
    BY <1>1, <1>2, <1>3, <1>4, CutAndJoin
  <2> QED
    BY <1>3, <1>5, <2>1, <2>2 DEF decode, n
<1> QED
  BY <1>3, <1>4, <1>6, <1>8, <1>9 DEF k, n, q

LEMMA PacketReadInvariant ==
  ASSUME StreamInv, PacketRead
  PROVE  StreamInv'
<1>1. /\ StreamTypeOK /\ FrameOK /\ Numbered /\ StreamOK /\ HeaderSize \in Nat /\ HeaderSize > 0
      /\ MaxPayload \in Nat
  BY StreamAssumption DEF StreamInv
<1>2. /\ HeaderOK(frame)
      /\ Len(delivered) + 1 \in 1 .. Len(written)
      /\ Len(frame) = HeaderSize + payloadSize(frame)
      /\ payloadSize(frame) \in Nat
      /\ decode(frame) \in [id : 1 .. MaxPackets, size : Sizes, payload : Seq(Bytes)]
  BY WholePacket DEF PacketRead
<1>3. /\ delivered' = Append(delivered, decode(frame))
      /\ frame' = <<>> /\ reader' = "header"
      /\ UNCHANGED <<written, out, wire, writer>>
  BY <1>2 DEF PacketRead
<1> DEFINE t == Cat(wire, out)
           n == Len(frame)
<1>4. /\ stream \in Seq(Bytes) /\ stream = Cat(frame, t) /\ t \in Seq(Bytes)
      /\ \A i \in 1 .. n : stream[i] = frame[i]
  BY <1>1, StreamBytes
<1>5. /\ frame \in Seq(Bytes) /\ n \in Nat /\ n > 0 /\ Len(t) \in Nat /\ Len(delivered) \in Nat
      /\ Len(delivered') = Len(delivered) + 1
  BY <1>1, <1>2, <1>3, <1>4 DEF StreamTypeOK
<1>6. Len(Cat(frame, t)) = n + Len(t)
  BY <1>4, <1>5, CatSeq
<1>7. \A i \in 1 .. Len(t) : Cat(frame, t)[n + i] = t[i]
  <2>1. frame \in Seq(Bytes) /\ t \in Seq(Bytes)
    BY <1>4, <1>5
  <2> QED
    BY <2>1, CatSeq
<1>8. stream' = t
  <2>1. stream' = Cat(<<>>, Cat(wire', out'))
    BY <1>3 DEF stream, Cat
  <2> QED
    BY <1>3, <1>4, <2>1, CatEmpty
<1> HIDE DEF t, n
<1>9. BytesOK(stream, written)
  BY <1>1 DEF StreamOK, PacketRead, Live
<1>10. BytesOK(t, written)
  <2>1. written \in Seq(Packets) /\ Len(t) + n <= Len(stream)
    BY <1>1, <1>4, <1>5, <1>6 DEF StreamTypeOK
  <2>2. \A i \in 1 .. Len(t) : t[i] = stream[n + i]
    BY <1>4, <1>7
  <2> QED
    BY <1>4, <1>5, <1>9, <2>1, <2>2, PartOfBytes
\* The last byte of the packet.
<1>11. n \in 1 .. Len(stream) /\ EndsPacket(stream[n]) /\ stream[n].id = Len(delivered')
  <2>1. n \in 1 .. n /\ n \in 1 .. Len(stream) /\ Live /\ n >= HeaderSize
    BY <1>1, <1>2, <1>4, <1>5, <1>6 DEF PacketRead, Live, n
  <2>2. frame[n] = [id |-> Len(delivered) + 1, size |-> payloadSize(frame), at |-> n]
    BY <2>1, FrameOfPacket DEF n
  <2>3. stream[n] = frame[n]
    BY <1>4, <2>1
  <2> QED
    BY <1>2, <1>5, <2>1, <2>2, <2>3 DEF EndsPacket, n
<1>12. Len(t) > 0 => t[1].at = 1 /\ t[1].id = Len(delivered') + 1
  <2> SUFFICES ASSUME Len(t) > 0
               PROVE  t[1].at = 1 /\ t[1].id = Len(delivered') + 1
    OBVIOUS
  <2>1. n \in 1 .. Len(stream) - 1 /\ t[1] = stream[n + 1]
    BY <1>4, <1>5, <1>6, <1>7
  <2> QED
    BY <1>9, <1>11, <2>1 DEF BytesOK
<1>13. writer = "open" => IF Len(t) = 0
                           THEN Len(delivered') = Len(written)
                           ELSE EndsPacket(t[Len(t)]) /\ t[Len(t)].id = Len(written)
  <2> SUFFICES ASSUME writer = "open"
               PROVE  IF Len(t) = 0
                        THEN Len(delivered') = Len(written)
                        ELSE EndsPacket(t[Len(t)]) /\ t[Len(t)].id = Len(written)
    OBVIOUS
  <2>1. Len(stream) > 0 /\ EndsPacket(stream[Len(stream)]) /\ stream[Len(stream)].id = Len(written)
    BY <1>1, <1>4, <1>5, <1>6 DEF StreamOK, Live, PacketRead
  <2>2. CASE Len(t) = 0
    BY <1>4, <1>5, <1>6, <1>11, <2>1, <2>2
  <2>3. CASE Len(t) # 0
    <3>1. Len(t) \in 1 .. Len(t) /\ Len(stream) = n + Len(t)
      BY <1>4, <1>5, <1>6, <2>3
    <3>2. t[Len(t)] = stream[Len(stream)]
      BY <1>4, <1>7, <3>1
    <3> QED
      BY <2>1, <2>3, <3>2
  <2> QED
    BY <2>2, <2>3
<1>14. StreamOK'
  BY <1>3, <1>8, <1>10, <1>12, <1>13 DEF StreamOK
<1>15. FrameOK' /\ Numbered'
  BY <1>1, <1>3 DEF FrameOK, Numbered
<1>16. StreamTypeOK'
  BY <1>1, <1>2, <1>3 DEF StreamTypeOK
<1> QED
  BY <1>14, <1>15, <1>16 DEF StreamInv

LEMMA WritePacketInvariant ==
  ASSUME StreamInv, WritePacket
  PROVE  StreamInv'
<1>1. /\ StreamTypeOK /\ FrameOK /\ Numbered /\ StreamOK /\ HeaderSize \in Nat /\ MaxPayload \in Nat
      /\ MaxPackets \in Nat /\ Sizes \subseteq Nat
  BY StreamAssumption DEF StreamInv
<1>2. /\ frame \in Seq(Bytes) /\ wire \in Seq(Bytes) /\ written \in Seq(Packets)
      /\ Len(written) \in Nat /\ Len(written) < MaxPackets /\ writer = "open" /\ out = <<>>
  BY <1>1 DEF StreamTypeOK, WritePacket
<1>3. PICK m \in Sizes :
         /\ m <= MaxPayload
         /\ written' = Append(written, [id |-> Len(written) + 1, size |-> m])
         /\ out' = encode([id |-> Len(written) + 1, size |-> m])
  BY DEF WritePacket
<1>4. UNCHANGED <<wire, writer, reader, frame, delivered>>
  BY DEF WritePacket
<1> DEFINE p == [id |-> Len(written) + 1, size |-> m]
           e == encode(p)
<1>5. p \in Packets /\ p.id = Len(written) + 1
  BY <1>1, <1>2, <1>3 DEF Packets
<1>6. /\ e \in Seq(Bytes) /\ Len(e) = HeaderSize + p.size /\ Len(e) > 0
      /\ \A i \in 1 .. Len(e) : e[i] = [id |-> p.id, size |-> p.size, at |-> i]
  BY <1>5, Encoded
<1>7. written' = Append(written, p) /\ out' = e
  BY <1>3
<1> HIDE DEF p, e
<1>8. /\ written' \in Seq(Packets) /\ Len(written') = Len(written) + 1
      /\ written'[Len(written) + 1] = p
      /\ \A i \in 1 .. Len(written) : written'[i] = written[i]
  BY <1>2, <1>5, <1>7
<1>9. StreamTypeOK' /\ FrameOK'
  BY <1>1, <1>4, <1>6, <1>7, <1>8 DEF StreamTypeOK, FrameOK, payloadSize
<1>10. Numbered'
  BY <1>1, <1>2, <1>5, <1>8 DEF Numbered
<1>11. stream \in Seq(Bytes) /\ stream = Cat(frame, wire) /\ stream' = Cat(stream, e)
  <2>1. stream = Cat(frame, Cat(wire, <<>>)) /\ stream' = Cat(frame, Cat(wire, e))
    BY <1>2, <1>4, <1>7 DEF stream, Cat
  <2>2. Cat(wire, <<>>) = wire
    BY <1>2, CatEmpty
  <2>3. Cat(Cat(frame, wire), e) = Cat(frame, Cat(wire, e))
    BY <1>2, <1>6, CatAssociative
  <2> QED
    BY <1>1, <2>1, <2>2, <2>3, StreamBytes
<1>12. ASSUME Live
       PROVE  /\ BytesOK(stream', written')
              /\ stream'[1].at = 1 /\ stream'[1].id = Len(delivered) + 1
              /\ Len(stream') > 0
              /\ EndsPacket(stream'[Len(stream')]) /\ stream'[Len(stream')].id = Len(written')
  <2>1. /\ BytesOK(stream, written)
        /\ Len(stream) > 0 => stream[1].at = 1 /\ stream[1].id = Len(delivered) + 1
        /\ Len(stream) = 0 => Len(delivered) = Len(written)
        /\ Len(stream) # 0 => EndsPacket(stream[Len(stream)]) /\ stream[Len(stream)].id = Len(written)
    BY <1>1, <1>2, <1>12 DEF StreamOK
  <2>2. BytesOK(stream', written')
    <3>1. Len(stream) > 0 => EndsPacket(stream[Len(stream)]) /\ stream[Len(stream)].id = Len(written)
      BY <2>1
    <3> QED
      BY <1>2, <1>5, <1>7, <1>11, <2>1, <3>1, BytesAndPacket DEF e
  <2>3. Len(stream') = Len(stream) + Len(e)
    BY <1>6, <1>11, CatSeq
  <2>4. /\ \A i \in 1 .. Len(stream) : stream'[i] = stream[i]
        /\ \A i \in 1 .. Len(e) : stream'[Len(stream) + i] = e[i]
    <3>1. stream \in Seq(Bytes) /\ e \in Seq(Bytes)
      BY <1>6, <1>11
    <3>2. \A i \in 1 .. Len(stream) : Cat(stream, e)[i] = stream[i]
      BY <3>1, CatSeq
    <3>3. \A i \in 1 .. Len(e) : Cat(stream, e)[Len(stream) + i] = e[i]
      BY <3>1, CatSeq
    <3> QED
      BY <1>11, <3>2, <3>3, Zenon
  <2>6. Len(stream) \in Nat /\ Len(e) \in Nat /\ 1 \in 1 .. Len(e) /\ Len(e) \in 1 .. Len(e)
    BY <1>6, <1>11
  <2>7. e[1] = [id |-> p.id, size |-> p.size, at |-> 1] /\ e[Len(e)] = [id |-> p.id, size |-> p.size, at |-> Len(e)]
    BY <1>6, <2>6
  <2>8. stream'[1].at = 1 /\ stream'[1].id = Len(delivered) + 1
    <3>1. CASE Len(stream) = 0
      <4>1. stream'[1] = e[1]
        BY <2>4, <2>6, <3>1
      <4> QED
        BY <1>5, <2>1, <2>7, <3>1, <4>1
    <3>2. CASE Len(stream) # 0
      BY <2>1, <2>4, <2>6, <3>2
    <3> QED
      BY <3>1, <3>2
  <2>9. EndsPacket(stream'[Len(stream')]) /\ stream'[Len(stream')].id = Len(written')
    <3>1. stream'[Len(stream')] = e[Len(e)]
      BY <2>3, <2>4, <2>6
    <3> QED
      BY <1>5, <1>6, <1>8, <2>7, <3>1 DEF EndsPacket
  <2> QED
    BY <1>6, <2>2, <2>3, <2>6, <2>8, <2>9
<1>13. StreamOK'
  BY <1>4, <1>12 DEF StreamOK, Live
<1> QED
  BY <1>9, <1>10, <1>13 DEF StreamInv

\* What the writer had not written yet is gone.
LEMMA WriterEndsInvariant ==
  ASSUME StreamInv, WriterEnds
  PROVE  StreamInv'
<1>1. StreamTypeOK /\ FrameOK /\ Numbered /\ StreamOK
  BY DEF StreamInv
<1>2. /\ writer' = "closed" /\ out' = <<>> /\ UNCHANGED <<written, wire, reader, frame, delivered>>
      /\ frame \in Seq(Bytes) /\ wire \in Seq(Bytes) /\ out \in Seq(Bytes) /\ written \in Seq(Packets)
  BY <1>1 DEF WriterEnds, StreamTypeOK
<1> DEFINE t == Cat(frame, wire)
<1>3. stream' = t
  <2>1. stream' = Cat(frame, Cat(wire, <<>>))
    BY <1>2 DEF stream, Cat
  <2> QED
    BY <1>2, <2>1, CatEmpty
<1>4. stream = Cat(t, out)
  BY <1>2, CatAssociative DEF stream, Cat
<1>5. t \in Seq(Bytes)
  BY <1>2, CatSeq
<1> HIDE DEF t
<1>6. Len(Cat(t, out)) = Len(t) + Len(out)
  BY <1>2, <1>5, CatSeq
<1>7. \A i \in 1 .. Len(t) : Cat(t, out)[i] = t[i]
  BY <1>2, <1>5, CatSeq
<1>8. ASSUME Live
      PROVE  BytesOK(t, written) /\ (Len(t) > 0 => t[1].at = 1 /\ t[1].id = Len(delivered) + 1)
  <2>1. /\ BytesOK(stream, written)
        /\ Len(stream) > 0 => stream[1].at = 1 /\ stream[1].id = Len(delivered) + 1
    BY <1>1, <1>8 DEF StreamOK
  <2>2. stream \in Seq(Bytes) /\ 0 \in Nat /\ Len(t) + 0 <= Len(stream) /\ Len(t) \in Nat
    BY <1>1, <1>2, <1>4, <1>5, <1>6, StreamBytes, SMTT(30)
  <2>3. \A i \in 1 .. Len(t) : t[i] = stream[0 + i]
    BY <1>4, <1>7
  <2>4. BytesOK(t, written)
    BY <1>2, <1>5, <2>1, <2>2, <2>3, PartOfBytes
  <2>5. Len(t) > 0 => Len(stream) > 0 /\ t[1] = stream[1]
    BY <2>2, <2>3
  <2> QED
    BY <2>1, <2>4, <2>5
<1>9. StreamOK'
  BY <1>2, <1>3, <1>8 DEF StreamOK, Live
<1> QED
  BY <1>1, <1>2, <1>9 DEF StreamInv, StreamTypeOK, FrameOK, Numbered, payloadSize

\* A reader that has ended or thrown promises nothing more.
LEMMA ReaderStopsInvariant ==
  ASSUME StreamInv, SocketClosed \/ ReaderEnds
  PROVE  StreamInv'
<1>1. StreamTypeOK /\ Numbered /\ HeaderSize \in Nat /\ MaxPayload \in Nat /\ SocketCapacity \in Nat
  BY StreamAssumption DEF StreamInv
<1>2. StreamTypeOK'
  <2>1. /\ <<>> \in Seq(Bytes) /\ Len(<<>>) <= SocketCapacity /\ Len(<<>>) <= HeaderSize + MaxPayload
    BY <1>1
  <2>2. CASE SocketClosed
    BY <1>1, <2>1, <2>2 DEF StreamTypeOK, SocketClosed, fail
  <2>3. CASE ReaderEnds
    BY <1>1, <2>1, <2>3 DEF StreamTypeOK, ReaderEnds
  <2> QED
    BY <2>2, <2>3
<1>3. Numbered' /\ FrameOK' /\ StreamOK'
  BY <1>1 DEF Numbered, FrameOK, StreamOK, Live, SocketClosed, ReaderEnds, fail
<1> QED
  BY <1>2, <1>3 DEF StreamInv

LEMMA StreamInvariant ==
  StreamSpec => []StreamInv
<1>1. StreamInit => StreamInv
  <2> SUFFICES ASSUME StreamInit
               PROVE  StreamInv
    OBVIOUS
  <2>1. StreamTypeOK /\ Numbered /\ FrameOK
    BY StreamAssumption DEF StreamInit, StreamTypeOK, Numbered, FrameOK
  <2>2. stream = <<>> /\ Len(delivered) = Len(written) /\ Len(stream) = 0
    BY DEF StreamInit, stream
  <2>3. BytesOK(stream, written)
    BY <2>2 DEF BytesOK
  <2> QED
    BY <2>1, <2>2, <2>3 DEF StreamInv, StreamOK
<1>2. StreamInv /\ [StreamNext]_streamVars => StreamInv'
  <2> SUFFICES ASSUME StreamInv, [StreamNext]_streamVars
               PROVE  StreamInv'
    OBVIOUS
  <2>1. CASE WritePacket
    BY <2>1, WritePacketInvariant
  <2>2. CASE WriteSome
    BY <2>2, WriteSomeInvariant
  <2>3. CASE WriterEnds
    BY <2>3, WriterEndsInvariant
  <2>4. CASE ReadSome
    BY <2>4, ReadSomeInvariant
  <2>5. CASE SocketClosed \/ ReaderEnds
    BY <2>5, ReaderStopsInvariant
  <2>6. CASE HeaderRead
    BY <2>6, HeaderReadInvariant
  <2>7. CASE PacketRead
    BY <2>7, PacketReadInvariant
  <2>8. CASE UNCHANGED streamVars
    BY <2>8 DEF streamVars, StreamInv, StreamTypeOK, Numbered, FrameOK, StreamOK, Live, stream, payloadSize
  <2> QED
    BY <2>1, <2>2, <2>3, <2>4, <2>5, <2>6, <2>7, <2>8 DEF StreamNext, Reader
<1> QED
  BY <1>1, <1>2, PTL DEF StreamSpec

-----------------------------------------------------------------------------
(***************************************************************************)
(* Channel.                                                                *)
(***************************************************************************)

\* The packets that were written, whole, when one more is written.
LEMMA SentOneMore ==
  ASSUME NEW p \in Packets, written \in Seq(Packets), written' = Append(written, p)
  PROVE  [i \in DOMAIN written |-> whole(written[i])]'
             = Append([i \in DOMAIN written |-> whole(written[i])], whole(p))
<1> DEFINE S == {whole(q) : q \in Packets}
           s == [i \in DOMAIN written |-> whole(written[i])]
           t == [i \in 1 .. Len(written) + 1 |-> whole(written'[i])]
<1>1. /\ Len(written) \in Nat /\ DOMAIN written = 1 .. Len(written)
      /\ \A i \in 1 .. Len(written) : written[i] \in Packets
      /\ DOMAIN written' = 1 .. Len(written) + 1
      /\ \A i \in 1 .. Len(written) : written'[i] = written[i]
      /\ written'[Len(written) + 1] = p
  OBVIOUS
<1> HIDE DEF S
<1>2. \A q \in Packets : whole(q) \in S
  BY DEF S
<1>3. s \in Seq(S) /\ Len(s) = Len(written)
  BY <1>1, <1>2
<1>4. Append(s, whole(p)) \in Seq(S) /\ Len(Append(s, whole(p))) = Len(written) + 1
  BY <1>1, <1>2, <1>3, AppendProperties
<1>5. \A i \in 1 .. Len(written) + 1 : t[i] \in S
  BY <1>1, <1>2
<1>6. t \in Seq(S) /\ Len(t) = Len(written) + 1
  BY <1>1, <1>5
<1>7. \A i \in 1 .. Len(t) : t[i] = Append(s, whole(p))[i]
  BY <1>1, <1>2, <1>3, <1>6, AppendProperties
<1>8. t = Append(s, whole(p))
  BY <1>4, <1>6, <1>7, SeqEqual
<1> QED
  BY <1>1, <1>8

\* PacketCodec::writePacket and readPacket over a socket are a channel: for any
\* header size, payload limit, socket capacity and payload sizes, however write
\* and read split the bytes and whenever one end goes away, readPacket returns
\* the packets that were written, whole, in order and none twice.
THEOREM StreamIsChannel == StreamSpec => IsChannel
<1>1. StreamInit => Connection!Init
  BY DEF StreamInit, Connection!Init
<1>2. StreamInv /\ [StreamNext]_streamVars => [Connection!Next]_<<[i \in DOMAIN written |-> whole(written[i])], delivered>>
  <2> SUFFICES ASSUME StreamInv, [StreamNext]_streamVars
               PROVE  [Connection!Next]_<<[i \in DOMAIN written |-> whole(written[i])], delivered>>
    OBVIOUS
  <2> DEFINE s == [i \in DOMAIN written |-> whole(written[i])]
  <2>1. StreamTypeOK
    BY DEF StreamInv
  <2>2. CASE WritePacket
    <3>1. PICK p \in Packets : written' = Append(written, p)
      <4>1. PICK m \in Sizes : m <= MaxPayload /\ written' = Append(written, [id |-> Len(written) + 1, size |-> m])
        BY <2>2 DEF WritePacket
      <4>2. Len(written) \in Nat /\ Len(written) < MaxPackets /\ MaxPackets \in Nat /\ m \in Nat /\ MaxPayload \in Nat
        BY <2>1, <2>2, StreamAssumption DEF WritePacket, StreamTypeOK
      <4>3. [id |-> Len(written) + 1, size |-> m] \in Packets
        BY <4>1, <4>2 DEF Packets
      <4> QED
        BY <4>1, <4>3
    <3>2. s' = Append(s, whole(p))
      BY <2>1, <3>1, SentOneMore DEF StreamTypeOK
    <3>3. Connection!Send
      BY <2>2, <3>2 DEF Connection!Send, WritePacket
    <3> QED
      BY <3>3 DEF Connection!Next
  <2>3. CASE PacketRead
    <3>1. /\ HeaderOK(frame) /\ Len(delivered) + 1 \in 1 .. Len(written)
          /\ decode(frame) = whole(written[Len(delivered) + 1])
      BY <2>3, WholePacket DEF PacketRead
    <3>2. delivered' = Append(delivered, whole(written[Len(delivered) + 1])) /\ written' = written
      BY <2>3, <3>1 DEF PacketRead
    <3>3. DOMAIN written = 1 .. Len(written) /\ Len(written) \in Nat /\ Len(delivered) \in Nat
      BY <2>1 DEF StreamTypeOK
    <3>4. Len(s) = Len(written) /\ s[Len(delivered) + 1] = whole(written[Len(delivered) + 1])
      BY <3>1, <3>3
    <3>5. Connection!Receive
      BY <3>1, <3>2, <3>3, <3>4 DEF Connection!Receive
    <3> QED
      BY <3>5 DEF Connection!Next
  <2>4. CASE WriteSome \/ WriterEnds \/ ReadSome \/ SocketClosed \/ HeaderRead \/ ReaderEnds \/ UNCHANGED streamVars
    <3>1. UNCHANGED <<written, delivered>>
      BY <2>4 DEF WriteSome, WriterEnds, ReadSome, SocketClosed, HeaderRead, ReaderEnds, fail, streamVars
    <3> QED
      BY <3>1
  <2> QED
    BY <2>2, <2>3, <2>4 DEF StreamNext, Reader
<1>3. StreamSpec => []StreamInv
  BY StreamInvariant
<1> QED
  BY <1>1, <1>2, <1>3, PTL DEF StreamSpec, IsChannel, Connection!Spec

-----------------------------------------------------------------------------
\* Every packet that writePacket accepts is one that readPacket accepts: for any
\* header size, payload limit and payload sizes, the limit itself included, the
\* checks of readPacket fail on no packet, so that a reader throws only when the
\* writing end went away.
THEOREM ReaderAcceptsWritten == StreamSpec => []ThrowsOnlyWhenCut
<1>1. StreamInit => ThrowsOnlyWhenCut
  BY DEF StreamInit, ThrowsOnlyWhenCut
<1>2. StreamInv /\ ThrowsOnlyWhenCut /\ [StreamNext]_streamVars => ThrowsOnlyWhenCut'
  <2> SUFFICES ASSUME StreamInv, ThrowsOnlyWhenCut, [StreamNext]_streamVars
               PROVE  ThrowsOnlyWhenCut'
    OBVIOUS
  <2>1. CASE HeaderRead
    <3>1. HeaderSize \in Nat /\ Len(frame) = HeaderSize /\ Live
      BY <2>1, StreamAssumption DEF HeaderRead, Wanted, StreamInv, StreamTypeOK, Live
    <3>2. payloadSize(frame) <= MaxPayload
      BY <3>1, FrameOfPacket
    <3> QED
      BY <2>1, <3>2 DEF HeaderRead, ThrowsOnlyWhenCut
  <2>2. CASE PacketRead
    BY <2>2, WholePacket DEF PacketRead, ThrowsOnlyWhenCut
  <2>3. CASE SocketClosed
    BY <2>3 DEF SocketClosed, fail, ThrowsOnlyWhenCut
  <2>4. CASE WritePacket \/ WriteSome \/ WriterEnds \/ ReadSome \/ ReaderEnds \/ UNCHANGED streamVars
    BY <2>4 DEF WritePacket, WriteSome, WriterEnds, ReadSome, ReaderEnds, streamVars, ThrowsOnlyWhenCut
  <2> QED
    BY <2>1, <2>2, <2>3, <2>4 DEF StreamNext, Reader
<1>3. StreamSpec => []StreamInv
  BY StreamInvariant
<1> QED
  BY <1>1, <1>2, <1>3, PTL DEF StreamSpec


-----------------------------------------------------------------------------
(***************************************************************************)
(* The two side by side.                                                   *)
(***************************************************************************)

\* A behaviour of the parts is one of the pool and one of the stream: a step of
\* one leaves what the other has.
THEOREM PartsApart == PartsSpec => Spec /\ StreamSpec
<1>1. PartsInit => Init /\ StreamInit
  BY DEF PartsInit
<1>2. [PoolNext \/ PacketsNext]_partsVars => [Next]_vars /\ [StreamNext]_streamVars
  <2>1. ASSUME PoolNext PROVE Next /\ UNCHANGED streamVars
    BY <2>1 DEF PoolNext, OnPool, Next, Submitter, Worker, Stopper
  <2>2. ASSUME PacketsNext PROVE StreamNext /\ UNCHANGED vars
    BY <2>2 DEF PacketsNext, OnPackets, StreamNext, Reader
  <2>3. ASSUME UNCHANGED partsVars PROVE UNCHANGED vars /\ UNCHANGED streamVars
    BY <2>3 DEF partsVars
  <2> QED
    BY <2>1, <2>2, <2>3
<1> QED
  BY <1>1, <1>2, PTL DEF PartsSpec, Spec, StreamSpec

\* ThreadPool, PacketCodec: every variable of the two holds what its readers expect.
THEOREM PartsTypeCorrect == PartsSpec => []PartsTypeOK
<1>1. StreamInv => StreamTypeOK
  BY DEF StreamInv
<1>2. TypeOK /\ StreamTypeOK => PartsTypeOK
  BY DEF PartsTypeOK
<1> QED
  BY <1>1, <1>2, PartsApart, PoolTypeCorrect, StreamInvariant, PTL
=============================================================================
