----------------------------- MODULE ThreadPool -----------------------------
(***************************************************************************)
(* The server's ThreadPool and the BoundedQueue of tasks inside it.        *)
(*                                                                         *)
(* Threads submit tasks, the workers of the pool take them out of the      *)
(* queue and run them, and shutdown ends the workers.  The queue is a      *)
(* monitor: push, pop and the setting of shutdown_ run under one mutex,    *)
(* and each is one action here.  A thread waits on a condition variable by *)
(* being a member of it; a notification takes members out, and so does a   *)
(* spurious wakeup.  A woken thread tests its condition again.             *)
(***************************************************************************)
EXTENDS Naturals, Sequences, FiniteSets, Functions

CONSTANTS
    Tasks,       \* each is submitted at most once
    Endless,     \* tasks that need not end: connections whose client is idle
    Submitters,  \* threads that call submit
    Workers,     \* the pool's threads; the constructor starts at least one
    Stoppers,    \* threads that call shutdown, the pool's destructor included
    Capacity,    \* of the queue; the constructor makes it at least one
    NoTask

ASSUME PoolAssumption ==
    /\ Workers # {} /\ IsFiniteSet(Workers)
    /\ Capacity \in Nat \ {0}
    /\ Endless \subseteq Tasks
    /\ NoTask \notin Tasks

VARIABLES
    queue,
    shutdown_,   \* the queue's flag
    stopped_,    \* the pool's flag
    not_full,    \* threads that wait on the condition variable
    not_empty,
    spc,         \* a submitter: idle, or in push
    offer,       \* the task it submits
    wpc,         \* a worker: in pop, running a task, or ended
    task,        \* the task a worker runs
    dpc,         \* a stopper: the step of shutdown it makes next
    answer,      \* task -> what submit returned, "none" before it did
    ran          \* the tasks that have been run

queueVars == <<queue, shutdown_, not_full, not_empty>>
vars == <<queueVars, stopped_, spc, offer, wpc, task, dpc, answer, ran>>

TypeOK ==
    /\ queue \in Seq(Tasks) /\ Len(queue) <= Capacity
    /\ shutdown_ \in BOOLEAN
    /\ stopped_ \in BOOLEAN
    /\ not_full \subseteq Submitters
    /\ not_empty \subseteq Workers
    /\ spc \in [Submitters -> {"idle", "push"}]
    /\ offer \in [Submitters -> Tasks \cup {NoTask}]
    /\ wpc \in [Workers -> {"pop", "run", "ended"}]
    /\ task \in [Workers -> Tasks \cup {NoTask}]
    /\ dpc \in [Stoppers -> {"idle", "set", "wakeWorkers", "wakeSubmitters", "join",
                             "joined", "returned"}]
    /\ answer \in [Tasks -> {"none", "true", "false"}]
    /\ ran \subseteq Tasks

Init ==
    /\ queue = <<>>
    /\ shutdown_ = FALSE
    /\ stopped_ = FALSE
    /\ not_full = {}
    /\ not_empty = {}
    /\ spc = [s \in Submitters |-> "idle"]
    /\ offer = [s \in Submitters |-> NoTask]
    /\ wpc = [w \in Workers |-> "pop"]
    /\ task = [w \in Workers |-> NoTask]
    /\ dpc = [d \in Stoppers |-> "idle"]
    /\ answer = [t \in Tasks |-> "none"]
    /\ ran = {}

-----------------------------------------------------------------------------
\* notify_one: one of the waiting threads, if there is one.
NotifyOne(waiting, woken) ==
    \/ waiting = {} /\ woken = {}
    \/ \E x \in waiting : woken = waiting \ {x}

(***************************************************************************)
(* submit                                                                  *)
(***************************************************************************)
return(s, t, value) ==
    /\ answer' = [answer EXCEPT ![t] = value]
    /\ spc' = [spc EXCEPT ![s] = "idle"]
    /\ offer' = [offer EXCEPT ![s] = NoTask]

\* The pool's flag is read without the mutex, before push.
Submit(s, t) ==
    /\ spc[s] = "idle"
    /\ answer[t] = "none" /\ \A r \in Submitters : offer[r] # t
    /\ IF stopped_
         THEN return(s, t, "false")
         ELSE /\ spc' = [spc EXCEPT ![s] = "push"]
              /\ offer' = [offer EXCEPT ![s] = t]
              /\ UNCHANGED answer
    /\ UNCHANGED <<queueVars, stopped_, wpc, task, dpc, ran>>

\* In push, with the mutex: the wait's condition holds, or the thread waits.
Pushing(s) == spc[s] = "push" /\ s \notin not_full

PushRefused(s) ==
    /\ Pushing(s)
    /\ shutdown_
    /\ return(s, offer[s], "false")
    /\ UNCHANGED <<queueVars, stopped_, wpc, task, dpc, ran>>

\* Mutants: one task too many; notify only when the queue was empty.
PushOverfull(s) ==
    /\ Pushing(s)
    /\ ~ shutdown_ /\ Len(queue) <= Capacity
    /\ queue' = Append(queue, offer[s])
    /\ NotifyOne(not_empty, not_empty')
    /\ return(s, offer[s], "true")
    /\ UNCHANGED <<shutdown_, not_full, stopped_, wpc, task, dpc, ran>>

PushSparing(s) ==
    /\ Pushing(s)
    /\ ~ shutdown_ /\ Len(queue) < Capacity
    /\ queue' = Append(queue, offer[s])
    /\ IF queue = <<>> THEN NotifyOne(not_empty, not_empty') ELSE UNCHANGED not_empty
    /\ return(s, offer[s], "true")
    /\ UNCHANGED <<shutdown_, not_full, stopped_, wpc, task, dpc, ran>>

Push(s) ==
    /\ Pushing(s)
    /\ ~ shutdown_ /\ Len(queue) < Capacity
    /\ queue' = Append(queue, offer[s])
    /\ NotifyOne(not_empty, not_empty')
    /\ return(s, offer[s], "true")
    /\ UNCHANGED <<shutdown_, not_full, stopped_, wpc, task, dpc, ran>>

WaitNotFull(s) ==
    /\ Pushing(s)
    /\ ~ shutdown_ /\ Len(queue) >= Capacity
    /\ not_full' = not_full \cup {s}
    /\ UNCHANGED <<queue, shutdown_, not_empty, stopped_, spc, offer, wpc, task, dpc,
                   answer, ran>>

(***************************************************************************)
(* workerLoop                                                              *)
(***************************************************************************)
Popping(w) == wpc[w] = "pop" /\ w \notin not_empty

\* Mutants: front without pop_front; notify only when the queue was full.
PopKeeps(w) ==
    /\ Popping(w)
    /\ queue # <<>>
    /\ task' = [task EXCEPT ![w] = Head(queue)]
    /\ wpc' = [wpc EXCEPT ![w] = "run"]
    /\ UNCHANGED <<queueVars, stopped_, spc, offer, dpc, answer, ran>>

PopSparing(w) ==
    /\ Popping(w)
    /\ queue # <<>>
    /\ task' = [task EXCEPT ![w] = Head(queue)]
    /\ queue' = Tail(queue)
    /\ IF Len(queue) = Capacity THEN NotifyOne(not_full, not_full') ELSE UNCHANGED not_full
    /\ wpc' = [wpc EXCEPT ![w] = "run"]
    /\ UNCHANGED <<shutdown_, not_empty, stopped_, spc, offer, dpc, answer, ran>>

\* Tasks that are left at shutdown are still taken.
Pop(w) ==
    /\ Popping(w)
    /\ queue # <<>>
    /\ task' = [task EXCEPT ![w] = Head(queue)]
    /\ queue' = Tail(queue)
    /\ NotifyOne(not_full, not_full')
    /\ wpc' = [wpc EXCEPT ![w] = "run"]
    /\ UNCHANGED <<shutdown_, not_empty, stopped_, spc, offer, dpc, answer, ran>>

\* Mutant: shutdown alone ends a worker.
PopFailsAtShutdown(w) ==
    /\ Popping(w)
    /\ shutdown_
    /\ wpc' = [wpc EXCEPT ![w] = "ended"]
    /\ UNCHANGED <<queueVars, stopped_, spc, offer, task, dpc, answer, ran>>

PopFails(w) ==
    /\ Popping(w)
    /\ shutdown_ /\ queue = <<>>
    /\ wpc' = [wpc EXCEPT ![w] = "ended"]
    /\ UNCHANGED <<queueVars, stopped_, spc, offer, task, dpc, answer, ran>>

WaitNotEmpty(w) ==
    /\ Popping(w)
    /\ ~ shutdown_ /\ queue = <<>>
    /\ not_empty' = not_empty \cup {w}
    /\ UNCHANGED <<queue, shutdown_, not_full, stopped_, spc, offer, wpc, task, dpc,
                   answer, ran>>

\* The task returns.
EndTask(w) ==
    /\ wpc[w] = "run"
    /\ ran' = ran \cup {task[w]}
    /\ task' = [task EXCEPT ![w] = NoTask]
    /\ wpc' = [wpc EXCEPT ![w] = "pop"]
    /\ UNCHANGED <<queueVars, stopped_, spc, offer, dpc, answer>>

(***************************************************************************)
(* shutdown                                                                *)
(***************************************************************************)
step(d, l) == dpc' = [dpc EXCEPT ![d] = l]

\* Only the first caller goes on; another one returns at once.
Shutdown(d) ==
    /\ dpc[d] = "idle"
    /\ step(d, IF stopped_ THEN "returned" ELSE "set")
    /\ stopped_' = TRUE
    /\ UNCHANGED <<queueVars, spc, offer, wpc, task, answer, ran>>

SetShutdown(d) ==
    /\ dpc[d] = "set"
    /\ shutdown_' = TRUE
    /\ step(d, "wakeWorkers")
    /\ UNCHANGED <<queue, not_full, not_empty, stopped_, spc, offer, wpc, task, answer, ran>>

\* Mutant: notify_one for notify_all.
WakeOneWorker(d) ==
    /\ dpc[d] = "wakeWorkers"
    /\ NotifyOne(not_empty, not_empty')
    /\ step(d, "wakeSubmitters")
    /\ UNCHANGED <<queue, shutdown_, not_full, stopped_, spc, offer, wpc, task, answer, ran>>

WakeWorkers(d) ==
    /\ dpc[d] = "wakeWorkers"
    /\ not_empty' = {}
    /\ step(d, "wakeSubmitters")
    /\ UNCHANGED <<queue, shutdown_, not_full, stopped_, spc, offer, wpc, task, answer, ran>>

WakeSubmitters(d) ==
    /\ dpc[d] = "wakeSubmitters"
    /\ not_full' = {}
    /\ step(d, "join")
    /\ UNCHANGED <<queue, shutdown_, not_empty, stopped_, spc, offer, wpc, task, answer, ran>>

Join(d) ==
    /\ dpc[d] = "join"
    /\ \A w \in Workers : wpc[w] = "ended"
    /\ step(d, "joined")
    /\ UNCHANGED <<queueVars, stopped_, spc, offer, wpc, task, answer, ran>>

\* A thread wakes up although nobody has notified it.
Spurious ==
    /\ \/ \E s \in not_full : not_full' = not_full \ {s} /\ UNCHANGED not_empty
       \/ \E w \in not_empty : not_empty' = not_empty \ {w} /\ UNCHANGED not_full
    /\ UNCHANGED <<queue, shutdown_, stopped_, spc, offer, wpc, task, dpc, answer, ran>>

-----------------------------------------------------------------------------
Submitter(s) == PushRefused(s) \/ Push(s) \/ WaitNotFull(s)
Worker(w) == Pop(w) \/ PopFails(w) \/ WaitNotEmpty(w) \/ EndTask(w)
Stopper(d) == SetShutdown(d) \/ WakeWorkers(d) \/ WakeSubmitters(d) \/ Join(d)

Next ==
    \/ \E s \in Submitters : Submitter(s) \/ \E t \in Tasks : Submit(s, t)
    \/ \E w \in Workers : Worker(w)
    \/ \E d \in Stoppers : Stopper(d) \/ Shutdown(d)
    \/ Spurious

Spec == Init /\ [][Next]_vars

\* Threads that can go on do, and tasks end except for the endless ones.
FairSpec ==
    /\ Spec
    /\ \A s \in Submitters : WF_vars(Submitter(s))
    /\ \A w \in Workers : WF_vars(Worker(w) /\ task[w] \notin Endless)
    /\ \A d \in Stoppers : WF_vars(Stopper(d))

-----------------------------------------------------------------------------
(***************************************************************************)
(* Properties.                                                             *)
(***************************************************************************)
accepted == {t \in Tasks : answer[t] = "true"}

\* When shutdown has joined the workers, every task that submit accepted has
\* been run, also those that a submit pushed after the pool's flag was set.
DrainedAtShutdown ==
    \A d \in Stoppers : dpc[d] = "joined" => queue = <<>> /\ accepted = ran

\* A task that submit accepted is run once: it is in one place of the queue, or
\* with one worker, or has been run.
RunsOnce ==
    /\ IsInjective(queue)
    /\ \A w \in Workers : task[w] # NoTask =>
          /\ task[w] \notin ran \cup Range(queue)
          /\ \A v \in Workers : task[v] = task[w] => v = w
    /\ Range(queue) \cap ran = {}
    /\ accepted = ran \cup Range(queue) \cup (Range(task) \ {NoTask})

\* No wakeup is lost: with fewer idle connections than workers, every task that
\* was accepted gets a worker, and every submit that waits for room returns.
AcceptedStarts ==
    \A t \in Tasks : answer[t] = "true" ~> t \in ran \cup Range(task)
SubmitReturns == \A s \in Submitters : spc[s] = "push" ~> spc[s] = "idle"

\* shutdown returns, whatever sleeps when it is called, unless a worker is held
\* by a task that does not end.
ShutdownReturns ==
    \A d \in Stoppers :
        dpc[d] # "idle" ~> \/ dpc[d] \in {"joined", "returned"}
                          \/ Range(task) \cap Endless # {}

-----------------------------------------------------------------------------
(***************************************************************************)
(* The inductive invariant behind RunsOnce and DrainedAtShutdown.          *)
(***************************************************************************)

\* A task is offered by one submitter, which has had no answer yet.
OfferOK ==
    /\ \A s \in Submitters : spc[s] = "push" <=> offer[s] # NoTask
    /\ \A s \in Submitters : offer[s] # NoTask => answer[offer[s]] = "none"
    /\ \A r, s \in Submitters : offer[r] = offer[s] /\ offer[r] # NoTask => r = s

TaskOK == \A w \in Workers : wpc[w] = "run" <=> task[w] # NoTask

\* A worker ends when nothing can be pushed any more and nothing is left.
EndedOK == \A w \in Workers : wpc[w] = "ended" => shutdown_ /\ queue = <<>>

JoinedOK ==
    \A d \in Stoppers : dpc[d] = "joined" => \A w \in Workers : wpc[w] = "ended"

PoolInv == TypeOK /\ OfferOK /\ TaskOK /\ EndedOK /\ JoinedOK /\ RunsOnce
=============================================================================
