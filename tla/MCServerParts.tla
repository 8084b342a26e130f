---------------------------- MODULE MCServerParts ----------------------------
(***************************************************************************)
(* Small instances for TLC of the two parts that UploadServer takes for    *)
(* granted, and that have no state in common: the pool that runs the       *)
(* handlers (ThreadPool) and the stream that carries the packets           *)
(* (PacketStream).  A behaviour is one of the part it has chosen at its    *)
(* start.                                                                  *)
(***************************************************************************)
EXTENDS ThreadPool, PacketStream

CONSTANTS t1, t2, t3, t4, s1, s2, w1, w2, d1, d2

VARIABLE subject

partsVars == <<subject, vars, streamVars>>

PartsInit ==
    /\ subject \in {"pool", "packets"}
    /\ Init /\ StreamInit

\* A step of one part: action by action, so that TLC counts each of them.
OnPool == subject = "pool" /\ UNCHANGED <<subject, streamVars>>
OnPackets == subject = "packets" /\ UNCHANGED <<subject, vars>>

PoolNext ==
    \/ \E s \in Submitters, t \in Tasks : Submit(s, t) /\ OnPool
    \/ \E s \in Submitters : PushRefused(s) /\ OnPool
    \/ \E s \in Submitters : Push(s) /\ OnPool
    \/ \E s \in Submitters : WaitNotFull(s) /\ OnPool
    \/ \E w \in Workers : Pop(w) /\ OnPool
    \/ \E w \in Workers : PopFails(w) /\ OnPool
    \/ \E w \in Workers : WaitNotEmpty(w) /\ OnPool
    \/ \E w \in Workers : EndTask(w) /\ OnPool
    \/ \E d \in Stoppers : Shutdown(d) /\ OnPool
    \/ \E d \in Stoppers : SetShutdown(d) /\ OnPool
    \/ \E d \in Stoppers : WakeWorkers(d) /\ OnPool
    \/ \E d \in Stoppers : WakeSubmitters(d) /\ OnPool
    \/ \E d \in Stoppers : Join(d) /\ OnPool
    \/ Spurious /\ OnPool

PacketsNext ==
    \/ WritePacket /\ OnPackets
    \/ WriteSome /\ OnPackets
    \/ WriterEnds /\ OnPackets
    \/ ReadSome /\ OnPackets
    \/ SocketClosed /\ OnPackets
    \/ HeaderRead /\ OnPackets
    \/ PacketRead /\ OnPackets
    \/ ReaderEnds /\ OnPackets

\* The fairness of the two specifications.
PartsSpec ==
    /\ PartsInit /\ [][PoolNext \/ PacketsNext]_partsVars
    /\ \A s \in Submitters : WF_partsVars(Submitter(s) /\ OnPool)
    /\ \A w \in Workers : WF_partsVars(Worker(w) /\ task[w] \notin Endless /\ OnPool)
    /\ \A d \in Stoppers : WF_partsVars(Stopper(d) /\ OnPool)
    /\ WF_partsVars(WriteSome /\ OnPackets)
    /\ WF_partsVars(Reader /\ OnPackets)

\* Every variable of the two holds what its readers expect.
PartsTypeOK == TypeOK /\ StreamTypeOK
=============================================================================
