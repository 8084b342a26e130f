------------------------------ MODULE MCStorage ------------------------------
(***************************************************************************)
(* Small repositories for TLC, in three views that have no state in        *)
(* common: the way of the data (DataPath), what is on the disk when the    *)
(* power fails (PowerLoss), and the bytes of the log (WalFile).  A         *)
(* behaviour is one of the view it has chosen at its start.                *)
(***************************************************************************)
EXTENDS DataPath, PowerLoss, WalFile, TLC

CONSTANTS x, y, p1, p2, c1, c2

\* Files that are the same from a cut on, an empty file, and two equal files,
\* one of them below a directory that has the empty file's name.
MCPaths == << <<"a">>, <<"d">>, <<"d", "a">> >>
MCSources == {
    (<<"a">> :> <<x, y, x, x, x, y>>) @@ (<<"d">> :> <<>>),
    <<"a">> :> <<y, y, x, x, x, x, y>>,
    (<<"a">> :> <<x, y>>) @@ (<<"d", "a">> :> <<x, y>>) }

\* A boundary where the bytes have an odd number of y.
MCHits == {s \in UNION {[1 .. n -> {x, y}] : n \in 0 .. 7} :
              Cardinality({i \in DOMAIN s : s[i] = y}) % 2 = 1}

\* A source of one chunk, and one that shares it; all objects in one directory.
MCContents == {<<c1>>, <<c2, c1>>}
MCPrefix == (c1 :> "ab") @@ (c2 :> "ab")

VARIABLE subject

StorageInit ==
    /\ subject \in {"data", "power", "log"}
    /\ Init /\ PowerInit /\ WalInit

\* A step of one view: action by action, so that TLC counts each of them.
OnData == subject = "data" /\ UNCHANGED <<subject, powerVars, walVars>>
OnPower == subject = "power" /\ UNCHANGED <<subject, vars, walVars>>
OnLog == subject = "log" /\ UNCHANGED <<subject, vars, powerVars>>

DataSteps ==
    \/ \E m \in Modes : Begin("create", m) /\ OnData
    \/ Begin("upload", "fixed") /\ OnData
    \/ NextFile /\ OnData
    \/ CutFile /\ OnData
    \/ PutChunk /\ OnData
    \/ EndFile /\ OnData
    \/ EndCreate /\ OnData
    \/ PrepareFile /\ OnData
    \/ ReceiveChunk /\ OnData
    \/ ReceiveAgain /\ OnData
    \/ StopUpload /\ OnData
    \/ EndUpload /\ OnData
    \/ \E v \in Versions : StartRestore(v) /\ OnData
    \/ \E v \in Versions : RestoreUnreadable(v) /\ OnData
    \/ RestoreFile /\ OnData
    \/ RestoreFails /\ OnData
    \/ EndRestore /\ OnData
    \/ DamageObject /\ OnData
    \/ DamageText /\ OnData

PowerSteps ==
    \/ \E p \in Procs : StartCreate(p) /\ OnPower
    \/ \E p \in Procs : ObjectExists(p) /\ OnPower
    \/ \E p \in Procs : PutObject(p) /\ OnPower
    \/ \E p \in Procs : WriteTmp(p) /\ OnPower
    \/ \E p \in Procs : WriteScratch(p) /\ OnPower
    \/ \E p \in Procs : FsyncScratch(p) /\ OnPower
    \/ \E p \in Procs : RenameScratch(p) /\ OnPower
    \/ \E p \in Procs : FsyncParent(p) /\ OnPower
    \/ \E p \in Procs : PlaceManifest(p) /\ OnPower
    \/ \E p \in Procs : FsyncManifests(p) /\ OnPower
    \/ \E p \in Procs : Die(p) /\ OnPower
    \/ WriteBack /\ OnPower
    \/ Loss /\ OnPower

LogSteps ==
    \/ \E p \in Writers : OpenLog(p) /\ OnLog
    \/ \E p \in Writers : WriteRecord(p) /\ OnLog
    \/ \E p \in Writers : WriteCut(p) /\ OnLog
    \/ ReplaceWith /\ OnLog
    \/ AppendGarbage /\ OnLog

StorageNext == DataSteps \/ PowerSteps \/ LogSteps

StorageSpec == StorageInit /\ [][StorageNext]_<<subject, vars, powerVars, walVars>>

Symmetry == Permutations(Procs)

\* Every variable of the three holds what its readers expect.
StorageTypeOK == TypeOK /\ PowerTypeOK /\ WalTypeOK
=============================================================================
