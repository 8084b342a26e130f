---------------------------- MODULE StorageProofs ----------------------------
(***************************************************************************)
(* The three views of what is stored side by side, as the run has them: a  *)
(* behaviour of MCStorage is one of each, so that what is proved of a view *)
(* holds of it, and it is well-typed throughout.                           *)
(***************************************************************************)
EXTENDS MCStorage, DataPathProofs, PowerLossProofs, WalFileProofs

\* A step of one view leaves what the others have.
THEOREM ViewsApart == StorageSpec => Spec /\ PowerSpec /\ WalSpec
<1>1. StorageInit => Init /\ PowerInit /\ WalInit
  BY DEF StorageInit
<1>2. [StorageNext]_<<subject, vars, powerVars, walVars>> =>
         [Next]_vars /\ [PowerNext]_powerVars /\ [WalNext]_walVars
  <2>1. ASSUME DataSteps PROVE Next /\ UNCHANGED <<powerVars, walVars>>
    BY <2>1 DEF DataSteps, OnData, Next
  <2>2. ASSUME PowerSteps PROVE PowerNext /\ UNCHANGED <<vars, walVars>>
    BY <2>2 DEF PowerSteps, OnPower, PowerNext, Create
  <2>3. ASSUME LogSteps PROVE WalNext /\ UNCHANGED <<vars, powerVars>>
    BY <2>3 DEF LogSteps, OnLog, WalNext
  <2> QED
    BY <2>1, <2>2, <2>3 DEF StorageNext
<1> QED
  BY <1>1, <1>2, PTL DEF StorageSpec, Spec, PowerSpec, WalSpec

\* Every variable of the three views holds what its readers expect.
THEOREM StorageTypeCorrect == StorageSpec => []StorageTypeOK
<1>1. TypeOK /\ PowerTypeOK /\ WalTypeOK => StorageTypeOK
  BY DEF StorageTypeOK
<1> QED
  BY <1>1, ViewsApart, DataPathTypes, PowerTypeCorrect, WalTypes, PTL
=============================================================================
