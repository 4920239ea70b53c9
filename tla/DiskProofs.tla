----------------------------- MODULE DiskProofs -----------------------------
(***************************************************************************)
(* The temporary file, its sync and the rename make the chain file one     *)
(* atomic cell: for any number of versions, errors, kills and power losses *)
(* SaveInv is inductive, and Disk implements AtomicFile.                   *)
(***************************************************************************)
EXTENDS Disk, TLAPS

\* Before NewFileChainStorage there is no file and no chain in memory.
LEMMA InitSaveInv == Init => SaveInv
PROOF
  BY DiskAssumption
  DEF Init, SaveInv, TypeOK, Versions, Contents, NoFile, Missing, Torn

\* NewFileChainStorage starts.
LEMMA StartSaveInv ==
  ASSUME SaveInv, StartNew \/ StartLoad
  PROVE  SaveInv'
PROOF
  BY DiskAssumption
  DEF SaveInv, TypeOK, StartNew, StartLoad, ValidAt, Versions, Missing, Torn,
      disk, history, world

\* The calls that only touch the temporary file.
LEMMA TempSaveInv ==
  ASSUME SaveInv, (\E v \in Versions : Save(v)) \/ Create \/ Write \/ Sync
  PROVE  SaveInv'
PROOF
  <1> USE DEF SaveInv, TypeOK, disk, history, world
  <1>1. ASSUME NEW v \in Versions, Save(v) PROVE SaveInv'
    BY <1>1 DEF Save
  <1>2. CASE Create
    BY <1>2 DEF Create, Contents
  <1>3. CASE Write
    BY <1>3 DEF Write, Contents
  <1>4. CASE Sync
    BY <1>4 DEF Sync, Contents
  <1> QED BY <1>1, <1>2, <1>3, <1>4

\* The calls that touch the directory, and the end of the save.
LEMMA NameSaveInv ==
  ASSUME SaveInv, Rename \/ SyncDir \/ SyncDirFails \/ Commit
  PROVE  SaveInv'
PROOF
  <1> USE DEF SaveInv, TypeOK
  <1>1. CASE Rename
    <2>1. name' = [v |-> target, synced |-> TRUE] /\ kept' = kept \cup {name'}
      BY <1>1 DEF Rename
    <2>2. target > name.v /\ target \in Versions /\ name.v \in Int /\ target \in Int
      BY <1>1, DiskAssumption DEF Rename, Contents, Versions, Missing, Torn
    <2>3. \A f \in kept' : f.synced /\ f.v # Torn /\ flushed' <= f.v /\ f.v <= name'.v
      BY <1>1, <2>1, <2>2, DiskAssumption DEF Rename, Contents, Versions, Missing, Torn, history
    <2>4. acked' <= name'.v
      BY <1>1, <2>1, <2>2, DiskAssumption DEF Rename, history, Versions, Missing
    <2>5. name' \in Contents /\ kept' \subseteq Contents /\ tmp' \in Contents
      BY <1>1, <2>1, <2>2 DEF Rename, Contents, NoFile
    <2>6. TypeOK'
      BY <1>1, <2>5 DEF Rename, history, world
    <2>7. pc' = "syncdir" /\ name' \in kept' /\ name'.v = target'
      BY <1>1, <2>1 DEF Rename
    <2> QED BY <2>3, <2>4, <2>6, <2>7
  <1>2. CASE SyncDir
    BY <1>2, DiskAssumption DEF SyncDir, Contents, Versions, Missing, Torn, world
  <1>3. CASE SyncDirFails
    BY <1>3, DiskAssumption DEF SyncDirFails, Fault, disk, history
  <1>4. CASE Commit
    BY <1>4, DiskAssumption DEF Commit, disk, world, Versions
  <1> QED BY <1>1, <1>2, <1>3, <1>4

\* Errors, kills, power losses and the clock.
LEMMA FaultSaveInv ==
  ASSUME SaveInv, Fail \/ Kill \/ PowerLoss \/ Advance \/ \E t \in 0 .. MaxClock : SetBack(t)
  PROVE  SaveInv'
PROOF
  <1> USE DiskAssumption DEF SaveInv, TypeOK
  <1>1. CASE Fail
    BY <1>1 DEF Fail, Fault, disk, history, NoFile, Contents
  <1>2. CASE Kill
    BY <1>2 DEF Kill, Fault, disk, history, NoFile, Contents
  <1>3. CASE PowerLoss
    <2>1. PICK f \in kept : name' = [v |-> f.v, synced |-> TRUE]
      BY <1>3 DEF PowerLoss
    <2>2. f \in Contents /\ flushed <= f.v /\ f.v # Torn
      OBVIOUS
    <2>3. name' \in Contents /\ name'.v \in Versions \cup {Missing} /\ name'.synced /\ name'.v = f.v
      BY <2>1, <2>2 DEF Contents
    <2>4. Missing <= name'.v /\ name'.v <= name'.v
      BY <2>3 DEF Versions, Missing
    <2> QED BY <1>3, <2>2, <2>3, <2>4 DEF PowerLoss, Fault, NoFile, Contents
  <1>4. CASE Advance
    BY <1>4 DEF Advance, process, disk, history
  <1>5. ASSUME NEW t \in 0 .. MaxClock, SetBack(t) PROVE SaveInv'
    BY <1>5 DEF SetBack, process, disk, history
  <1> QED BY <1>1, <1>2, <1>3, <1>4, <1>5

\* SaveInv is inductive: saveUnlocked, the start, the faults and the clock preserve it.
LEMMA NextSaveInv ==
  ASSUME SaveInv, [Next]_vars
  PROVE  SaveInv'
PROOF
  <1>1. CASE UNCHANGED vars
    BY <1>1 DEF vars, process, disk, history, world, SaveInv, TypeOK
  <1> QED BY <1>1, StartSaveInv, TempSaveInv, NameSaveInv, FaultSaveInv DEF Next, Step

\* Every step of the save protocol keeps what the next one relies on.
THEOREM SaveIsOrdered == Spec => []SaveInv
PROOF
  BY InitSaveInv, NextSaveInv, PTL DEF Spec

\* Whenever the power fails, a whole chain is left, no older than the last flush; kills
\* and failed saves lose nothing.
THEOREM AlwaysRecoverable == Spec => []Recoverable
PROOF
  <1>1. SaveInv => Recoverable
    BY DEF SaveInv, Recoverable
  <1> QED BY <1>1, SaveIsOrdered, PTL

-----------------------------------------------------------------------------
(* The refinement *)

\* A rename is the cell's save, a directory's sync its flush; all else but a power
\* loss leaves the cell alone.
LEMMA StepRefines ==
  ASSUME SaveInv, SaveInv', [Next]_vars
  PROVE  [Atomic!Next]_(Atomic!vars)
PROOF
  <1>1. CASE UNCHANGED disk
    BY <1>1 DEF disk, Atomic!vars
  <1>2. CASE Rename
    <2>1. name'.v = target /\ target \in Versions /\ target > name.v
      BY <1>2 DEF Rename, SaveInv, TypeOK
    <2>2. {f.v : f \in kept'} = {f.v : f \in kept} \cup {target}
      BY <1>2, <2>1 DEF Rename
    <2> QED BY <2>1, <2>2 DEF Atomic!Next, Atomic!Save
  <1>3. CASE SyncDir
    BY <1>3 DEF SyncDir, Atomic!Next, Atomic!Flush
  <1>4. CASE PowerLoss
    <2>1. PICK f \in kept : name' = [v |-> f.v, synced |-> TRUE]
      BY <1>4 DEF PowerLoss, SaveInv
    <2>2. kept' = {name'} /\ name'.v = f.v
      BY <1>4, <2>1 DEF PowerLoss
    <2>3. {g.v : g \in kept'} = {f.v}
      BY <2>2
    <2>4. f.v \in {g.v : g \in kept}
      OBVIOUS
    <2> QED BY <2>2, <2>3, <2>4 DEF Atomic!Next, Atomic!Lose
  <1>5. \/ UNCHANGED disk \/ Rename \/ SyncDir \/ PowerLoss
    BY DEF Next, Step, StartNew, StartLoad, Create, Write, Sync, Commit, Save,
           SyncDirFails, Fail, Kill, Advance, SetBack, vars
  <1> QED BY <1>1, <1>2, <1>3, <1>4, <1>5

\* FileChainStorage's files implement the atomic cell.
THEOREM DiskImplementsAtomicFile == Spec => IsAtomic
PROOF
  <1>1. Init => Atomic!Init
    BY DEF Init, Atomic!Init, NoFile, Missing, Atomic!Missing
  <1> QED BY <1>1, StepRefines, SaveIsOrdered, PTL DEF Spec, IsAtomic, Atomic!Spec

=============================================================================
