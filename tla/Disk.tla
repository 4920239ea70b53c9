-------------------------------- MODULE Disk --------------------------------
(***************************************************************************)
(* The chain file under FileChainStorage, system call by system call:      *)
(* saveUnlocked, the start that reads the file, errors of every call, a    *)
(* killed process and a power loss.                                        *)
(*                                                                         *)
(* A chain is its version: AddBlock and ReplaceChain only ever save a      *)
(* chain that is better than the live one, so versions grow, and the       *)
(* timestamp of version v's tip is v.  A file's data reaches the disk with *)
(* Sync, its name with the directory's Sync; until then a power loss may   *)
(* tear the one and take back the other.                                   *)
(***************************************************************************)
EXTENDS Integers

CONSTANTS
  MaxVersion,  \* bound on the versions
  Skew,        \* MaxFutureSkew: how far a tip may be ahead of the clock
  MaxClock,    \* bound on the clock
  MaxFaults    \* bound on errors, kills, power losses and clocks set back

ASSUME DiskAssumption ==
  /\ MaxVersion \in Nat /\ Skew \in Nat /\ MaxClock \in Nat /\ MaxFaults \in Nat
  /\ MaxVersion <= MaxClock + Skew

Missing  == -1
Torn     == -2
Versions == 0 .. MaxVersion  \* 0 is the genesis chain
Contents == [v : Versions \cup {Missing, Torn}, synced : BOOLEAN]
NoFile   == [v |-> Missing, synced |-> TRUE]

VARIABLES
  pc,       \* "down", "idle" or the system call saveUnlocked is about to make
  mem,      \* fs.chain; Missing before the first chain is in place
  target,   \* the chain being saved
  tmp,      \* the temporary file
  name,     \* the file under FilePath
  kept,     \* the files a power loss may leave there
  acked,    \* the last version whose save succeeded, since the last power loss
  flushed,  \* the last version under FilePath when the directory was synced
  now, faults

process == <<pc, mem, target, tmp>>
disk    == <<name, kept>>
history == <<acked, flushed>>
world   == <<now, faults>>
vars    == <<process, disk, history, world>>

TypeOK ==
  /\ pc \in {"down", "idle", "create", "write", "sync", "rename", "syncdir", "commit"}
  /\ mem \in Versions \cup {Missing} /\ target \in Versions
  /\ tmp \in Contents /\ name \in Contents /\ kept \subseteq Contents
  /\ acked \in Versions \cup {Missing} /\ flushed \in Versions \cup {Missing}
  /\ now \in 0 .. MaxClock /\ faults \in 0 .. MaxFaults

Init ==
  /\ pc = "down" /\ mem = Missing /\ target = 0 /\ tmp = NoFile
  /\ name = NoFile /\ kept = {NoFile}
  /\ acked = Missing /\ flushed = Missing
  /\ now = 0 /\ faults = 0

Fault == faults < MaxFaults /\ faults' = faults + 1 /\ UNCHANGED now

-----------------------------------------------------------------------------
(* NewFileChainStorage.  A file that it refuses stays as it is and the     *)
(* process ends: nothing changes.                                          *)

\* The checks a chain passes when it is saved and again when it is loaded.
ValidAt(v, t) == v \in Versions /\ v <= t + Skew

\* Variant with a fault: a chain that is refused is replaced by a new one.
StartNewOver ==
  /\ pc = "down" /\ ~ ValidAt(name.v, now)
  /\ target' = 0 /\ pc' = "create"
  /\ UNCHANGED <<mem, tmp, disk, history, world>>

\* Without a file the genesis chain is saved.
StartNew ==
  /\ pc = "down" /\ name.v = Missing
  /\ target' = 0 /\ pc' = "create"
  /\ UNCHANGED <<mem, tmp, disk, history, world>>

StartLoad ==
  /\ pc = "down" /\ ValidAt(name.v, now)
  /\ mem' = name.v /\ pc' = "idle"
  /\ UNCHANGED <<target, tmp, disk, history, world>>

-----------------------------------------------------------------------------
(* saveUnlocked *)

\* Variant with a fault: memory is ahead of the file.
SaveMemoryFirst(v) ==
  /\ pc = "idle" /\ v > mem /\ ValidAt(v, now)
  /\ target' = v /\ mem' = v /\ pc' = "create"
  /\ UNCHANGED <<tmp, disk, history, world>>

\* AddBlock or ReplaceChain with a valid chain that is better than fs.chain.
Save(v) ==
  /\ pc = "idle" /\ v > mem /\ ValidAt(v, now)
  /\ target' = v /\ pc' = "create"
  /\ UNCHANGED <<mem, tmp, disk, history, world>>

\* Variant with a fault: the file itself is opened and truncated.
CreateInPlace ==
  /\ pc = "create" /\ pc' = "write"
  /\ tmp' = [v |-> Torn, synced |-> FALSE]
  /\ name' = tmp' /\ kept' = kept \cup {tmp'}
  /\ UNCHANGED <<mem, target, history, world>>

\* os.CreateTemp: a name no other file has.
Create ==
  /\ pc = "create" /\ pc' = "write"
  /\ tmp' = [v |-> Torn, synced |-> FALSE]
  /\ UNCHANGED <<mem, target, disk, history, world>>

Write ==
  /\ pc = "write" /\ pc' = "sync"
  /\ tmp' = [tmp EXCEPT !.v = target]
  /\ UNCHANGED <<mem, target, disk, history, world>>

\* Variant with a fault: the data is left to the cache.
SyncSkipped ==
  /\ pc = "sync" /\ pc' = "rename"
  /\ UNCHANGED <<mem, target, tmp, disk, history, world>>

\* f.Sync, and f.Close.
Sync ==
  /\ pc = "sync" /\ pc' = "rename"
  /\ tmp' = [tmp EXCEPT !.synced = TRUE]
  /\ UNCHANGED <<mem, target, disk, history, world>>

\* Readers find the new file from here on; os.Remove will find nothing.
Rename ==
  /\ pc = "rename" /\ pc' = "syncdir"
  /\ name' = tmp /\ kept' = kept \cup {tmp}
  /\ tmp' = NoFile
  /\ UNCHANGED <<mem, target, history, world>>

SyncDir ==
  /\ pc = "syncdir" /\ pc' = "commit"
  /\ kept' = {name} /\ flushed' = name.v
  /\ UNCHANGED <<mem, target, tmp, name, acked, world>>

\* The directory cannot be opened or synced; the error is ignored.
SyncDirFails ==
  /\ pc = "syncdir" /\ pc' = "commit"
  /\ Fault
  /\ UNCHANGED <<mem, target, tmp, disk, history>>

\* fs.chain follows and the caller is told.
Commit ==
  /\ pc = "commit" /\ pc' = "idle"
  /\ mem' = target /\ acked' = target
  /\ UNCHANGED <<target, tmp, disk, flushed, world>>

\* Any earlier call fails: too large, no room, no rights.  The deferred Remove
\* takes the temporary file away; at the start there is no chain to go on with.
Fail ==
  /\ pc \in {"create", "write", "sync", "rename"}
  /\ pc' = IF mem = Missing THEN "down" ELSE "idle"
  /\ tmp' = NoFile
  /\ Fault
  /\ UNCHANGED <<mem, target, disk, history>>

-----------------------------------------------------------------------------
(* The machine *)

\* The kernel keeps what the process wrote; the temporary file is never used again.
Kill ==
  /\ pc # "down"
  /\ pc' = "down" /\ mem' = Missing /\ tmp' = NoFile
  /\ Fault
  /\ UNCHANGED <<target, disk, history>>

PowerLoss ==
  /\ \E f \in kept : \E v \in {f.v, Torn} :
       /\ f.synced => v = f.v
       /\ name' = [v |-> v, synced |-> TRUE]
  /\ kept' = {name'}
  /\ pc' = "down" /\ mem' = Missing /\ tmp' = NoFile
  /\ acked' = Missing
  /\ Fault
  /\ UNCHANGED <<target, flushed>>

Advance == now < MaxClock /\ now' = now + 1 /\ UNCHANGED <<process, disk, history, faults>>

SetBack(t) ==
  /\ t < now /\ now' = t
  /\ faults < MaxFaults /\ faults' = faults + 1
  /\ UNCHANGED <<process, disk, history>>

-----------------------------------------------------------------------------
Step ==
  \/ StartNew \/ StartLoad
  \/ Create \/ Write \/ Sync \/ Rename \/ SyncDir \/ Commit

Next ==
  \/ Step
  \/ \E v \in Versions : Save(v)
  \/ SyncDirFails \/ Fail \/ Kill \/ PowerLoss
  \/ Advance \/ \E t \in 0 .. MaxClock : SetBack(t)

Spec == Init /\ [][Next]_vars

\* The process runs and is started again when it has ended; the clock goes on.
FairSpec == Spec /\ WF_vars(Step) /\ WF_vars(Advance)

-----------------------------------------------------------------------------
(* Properties *)

\* Through the temporary file, its sync and the rename the chain file behaves as
\* one cell that is replaced in a single step, whatever fails on the way.
Atomic == INSTANCE AtomicFile WITH file <- name.v, kept <- {f.v : f \in kept}

IsAtomic == Atomic!Spec

\* A power loss at any moment leaves a whole chain that is no older than the last
\* one for which the directory's sync succeeded.  A kill loses no chain whose save was
\* reported as done, and a save that fails half way leaves memory and file in agreement.
Recoverable ==
  /\ \A f \in kept \cup {name} : f.v # Torn /\ f.v >= flushed
  /\ acked <= name.v
  /\ pc = "idle" => mem = name.v

\* What saveUnlocked relies on from call to call, and what a start finds: the file and
\* all that a power loss may leave are whole, and the chain being saved is later.
SaveInv ==
  /\ TypeOK
  /\ name \in kept /\ acked <= name.v
  /\ \A f \in kept : f.synced /\ f.v # Torn /\ flushed <= f.v /\ f.v <= name.v
  /\ pc = "down" => mem = Missing
  /\ pc \in {"idle", "create", "write", "sync", "rename"} => mem = name.v
  /\ pc \in {"create", "write", "sync", "rename"} => target > name.v
  /\ pc = "sync" => tmp.v = target
  /\ pc = "rename" => tmp = [v |-> target, synced |-> TRUE]
  /\ pc \in {"syncdir", "commit"} => name.v = target

\* The node comes back from kills, power losses and failed saves, and from a clock
\* that was set back behind the tip, as soon as the clock has caught up.
StartsAgain == (pc = "down") ~> (pc = "idle")

=============================================================================
