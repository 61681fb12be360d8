----------------------------- MODULE ConfigStore -----------------------------
(***************************************************************************)
(* The configuration store of internal/store/config.go: a document in       *)
(* memory, its file, and the change counter clients poll.  A change is      *)
(* made under the write lock: the new document replaces the one in memory,  *)
(* is written to a temporary file, synced, closed and renamed over the old  *)
(* file, and any step may fail, in which case the old document comes back.  *)
(* The process may be killed between any two of these steps and the power   *)
(* may fail; OpenConfig then starts from what it finds.                     *)
(*                                                                          *)
(* A watcher is a client of the state stream (getEvents in                  *)
(* internal/api/api.go): it reads the counter without the lock, and sends   *)
(* a snapshot, read under the lock, when the counter has moved.             *)
(***************************************************************************)
EXTENDS Integers

CONSTANTS
  NumFields, Values,    \* the documents, and
  FirstFiles, Backups,  \* where they come from: see ConfigRegister
  Watchers,             \* clients of the state stream
  MaxCalls,             \* bound: calls of Update and ReplaceRaw
  MaxFaults             \* bound: failing steps, kills and power cuts

VARIABLES
  file,      \* what config.json holds
  older,     \* what a power cut may bring back
  tmp,       \* the temporary file of save
  proc,      \* "down", "opening" in OpenConfig, "up"
  cfg,       \* s.cfg
  prev,      \* the local prev of the change in progress
  step,      \* what save does next, "done" before the unlock, "none" unlocked
  rev,       \* s.rev
  watch,     \* per watcher its loop, the last counter and document sent
  calls,     \* counts towards MaxCalls
  faults     \* counts towards MaxFaults

disk   == <<file, older>>
memory == <<cfg, prev>>
bounds == <<calls, faults>>
vars   == <<disk, tmp, proc, memory, step, rev, watch, bounds>>

\* The promise this module keeps, and the vocabulary both are written in.
Register == INSTANCE ConfigRegister WITH stored <- file, serving <- (proc = "up")

Fields     == Register!Fields
Documents  == Register!Documents
Files      == Register!Files
NoFile     == Register!NoFile
Torn       == Register!Torn
Valid(d)   == Register!Valid(d)
Opens(x)   == Register!Opens(x)
Opened(x)  == Register!Opened(x)
Migrate(d) == Register!Migrate(d)

ASSUME Parameters ==
  /\ NumFields \in Nat
  /\ {Register!Missing, Register!Default, Register!Refused} \cap Values = {}
  /\ FirstFiles \subseteq Documents \cup {NoFile}
  /\ Backups \subseteq Documents
  /\ MaxCalls \in Nat /\ MaxFaults \in Nat

\* Documents come from this program or an earlier one, which wrote every field
\* it knew.
ASSUME WrittenByIt ==
  \A d \in (FirstFiles \cup Backups) \ {NoFile} :
    \A f \in Fields : f < d.version => d.fields[f] # Register!Missing

NoTmp   == [data |-> NoFile, synced |-> FALSE]
Offline == [at |-> "off", rev |-> 0, doc |-> NoFile]

SaveSteps == {"create", "write", "sync", "close", "rename"}

Init ==
  /\ file \in FirstFiles /\ older = {} /\ tmp = NoTmp
  /\ proc = "down" /\ cfg = NoFile /\ prev = NoFile /\ step = "none" /\ rev = 0
  /\ watch = [w \in Watchers |-> Offline]
  /\ calls = 0 /\ faults = 0

-----------------------------------------------------------------------------
(* Changes.  Both take the write lock with the new document in place; one   *)
(* that is refused leaves everything alone.                                 *)

Change(next) ==
  /\ proc = "up" /\ step = "none" /\ calls < MaxCalls
  /\ prev' = cfg /\ cfg' = next
  /\ step' = "create"
  /\ calls' = calls + 1
  /\ UNCHANGED <<disk, tmp, proc, rev, watch, faults>>

Update(f, v) ==
  LET next == Register!SetField(cfg, f, v) IN
  /\ Valid(next)
  /\ Change(next)

\* The backup is migrated, parsed and checked before the lock is taken, from
\* nothing but the request.
ReplaceRaw(raw) == Opens(raw) /\ Change(Migrate(raw))

-----------------------------------------------------------------------------
(* save, for OpenConfig, Update and ReplaceRaw.                             *)

SaveStep(from, to, t) ==
  /\ step = from
  /\ step' = to
  /\ tmp' = t
  /\ UNCHANGED <<disk, proc, memory, rev, watch, bounds>>

CreateTemp == SaveStep("create", "write", [data |-> Torn, synced |-> FALSE])

\* A slip: the file is renamed without a sync.
WriteUnsynced == SaveStep("write", "close", [tmp EXCEPT !.data = cfg])

WriteTemp == SaveStep("write", "sync", [tmp EXCEPT !.data = cfg])
SyncTemp == SaveStep("sync", "close", [tmp EXCEPT !.synced = TRUE])
CloseTemp == SaveStep("close", "rename", tmp)

\* The rename is whole for every process; a power cut may undo it, and finds
\* only the blocks that were synced.
Rename ==
  /\ step = "rename"
  /\ file' = tmp.data
  /\ older' = older \cup {file} \cup (IF tmp.synced THEN {} ELSE {Torn})
  /\ tmp' = NoTmp
  /\ step' = "done"
  /\ UNCHANGED <<proc, memory, rev, watch, bounds>>

\* The counter moves before the lock is given back; OpenConfig has none to move.
Finish ==
  /\ step = "done"
  /\ step' = "none"
  /\ proc' = "up"
  /\ rev' = IF proc = "up" THEN rev + 1 ELSE rev
  /\ prev' = NoFile
  /\ UNCHANGED <<disk, tmp, cfg, watch, bounds>>

\* A slip: the document in memory is not rolled back.
SaveFailsInMemory ==
  /\ step \in SaveSteps /\ faults < MaxFaults
  /\ faults' = faults + 1
  /\ tmp' = NoTmp
  /\ prev' = NoFile
  /\ step' = "none"
  /\ proc' = IF proc = "up" THEN "up" ELSE "down"
  /\ UNCHANGED <<disk, cfg, rev, watch, calls>>

\* A step fails: the temporary file is removed and the caller goes back to the
\* document before; OpenConfig gives up, and the process with it.
SaveFails ==
  /\ step \in SaveSteps /\ faults < MaxFaults
  /\ faults' = faults + 1
  /\ tmp' = NoTmp
  /\ cfg' = prev /\ prev' = NoFile
  /\ step' = "none"
  /\ proc' = IF proc = "up" THEN "up" ELSE "down"
  /\ UNCHANGED <<disk, rev, watch, calls>>

-----------------------------------------------------------------------------
(* Start and end of the process.                                            *)

\* A slip: a file that cannot be used counts as missing.
OpenOrReset ==
  /\ proc = "down"
  /\ cfg' = (IF Opens(file) THEN Opened(file) ELSE Register!Factory) /\ prev' = NoFile
  /\ IF Opens(file) /\ Opened(file) = file
     THEN proc' = "up" /\ step' = "none"
     ELSE proc' = "opening" /\ step' = "create"
  /\ rev' = 0
  /\ UNCHANGED <<disk, tmp, watch, bounds>>

\* A file of another version is migrated and saved, a missing one is created;
\* one that is newer or not valid ends the start here.
OpenConfig ==
  /\ proc = "down" /\ Opens(file)
  /\ cfg' = Opened(file) /\ prev' = NoFile
  /\ IF Opened(file) = file
     THEN proc' = "up" /\ step' = "none"
     ELSE proc' = "opening" /\ step' = "create"
  /\ rev' = 0
  /\ UNCHANGED <<disk, tmp, watch, bounds>>

Gone ==
  /\ faults < MaxFaults /\ faults' = faults + 1
  /\ proc' = "down" /\ cfg' = NoFile /\ prev' = NoFile /\ step' = "none" /\ rev' = 0
  /\ tmp' = NoTmp
  /\ watch' = [w \in Watchers |-> Offline]
  /\ UNCHANGED calls

Kill == proc # "down" /\ Gone /\ UNCHANGED disk

PowerCut == Gone /\ file' \in older \cup {file} /\ older' = {}

\* The system writes the directory back some time after a rename.
Settle ==
  /\ older # {} /\ older' = {}
  /\ UNCHANGED <<file, tmp, proc, memory, step, rev, watch, bounds>>

-----------------------------------------------------------------------------
(* The state stream.  A tick that finds the counter where it was may still  *)
(* send, every five seconds it does.                                        *)

Watcher(w, next) ==
  /\ watch' = [watch EXCEPT ![w] = next]
  /\ UNCHANGED <<disk, tmp, proc, memory, step, rev, bounds>>

\* A slip: the counter before the current one, so that the first look differs.
FingerprintBehind(w) ==
  /\ proc = "up" /\ watch[w].at # "send"
  /\ Watcher(w, [watch[w] EXCEPT !.at = "send", !.rev = rev - 1])

Fingerprint(w) ==
  /\ proc = "up" /\ watch[w].at # "send"
  /\ Watcher(w, [watch[w] EXCEPT !.at = "send", !.rev = rev])

\* A slip: the document is read without the lock.
SendUnlocked(w) ==
  /\ watch[w].at = "send"
  /\ Watcher(w, [watch[w] EXCEPT !.at = "idle", !.doc = cfg])

Send(w) ==
  /\ watch[w].at = "send" /\ step = "none"
  /\ Watcher(w, [watch[w] EXCEPT !.at = "idle", !.doc = cfg])

Leave(w) == watch[w].at = "idle" /\ Watcher(w, Offline)

Next ==
  \/ \E f \in Fields, v \in Values \cup {Register!Refused} : Update(f, v)
  \/ \E raw \in Backups : ReplaceRaw(raw)
  \/ CreateTemp \/ WriteTemp \/ SyncTemp \/ CloseTemp \/ Rename \/ Finish \/ SaveFails
  \/ OpenConfig \/ Kill \/ PowerCut \/ Settle
  \/ \E w \in Watchers : Fingerprint(w) \/ Send(w) \/ Leave(w)

Spec == Init /\ [][Next]_vars

-----------------------------------------------------------------------------
(* Properties.                                                              *)

TypeOK ==
  /\ file \in Files /\ older \subseteq Files
  /\ tmp \in [data : Files, synced : BOOLEAN]
  /\ proc \in {"down", "opening", "up"}
  /\ cfg \in Files /\ prev \in Files
  /\ step \in SaveSteps \cup {"done", "none"}
  /\ rev \in Nat
  /\ watch \in [Watchers -> [at : {"off", "idle", "send"}, rev : Nat, doc : Files]]
  /\ calls \in Nat /\ faults \in Nat

\* Whenever the lock is free the document every handler reads is the one a
\* restart would load: a change is in both or, if it failed, in neither.
MemoryIsFile == proc = "up" /\ step = "none" => cfg = file

\* A configuration the daemon can start with is never followed by one it
\* cannot, whatever step is interrupted by a kill or a power cut.
NeverBricked == [][Opens(file) => Opens(file')]_vars

\* No setting is served as a zero because the document is older than it: the
\* migration runs at every way in, also after a start that was cut off before
\* the migrated document was saved.
ServedComplete ==
  proc = "up" /\ step = "none" => \A f \in Fields : cfg.fields[f] # Register!Missing

\* A client of the stream that has sent for the current counter has sent the
\* current document, although it reads the two at different times and the
\* counter without the lock.
WatcherFresh ==
  \A w \in Watchers :
    proc = "up" /\ step = "none" /\ watch[w].at = "idle" /\ watch[w].rev = rev
      => watch[w].doc = cfg

\* To everyone else the store is one document that is changed at once: no change
\* is lost to another, none is undone by a kill, and what cannot be opened is
\* left as it is.
IsRegister == Register!Spec
=============================================================================
