------------------------- MODULE ConfigStoreProofs -------------------------
(* What holds of the configuration store for any number of fields, values,  *)
(* backups and watchers.                                                    *)
EXTENDS ConfigStore, TLAPS

-----------------------------------------------------------------------------
(* Documents.                                                               *)

\* A document the daemon can serve as it is.
Ready(d) == d \in Documents /\ d.version = Register!Current /\ Valid(d)

\* Absence and a torn file are told from documents by their version.
LEMMA NotDocuments ==
  /\ NoFile \in Files /\ NoFile.version = 0
  /\ Torn \in Files /\ Torn.version = -1
BY DEF NoFile, Torn, Files, Register!NoFile, Register!Torn, Register!Files

\* Versions are counted from 1, and the last is that of the program.
LEMMA Versions ==
  /\ Register!Current \in Nat \ {0}
  /\ \A f \in Fields : f \in Nat /\ f < Register!Current
BY Parameters DEF Fields, Register!Fields, Register!Current

\* What OpenConfig makes of a file it can use is ready.
LEMMA OpenedIsReady ==
  ASSUME NEW x \in Files, Opens(x)
  PROVE  Ready(Opened(x))
<1>1. CASE x = NoFile
  <2>1. Opened(x) = Register!Factory
    BY <1>1 DEF Opened, Register!Opened, NoFile
  <2>2. Register!Factory \in Documents /\ Register!Factory.version = Register!Current
    BY Versions DEF Documents, Register!Documents, Register!Contents, Register!Factory
  <2>3. Valid(Register!Factory)
    BY DEF Valid, Register!Valid, Register!Factory, Register!Default, Register!Refused
  <2>4. QED
    BY <2>1, <2>2, <2>3 DEF Ready
<1>2. CASE x # NoFile
  <2>1. Opened(x) = Register!Migrate(x) /\ Valid(Opened(x)) /\ x.version \in 1 .. Register!Current
    BY <1>2 DEF Opened, Register!Opened, NoFile, Opens, Register!Opens, Valid
  <2>2. x \in Documents
    BY <1>2, <2>1, NotDocuments DEF Files, Register!Files, Documents, NoFile, Torn
  <2>3. Register!Migrate(x) \in Documents /\ Register!Migrate(x).version = Register!Current
    BY <2>2, Versions
    DEF Documents, Register!Documents, Register!Contents, Register!Migrate, Fields
  <2>4. QED
    BY <2>1, <2>3 DEF Ready
<1>3. QED
  BY <1>1, <1>2

\* A document that is ready opens, and as itself.
LEMMA ReadyOpens ==
  ASSUME NEW d, Ready(d)
  PROVE  d \in Files /\ Opens(d) /\ Opened(d) = d /\ d # NoFile
<1>1. d \in Files /\ d # NoFile
  BY NotDocuments, Versions DEF Ready, Documents, Files, Register!Files
<1>2. Register!Migrate(d) = d
  <2>1. \A f \in Register!Fields : ~(f >= d.version)
    BY Versions DEF Ready, Fields
  <2>2. d = [version |-> d.version, fields |-> d.fields]
        /\ d.fields = [f \in Register!Fields |-> d.fields[f]]
    BY DEF Ready, Documents, Register!Documents, Register!Contents
  <2>3. Register!Migrate(d)
        = [version |-> Register!Current, fields |-> [f \in Register!Fields |-> d.fields[f]]]
    BY <2>1 DEF Register!Migrate
  <2>4. QED
    BY <2>2, <2>3 DEF Ready
<1>3. Opens(d)
  BY <1>2, Versions DEF Ready, Opens, Register!Opens, Valid
<1>4. Opened(d) = d
  BY <1>1, <1>2 DEF Opened, Register!Opened, NoFile
<1>5. QED
  BY <1>1, <1>3, <1>4

\* Setting a field leaves a document a document of its version, and a value
\* Validate refuses is not let through.
LEMMA SetFieldFacts ==
  ASSUME NEW d, Ready(d), NEW f \in Fields, NEW v \in Values \cup {Register!Refused},
         Valid(Register!SetField(d, f, v))
  PROVE  Ready(Register!SetField(d, f, v)) /\ v \in Values
<1> DEFINE e == Register!SetField(d, f, v)
<1>1. /\ d.fields \in [Register!Fields -> Values \cup {Register!Missing, Register!Default, Register!Refused}]
      /\ d \in Register!Documents /\ d.version = Register!Current
  BY DEF Ready, Documents, Register!Documents, Register!Contents
<1>2. e = [d EXCEPT !.fields = [d.fields EXCEPT ![f] = v]] /\ f \in Register!Fields
  BY DEF Register!SetField, Fields
<1>3. e \in Documents /\ e.version = Register!Current /\ e.fields[f] = v
  BY <1>1, <1>2 DEF Documents, Register!Documents, Register!Contents
<1>4. v # Register!Refused
  BY <1>2, <1>3 DEF Valid, Register!Valid
<1>5. QED
  BY <1>3, <1>4 DEF Ready

-----------------------------------------------------------------------------
(* The inductive invariant.  MemoryIsFile speaks of states in which the     *)
(* lock is free; what a failing, killed or finished save leaves follows     *)
(* from what is known of the two documents while it is under way.           *)

\* What a call may make of document d.
Changed(d, e) ==
  \/ \E f \in Fields, v \in Values :
       Valid(Register!SetField(d, f, v)) /\ e = Register!SetField(d, f, v)
  \/ \E raw \in Backups : Opens(raw) /\ e = Migrate(raw)

PhaseInv ==
  /\ proc = "down" => step = "none"
  /\ proc = "opening" => step # "none"
  /\ proc # "down" => Ready(cfg)
  /\ proc = "up" => Ready(file)

SaveInv ==
  /\ step \in SaveSteps /\ proc = "up" => prev = file /\ Changed(file, cfg)
  /\ step \in SaveSteps /\ proc = "opening" => Opens(file) /\ cfg = Opened(file)
  /\ step \notin SaveSteps /\ proc # "down" => cfg = file
  /\ step \in {"sync", "close", "rename"} => tmp.data = cfg
  /\ step \in {"close", "rename"} => tmp.synced

DiskInv ==
  /\ \A x \in older : Opens(x)
  /\ Opens(file) \/ older = {}

IInv == TypeOK /\ PhaseInv /\ SaveInv /\ DiskInv

\* Nothing runs and nothing was renamed yet.
LEMMA InitIInv == Init => IInv
<1> SUFFICES ASSUME Init PROVE IInv
  OBVIOUS
<1>1. file \in Files
  BY Parameters, NotDocuments DEF Init, Files, Register!Files, Documents
<1>2. TypeOK
  BY <1>1, NotDocuments DEF Init, TypeOK, NoTmp, Offline
<1>3. PhaseInv /\ SaveInv /\ DiskInv
  BY DEF Init, PhaseInv, SaveInv, DiskInv, SaveSteps
<1>4. QED
  BY <1>2, <1>3 DEF IInv

\* A change begins from the document that is stored.
LEMMA ChangeIInv ==
  ASSUME IInv, NEW next, Ready(next), Changed(cfg, next), Change(next)
  PROVE  IInv'
<1> USE DEF IInv, Change, disk, bounds
<1>1. next \in Files
  BY ReadyOpens
<1>2. TypeOK'
  BY <1>1 DEF TypeOK, SaveSteps
<1>3. PhaseInv'
  BY DEF PhaseInv, Ready, Valid, Documents
<1>4. SaveInv'
  <2>1. cfg = file
    BY DEF SaveInv, SaveSteps
  <2>2. step' = "create" /\ proc' = "up" /\ prev' = file' /\ cfg' = next /\ file' = file
    BY <2>1
  <2>3. Changed(file', cfg')
    BY <2>1, <2>2
  <2>4. QED
    BY <2>2, <2>3 DEF SaveInv, SaveSteps
<1>5. DiskInv'
  BY DEF DiskInv
<1>6. QED
  BY <1>2, <1>3, <1>4, <1>5

\* A step of save before the rename touches nothing but the temporary file.
LEMMA SaveStepIInv ==
  ASSUME IInv, NEW from \in SaveSteps, NEW to \in SaveSteps,
         NEW t \in [data : Files, synced : BOOLEAN], SaveStep(from, to, t),
         to \in {"sync", "close", "rename"} => t.data = cfg,
         to \in {"close", "rename"} => t.synced
  PROVE  IInv'
<1> USE DEF IInv, SaveStep, disk, memory, bounds
<1>1. TypeOK'
  BY DEF TypeOK
<1>2. PhaseInv'
  BY DEF PhaseInv, SaveSteps
<1>3. SaveInv'
  BY DEF SaveInv, SaveSteps
<1>4. DiskInv'
  BY DEF DiskInv
<1>5. QED
  BY <1>1, <1>2, <1>3, <1>4

\* Every step keeps the invariant.
LEMMA NextIInv == IInv /\ [Next]_vars => IInv'
<1> SUFFICES ASSUME IInv, [Next]_vars PROVE IInv'
  OBVIOUS
<1> USE DEF IInv
<1>1. ASSUME NEW f \in Fields, NEW v \in Values \cup {Register!Refused}, Update(f, v)
      PROVE  IInv'
  <2>1. Ready(cfg)
    BY <1>1 DEF Update, Change, PhaseInv
  <2>2. Ready(Register!SetField(cfg, f, v)) /\ v \in Values
    BY <1>1, <2>1, SetFieldFacts DEF Update
  <2>3. Changed(cfg, Register!SetField(cfg, f, v))
    BY <1>1, <2>2 DEF Changed, Update
  <2>4. QED
    BY <1>1, <2>2, <2>3, ChangeIInv DEF Update
<1>2. ASSUME NEW raw \in Backups, ReplaceRaw(raw)
      PROVE  IInv'
  <2>1. raw \in Files /\ raw # NoFile
    BY Parameters, NotDocuments DEF Files, Register!Files, Documents, Register!Documents, Register!Contents
  <2>2. Migrate(raw) = Opened(raw)
    BY <2>1 DEF Migrate, Opened, Register!Opened, NoFile
  <2>3. Ready(Migrate(raw))
    BY <1>2, <2>1, <2>2, OpenedIsReady DEF ReplaceRaw
  <2>4. Changed(cfg, Migrate(raw))
    BY <1>2 DEF Changed, ReplaceRaw
  <2>5. QED
    BY <1>2, <2>3, <2>4, ChangeIInv DEF ReplaceRaw
<1>3. CASE CreateTemp
  <2>1. [data |-> Torn, synced |-> FALSE] \in [data : Files, synced : BOOLEAN]
    BY NotDocuments
  <2>2. QED
    BY <1>3, <2>1, SaveStepIInv DEF CreateTemp, SaveSteps
<1>4. CASE WriteTemp
  <2>1. /\ [tmp EXCEPT !.data = cfg] \in [data : Files, synced : BOOLEAN]
        /\ [tmp EXCEPT !.data = cfg].data = cfg
    BY DEF TypeOK
  <2>2. QED
    BY <1>4, <2>1, SaveStepIInv DEF WriteTemp, SaveSteps
<1>5. CASE SyncTemp
  <2>1. /\ [tmp EXCEPT !.synced = TRUE] \in [data : Files, synced : BOOLEAN]
        /\ [tmp EXCEPT !.synced = TRUE].data = cfg /\ [tmp EXCEPT !.synced = TRUE].synced
    BY <1>5 DEF TypeOK, SyncTemp, SaveStep, SaveInv
  <2>2. QED
    BY <1>5, <2>1, SaveStepIInv DEF SyncTemp, SaveSteps
<1>6. CASE CloseTemp
  <2>1. tmp \in [data : Files, synced : BOOLEAN] /\ tmp.data = cfg /\ tmp.synced
    BY <1>6 DEF TypeOK, CloseTemp, SaveStep, SaveInv
  <2>2. QED
    BY <1>6, <2>1, SaveStepIInv DEF CloseTemp, SaveSteps
<1>7. CASE Rename
  <2> USE <1>7 DEF Rename, memory, bounds
  <2>1. tmp.synced /\ tmp.data = cfg /\ step \in SaveSteps /\ proc # "down" /\ Ready(cfg)
    BY DEF SaveInv, PhaseInv, SaveSteps
  <2>2. file' = cfg /\ older' = older \cup {file} /\ Opens(cfg) /\ cfg \in Files
    BY <2>1, ReadyOpens
  <2>3. Opens(file)
    BY <2>1, ReadyOpens DEF SaveInv, PhaseInv, TypeOK
  <2>4. TypeOK'
    BY <2>2, NotDocuments DEF TypeOK, NoTmp
  <2>5. PhaseInv' /\ SaveInv'
    BY <2>1, <2>2 DEF PhaseInv, SaveInv, SaveSteps, Ready
  <2>6. DiskInv'
    BY <2>2, <2>3 DEF DiskInv
  <2>7. QED
    BY <2>4, <2>5, <2>6
<1>8. CASE Finish
  <2> USE <1>8 DEF Finish, disk, bounds
  <2>1. cfg = file /\ Ready(cfg)
    BY DEF SaveInv, PhaseInv, SaveSteps
  <2>2. TypeOK'
    BY NotDocuments DEF TypeOK
  <2>3. PhaseInv' /\ SaveInv' /\ DiskInv'
    BY <2>1 DEF PhaseInv, SaveInv, DiskInv, SaveSteps
  <2>4. QED
    BY <2>2, <2>3
<1>9. CASE SaveFails
  <2> USE <1>9 DEF SaveFails, disk
  <2>1. TypeOK'
    BY NotDocuments DEF TypeOK, NoTmp
  <2>2. proc = "up" => cfg' = file /\ Ready(file)
    BY DEF SaveInv, PhaseInv
  <2>3. PhaseInv' /\ SaveInv' /\ DiskInv'
    BY <2>2 DEF PhaseInv, SaveInv, DiskInv, SaveSteps
  <2>4. QED
    BY <2>1, <2>3
<1>10. CASE OpenConfig
  <2> USE <1>10 DEF OpenConfig, disk, bounds
  <2>1. Ready(Opened(file)) /\ Opened(file) \in Files
    BY OpenedIsReady, ReadyOpens DEF TypeOK
  <2>2. TypeOK'
    BY <2>1, NotDocuments DEF TypeOK, SaveSteps
  <2>3. PhaseInv' /\ SaveInv' /\ DiskInv'
    BY <2>1 DEF PhaseInv, SaveInv, DiskInv, SaveSteps
  <2>4. QED
    BY <2>2, <2>3
<1>11. CASE Kill
  <2> USE <1>11 DEF Kill, Gone, disk
  <2>1. TypeOK'
    BY NotDocuments DEF TypeOK, NoTmp, Offline
  <2>2. PhaseInv' /\ SaveInv' /\ DiskInv'
    BY DEF PhaseInv, SaveInv, DiskInv
  <2>3. QED
    BY <2>1, <2>2
<1>12. CASE PowerCut
  <2> USE <1>12 DEF PowerCut, Gone
  <2>1. TypeOK'
    BY NotDocuments DEF TypeOK, NoTmp, Offline
  <2>2. PhaseInv' /\ SaveInv' /\ DiskInv'
    BY DEF PhaseInv, SaveInv, DiskInv
  <2>3. QED
    BY <2>1, <2>2
<1>13. CASE Settle
  <2> USE <1>13 DEF Settle, memory, bounds
  <2>1. TypeOK'
    BY DEF TypeOK
  <2>2. PhaseInv' /\ SaveInv' /\ DiskInv'
    BY DEF PhaseInv, SaveInv, DiskInv
  <2>3. QED
    BY <2>1, <2>2
<1>14. ASSUME NEW w \in Watchers, Fingerprint(w) \/ Send(w) \/ Leave(w)
       PROVE  IInv'
  <2> USE DEF Watcher, disk, memory, bounds
  <2>1. watch' \in [Watchers -> [at : {"off", "idle", "send"}, rev : Nat, doc : Files]]
    <3> DEFINE Watch == [at : {"off", "idle", "send"}, rev : Nat, doc : Files]
    <3>1. watch \in [Watchers -> Watch] /\ rev \in Nat /\ cfg \in Files
      BY DEF TypeOK
    <3>2. CASE Fingerprint(w)
      BY <3>1, <3>2 DEF Fingerprint
    <3>3. CASE Send(w)
      BY <3>1, <3>3 DEF Send
    <3>4. CASE Leave(w)
      <4>1. Offline \in Watch
        BY NotDocuments DEF Offline
      <4>2. QED
        BY <3>1, <3>4, <4>1 DEF Leave
    <3>5. QED
      BY <1>14, <3>2, <3>3, <3>4
  <2>2. UNCHANGED <<disk, tmp, proc, memory, step, rev, bounds>>
    BY <1>14 DEF Fingerprint, Send, Leave
  <2>3. TypeOK'
    BY <2>1, <2>2 DEF TypeOK
  <2>4. PhaseInv' /\ SaveInv' /\ DiskInv'
    BY <2>2 DEF PhaseInv, SaveInv, DiskInv
  <2>5. QED
    BY <2>3, <2>4
<1>15. CASE UNCHANGED vars
  <2>1. TypeOK'
    BY <1>15 DEF TypeOK, vars, disk, memory, bounds
  <2>2. PhaseInv' /\ SaveInv' /\ DiskInv'
    BY <1>15 DEF PhaseInv, SaveInv, DiskInv, vars, disk, memory, bounds
  <2>3. QED
    BY <2>1, <2>2
<1>16. QED
  BY <1>1, <1>2, <1>3, <1>4, <1>5, <1>6, <1>7, <1>8, <1>9, <1>10, <1>11, <1>12, <1>13,
     <1>14, <1>15 DEF Next

\* The invariant holds of the store.
LEMMA IInvHolds == Spec => []IInv
BY InitIInv, NextIInv, PTL DEF Spec

\* The disk, the memory and the save under way hold what the store can put there.
THEOREM TypeCorrect == Spec => []TypeOK
<1>1. IInv => TypeOK
  BY DEF IInv
<1>2. QED
  BY <1>1, IInvHolds, PTL

\* While the lock is free, memory and file are one document.
THEOREM MemoryMatchesFile == Spec => []MemoryIsFile
<1>1. IInv => MemoryIsFile
  BY DEF IInv, SaveInv, MemoryIsFile, SaveSteps
<1>2. QED
  BY <1>1, IInvHolds, PTL

\* Whatever is interrupted, the daemon can start with what is there if it
\* could before.
THEOREM StartsAgain == Spec => NeverBricked
<1>1. IInv /\ [Next]_vars => [Opens(file) => Opens(file')]_vars
  <2> SUFFICES ASSUME IInv, [Next]_vars, Opens(file) PROVE Opens(file')
    OBVIOUS
  <2>1. CASE file' = file
    BY <2>1
  <2>2. CASE Rename
    <3>1. file' = cfg /\ Ready(cfg)
      BY <2>2 DEF Rename, IInv, SaveInv, PhaseInv
    <3>2. QED
      BY <3>1, ReadyOpens
  <2>3. CASE PowerCut
    BY <2>3 DEF PowerCut, IInv, DiskInv
  <2>4. QED
    BY <2>1, <2>2, <2>3
    DEF Next, vars, disk, memory, bounds, Update, ReplaceRaw, Change, CreateTemp, WriteTemp,
        SyncTemp, CloseTemp, SaveStep, Finish, SaveFails, OpenConfig, Kill, Settle,
        Fingerprint, Send, Leave, Watcher
<1>2. QED
  BY <1>1, IInvHolds, PTL DEF Spec, NeverBricked

-----------------------------------------------------------------------------
(* The store is a register.                                                 *)

\* The rename is the point at which a call takes effect, on the document that
\* is stored at that moment.
LEMMA RenameStores ==
  ASSUME IInv, Rename
  PROVE  Register!Next
<1>1. /\ tmp.synced /\ tmp.data = cfg /\ step \in SaveSteps /\ proc' = proc
      /\ file' = cfg /\ older' = older \cup {file} /\ proc # "down"
  BY DEF Rename, IInv, PhaseInv, SaveInv, SaveSteps
<1>2. CASE proc = "up"
  <2>1. Changed(file, cfg)
    BY <1>1, <1>2 DEF IInv, SaveInv
  <2>2. ASSUME NEW f \in Fields, NEW v \in Values,
               Valid(Register!SetField(file, f, v)), cfg = Register!SetField(file, f, v)
        PROVE  Register!Update(f, v)
    BY <1>1, <1>2, <2>2 DEF Register!Update, Register!Store, Valid
  <2>3. ASSUME NEW raw \in Backups, Opens(raw), cfg = Migrate(raw)
        PROVE  Register!ReplaceRaw(raw)
    BY <1>1, <1>2, <2>3 DEF Register!ReplaceRaw, Register!Store, Opens, Migrate
  <2>4. QED
    BY <2>1, <2>2, <2>3 DEF Changed, Register!Next, Fields
<1>3. CASE proc = "opening"
  <2>1. Opens(file) /\ cfg = Opened(file)
    BY <1>1, <1>3 DEF IInv, SaveInv
  <2>2. Register!Prepare
    BY <1>1, <1>3, <2>1 DEF Register!Prepare, Register!Store, Opens, Opened
  <2>3. QED
    BY <2>2 DEF Register!Next
<1>4. QED
  BY <1>1, <1>2, <1>3 DEF IInv, TypeOK

\* Every step of the store is one of the register or invisible to its users.
LEMMA StepsAreRegisters == IInv /\ [Next]_vars => [Register!Next]_(Register!vars)
<1> SUFFICES ASSUME IInv, [Next]_vars PROVE [Register!Next]_(Register!vars)
  OBVIOUS
<1>1. CASE UNCHANGED <<file, older, proc>>
  BY <1>1 DEF Register!vars
<1>2. CASE Rename
  BY <1>2, RenameStores
<1>3. CASE Finish
  <2>1. cfg = file /\ Ready(file) /\ UNCHANGED <<file, older>> /\ proc' = "up"
    BY <1>3 DEF Finish, IInv, PhaseInv, SaveInv, SaveSteps, disk
  <2>2. Opens(file) /\ Opened(file) = file
    BY <2>1, ReadyOpens
  <2>3. CASE proc = "up"
    BY <2>1, <2>3 DEF Register!vars
  <2>4. CASE proc # "up"
    <3>1. Register!Serve
      BY <2>1, <2>2, <2>4 DEF Register!Serve, Opens, Opened
    <3>2. QED
      BY <3>1 DEF Register!Next
  <2>5. QED
    BY <2>3, <2>4
<1>4. CASE SaveFails
  <2>1. UNCHANGED <<file, older>> /\ ((proc' = "up") <=> (proc = "up"))
    BY <1>4 DEF SaveFails, disk
  <2>2. (proc' = "up") = (proc = "up")
    BY <2>1
  <2>3. QED
    BY <2>1, <2>2 DEF Register!vars
<1>5. CASE OpenConfig
  <2>1. UNCHANGED <<file, older>> /\ proc = "down" /\ Opens(file)
    BY <1>5 DEF OpenConfig, disk
  <2>2. CASE Opened(file) = file
    <3>1. Register!Serve
      BY <1>5, <2>1, <2>2 DEF OpenConfig, Register!Serve, Opens, Opened
    <3>2. QED
      BY <3>1 DEF Register!Next
  <2>3. CASE Opened(file) # file
    <3>1. proc' = "opening"
      BY <1>5, <2>3 DEF OpenConfig
    <3>2. (proc' = "up") = (proc = "up")
      BY <2>1, <3>1
    <3>3. QED
      BY <2>1, <3>2 DEF Register!vars
  <2>4. QED
    BY <2>2, <2>3
<1>6. CASE Kill
  <2>1. Register!Stop
    BY <1>6 DEF Kill, Gone, disk, Register!Stop
  <2>2. QED
    BY <2>1 DEF Register!Next
<1>7. CASE PowerCut
  <2>1. Register!PowerCut
    BY <1>7 DEF PowerCut, Gone, Register!PowerCut
  <2>2. QED
    BY <2>1 DEF Register!Next
<1>8. CASE Settle
  <2>1. Register!Settle
    BY <1>8 DEF Settle, Register!Settle
  <2>2. QED
    BY <2>1 DEF Register!Next
<1>9. QED
  BY <1>1, <1>2, <1>3, <1>4, <1>5, <1>6, <1>7, <1>8
  DEF Next, vars, disk, memory, bounds, Update, ReplaceRaw, Change, CreateTemp, WriteTemp,
      SyncTemp, CloseTemp, SaveStep, Fingerprint, Send, Leave, Watcher

\* The store implements the register: calls take effect at once and in full, on
\* what is stored then, or not at all.
THEOREM ImplementsRegister == Spec => IsRegister
<1>1. Init => Register!Init
  BY DEF Init, Register!Init
<1>2. QED
  BY <1>1, StepsAreRegisters, IInvHolds, PTL DEF Spec, IsRegister, Register!Spec

-----------------------------------------------------------------------------
(* The state stream.                                                        *)

\* A watcher has never sent for a counter that is still to come; and what it
\* sent for the current one is the document of before the change in progress,
\* which bumps the counter or, if it fails, is taken back.
WInv ==
  \A w \in Watchers :
    /\ proc # "up" => watch[w].at = "off"
    /\ watch[w].at # "off" => watch[w].rev <= rev
    /\ watch[w].at = "idle" /\ watch[w].rev = rev
         => watch[w].doc = IF step = "none" THEN cfg ELSE prev

\* Every step keeps what the watchers have seen in line with the counter.
LEMMA NextWInv == IInv /\ WInv /\ [Next]_vars => WInv'
<1> SUFFICES ASSUME IInv, WInv, [Next]_vars PROVE WInv'
  OBVIOUS
<1> USE DEF WInv
<1>1. rev \in Nat /\ proc \in {"down", "opening", "up"}
      /\ watch \in [Watchers -> [at : {"off", "idle", "send"}, rev : Nat, doc : Files]]
  BY DEF IInv, TypeOK
<1>2. CASE /\ UNCHANGED <<proc, watch, rev, memory>>
           /\ (step = "none") <=> (step' = "none")
  BY <1>2 DEF memory
<1>3. ASSUME NEW next, Change(next)
      PROVE  WInv'
  BY <1>3 DEF Change, disk
<1>4. CASE Finish
  <2>1. CASE proc = "up"
    BY <1>1, <1>4, <2>1 DEF Finish
  <2>2. CASE proc # "up"
    BY <1>4, <2>2 DEF Finish
  <2>3. QED
    BY <2>1, <2>2
<1>5. CASE SaveFails
  <2>1. step # "none" /\ cfg' = prev /\ step' = "none"
    BY <1>5 DEF SaveFails, SaveSteps
  <2>2. QED
    BY <1>5, <2>1 DEF SaveFails
<1>6. CASE OpenConfig
  BY <1>6 DEF OpenConfig
<1>7. CASE Kill \/ PowerCut
  BY <1>7 DEF Kill, PowerCut, Gone, Offline
<1>8. ASSUME NEW w \in Watchers, Fingerprint(w) \/ Send(w) \/ Leave(w)
      PROVE  WInv'
  <2>1. UNCHANGED <<proc, step, rev, cfg, prev>>
    BY <1>8 DEF Fingerprint, Send, Leave, Watcher, memory
  <2>2. \A u \in Watchers \ {w} : watch'[u] = watch[u]
    BY <1>1, <1>8 DEF Fingerprint, Send, Leave, Watcher
  <2>3. CASE Fingerprint(w)
    <3>1. watch'[w].at = "send" /\ watch'[w].rev = rev /\ proc = "up"
      BY <1>1, <2>3 DEF Fingerprint, Watcher
    <3>2. QED
      BY <1>1, <2>1, <2>2, <3>1
  <2>4. CASE Send(w)
    <3>1. /\ watch'[w].rev = watch[w].rev /\ watch'[w].doc = cfg /\ step = "none"
          /\ watch[w].at = "send"
      BY <1>1, <2>4 DEF Send, Watcher
    <3>2. QED
      BY <2>1, <2>2, <3>1
  <2>5. CASE Leave(w)
    <3>1. watch'[w].at = "off"
      BY <1>1, <2>5 DEF Leave, Watcher, Offline
    <3>2. QED
      BY <2>1, <2>2, <3>1
  <2>6. QED
    BY <1>8, <2>3, <2>4, <2>5
<1>9. QED
  BY <1>2, <1>3, <1>4, <1>5, <1>6, <1>7, <1>8
  DEF Next, vars, disk, memory, bounds, Update, ReplaceRaw, CreateTemp, WriteTemp, SyncTemp,
      CloseTemp, SaveStep, SaveSteps, Rename, Settle

\* The change counter is a sound fingerprint of the document.
THEOREM StreamIsFresh == Spec => []WatcherFresh
<1>1. Init => WInv
  BY DEF Init, WInv, Offline
<1>2. WInv => WatcherFresh
  BY DEF WInv, WatcherFresh
<1>3. QED
  BY <1>1, <1>2, NextWInv, IInvHolds, PTL DEF Spec

-----------------------------------------------------------------------------
(* Migration.                                                               *)

\* The document has every field its version knew.
Whole(x) == \A f \in Fields : f < x.version => x.fields[f] # Register!Missing

CInv == Whole(file) /\ (\A x \in older : Whole(x)) /\ Whole(cfg) /\ Whole(prev)

\* The chain completes what it is given.
LEMMA MigrateWhole ==
  ASSUME NEW x \in Files, Whole(x)
  PROVE  Whole(Register!Migrate(x))
<1>1. x.version \in Int
  BY Versions, NotDocuments DEF Files, Register!Files, Documents, Register!Documents,
     Register!Contents, NoFile, Torn
<1>2. \A f \in Fields : Register!Migrate(x).fields[f]
        = IF f >= x.version /\ x.fields[f] = Register!Missing THEN Register!Default ELSE x.fields[f]
  BY DEF Register!Migrate, Fields
<1>3. Register!Default # Register!Missing
  BY DEF Register!Default, Register!Missing
<1>4. QED
  BY <1>1, <1>2, <1>3, Versions DEF Whole

\* No step stores, keeps or serves a document that lacks a field it should have.
LEMMA NextCInv == IInv /\ CInv /\ [Next]_vars => CInv'
<1> SUFFICES ASSUME IInv, CInv, [Next]_vars PROVE CInv'
  OBVIOUS
<1> USE DEF CInv
<1>1. Whole(NoFile)
  BY Versions, NotDocuments DEF Whole
<1>2. CASE UNCHANGED <<disk, memory>>
  BY <1>2 DEF disk, memory, Whole
<1>3. ASSUME NEW next, Change(next), Whole(next)
      PROVE  CInv'
  BY <1>3 DEF Change, disk, Whole
<1>4. ASSUME NEW f \in Fields, NEW v \in Values \cup {Register!Refused}, Update(f, v)
      PROVE  CInv'
  <2>1. Ready(cfg) /\ Valid(Register!SetField(cfg, f, v))
    BY <1>4 DEF Update, Change, IInv, PhaseInv
  <2>2. v # Register!Missing
    BY <2>1, SetFieldFacts, Parameters
  <2>3. \A g \in Fields : Register!SetField(cfg, f, v).fields[g]
                            = IF g = f THEN v ELSE cfg.fields[g]
    BY <2>1 DEF Ready, Documents, Register!Documents, Register!Contents, Register!SetField, Fields
  <2>4. Register!SetField(cfg, f, v).version = cfg.version
    BY <2>1 DEF Ready, Documents, Register!Documents, Register!Contents, Register!SetField
  <2>5. Whole(Register!SetField(cfg, f, v))
    BY <2>2, <2>3, <2>4 DEF Whole
  <2>6. QED
    BY <1>3, <1>4, <2>5 DEF Update
<1>5. ASSUME NEW raw \in Backups, ReplaceRaw(raw)
      PROVE  CInv'
  <2>1. raw \in Files /\ raw # NoFile
    BY Parameters, NotDocuments DEF Files, Register!Files, Documents, Register!Documents, Register!Contents
  <2>2. Whole(raw)
    BY <2>1, WrittenByIt DEF Whole
  <2>3. QED
    BY <1>3, <1>5, <2>1, <2>2, MigrateWhole DEF ReplaceRaw, Migrate
<1>6. CASE Rename
  <2>1. file' = cfg /\ older' = older \cup {file} /\ UNCHANGED <<cfg, prev>>
    BY <1>6 DEF Rename, memory, IInv, SaveInv
  <2>2. QED
    BY <2>1 DEF Whole
<1>7. CASE Finish \/ SaveFails
  BY <1>1, <1>7 DEF Finish, SaveFails, disk, Whole
<1>8. CASE OpenConfig
  <2>1. Whole(Opened(file))
    <3>1. CASE file = NoFile
      <4>1. Opened(file) = Register!Factory
        BY <3>1 DEF Opened, Register!Opened, NoFile
      <4>2. QED
        BY <4>1 DEF Whole, Register!Factory, Fields, Register!Default, Register!Missing
    <3>2. CASE file # NoFile
      <4>1. Opened(file) = Register!Migrate(file) /\ file \in Files
        BY <3>2 DEF Opened, Register!Opened, NoFile, IInv, TypeOK
      <4>2. QED
        BY <4>1, MigrateWhole
    <3>3. QED
      BY <3>1, <3>2
  <2>2. QED
    BY <1>1, <1>8, <2>1 DEF OpenConfig, disk, Whole
<1>9. CASE Kill \/ PowerCut
  BY <1>1, <1>9 DEF Kill, PowerCut, Gone, disk, Whole
<1>10. CASE Settle
  BY <1>10 DEF Settle, memory, Whole
<1>11. QED
  BY <1>2, <1>4, <1>5, <1>6, <1>7, <1>8, <1>9, <1>10
  DEF Next, vars, disk, memory, CreateTemp, WriteTemp, SyncTemp, CloseTemp, SaveStep,
      Fingerprint, Send, Leave, Watcher

\* Whatever version the document came from, every field that is served was
\* written by someone or filled in by a migration.
THEOREM NothingMissing == Spec => []ServedComplete
<1>1. Init => CInv
  <2> SUFFICES ASSUME Init PROVE CInv
    OBVIOUS
  <2>1. Whole(NoFile)
    BY Versions, NotDocuments DEF Whole
  <2>2. Whole(file)
    BY <2>1, WrittenByIt DEF Init, Whole
  <2>3. QED
    BY <2>1, <2>2 DEF Init, CInv
<1>2. IInv /\ CInv => ServedComplete
  <2> SUFFICES ASSUME IInv, CInv, proc = "up", step = "none", NEW f \in Fields
               PROVE  cfg.fields[f] # Register!Missing
    BY DEF ServedComplete
  <2>1. cfg.version = Register!Current /\ f < Register!Current
    BY Versions DEF IInv, PhaseInv, Ready
  <2>2. QED
    BY <2>1 DEF CInv, Whole
<1>3. QED
  BY <1>1, <1>2, NextCInv, IInvHolds, PTL DEF Spec
=============================================================================
