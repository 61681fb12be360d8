--------------------------- MODULE ConfigRegister ---------------------------
(***************************************************************************)
(* What the configuration store promises to the rest of the daemon: one     *)
(* document, read and changed as if at once.  A call changes the document   *)
(* that is stored at that moment, or does nothing; the end of the process   *)
(* loses nothing; a power cut may bring back a document that was stored     *)
(* before, never half of one; and what cannot be opened is left alone.      *)
(***************************************************************************)
EXTENDS Integers

CONSTANTS
  NumFields,   \* field f came with the step from version f to f + 1
  Values,      \* what a user can write into a field
  FirstFiles,  \* what the path may hold when the machine starts
  Backups      \* the documents a restore is given

Fields  == 1 .. NumFields
Current == NumFields + 1

\* What a field of a document holds besides a value: nothing, what a
\* migration puts in its place, or something Validate refuses.
Missing == "missing"
Default == "default"
Refused == "refused"

Contents(versions) ==
  [version : versions, fields : [Fields -> Values \cup {Missing, Default, Refused}]]

\* Documents of this program, of older ones and of one newer.
Documents == Contents(1 .. Current + 1)

\* What the path may hold if not a document: nothing, or one cut short.
NoFile == [version |-> 0, fields |-> [f \in Fields |-> Missing]]
Torn   == [version |-> -1, fields |-> [f \in Fields |-> Missing]]
Files  == Documents \cup {NoFile, Torn}

\* The factory defaults of the first boot.
Factory == [version |-> Current, fields |-> [f \in Fields |-> Default]]

Valid(d) == \A f \in Fields : d.fields[f] # Refused

\* A slip: the chain starts a step late.
MigrateLate(d) ==
  [version |-> Current,
   fields  |-> [f \in Fields |-> IF f > d.version /\ d.fields[f] = Missing
                                 THEN Default ELSE d.fields[f]]]

\* The chain of migrations: the steps from the document's version on, each
\* adding its field unless the document has it already.
Migrate(d) ==
  [version |-> Current,
   fields  |-> [f \in Fields |-> IF f >= d.version /\ d.fields[f] = Missing
                                 THEN Default ELSE d.fields[f]]]

\* What a daemon that finds x at the path can start with.
Opens(x)  == x = NoFile \/ (x.version \in 1 .. Current /\ Valid(Migrate(x)))
Opened(x) == IF x = NoFile THEN Factory ELSE Migrate(x)

SetField(d, f, v) == [d EXCEPT !.fields[f] = v]

VARIABLES
  stored,    \* the document at the path
  older,     \* documents a power cut may bring back
  serving    \* whether the daemon answers

vars == <<stored, older, serving>>

Init == stored \in FirstFiles /\ older = {} /\ serving = FALSE

\* The file is replaced in one step; until the directory reaches the disk the
\* old entry may come back.
Store(d) == stored' = d /\ older' = older \cup {stored} /\ UNCHANGED serving

Update(f, v) == serving /\ Valid(SetField(stored, f, v)) /\ Store(SetField(stored, f, v))

ReplaceRaw(d) == serving /\ Opens(d) /\ Store(Migrate(d))

Prepare == ~serving /\ Opens(stored) /\ Store(Opened(stored))

Serve ==
  /\ ~serving /\ Opens(stored) /\ stored = Opened(stored)
  /\ serving' = TRUE
  /\ UNCHANGED <<stored, older>>

Stop == serving' = FALSE /\ UNCHANGED <<stored, older>>

PowerCut ==
  /\ stored' \in older \cup {stored}
  /\ older' = {}
  /\ serving' = FALSE

Settle == older' = {} /\ UNCHANGED <<stored, serving>>

Next ==
  \/ \E f \in Fields, v \in Values : Update(f, v)
  \/ \E d \in Backups : ReplaceRaw(d)
  \/ Prepare \/ Serve \/ Stop \/ PowerCut \/ Settle

Spec == Init /\ [][Next]_vars
=============================================================================
