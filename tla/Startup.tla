-------------------------------- MODULE Startup --------------------------------
(***************************************************************************)
(* What a process does before it serves (cmd/proxyscope/main.go, run): it  *)
(* brings the database to the current schema (internal/store/store.go,     *)
(* migrate), then loads its root CA or creates one (internal/ca/ca.go),    *)
(* then loads the rules.  A process started with -export-ca only does the  *)
(* second step and writes the certificate where the user wants it.         *)
(*                                                                         *)
(* Processes share the database and the CA directory and may run at the    *)
(* same time; each may crash, or fail, between any two of its steps.  A    *)
(* transaction is one step: SQLite shows its effects to others at once,    *)
(* or, after a crash or a rollback, never.                                 *)
(***************************************************************************)
EXTENDS Integers, FiniteSets

CONSTANTS Servers,      \* processes that serve
          Exporters,    \* processes started with -export-ca
          MaxStarts     \* how often a process is started (a bound)

ASSUME StartupAssumption ==
  /\ Servers \cap Exporters = {}
  /\ MaxStarts \in Nat

Procs == Servers \cup Exporters

schemaVersion == 5
Newer == schemaVersion + 1   \* a database of a later version of the program

VARIABLES version,    \* PRAGMA user_version
          schema,     \* the schema steps whose tables and columns are there
          key, cert,  \* the two files of the CA directory
          exported,   \* the certificate that the user installed, 0 for none
          starts,     \* how often a process was started
          pc,         \* each process's place
          seen,       \* ... and the schema version it has brought the database to
          keyExists,  \* ... and what it found out about the key file
          own, used   \* ... and the CA it generates, and the CA it has loaded

dbVars == <<version, schema>>
caVars == <<key, cert, exported>>
localVars == <<seen, keyExists, own, used>>
vars == <<dbVars, caVars, starts, pc, localVars>>

\* A CA is known by the start that generated it, 0 for none.
CAs == 0..MaxStarts
NoFile == [of |-> 0, whole |-> FALSE]
File == [of : CAs, whole : BOOLEAN]

Places == {"off", "version", "migrate", "key", "cert", "writeKey", "fillKey", "writeCert",
           "fillCert", "removeKey", "load", "rules", "export", "serving"}

TypeOK ==
  /\ version \in 0..Newer
  /\ schema \subseteq 1..Newer
  /\ key \in File /\ cert \in File
  /\ exported \in CAs
  /\ starts \in 0..MaxStarts
  /\ pc \in [Procs -> Places]
  /\ seen \in [Procs -> 0..schemaVersion]
  /\ keyExists \in [Procs -> BOOLEAN]
  /\ own \in [Procs -> CAs] /\ used \in [Procs -> CAs]

\* A database of any version, or none yet; a CA directory that is empty.
Init ==
  /\ version \in 0..Newer
  /\ schema = 1..version
  /\ key = NoFile /\ cert = NoFile
  /\ exported = 0
  /\ starts = 0
  /\ pc = [p \in Procs |-> "off"]
  /\ seen = [p \in Procs |-> 0]
  /\ keyExists = [p \in Procs |-> FALSE]
  /\ own = [p \in Procs |-> 0] /\ used = [p \in Procs |-> 0]

Goto(p, place) == pc' = [pc EXCEPT ![p] = place]

Start(p) ==
  /\ pc[p] = "off" /\ starts < MaxStarts
  /\ starts' = starts + 1
  /\ Goto(p, IF p \in Servers THEN "version" ELSE "key")
  /\ own' = [own EXCEPT ![p] = starts']
  /\ used' = [used EXCEPT ![p] = 0]
  /\ UNCHANGED <<dbVars, caVars, seen, keyExists>>

\* A process stops: it is killed, told to stop, or one of its steps fails.
Exit(p) ==
  /\ Goto(p, "off")
  /\ used' = [used EXCEPT ![p] = 0]
  /\ UNCHANGED <<dbVars, caVars, starts, seen, keyExists, own>>

Crash(p) == pc[p] # "off" /\ Exit(p)

-----------------------------------------------------------------------------
(* store.Open and migrate.                                                 *)

ReadVersion(p) ==
  /\ pc[p] = "version"
  /\ \/ version > schemaVersion /\ Exit(p)
     \/ /\ version <= schemaVersion
        /\ seen' = [seen EXCEPT ![p] = version]
        /\ Goto(p, "migrate")
        /\ UNCHANGED <<dbVars, caVars, starts, keyExists, own, used>>

\* Steps 2, 3 and 5 add columns, which fails if they are there; steps 1 and 4
\* create tables if they do not exist.
Applies(k) == k \in {2, 3, 5} => k \notin schema

\* Mutant: the version is set first, in a transaction of its own.
MigrateInTwo(p) ==
  LET k == seen[p] + 1
  IN /\ pc[p] = "migrate" /\ seen[p] < schemaVersion
     /\ \/ version < k /\ version' = k /\ UNCHANGED <<schema, seen>>
        \/ /\ version >= k
           /\ schema' = schema \cup {k}
           /\ seen' = [seen EXCEPT ![p] = k]
           /\ UNCHANGED version
     /\ UNCHANGED <<pc, caVars, starts, keyExists, own, used>>

\* The steps that the version read before calls for; only step 1 leaves the
\* version as it is.
Migrate(p) ==
  LET k == seen[p] + 1
  IN /\ pc[p] = "migrate" /\ seen[p] < schemaVersion
     /\ \/ ~Applies(k) /\ Exit(p)
        \/ /\ Applies(k)
           /\ schema' = schema \cup {k}
           /\ version' = IF k = 1 THEN version ELSE k
           /\ seen' = [seen EXCEPT ![p] = k]
           /\ UNCHANGED <<pc, caVars, starts, keyExists, own, used>>

Opened(p) ==
  /\ pc[p] = "migrate" /\ seen[p] >= schemaVersion
  /\ Goto(p, "key")
  /\ UNCHANGED <<dbVars, caVars, starts, localVars>>

-----------------------------------------------------------------------------
(* ca.LoadOrCreate and ExportCert.                                         *)

KeyExists(p) ==
  /\ pc[p] = "key"
  /\ keyExists' = [keyExists EXCEPT ![p] = key # NoFile]
  /\ Goto(p, "cert")
  /\ UNCHANGED <<dbVars, caVars, starts, seen, own, used>>

\* A directory with one file of the two is refused.
CertExists(p) ==
  /\ pc[p] = "cert"
  /\ LET certExists == cert # NoFile
     IN \/ keyExists[p] # certExists /\ Exit(p)
        \/ /\ keyExists[p] = certExists
           /\ Goto(p, IF certExists THEN "load" ELSE "writeKey")
           /\ UNCHANGED <<dbVars, caVars, starts, localVars>>

\* Mutant: a creation that fails removes the key, whosever it is.
WriteKeyCleansUp(p) ==
  /\ pc[p] = "writeKey"
  /\ key' = IF key = NoFile THEN [of |-> own[p], whole |-> FALSE] ELSE key
  /\ Goto(p, IF key = NoFile THEN "fillKey" ELSE "removeKey")
  /\ UNCHANGED <<dbVars, cert, exported, starts, localVars>>

\* writeNew: the file is created, which fails if it exists, and then filled.
WriteKey(p) ==
  /\ pc[p] = "writeKey"
  /\ \/ key # NoFile /\ Exit(p)
     \/ /\ key = NoFile
        /\ key' = [of |-> own[p], whole |-> FALSE]
        /\ Goto(p, "fillKey")
        /\ UNCHANGED <<dbVars, cert, exported, starts, localVars>>

FillKey(p) ==
  /\ pc[p] = "fillKey"
  /\ key' = [of |-> own[p], whole |-> TRUE]
  /\ Goto(p, "writeCert")
  /\ UNCHANGED <<dbVars, cert, exported, starts, localVars>>

\* Mutant: without O_EXCL, a certificate that is there is written over.
WriteCertOver(p) ==
  /\ pc[p] = "writeCert"
  /\ cert' = [of |-> own[p], whole |-> FALSE]
  /\ Goto(p, "fillCert")
  /\ UNCHANGED <<dbVars, key, exported, starts, localVars>>

\* It exists, or cannot be created for another reason.
WriteCert(p) ==
  /\ pc[p] = "writeCert"
  /\ \/ Goto(p, "removeKey") /\ UNCHANGED cert
     \/ /\ cert = NoFile
        /\ cert' = [of |-> own[p], whole |-> FALSE]
        /\ Goto(p, "fillCert")
  /\ UNCHANGED <<dbVars, key, exported, starts, localVars>>

\* A write that fails leaves the part that was written, and a close that fails the
\* whole: others may load it before the key goes.
FillCert(p) ==
  /\ pc[p] = "fillCert"
  /\ \/ /\ cert' = [of |-> own[p], whole |-> TRUE]
        /\ Goto(p, "load") \/ Goto(p, "removeKey")
     \/ Goto(p, "removeKey") /\ UNCHANGED cert
  /\ UNCHANGED <<dbVars, key, exported, starts, localVars>>

RemoveKey(p) ==
  /\ pc[p] = "removeKey"
  /\ key' = NoFile
  /\ Goto(p, "off")
  /\ UNCHANGED <<dbVars, cert, exported, starts, localVars>>

\* load: both files have to be whole and to belong together.
Load(p) ==
  /\ pc[p] = "load"
  /\ LET pair == key.whole /\ cert.whole /\ key.of = cert.of
     IN \/ ~pair /\ Exit(p)
        \/ /\ pair
           /\ used' = [used EXCEPT ![p] = key.of]
           /\ Goto(p, IF p \in Servers THEN "rules" ELSE "export")
           /\ UNCHANGED <<dbVars, caVars, starts, seen, keyExists, own>>

ExportCert(p) ==
  /\ pc[p] = "export"
  /\ exported' = used[p]
  /\ Goto(p, "off")
  /\ used' = [used EXCEPT ![p] = 0]
  /\ UNCHANGED <<dbVars, key, cert, starts, seen, keyExists, own>>

\* The rules are loaded (RulesEngine) and the servers started.
Serve(p) ==
  /\ pc[p] = "rules"
  /\ Goto(p, "serving")
  /\ UNCHANGED <<dbVars, caVars, starts, localVars>>

Next ==
  \E p \in Procs :
    \/ Start(p) \/ Crash(p)
    \/ ReadVersion(p) \/ Migrate(p) \/ Opened(p)
    \/ KeyExists(p) \/ CertExists(p) \/ WriteKey(p) \/ FillKey(p)
    \/ WriteCert(p) \/ FillCert(p) \/ RemoveKey(p) \/ Load(p)
    \/ ExportCert(p) \/ Serve(p)

Spec == Init /\ [][Next]_vars

-----------------------------------------------------------------------------
(* Properties.                                                             *)

\* The version tells which steps the database has been through, whenever a process
\* may look at it: "a crash cannot leave half-added columns behind" (store.go:144).
\* Otherwise the next start would add a column that is there, or leave one out.
VersionTellsSchema ==
  IF version = 0 THEN schema \subseteq {1} ELSE schema = 1..version

\* Whoever has loaded a CA has the one of the certificate file, and so does everybody
\* else, whichever processes created one, failed to, or crashed meanwhile.  What of
\* that CA's key is there is whole.
UsedIsTheCert ==
  \A p \in Procs : used[p] # 0 =>
    /\ cert = [of |-> used[p], whole |-> TRUE]
    /\ key.of = used[p] => key.whole

\* ... and its key is there.
\* Not so: README, section 5.
UsedKeyIsThere ==
  \A p \in Procs : used[p] # 0 => key = [of |-> used[p], whole |-> TRUE]

\* A CA that was exported, and so may be in a trust store, is never replaced by another
\* (ca.go:57, "rather than silently replacing a CA the user may already have installed
\* in a trust store"; ca.go:129, "never overwrite an existing key"): its certificate
\* stays, and nobody touches its key but the process that created it and failed to
\* write the certificate to the end.
ExportedIsKept ==
  [][exported # 0 =>
       /\ UNCHANGED <<exported, cert>>
       /\ key.of = exported /\ key' # key =>
            \E p \in Procs : own[p] = exported /\ pc[p] = "removeKey" /\ key' = NoFile]_vars

\* A creation that fails does not "leave a half-created CA behind" (ca.go:135): no
\* certificate without a key.
\* Not so: README, section 5.
NoHalfCreatedCA == cert # NoFile => key # NoFile

\* "An existing v1-v4 database is migrated automatically on startup (each version's
\* migration in its own transaction)" (README:638): the migration that a start of
\* the program has before it can be carried out.
\* Not so: README, section 5.
StartCanMigrate ==
  version <= schemaVersion => \A k \in (version + 1)..schemaVersion : Applies(k)

=============================================================================
