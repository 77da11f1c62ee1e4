--------------------------- MODULE ShowMigration ----------------------------
(***************************************************************************)
(* internal/show/migrate.go and backup.go: a show file of an older schema  *)
(* is brought forward when it is opened: a verified backup, a copy of the  *)
(* backup, the transformation of the copy in one transaction, and a rename *)
(* over the show.  Nothing locks the file meanwhile: the other processes   *)
(* of ShowStore run between any two steps, another migration too, on the   *)
(* same temporary file.                                                    *)
(*                                                                         *)
(* A rename over a file that another process has open fails, as it does on *)
(* Windows.  Every call closes its connection with a checkpoint; what a    *)
(* process that died left in a -wal file is taken to be in the show.       *)
(***************************************************************************)
EXTENDS ShowStore

CONSTANTS
    SchemaVersion,  \* this build's
    NoFile          \* there is no temporary file

\* what a show file holds
Files == [version : Nat, meta : [rev : Nat, sum : States \cup {NoBlob}],
          blob : States \cup {NoBlob}, points : SUBSET Points, nextId : Nat \ {0}]

ASSUME MigrationAssumption ==
    /\ SchemaVersion \in Nat \ {0}
    /\ NoFile \notin Files

VARIABLES
    version,        \* show_meta.schema_version
    temp,           \* the .migrate-tmp file
    backups,        \* the .backup files that were verified
    mig,            \* each process: where its Migrate is, what it found
    crossed         \* history: two migrations ran at once

fileVars == <<version, temp, backups, mig, crossed>>
migrationVars == <<meta, blob, points, nextId, op, todo, faults, recoveries,
                   acked, interrupted, lastInterrupted, acceptCut, overlapped,
                   version, temp, backups, mig, crossed>>

Snapshot == [version |-> version, meta |-> meta, blob |-> blob, points |-> points, nextId |-> nextId]
\* an empty file opens as a show never saved
Torn == [version |-> 0, meta |-> [rev |-> 0, sum |-> NoBlob], blob |-> NoBlob, points |-> {}, nextId |-> 1]
NoMig == [pc |-> "none", from |-> 0, backup |-> Torn]

\* a file never saved; one of the schema before, whose last Save was
\* interrupted; one of a newer build
MigrationInit ==
    /\ temp = NoFile
    /\ backups = {}
    /\ mig = [p \in Procs |-> NoMig]
    /\ crossed = FALSE
    /\ \/ StoreInit /\ version = 0
       \/ LET old == [rev |-> 1, val |-> {}] IN
          /\ version \in {SchemaVersion - 1, SchemaVersion + 1}
          /\ meta = [rev |-> 1, sum |-> old]
          /\ blob = old
          /\ points = {[id |-> 1, state |-> old], [id |-> 2, state |-> Bumped(old)]}
          /\ nextId = 3
          /\ op = [p \in Procs |-> Idle]
          /\ todo = Edits /\ faults = MaxFaults /\ recoveries = MaxRecoveries
          /\ acked = {} /\ interrupted = {2} /\ lastInterrupted = 2
          /\ acceptCut = FALSE /\ overlapped = FALSE

-----------------------------------------------------------------------------
At(p, pc) == op[p].pc = "migrate" /\ mig[p].pc = pc

\* one step of Migrate that leaves the show file and the histories alone
Quietly == UNCHANGED <<version, diskVars, todo, recoveries, histVars, crossed>>

Goes(p, pc) == mig' = [mig EXCEPT ![p].pc = pc] /\ UNCHANGED <<op, faults>>
Ends(p) == op' = [op EXCEPT ![p] = Idle] /\ mig' = [mig EXCEPT ![p] = NoMig]

\* show open --confirm-migration: Load finds an older schema
runShowOpen(p) ==
    /\ Begins(p)
    /\ Saved /\ version < SchemaVersion
    /\ op' = [op EXCEPT ![p] = [Idle EXCEPT !.pc = "migrate"]]
    /\ mig' = [mig EXCEPT ![p].pc = "meta"]
    /\ crossed' = (crossed \/ \E q \in Procs : op[q].pc = "migrate")
    /\ UNCHANGED <<version, temp, backups, faults, todo, recoveries>>
    /\ UNCHANGED diskVars

\* migrationMeta, by a connection of its own: nothing is done for a file that
\* is no longer older
migrationMeta(p) ==
    /\ At(p, "meta")
    /\ IF version < SchemaVersion
       THEN mig' = [mig EXCEPT ![p].pc = "backup", ![p].from = version] /\ UNCHANGED op
       ELSE Ends(p)
    /\ UNCHANGED <<temp, backups, faults>>
    /\ Quietly

\* VACUUM INTO, read back and validated
verifiedBackup(p) ==
    /\ At(p, "backup")
    /\ backups' = backups \cup {Snapshot}
    /\ mig' = [mig EXCEPT ![p].pc = "create", ![p].backup = Snapshot]
    /\ UNCHANGED <<op, faults, temp>>
    /\ Quietly

\* copyFile: os.Create truncates ...
copyFile(p) ==
    /\ At(p, "create")
    /\ temp' = Torn
    /\ Goes(p, "copy")
    /\ UNCHANGED backups
    /\ Quietly

\* ... and the backup is copied
CopyEnds(p) ==
    /\ At(p, "copy")
    /\ temp' = mig[p].backup
    /\ Goes(p, "transform")
    /\ UNCHANGED backups
    /\ Quietly

\* Migrate returns, and removes what has the name of its temporary file
Returns(p) == temp' = NoFile /\ Ends(p) /\ UNCHANGED <<backups, faults>> /\ Quietly

\* the versions some registered function migrates from
migrations == {1}

\* A fault: the meta row is left as it was
FaultmigrateTemp(p) ==
    /\ At(p, "transform")
    /\ Goes(p, "replace")
    /\ UNCHANGED <<temp, backups>>
    /\ Quietly

\* migrateTemp: the registered functions in order, validated, in one
\* transaction of the copy; what they do to the State is not told apart
migrateTemp(p) ==
    /\ At(p, "transform")
    /\ IF temp \in {NoFile, Torn} \/ ~(mig[p].from .. SchemaVersion - 1 \subseteq migrations)
       THEN Returns(p)
       ELSE /\ temp' = [temp EXCEPT !.version = SchemaVersion]
            /\ Goes(p, "replace")
            /\ UNCHANGED backups
            /\ Quietly

\* another process has the show open, or is copying to the temporary file
Open(p) ==
    \E q \in Procs \ {p} :
        op[q].pc \in {"load", "accept", "discard", "promote"} \/ At(q, "copy")

\* atomicReplace: the rename ...
atomicReplace(p) ==
    /\ At(p, "replace")
    /\ IF temp = NoFile \/ Open(p) THEN Returns(p)
       ELSE /\ version' = temp.version
            /\ meta' = temp.meta /\ blob' = temp.blob
            /\ points' = temp.points /\ nextId' = temp.nextId
            /\ temp' = NoFile
            /\ Goes(p, "sidecars")
            /\ UNCHANGED <<backups, todo, recoveries, histVars, crossed>>

\* ... then the -wal and -shm files of both names are removed, as far as that works;
\* a temporary file that another migration made meanwhile goes with them
RemoveSidecars(p) == At(p, "sidecars") /\ Returns(p)

\* a step of Migrate fails: the disk is full, a file is busy
StepFails(p) ==
    /\ op[p].pc = "migrate" /\ mig[p].pc # "sidecars"
    /\ faults > 0
    /\ faults' = faults - 1
    /\ temp' = IF mig[p].pc \in {"meta", "backup", "create"} THEN temp ELSE NoFile
    /\ Ends(p)
    /\ UNCHANGED backups
    /\ Quietly

Migrate(p) ==
    \/ runShowOpen(p) \/ migrationMeta(p) \/ verifiedBackup(p)
    \/ copyFile(p) \/ CopyEnds(p) \/ migrateTemp(p) \/ atomicReplace(p)
    \/ RemoveSidecars(p) \/ StepFails(p)

-----------------------------------------------------------------------------
\* Load refuses a file of another schema; Save makes it this build's, whatever
\* it was, and the recovery calls do not look at it
Uses(p) ==
    \/ /\ ~Saved \/ version = SchemaVersion
       /\ \E e \in Edits : LoadMeta(p, e)
       /\ UNCHANGED fileVars
    \/ /\ LoadBlob(p) \/ ReportMismatch(p) \/ Refuse(p) \/ StageRecoveryPoint(p)
          \/ PromoteFails(p) \/ Recovery(p)
       /\ UNCHANGED fileVars
    \/ /\ PromoteState(p)
       /\ version' = SchemaVersion
       /\ UNCHANGED <<temp, backups, mig, crossed>>
    \/ /\ Crash(p)
       /\ mig' = [mig EXCEPT ![p] = NoMig]
       /\ UNCHANGED <<version, temp, backups, crossed>>

MigrationSpec ==
    MigrationInit /\ [][\E p \in Procs : Uses(p) \/ Migrate(p)]_migrationVars

-----------------------------------------------------------------------------
(* Properties *)

\* A migration swaps in the show it found, points and revision included, as
\* this build's schema, and a verified backup of what it replaced is beside it
\* (migrate.go: "only a fully successful migration atomically replaces the
\* original"), provided no other call overlapped it.
MigrationKeepsShow ==
    [][~overlapped /\ (\E p \in Procs : At(p, "replace") /\ mig'[p].pc = "sidecars")
          => /\ version' = SchemaVersion
             /\ <<meta, blob, points, nextId>>' = <<meta, blob, points, nextId>>
             /\ Snapshot \in backups]_migrationVars

\* the files a migration may still swap in or copy
KeptFiles ==
    backups \cup (IF temp = NoFile THEN {} ELSE {temp}) \cup {mig[p].backup : p \in Procs}

\* the States that can still come to be seen
Drafts ==
    {op[p].draft : p \in {q \in Procs : op[q].pc \in {"stage", "promote"}}}
      \cup {r.state : r \in points}
      \cup {f.blob : f \in {g \in KeptFiles : g.blob # NoBlob}}
      \cup {r.state : r \in UNION {f.points : f \in KeptFiles}}

Register == INSTANCE ShowRegister WITH NoShow <- NoBlob, seen <- blob, drafts <- Drafts

\* Readers see the register that ShowRegister specifies, with any number of
\* processes saving, recovering and crashing at once and one migrating.
IsARegister == Register!Spec
=============================================================================
