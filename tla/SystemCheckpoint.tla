-------------------------- MODULE SystemCheckpoint --------------------------
(***************************************************************************)
(* Publication of verified artifacts (engine/backends.py), database        *)
(* backups (storage/backup.py) and system checkpoints                      *)
(* (storage/checkpoint.py), as changes of the file system.                 *)
(*                                                                         *)
(* The server writes its database and publishes artifacts; an operator's   *)
(* command (storage/cli.py) is another process, which nothing keeps from   *)
(* running beside the server.  The server's publications hold the lease    *)
(* and so come one after another.  Files and directories are renamed in    *)
(* one step; removing a directory tree passes through a torn tree.  Any    *)
(* step may raise, and both the server and the command may die between two *)
(* steps.  Staged copies have fresh names and are seen by no one else.     *)
(*                                                                         *)
(* A database is the set of the writes it holds, an artifact its digest; a *)
(* digest check is a comparison of contents.                               *)
(***************************************************************************)
EXTENDS Naturals

CONSTANTS
    Artifacts,      \* digests of verified artifacts
    None, Torn,     \* no such path; a tree partly removed
    MaxVersion      \* bound: writes to the database

ASSUME CheckpointAssumption ==
    /\ MaxVersion \in Nat /\ None \notin Artifacts /\ Torn \notin Artifacts /\ None # Torn
    /\ \A d \in SUBSET (1..MaxVersion) : None # d

VARIABLES
    up,             \* the server runs
    open,           \* ... and has pooled connections to the file at .previous
    database,       \* the database's path; {} is the empty schema
    rollback,       \* .previous beside it
    version,        \* the last write
    published,      \* the published artifact
    previous,       \* .previous beside it
    aside,          \* .materialize-previous beside it
    checkpoint,     \* the checkpoint directory
    pub,            \* the server's publication: its step and its digest
    cmd,            \* the operator's command: its step and what it works on;
                    \* history: `removed`, it has removed an artifact
    kept            \* history: the database the last restore found, and the
                    \* artifact the last publication has to keep

vars == <<up, open, database, rollback, version, published, previous, aside, checkpoint,
          pub, cmd, kept>>
artifactFiles == <<published, previous, aside>>
databaseFiles == <<open, database, rollback>>

NoPub == [pc |-> "idle", digest |-> None]
NoCmd == [pc |-> "idle", kind |-> "none", digest |-> None, db |-> None, artifact |-> None,
          removed |-> FALSE]

Init ==
    /\ up = TRUE /\ open = FALSE /\ database = {} /\ version = 0 /\ rollback = None
    /\ published = None /\ previous = None /\ aside = None
    /\ checkpoint = None /\ pub = NoPub /\ cmd = NoCmd /\ kept = [database |-> {}, artifact |-> None]

PubAt(pc) == pub' = [pub EXCEPT !.pc = pc]
CmdAt(pc) == cmd' = [cmd EXCEPT !.pc = pc]

\* A restore raises: its outcome stays to be seen.
Raises(pc) == cmd' = [NoCmd EXCEPT !.pc = pc, !.kind = cmd.kind, !.removed = cmd.removed]

-----------------------------------------------------------------------------
(* The server. *)

Opened == IF database = None THEN {} ELSE database

\* A write goes to the file at the path, which a new connection creates, or
\* through an old connection to the file that a restore has renamed.
Write ==
    /\ up /\ version < MaxVersion
    /\ version' = version + 1
    /\ \/ database' = Opened \cup {version'} /\ UNCHANGED rollback
       \/ open /\ rollback' = rollback \cup {version'} /\ UNCHANGED database
    /\ UNCHANGED <<up, open, artifactFiles, checkpoint, pub, cmd, kept>>

\* init_db() creates a database where there is none.
StartServer ==
    /\ ~up /\ up' = TRUE
    /\ database' = Opened
    /\ UNCHANGED <<open, rollback, version, artifactFiles, checkpoint, pub, cmd, kept>>

\* The server is stopped, or dies within a publication.
StopServer ==
    /\ up /\ up' = FALSE /\ open' = FALSE /\ pub' = NoPub
    /\ UNCHANGED <<version, database, rollback, artifactFiles, checkpoint, cmd, kept>>

\* The artifact that a publication is about to replace.
Replaced == IF published \in Artifacts THEN published ELSE None

\* restore_verified_artifact() of a valid tree d, from step `at` to step `next`:
\* the copy is staged and validated, the destination removed, the copy renamed
\* and validated in its place.
Installs(at, d, next) ==
    \/ at = "stage" /\ published = None /\ next = "rename" /\ UNCHANGED published
    \/ at = "stage" /\ published # None /\ next = "clear" /\ published' = Torn
    \/ at = "clear" /\ published = Torn /\ next = "rename" /\ published' = None
    \/ at = "rename" /\ published = None /\ next = "validate" /\ published' = d
    \/ at = "validate" /\ published = d /\ next = "done" /\ UNCHANGED published

Installing == {"stage", "clear", "rename", "validate"}

-----------------------------------------------------------------------------
(* Promotions. *)

\* promote_verified_artifact(): the candidate's artifact is valid.
Promote(d) ==
    /\ up /\ pub.pc = "idle"
    /\ pub' = [pc |-> IF published = None THEN "stage"
                      ELSE IF previous = None THEN "retire" ELSE "drop", digest |-> d]
    /\ kept' = [kept EXCEPT !.artifact = Replaced]
    /\ UNCHANGED <<up, version, databaseFiles, artifactFiles, checkpoint, cmd>>

\* shutil.rmtree(previous)
DropPrevious ==
    /\ \/ pub.pc = "drop" /\ previous' = Torn /\ PubAt("dropping")
       \/ pub.pc = "dropping" /\ previous' = None /\ PubAt("retire")
       \/ pub.pc \in {"drop", "dropping"} /\ pub' = NoPub /\ UNCHANGED previous
    /\ UNCHANGED <<up, version, databaseFiles, published, aside, checkpoint, cmd, kept>>

\* destination.rename(previous)
Retire ==
    /\ pub.pc = "retire"
    /\ \/ published # None /\ previous' = published /\ published' = None /\ PubAt("stage")
       \/ pub' = NoPub /\ UNCHANGED <<published, previous>>
    /\ UNCHANGED <<up, version, databaseFiles, aside, checkpoint, cmd, kept>>

\* restore_verified_artifact() of the candidate.
Install ==
    /\ pub.pc \in Installing
    /\ \/ \E next \in Installing : Installs(pub.pc, pub.digest, next) /\ PubAt(next)
       \/ Installs(pub.pc, pub.digest, "done") /\ pub' = NoPub
       \/ pub' = [NoPub EXCEPT !.pc = "undo"] /\ UNCHANGED published
    /\ UNCHANGED <<up, version, databaseFiles, previous, aside, checkpoint, cmd, kept>>

\* except: what was installed is removed and the previous artifact put back.
Undo ==
    /\ \/ pub.pc = "undo" /\ published = None /\ PubAt("undone") /\ UNCHANGED <<published, previous>>
       \/ pub.pc = "undo" /\ published # None /\ published' = Torn /\ PubAt("undoing")
          /\ UNCHANGED previous
       \/ pub.pc = "undoing" /\ published = Torn /\ published' = None /\ PubAt("undone")
          /\ UNCHANGED previous
       \/ pub.pc = "undone" /\ published = None /\ previous # None
          /\ published' = previous /\ previous' = None /\ pub' = NoPub
       \/ pub.pc \in {"undo", "undoing", "undone"} /\ pub' = NoPub /\ UNCHANGED <<published, previous>>
    /\ UNCHANGED <<up, version, databaseFiles, aside, checkpoint, cmd, kept>>

-----------------------------------------------------------------------------
(* Builds. *)

Building == {"discard", "discarding", "move", "place", "clean", "cleaning"}

\* materialize(): the new tree is staged and valid.
Build(d) ==
    /\ up /\ pub.pc = "idle"
    /\ pub' = [pc |-> IF aside = None THEN "move" ELSE "discard", digest |-> d]
    /\ kept' = [kept EXCEPT !.artifact = Replaced]
    /\ UNCHANGED <<up, version, databaseFiles, artifactFiles, checkpoint, cmd>>

\* shutil.rmtree(backup), before and after the renames.
DropAside ==
    /\ \/ pub.pc = "discard" /\ aside' = Torn /\ PubAt("discarding")
       \/ pub.pc = "discarding" /\ aside' = None /\ PubAt("move")
       \/ pub.pc = "clean" /\ aside = None /\ pub' = NoPub /\ UNCHANGED aside
       \/ pub.pc = "clean" /\ aside # None /\ aside' = Torn /\ PubAt("cleaning")
       \/ pub.pc = "cleaning" /\ aside' = None /\ pub' = NoPub
       \/ pub.pc \in {"discard", "discarding", "clean", "cleaning"} /\ pub' = NoPub /\ UNCHANGED aside
    /\ UNCHANGED <<up, version, databaseFiles, published, previous, checkpoint, cmd, kept>>

\* Mutation: the published artifact is removed, not moved aside.
MoveRemoves ==
    /\ pub.pc = "move"
    /\ published' = None /\ PubAt("place") /\ UNCHANGED aside
    /\ UNCHANGED <<up, version, databaseFiles, previous, checkpoint, cmd, kept>>

\* destination.rename(backup), if there is a destination
MoveAside ==
    /\ pub.pc = "move"
    /\ \/ published = None /\ PubAt("place") /\ UNCHANGED <<published, aside>>
       \/ published # None /\ aside' = published /\ published' = None /\ PubAt("place")
       \/ pub' = NoPub /\ UNCHANGED <<published, aside>>
    /\ UNCHANGED <<up, version, databaseFiles, previous, checkpoint, cmd, kept>>

\* staging.rename(destination); when it fails the backup is put back if the path
\* is free, unless that fails too.
Place ==
    /\ pub.pc = "place"
    /\ \/ published = None /\ published' = pub.digest /\ pub' = [NoPub EXCEPT !.pc = "clean"]
          /\ kept' = [kept EXCEPT !.artifact = pub.digest] /\ UNCHANGED aside
       \/ published = None /\ aside # None /\ published' = aside /\ aside' = None
          /\ pub' = NoPub /\ UNCHANGED kept
       \/ pub' = NoPub /\ UNCHANGED <<published, aside, kept>>
    /\ UNCHANGED <<up, version, databaseFiles, previous, checkpoint, cmd>>

-----------------------------------------------------------------------------
(* Checkpoints. *)

Idle == cmd.pc \in {"idle", "failed", "unread", "stranded"}

\* create_system_checkpoint(): the artifact is validated, ...
CreateCheckpoint(d) ==
    /\ Idle /\ published = d
    /\ cmd' = [NoCmd EXCEPT !.pc = "image", !.kind = "create", !.digest = d]
    /\ UNCHANGED <<up, version, databaseFiles, artifactFiles, checkpoint, pub, kept>>

\* Mutation: the database is copied without an integrity check.
CopyDatabaseBlind ==
    /\ cmd.pc = "image"
    /\ cmd' = [cmd EXCEPT !.pc = "copy", !.db = database]
    /\ UNCHANGED <<up, version, databaseFiles, artifactFiles, checkpoint, pub, kept>>

\* ... backup_sqlite_database(): the database is copied, ...
CopyDatabase ==
    /\ cmd.pc = "image"
    /\ IF database = None THEN cmd' = NoCmd
       ELSE cmd' = [cmd EXCEPT !.pc = "copy", !.db = database]
    /\ UNCHANGED <<up, version, databaseFiles, artifactFiles, checkpoint, pub, kept>>

\* Mutation: the copy of the artifact is not validated.
CopyUnchecked ==
    /\ cmd.pc = "copy"
    /\ cmd' = [cmd EXCEPT !.pc = "remove", !.artifact = published]
    /\ UNCHANGED <<up, version, databaseFiles, artifactFiles, checkpoint, pub, kept>>

\* ... backup_verified_artifact(): the artifact is copied and the copy
\* validated, ...
CopyArtifact ==
    /\ cmd.pc = "copy"
    /\ IF published = cmd.digest
       THEN cmd' = [cmd EXCEPT !.pc = "remove", !.artifact = published]
       ELSE cmd' = NoCmd
    /\ UNCHANGED <<up, version, databaseFiles, artifactFiles, checkpoint, pub, kept>>

\* ... and the old checkpoint removed and the new one renamed into its place.
SwapCheckpoint ==
    /\ \/ cmd.pc = "remove" /\ checkpoint # None /\ checkpoint' = Torn /\ CmdAt("removing")
       \/ cmd.pc = "removing" /\ checkpoint' = None /\ CmdAt("remove")
       \/ cmd.pc = "remove" /\ checkpoint = None /\ cmd' = NoCmd
          /\ checkpoint' = [db |-> cmd.db, artifact |-> cmd.artifact, digest |-> cmd.digest]
       \/ cmd.pc \in {"remove", "removing"} /\ cmd' = NoCmd /\ UNCHANGED checkpoint
    /\ UNCHANGED <<up, version, databaseFiles, artifactFiles, pub, kept>>

-----------------------------------------------------------------------------
(* Restores. *)

\* The contents of a checkpoint that verify_system_checkpoint() accepts.
Whole == checkpoint \notin {None, Torn} /\ checkpoint.artifact = checkpoint.digest

\* restore_sqlite_database() of any image that its operator has a digest of:
\* image and live database are checked, and the image is copied.
RestoreDatabase(db) ==
    /\ Idle /\ database # None
    /\ cmd' = [NoCmd EXCEPT !.pc = "retire", !.kind = "database", !.db = db]
    /\ kept' = [kept EXCEPT !.database = database]
    /\ UNCHANGED <<up, version, databaseFiles, artifactFiles, checkpoint, pub>>

\* restore_system_checkpoint() of a checkpoint that verifies begins with the same.
RestoreCheckpoint ==
    /\ Idle /\ database # None /\ Whole
    /\ cmd' = [pc |-> "retire", kind |-> "checkpoint", digest |-> checkpoint.digest,
               db |-> checkpoint.db, artifact |-> checkpoint.artifact, removed |-> FALSE]
    /\ kept' = [kept EXCEPT !.database = database]
    /\ UNCHANGED <<up, version, databaseFiles, artifactFiles, checkpoint, pub>>

\* os.replace(destination, rollback): the server's connections follow the file.
RetireDatabase ==
    /\ cmd.pc = "retire"
    /\ \/ rollback' = database /\ database' = None /\ open' = up /\ CmdAt("install")
       \/ UNCHANGED databaseFiles /\ Raises("failed")
    /\ UNCHANGED <<up, version, artifactFiles, checkpoint, pub, kept>>

\* os.replace(rollback, destination), over whatever is there.
PutBack == database' = rollback /\ rollback' = None /\ open' = FALSE

\* Mutation: the rollback copy is dropped when the rename fails.
InstallDropsRollback ==
    /\ cmd.pc = "install"
    /\ \/ database' = cmd.db /\ UNCHANGED <<open, rollback>> /\ CmdAt("digest")
       \/ UNCHANGED database /\ rollback' = None /\ open' = FALSE /\ Raises("stranded")
    /\ UNCHANGED <<up, version, artifactFiles, checkpoint, pub, kept>>

\* os.replace(temporary, destination); when it fails the rollback copy is
\* moved back, unless that fails too.
InstallDatabase ==
    /\ cmd.pc = "install"
    /\ \/ database' = cmd.db /\ UNCHANGED <<open, rollback>> /\ CmdAt("digest")
       \/ PutBack /\ Raises("failed")
       \/ UNCHANGED databaseFiles /\ Raises("stranded")
    /\ UNCHANGED <<up, version, artifactFiles, checkpoint, pub, kept>>

\* return _sha256(destination): when it raises, the restore has failed and the
\* restored database stays.
ReturnDigest ==
    /\ cmd.pc = "digest"
    /\ \/ cmd.kind = "database" /\ cmd' = NoCmd
       \/ cmd.kind = "checkpoint" /\ CmdAt("stage")
       \/ Raises("unread")
    /\ UNCHANGED <<up, version, databaseFiles, artifactFiles, checkpoint, pub, kept>>

\* A tree that restore_verified_artifact() removes is not moved aside.
Removes == published \in Artifacts /\ published' = Torn

\* restore_verified_artifact() of the checkpoint's half.
RestoreArtifact ==
    /\ cmd.pc \in Installing
    /\ \/ \E next \in Installing : Installs(cmd.pc, cmd.artifact, next)
            /\ cmd' = [cmd EXCEPT !.pc = next, !.removed = @ \/ Removes]
       \/ Installs(cmd.pc, cmd.artifact, "done") /\ cmd' = NoCmd
       \/ CmdAt("revert") /\ UNCHANGED published
    /\ kept' = IF Removes /\ published = kept.artifact THEN [kept EXCEPT !.artifact = None] ELSE kept
    /\ UNCHANGED <<up, version, databaseFiles, previous, aside, checkpoint, pub>>

\* Mutation: the database is not rolled back with the artifact.
RevertNothing ==
    /\ cmd.pc = "revert"
    /\ Raises("failed")
    /\ UNCHANGED <<up, version, databaseFiles, artifactFiles, checkpoint, pub, kept>>

\* except: os.replace(rollback, live_database), unless that fails too
RevertDatabase ==
    /\ cmd.pc = "revert"
    /\ \/ PutBack /\ Raises("failed")
       \/ UNCHANGED databaseFiles /\ Raises("stranded")
    /\ UNCHANGED <<up, version, artifactFiles, checkpoint, pub, kept>>

\* The command dies.
CrashCommand ==
    /\ ~Idle /\ cmd' = NoCmd
    /\ UNCHANGED <<up, version, databaseFiles, artifactFiles, checkpoint, pub, kept>>

Next ==
    \/ Write \/ StartServer \/ StopServer
    \/ \E d \in Artifacts : Promote(d) \/ Build(d) \/ CreateCheckpoint(d)
    \/ DropPrevious \/ Retire \/ Install \/ Undo
    \/ DropAside \/ MoveAside \/ Place
    \/ CopyDatabase \/ CopyArtifact \/ SwapCheckpoint
    \/ (\E db \in SUBSET (1..version) : RestoreDatabase(db)) \/ RestoreCheckpoint
    \/ RetireDatabase \/ InstallDatabase \/ ReturnDigest \/ RestoreArtifact
    \/ RevertDatabase \/ CrashCommand

Spec == Init /\ [][Next]_vars

-----------------------------------------------------------------------------
(* Properties. *)

Databases == SUBSET (1..MaxVersion)
Trees == Artifacts \cup {None, Torn}

Publication == [pc : {"idle", "drop", "dropping", "retire", "undo", "undoing", "undone"}
                      \cup Installing \cup Building,
                digest : Artifacts \cup {None}]
Command == [pc : {"idle", "image", "copy", "remove", "removing", "retire", "install", "digest",
                  "revert", "failed", "unread", "stranded"} \cup Installing,
            kind : {"none", "create", "database", "checkpoint"},
            digest : Artifacts \cup {None}, db : {None} \cup Databases, artifact : Trees,
            removed : BOOLEAN]

\* Type invariant.
CheckpointTypeOK ==
    /\ up \in BOOLEAN /\ open \in BOOLEAN /\ version \in 0..MaxVersion
    /\ {database, rollback} \subseteq {None} \cup Databases
    /\ {published, previous, aside} \subseteq Trees
    /\ checkpoint \in {None, Torn} \cup
                       [db : {None} \cup Databases, artifact : Trees, digest : Artifacts]
    /\ checkpoint \notin {None, Torn} => checkpoint.db # None
    /\ pub \in Publication /\ cmd \in Command
    /\ kept \in [database : Databases, artifact : Artifacts \cup {None}]

\* A checkpoint at its path is always one that verify_system_checkpoint()
\* accepts, or is visibly missing or torn: whatever the server promotes or
\* builds while the halves are copied, the artifact is the one the manifest
\* names.
CheckpointVerifies == checkpoint \notin {None, Torn} => Whole

\* The file holds every write of the database d.
Holds(file, d) == file # None /\ d \subseteq file

\* The live database a restore replaces can be put back: from the start of a
\* restore to the start of the next, every write it held is in the file at its
\* path or in the one at .previous, through every failure and crash, beside a
\* server that writes to both files and that creates an empty database where it
\* finds none.
RollbackCopySurvives == Holds(database, kept.database) \/ Holds(rollback, kept.database)

\* "A failure of the second half rolls the first half back" (checkpoint.py:6): a
\* restore that raised, and whose rollback did not raise too, leaves every write
\* of the database it found at the path.  (A restored file that cannot be read,
\* backup.py:139, is not rolled back: see RestoreIsOneUnit.)
FailedRestoreIsUndone ==
    cmd.pc = "failed" /\ cmd.kind \in {"database", "checkpoint"} => Holds(database, kept.database)

\* "Restore both halves as one unit, rolling the database back if either fails"
\* (checkpoint.py:152): a restore that raised leaves the database it found at
\* the path, and has not taken away the artifact it found.
RestoreIsOneUnit ==
    cmd.pc \in {"failed", "unread"} /\ cmd.kind = "checkpoint" =>
        /\ Holds(database, kept.database)
        /\ ~cmd.removed

\* A publication never loses the artifact it replaces: from its start to the
\* start of the next one, the artifact it found, or the new one once a build has
\* put it in place, is published or at one of the two .previous names, through
\* failures and crashes, unless a restore removes it from its path.
PublicationKeepsReplaced == kept.artifact # None => kept.artifact \in {published, previous, aside}

\* "Publish a compiled artifact's file tree as one atomic replacement"
\* (backends.py:608): while a build replaces an artifact, there is a whole one
\* at the path.
MaterializeIsAtomic == pub.pc \in Building /\ kept.artifact # None => published \in Artifacts
=============================================================================
