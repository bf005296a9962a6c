----------------------- MODULE SystemCheckpointProofs -----------------------
(* Proofs about SystemCheckpoint. *)
EXTENDS SystemCheckpoint, TLAPS

Restores == {"database", "checkpoint"}

\* A publication runs in a server that is up and works on an artifact until it is
\* installed; each step belongs to one kind of command.  Old connections lead to
\* a file.
PhaseInv ==
    /\ ~up => pub.pc = "idle"
    /\ pub.pc \in Installing \cup {"drop", "dropping", "retire", "discard", "discarding", "move", "place"}
        => pub.digest \in Artifacts
    /\ open => rollback # None
    /\ cmd.pc \in {"image", "copy", "remove", "removing"} =>
        cmd.kind = "create" /\ cmd.digest \in Artifacts
    /\ cmd.pc \in {"retire", "install", "digest"} => cmd.kind \in Restores /\ cmd.db \in Databases
    /\ cmd.pc \in Installing \cup {"revert"} => cmd.kind = "checkpoint"
    /\ cmd.pc \in Installing => cmd.artifact \in Artifacts
    /\ cmd.kind = "checkpoint" /\ cmd.pc \in {"retire", "install", "digest"} => cmd.artifact \in Artifacts

\* What has been copied for a checkpoint.
CopyInv ==
    /\ cmd.pc \in {"copy", "remove", "removing"} => cmd.db \in Databases
    /\ cmd.pc \in {"remove", "removing"} => cmd.artifact = cmd.digest
    /\ CheckpointVerifies

\* Where the database a restore found is.
RestoreInv ==
    /\ cmd.pc = "retire" => Holds(database, kept.database)
    /\ cmd.pc \in Installing \cup {"install", "digest", "revert"} => Holds(rollback, kept.database)
    /\ RollbackCopySurvives /\ FailedRestoreIsUndone

\* Where the artifact is that a publication has to keep.
PublicationInv ==
    /\ kept.artifact # None =>
        /\ pub.pc \in {"drop", "dropping", "retire", "discard", "discarding", "move", "clean", "cleaning"}
            => published = kept.artifact
        /\ pub.pc \in Installing \cup {"undo", "undoing", "undone"} => previous = kept.artifact
        /\ pub.pc = "place" => aside = kept.artifact
    /\ PublicationKeepsReplaced

CheckpointInv == CheckpointTypeOK /\ PhaseInv /\ CopyInv /\ RestoreInv /\ PublicationInv

\* The first server state satisfies the invariant.
LEMMA InitHolds == Init => CheckpointInv
<1> SUFFICES ASSUME Init PROVE CheckpointInv
  OBVIOUS
<1> USE CheckpointAssumption DEF Init, NoPub, NoCmd
<1>1. CheckpointTypeOK
  <2>1. {} \in Databases
    BY DEF Databases
  <2>2. pub \in Publication
    BY DEF Publication
  <2>3. cmd \in Command
    BY DEF Command, Trees
  <2>4. kept \in [database : Databases, artifact : Artifacts \cup {None}]
    BY <2>1
  <2>5. version \in 0..MaxVersion
    OBVIOUS
  <2>6. {published, previous, aside} \subseteq Trees
    BY DEF Trees
  <2> QED BY <2>1, <2>2, <2>3, <2>4, <2>5, <2>6 DEF CheckpointTypeOK
<1>2. PhaseInv /\ CopyInv
  BY DEF PhaseInv, CopyInv, CheckpointVerifies, Installing
<1>3. RestoreInv
  <2>1. database # None
    <3>1. {} \in SUBSET (1..MaxVersion)
      OBVIOUS
    <3> QED BY <3>1
  <2> QED BY <2>1 DEF RestoreInv, Holds, RollbackCopySurvives, FailedRestoreIsUndone, Installing
<1>4. PublicationInv
  BY DEF PublicationInv, PublicationKeepsReplaced
<1> QED BY <1>1, <1>2, <1>3, <1>4 DEF CheckpointInv

\* Steps of the command that only move on, or raise.
LEMMA CmdMoves ==
    ASSUME cmd \in Command, NEW pc
    PROVE  /\ CmdAt(pc) => cmd' = [pc |-> pc, kind |-> cmd.kind, digest |-> cmd.digest, db |-> cmd.db,
                                   artifact |-> cmd.artifact, removed |-> cmd.removed]
           /\ Raises(pc) => cmd' = [pc |-> pc, kind |-> cmd.kind, digest |-> None, db |-> None,
                                    artifact |-> None, removed |-> cmd.removed]
BY DEF CmdAt, Raises, NoCmd, Command

\* Steps of the command that take a copy with them.
LEMMA CmdCopies ==
    ASSUME cmd \in Command, NEW pc, NEW x
    PROVE  /\ cmd' = [cmd EXCEPT !.pc = pc, !.db = x] =>
                cmd' = [pc |-> pc, kind |-> cmd.kind, digest |-> cmd.digest, db |-> x,
                        artifact |-> cmd.artifact, removed |-> cmd.removed]
           /\ cmd' = [cmd EXCEPT !.pc = pc, !.artifact = x] =>
                cmd' = [pc |-> pc, kind |-> cmd.kind, digest |-> cmd.digest, db |-> cmd.db,
                        artifact |-> x, removed |-> cmd.removed]
<1>1. cmd = [pc |-> cmd.pc, kind |-> cmd.kind, digest |-> cmd.digest, db |-> cmd.db,
             artifact |-> cmd.artifact, removed |-> cmd.removed]
  BY DEF Command
<1>2. ASSUME cmd' = [cmd EXCEPT !.pc = pc, !.db = x]
      PROVE  cmd' = [pc |-> pc, kind |-> cmd.kind, digest |-> cmd.digest, db |-> x,
                     artifact |-> cmd.artifact, removed |-> cmd.removed]
  BY <1>1, <1>2
<1>3. ASSUME cmd' = [cmd EXCEPT !.pc = pc, !.artifact = x]
      PROVE  cmd' = [pc |-> pc, kind |-> cmd.kind, digest |-> cmd.digest, db |-> cmd.db,
                     artifact |-> x, removed |-> cmd.removed]
  BY <1>1, <1>3
<1> QED BY <1>2, <1>3

\* The same for a publication, and for what it has to keep.
LEMMA PubMoves ==
    ASSUME pub \in Publication, NEW pc
    PROVE  /\ PubAt(pc) => pub' = [pc |-> pc, digest |-> pub.digest]
           /\ pub' = [NoPub EXCEPT !.pc = pc] => pub' = [pc |-> pc, digest |-> None]
BY DEF PubAt, Publication, NoPub

LEMMA KeptMoves ==
    ASSUME kept \in [database : Databases, artifact : Artifacts \cup {None}], NEW x
    PROVE  /\ kept' = [kept EXCEPT !.artifact = x] => kept' = [database |-> kept.database, artifact |-> x]
           /\ kept' = [kept EXCEPT !.database = x] => kept' = [database |-> x, artifact |-> kept.artifact]
OBVIOUS

\* A step that leaves the database files and the command keeps RestoreInv.
LEMMA RestoreQuiet ==
    ASSUME RestoreInv, UNCHANGED <<database, rollback, cmd>>, kept'.database = kept.database
    PROVE  RestoreInv'
BY DEF RestoreInv, Holds, RollbackCopySurvives, FailedRestoreIsUndone, Installing

\* A step that leaves the artifact files and the publication keeps PublicationInv.
LEMMA PublicationQuiet ==
    ASSUME PublicationInv, UNCHANGED <<published, previous, aside, pub>>, kept'.artifact = kept.artifact
    PROVE  PublicationInv'
BY DEF PublicationInv, PublicationKeepsReplaced, Installing

\* A step that leaves the checkpoint and the command keeps CopyInv.
LEMMA CopyQuiet ==
    ASSUME CopyInv, UNCHANGED <<checkpoint, cmd>>
    PROVE  CopyInv'
BY DEF CopyInv, CheckpointVerifies, Whole

\* The server.
LEMMA ServerStep ==
    ASSUME CheckpointInv, Write \/ StartServer \/ StopServer
    PROVE  CheckpointInv'
<1> USE DEF CheckpointInv
<1>1. UNCHANGED <<published, previous, aside, checkpoint, cmd, kept>>
  BY DEF Write, StartServer, StopServer, artifactFiles
<1>2. CopyInv'
  BY <1>1, CopyQuiet
<1>3. ASSUME NEW x \in {version, version + 1}, x \in 0..MaxVersion, version' = x,
             \/ database' \in {database, Opened}
             \/ x = version + 1 /\ database' = Opened \cup {x},
             \/ rollback' = rollback
             \/ x = version + 1 /\ open /\ rollback' = rollback \cup {x}
      PROVE  /\ {database', rollback'} \subseteq {None} \cup Databases
             /\ rollback # None => rollback' # None
             /\ RestoreInv'
  <2>1. rollback \in {None} \cup Databases /\ database \in {None} \cup Databases /\ Opened \in Databases
    BY DEF CheckpointTypeOK, Opened, Databases
  <2>2. (open => rollback # None) /\ kept.database \in Databases
    BY DEF PhaseInv, CheckpointTypeOK
  <2>3. x = version + 1 => x \in 1..MaxVersion
    BY <1>3 DEF CheckpointTypeOK
  <2>4. \A d \in Databases : d # None
    BY CheckpointAssumption DEF Databases
  <2>5. \A d \in Databases : x = version + 1 => d \cup {x} \in Databases
    BY <2>3 DEF Databases
  <2>6. /\ database' \in {None} \cup Databases /\ (database # None => database' # None /\ database \subseteq database')
    BY <1>3, <2>1, <2>4, <2>5 DEF Opened
  <2>7. /\ rollback' \in {None} \cup Databases /\ (rollback # None => rollback' # None /\ rollback \subseteq rollback')
    BY <1>3, <2>1, <2>2, <2>4, <2>5
  <2>8. \A d : Holds(database, d) => Holds(database', d)
    BY <2>6 DEF Holds
  <2>9. \A d : Holds(rollback, d) => Holds(rollback', d)
    BY <2>7 DEF Holds
  <2>10. RestoreInv'
    BY <1>1, <2>8, <2>9 DEF RestoreInv, RollbackCopySurvives, FailedRestoreIsUndone
  <2> QED BY <2>6, <2>7, <2>10
<1>4. CASE Write
  <2>1. /\ version' = version + 1 /\ version' \in 0..MaxVersion /\ UNCHANGED <<up, open, pub>>
        /\ \/ database' = Opened \cup {version'} /\ rollback' = rollback
           \/ open /\ rollback' = rollback \cup {version'} /\ database' = database
    BY <1>4, CheckpointAssumption DEF Write, CheckpointTypeOK
  <2>2. /\ {database', rollback'} \subseteq {None} \cup Databases
        /\ rollback # None => rollback' # None
        /\ RestoreInv'
    BY <1>3, <2>1
  <2>3. CheckpointTypeOK'
    BY <1>1, <2>1, <2>2 DEF CheckpointTypeOK
  <2>4. PhaseInv'
    BY <1>1, <2>1, <2>2 DEF PhaseInv
  <2> QED BY <1>1, <1>2, <2>1, <2>2, <2>3, <2>4, PublicationQuiet
<1>5. CASE StartServer
  <2>1. up' = TRUE /\ ~up /\ UNCHANGED <<version, open, rollback, pub>> /\ database' = Opened
    BY <1>5 DEF StartServer
  <2>2. version \in 0..MaxVersion
    BY DEF CheckpointTypeOK
  <2>3. /\ {database', rollback'} \subseteq {None} \cup Databases
        /\ RestoreInv'
    BY <1>3, <2>1, <2>2
  <2>4. CheckpointTypeOK'
    BY <1>1, <2>1, <2>3 DEF CheckpointTypeOK
  <2>5. PhaseInv'
    BY <1>1, <2>1 DEF PhaseInv
  <2> QED BY <1>1, <1>2, <2>1, <2>3, <2>4, <2>5, PublicationQuiet
<1>6. CASE StopServer
  <2>1. up' = FALSE /\ open' = FALSE /\ UNCHANGED <<version, database, rollback>>
        /\ pub' = [pc |-> "idle", digest |-> None]
    BY <1>6 DEF StopServer, NoPub
  <2>2. CheckpointTypeOK'
    BY <1>1, <2>1 DEF CheckpointTypeOK, Publication
  <2>3. PhaseInv'
    BY <1>1, <2>1 DEF PhaseInv, Installing
  <2>4. RestoreInv'
    BY <1>1, <2>1, RestoreQuiet
  <2>5. PublicationInv'
    BY <1>1, <2>1 DEF PublicationInv, PublicationKeepsReplaced, Installing
  <2> QED BY <1>2, <2>2, <2>3, <2>4, <2>5
<1> QED BY <1>4, <1>5, <1>6

\* What every step of a publication leaves alone.
LEMMA PublicationFrame ==
    ASSUME CheckpointInv, UNCHANGED <<up, version, databaseFiles, checkpoint, cmd>>,
           kept'.database = kept.database,
           pub' \in Publication, kept' \in [database : Databases, artifact : Artifacts \cup {None}],
           {published', previous', aside'} \subseteq Trees,
           pub'.pc # "idle" => up,
           pub'.pc \in Installing \cup {"drop", "dropping", "retire", "discard", "discarding", "move", "place"}
               => pub'.digest \in Artifacts,
           PublicationInv'
    PROVE  CheckpointInv'
<1>1. UNCHANGED <<open, database, rollback>>
  BY DEF databaseFiles
<1>2. CopyInv' /\ RestoreInv'
  BY <1>1, CopyQuiet, RestoreQuiet DEF CheckpointInv
<1>3. CheckpointTypeOK'
  BY <1>1 DEF CheckpointInv, CheckpointTypeOK
<1>4. PhaseInv'
  BY <1>1 DEF CheckpointInv, PhaseInv
<1> QED BY <1>2, <1>3, <1>4 DEF CheckpointInv

\* Promotions.
LEMMA PromotionStep ==
    ASSUME CheckpointInv,
           (\E d \in Artifacts : Promote(d)) \/ DropPrevious \/ Retire \/ Install \/ Undo
    PROVE  CheckpointInv'
<1>1. /\ pub \in Publication /\ kept \in [database : Databases, artifact : Artifacts \cup {None}]
      /\ {published, previous, aside} \subseteq Trees /\ PublicationInv
      /\ pub.pc # "idle" => up
      /\ pub.pc \in Installing \cup {"drop", "dropping", "retire", "discard", "discarding", "move", "place"}
           => pub.digest \in Artifacts
  BY DEF CheckpointInv, CheckpointTypeOK, PhaseInv
<1> USE <1>1, CheckpointAssumption DEF Publication, Trees, Installing, Building, PublicationInv,
        PublicationKeepsReplaced
<1>2. ASSUME NEW d \in Artifacts, Promote(d) PROVE CheckpointInv'
  BY <1>2, PublicationFrame, KeptMoves DEF Promote, Replaced, artifactFiles
<1>3. CASE DropPrevious
  BY <1>3, PublicationFrame, PubMoves DEF DropPrevious, NoPub
<1>4. CASE Retire
  BY <1>4, PublicationFrame, PubMoves DEF Retire, NoPub
<1>5. CASE Install
  BY <1>5, PublicationFrame, PubMoves DEF Install, Installs, NoPub
<1>6. CASE Undo
  BY <1>6, PublicationFrame, PubMoves DEF Undo, NoPub
<1> QED BY <1>2, <1>3, <1>4, <1>5, <1>6

\* Builds.
LEMMA BuildStep ==
    ASSUME CheckpointInv, (\E d \in Artifacts : Build(d)) \/ DropAside \/ MoveAside \/ Place
    PROVE  CheckpointInv'
<1>1. /\ pub \in Publication /\ kept \in [database : Databases, artifact : Artifacts \cup {None}]
      /\ {published, previous, aside} \subseteq Trees /\ PublicationInv
      /\ pub.pc # "idle" => up
      /\ pub.pc \in Installing \cup {"drop", "dropping", "retire", "discard", "discarding", "move", "place"}
           => pub.digest \in Artifacts
  BY DEF CheckpointInv, CheckpointTypeOK, PhaseInv
<1> USE <1>1, CheckpointAssumption DEF Publication, Trees, Installing, Building, PublicationInv,
        PublicationKeepsReplaced
<1>2. ASSUME NEW d \in Artifacts, Build(d) PROVE CheckpointInv'
  BY <1>2, PublicationFrame, KeptMoves DEF Build, Replaced, artifactFiles
<1>3. CASE DropAside
  BY <1>3, PublicationFrame, PubMoves DEF DropAside, NoPub
<1>4. CASE MoveAside
  BY <1>4, PublicationFrame, PubMoves DEF MoveAside, NoPub
<1>5. CASE Place
  BY <1>5, PublicationFrame, PubMoves, KeptMoves DEF Place, NoPub
<1> QED BY <1>2, <1>3, <1>4, <1>5

\* The creation of a checkpoint.
LEMMA CreateStep ==
    ASSUME CheckpointInv,
           (\E d \in Artifacts : CreateCheckpoint(d)) \/ CopyDatabase \/ CopyArtifact \/ SwapCheckpoint
    PROVE  CheckpointInv'
<1> USE CheckpointAssumption DEF CheckpointInv
<1>1. /\ UNCHANGED <<up, version, open, database, rollback, published, previous, aside, pub, kept>>
      /\ cmd \in Command
  BY DEF CreateCheckpoint, CopyDatabase, CopyArtifact, SwapCheckpoint, databaseFiles, artifactFiles,
         CheckpointTypeOK
<1>2. PublicationInv'
  BY <1>1, PublicationQuiet
<1>3. ASSUME cmd'.pc \in {"idle", "image", "copy", "remove", "removing"} PROVE RestoreInv'
  BY <1>1, <1>3 DEF RestoreInv, RollbackCopySurvives, FailedRestoreIsUndone, Holds, Installing
<1>4. ASSUME cmd'.pc \in {"idle", "image", "copy", "remove", "removing"}, cmd' \in Command,
             cmd'.pc # "idle" => cmd'.kind = "create" /\ cmd'.digest \in Artifacts
      PROVE  PhaseInv'
  BY <1>1, <1>4 DEF PhaseInv, Installing
<1>5. ASSUME cmd' \in Command, UNCHANGED checkpoint PROVE CheckpointTypeOK'
  BY <1>1, <1>5 DEF CheckpointTypeOK
<1> USE DEF NoCmd
<1>6. ASSUME NEW d \in Artifacts, CreateCheckpoint(d) PROVE CheckpointInv'
  <2>1. /\ cmd' = [pc |-> "image", kind |-> "create", digest |-> d, db |-> None, artifact |-> None,
                   removed |-> FALSE]
        /\ checkpoint' = checkpoint
    BY <1>6 DEF CreateCheckpoint
  <2>2. cmd' \in Command
    BY <2>1 DEF Command, Trees
  <2>3. CopyInv'
    BY <2>1 DEF CopyInv, CheckpointVerifies, Whole
  <2> QED BY <1>2, <1>3, <1>4, <1>5, <2>1, <2>2, <2>3
<1>7. CASE cmd' = NoCmd /\ UNCHANGED checkpoint
  <2>1. cmd' \in Command
    BY <1>7 DEF Command, Trees
  <2>2. CopyInv'
    BY <1>7 DEF CopyInv, CheckpointVerifies, Whole
  <2> QED BY <1>2, <1>3, <1>4, <1>5, <1>7, <2>1, <2>2
<1>8. CASE CopyDatabase
  <2>1. CASE database = None
    BY <1>7, <1>8, <2>1 DEF CopyDatabase
  <2>2. CASE database # None
    <3>1. /\ cmd' = [pc |-> "copy", kind |-> cmd.kind, digest |-> cmd.digest, db |-> database,
                     artifact |-> cmd.artifact, removed |-> cmd.removed]
          /\ cmd.pc = "image" /\ checkpoint' = checkpoint
      BY <1>1, <1>8, <2>2, CmdCopies DEF CopyDatabase
    <3>2. database \in Databases
      BY <2>2 DEF CheckpointTypeOK
    <3>3. cmd' \in Command
      BY <1>1, <3>1, <3>2 DEF Command
    <3>4. CopyInv'
      BY <3>1, <3>2 DEF CopyInv, CheckpointVerifies, Whole
    <3>5. cmd.kind = "create" /\ cmd.digest \in Artifacts
      BY <3>1 DEF PhaseInv
    <3> QED BY <1>2, <1>3, <1>4, <1>5, <3>1, <3>3, <3>4, <3>5
  <2> QED BY <2>1, <2>2
<1>9. CASE CopyArtifact
  <2>1. CASE published # cmd.digest
    BY <1>7, <1>9, <2>1 DEF CopyArtifact
  <2>2. CASE published = cmd.digest
    <3>1. /\ cmd' = [pc |-> "remove", kind |-> cmd.kind, digest |-> cmd.digest, db |-> cmd.db,
                     artifact |-> published, removed |-> cmd.removed]
          /\ cmd.pc = "copy" /\ checkpoint' = checkpoint
      BY <1>1, <1>9, <2>2, CmdCopies DEF CopyArtifact
    <3>2. cmd' \in Command
      BY <1>1, <3>1 DEF Command, CheckpointTypeOK
    <3>3. CopyInv'
      BY <2>2, <3>1 DEF CopyInv, CheckpointVerifies, Whole
    <3>4. cmd.kind = "create" /\ cmd.digest \in Artifacts
      BY <3>1 DEF PhaseInv
    <3> QED BY <1>2, <1>3, <1>4, <1>5, <3>1, <3>2, <3>3, <3>4
  <2> QED BY <2>1, <2>2
<1>10. CASE SwapCheckpoint
  <2>1. cmd.pc \in {"remove", "removing"} /\ cmd.kind = "create" /\ cmd.digest \in Artifacts
        /\ cmd.db \in Databases /\ cmd.artifact = cmd.digest
    BY <1>10 DEF SwapCheckpoint, PhaseInv, CopyInv
  <2>2. ASSUME NEW pc \in {"remove", "removing"}, CmdAt(pc), checkpoint' \in {None, Torn} PROVE CheckpointInv'
    <3>1. cmd' = [pc |-> pc, kind |-> cmd.kind, digest |-> cmd.digest, db |-> cmd.db,
                  artifact |-> cmd.artifact, removed |-> cmd.removed]
      BY <1>1, <2>2, CmdMoves
    <3>2. cmd' \in Command
      BY <1>1, <3>1 DEF Command
    <3>3. CheckpointTypeOK'
      BY <1>1, <2>2, <3>2 DEF CheckpointTypeOK
    <3>4. CopyInv'
      BY <2>1, <2>2, <3>1 DEF CopyInv, CheckpointVerifies
    <3> QED BY <1>2, <1>3, <1>4, <2>1, <3>1, <3>2, <3>3, <3>4
  <2>3. CASE cmd' = NoCmd
             /\ checkpoint' = [db |-> cmd.db, artifact |-> cmd.artifact, digest |-> cmd.digest]
    <3>1. cmd' \in Command
      BY <2>3 DEF Command, Trees
    <3>2. cmd.db # None
      BY <2>1 DEF Databases
    <3>3. CheckpointTypeOK'
      BY <1>1, <2>1, <2>3, <3>1, <3>2 DEF CheckpointTypeOK, Trees
    <3>4. CopyInv'
      BY <2>1, <2>3 DEF CopyInv, CheckpointVerifies, Whole
    <3> QED BY <1>2, <1>3, <1>4, <2>3, <3>1, <3>3, <3>4
  <2> QED BY <1>7, <1>10, <2>2, <2>3 DEF SwapCheckpoint
<1> QED BY <1>6, <1>8, <1>9, <1>10

\* What every step of a restore leaves alone.
LEMMA RestoreFrame ==
    ASSUME CheckpointInv, UNCHANGED <<up, version, checkpoint, pub>>,
           cmd' \in Command, cmd'.pc \notin {"image", "copy", "remove", "removing"},
           open' \in BOOLEAN, open' => rollback' # None,
           database' \in {None} \cup Databases, rollback' \in {None} \cup Databases,
           {published', previous', aside'} \subseteq Trees,
           kept' \in [database : Databases, artifact : Artifacts \cup {None}],
           cmd'.pc \in {"retire", "install", "digest"} => cmd'.kind \in Restores /\ cmd'.db \in Databases,
           cmd'.pc \in Installing \cup {"revert"} => cmd'.kind = "checkpoint",
           cmd'.pc \in Installing => cmd'.artifact \in Artifacts,
           cmd'.kind = "checkpoint" /\ cmd'.pc \in {"retire", "install", "digest"} =>
               cmd'.artifact \in Artifacts,
           RestoreInv', PublicationInv'
    PROVE  CheckpointInv'
<1>1. CheckpointTypeOK'
  BY DEF CheckpointInv, CheckpointTypeOK
<1>2. PhaseInv'
  BY DEF CheckpointInv, PhaseInv
<1>3. CopyInv'
  BY DEF CheckpointInv, CopyInv, CheckpointVerifies, Whole
<1> QED BY <1>1, <1>2, <1>3 DEF CheckpointInv

\* A restore begins.
LEMMA RestoreBegins ==
    ASSUME CheckpointInv, (\E db \in SUBSET (1..version) : RestoreDatabase(db)) \/ RestoreCheckpoint
    PROVE  CheckpointInv'
<1> USE CheckpointAssumption
<1>1. /\ UNCHANGED <<up, version, open, database, rollback, published, previous, aside, checkpoint, pub>>
      /\ database # None /\ kept' = [kept EXCEPT !.database = database]
  BY DEF RestoreDatabase, RestoreCheckpoint, databaseFiles, artifactFiles
<1>2. /\ kept \in [database : Databases, artifact : Artifacts \cup {None}] /\ open \in BOOLEAN
      /\ database \in Databases /\ rollback \in {None} \cup Databases
      /\ {published, previous, aside} \subseteq Trees
      /\ open => rollback # None
  BY <1>1 DEF CheckpointInv, CheckpointTypeOK, PhaseInv
<1>3. kept' = [database |-> database, artifact |-> kept.artifact]
  BY <1>1, <1>2, KeptMoves
<1>4. PublicationInv'
  BY <1>1, <1>3, PublicationQuiet DEF CheckpointInv
<1>5. \E db \in Databases, digest \in Artifacts \cup {None}, artifact \in Trees,
          kind \in {"database", "checkpoint"} :
        /\ cmd' = [pc |-> "retire", kind |-> kind, digest |-> digest, db |-> db, artifact |-> artifact,
                   removed |-> FALSE]
        /\ kind = "checkpoint" => artifact \in Artifacts
  <2>1. ASSUME NEW db \in SUBSET (1..version), RestoreDatabase(db)
        PROVE  cmd' = [pc |-> "retire", kind |-> "database", digest |-> None, db |-> db,
                       artifact |-> None, removed |-> FALSE] /\ db \in Databases /\ None \in Trees
    <3>1. version \in 0..MaxVersion
      BY DEF CheckpointInv, CheckpointTypeOK
    <3>2. 1..version \subseteq 1..MaxVersion
      BY <3>1
    <3>3. db \in Databases
      BY <3>2 DEF Databases
    <3> QED BY <2>1, <3>3 DEF RestoreDatabase, NoCmd, Trees
  <2>2. CASE RestoreCheckpoint
    <3>1. /\ checkpoint \notin {None, Torn} /\ checkpoint.artifact = checkpoint.digest
          /\ cmd' = [pc |-> "retire", kind |-> "checkpoint", digest |-> checkpoint.digest,
                     db |-> checkpoint.db, artifact |-> checkpoint.artifact, removed |-> FALSE]
      BY <2>2 DEF RestoreCheckpoint, Whole
    <3>2. checkpoint.db \in Databases /\ checkpoint.digest \in Artifacts /\ checkpoint.artifact \in Trees
      BY <3>1 DEF CheckpointInv, CheckpointTypeOK
    <3> QED BY <3>1, <3>2
  <2> QED BY <2>1, <2>2
<1>6. /\ cmd' \in Command /\ cmd'.pc = "retire" /\ cmd'.kind \in Restores /\ cmd'.db \in Databases
      /\ cmd'.kind = "checkpoint" => cmd'.artifact \in Artifacts
  BY <1>5 DEF Command, Restores
<1>7. RestoreInv'
  BY <1>1, <1>2, <1>3, <1>6 DEF RestoreInv, Holds, RollbackCopySurvives, FailedRestoreIsUndone, Installing
<1>8. kept' \in [database : Databases, artifact : Artifacts \cup {None}]
  BY <1>2, <1>3
<1> QED BY <1>1, <1>2, <1>4, <1>6, <1>7, <1>8, RestoreFrame DEF Installing

\* A restore that ends, as it should or by raising.
LEMMA RestoreEnds ==
    ASSUME CheckpointInv, UNCHANGED <<up, version, checkpoint, pub, published, previous, aside, kept>>,
           open' \in BOOLEAN, open' => rollback' # None,
           database' \in {None} \cup Databases, rollback' \in {None} \cup Databases,
           Holds(database', kept.database) \/ Holds(rollback', kept.database),
           \/ cmd' = NoCmd \/ Raises("unread") \/ Raises("stranded")
           \/ Raises("failed") /\ Holds(database', kept.database)
    PROVE  CheckpointInv'
<1>1. /\ cmd \in Command /\ {published, previous, aside} \subseteq Trees
      /\ kept \in [database : Databases, artifact : Artifacts \cup {None}]
  BY DEF CheckpointInv, CheckpointTypeOK
<1>2. /\ cmd' \in Command /\ cmd'.pc \in {"idle", "failed", "unread", "stranded"}
      /\ cmd'.pc = "failed" => Holds(database', kept.database)
  <2>1. CASE cmd' = NoCmd
    BY <2>1 DEF NoCmd, Command, Trees
  <2>2. ASSUME NEW pc \in {"failed", "unread", "stranded"}, Raises(pc)
        PROVE  cmd' \in Command /\ cmd'.pc = pc
    BY <1>1, <2>2, CmdMoves DEF Command, Trees
  <2> QED BY <2>1, <2>2 DEF NoCmd
<1>3. RestoreInv'
  BY <1>2 DEF RestoreInv, Holds, RollbackCopySurvives, FailedRestoreIsUndone, Installing
<1>4. PublicationInv'
  BY PublicationQuiet DEF CheckpointInv
<1> QED BY <1>1, <1>2, <1>3, <1>4, RestoreFrame DEF Installing

\* The renames of the database.
LEMMA DatabaseStep ==
    ASSUME CheckpointInv, RetireDatabase \/ InstallDatabase \/ ReturnDigest \/ RevertDatabase
    PROVE  CheckpointInv'
<1> USE CheckpointAssumption
<1>1. UNCHANGED <<up, version, published, previous, aside, checkpoint, pub, kept>>
  BY DEF RetireDatabase, InstallDatabase, ReturnDigest, RevertDatabase, artifactFiles
<1>2. /\ cmd \in Command /\ {published, previous, aside} \subseteq Trees
      /\ kept \in [database : Databases, artifact : Artifacts \cup {None}]
      /\ up \in BOOLEAN /\ open \in BOOLEAN /\ (open => rollback # None)
      /\ database \in {None} \cup Databases /\ rollback \in {None} \cup Databases
  BY DEF CheckpointInv, CheckpointTypeOK, PhaseInv
<1>3. /\ cmd.pc \in {"retire", "install", "digest"} => cmd.kind \in Restores /\ cmd.db \in Databases
      /\ cmd.kind = "checkpoint" /\ cmd.pc \in {"retire", "install", "digest"} => cmd.artifact \in Artifacts
      /\ cmd.pc = "retire" => Holds(database, kept.database)
      /\ cmd.pc \in {"install", "digest", "revert"} => Holds(rollback, kept.database)
  BY DEF CheckpointInv, PhaseInv, RestoreInv
<1>4. PublicationInv'
  BY <1>1, PublicationQuiet DEF CheckpointInv
<1>5. ASSUME NEW pc \in {"install", "digest", "stage"}, CmdAt(pc),
             cmd.pc \in {"retire", "install", "digest"}, pc = "stage" => cmd.kind = "checkpoint",
             open' \in BOOLEAN, database' \in {None} \cup Databases, rollback' \in {None} \cup Databases,
             Holds(rollback', kept.database)
      PROVE  CheckpointInv'
  <2>1. cmd' = [pc |-> pc, kind |-> cmd.kind, digest |-> cmd.digest, db |-> cmd.db,
                artifact |-> cmd.artifact, removed |-> cmd.removed]
    BY <1>2, <1>5, CmdMoves
  <2>2. cmd' \in Command
    BY <1>2, <2>1 DEF Command, Installing
  <2>3. RestoreInv'
    BY <1>1, <1>5, <2>1 DEF RestoreInv, Holds, RollbackCopySurvives, FailedRestoreIsUndone, Installing
  <2>4. rollback' # None
    BY <1>5 DEF Holds
  <2> QED BY <1>1, <1>2, <1>3, <1>4, <1>5, <2>1, <2>2, <2>3, <2>4, RestoreFrame DEF Installing, Restores
<1>6. CASE RetireDatabase
  <2>1. cmd.pc = "retire"
    BY <1>6 DEF RetireDatabase
  <2>2. CASE rollback' = database /\ database' = None /\ open' = up /\ CmdAt("install")
    BY <1>2, <1>3, <1>5, <2>1, <2>2
  <2>3. CASE UNCHANGED databaseFiles /\ Raises("failed")
    BY <1>1, <1>2, <1>3, <2>1, <2>3, RestoreEnds DEF databaseFiles
  <2> QED BY <1>6, <2>2, <2>3 DEF RetireDatabase
<1>7. ASSUME PutBack, Raises("failed"), cmd.pc \in {"install", "revert"} PROVE CheckpointInv'
  BY <1>1, <1>2, <1>3, <1>7, RestoreEnds DEF PutBack
<1>8. ASSUME UNCHANGED databaseFiles, cmd.pc \in {"install", "digest", "revert"},
             cmd' = NoCmd \/ Raises("unread") \/ Raises("stranded")
      PROVE  CheckpointInv'
  BY <1>1, <1>2, <1>3, <1>8, RestoreEnds DEF databaseFiles
<1>9. CASE InstallDatabase
  <2>1. cmd.pc = "install"
    BY <1>9 DEF InstallDatabase
  <2>2. CASE database' = cmd.db /\ UNCHANGED <<open, rollback>> /\ CmdAt("digest")
    BY <1>2, <1>3, <1>5, <2>1, <2>2
  <2> QED BY <1>7, <1>8, <1>9, <2>1, <2>2 DEF InstallDatabase
<1>10. CASE ReturnDigest
  <2>1. cmd.pc = "digest" /\ UNCHANGED databaseFiles
    BY <1>10 DEF ReturnDigest
  <2>2. CASE cmd.kind = "checkpoint" /\ CmdAt("stage")
    BY <1>2, <1>3, <1>5, <2>1, <2>2 DEF databaseFiles
  <2> QED BY <1>8, <1>10, <2>1, <2>2 DEF ReturnDigest
<1>11. CASE RevertDatabase
  BY <1>7, <1>8, <1>11 DEF RevertDatabase
<1> QED BY <1>6, <1>9, <1>10, <1>11

\* The artifact half of a restore, beside a publication at any step: it writes
\* to the published path and leaves the files of the database.
LEMMA ArtifactStep ==
    ASSUME CheckpointInv, RestoreArtifact
    PROVE  CheckpointInv'
<1> USE CheckpointAssumption
<1>1. UNCHANGED <<up, version, open, database, rollback, previous, aside, checkpoint, pub>>
  BY DEF RestoreArtifact, databaseFiles
<1>2. /\ cmd \in Command /\ {published, previous, aside} \subseteq Trees
      /\ kept \in [database : Databases, artifact : Artifacts \cup {None}]
      /\ open \in BOOLEAN /\ (open => rollback # None)
      /\ database \in {None} \cup Databases /\ rollback \in {None} \cup Databases
  BY DEF CheckpointInv, CheckpointTypeOK, PhaseInv
<1>3. cmd.pc \in Installing /\ cmd.kind = "checkpoint" /\ cmd.artifact \in Artifacts
  BY DEF RestoreArtifact, CheckpointInv, PhaseInv
<1>4. Holds(rollback, kept.database)
  BY <1>3 DEF CheckpointInv, RestoreInv
<1>5. kept' = IF Removes /\ published = kept.artifact
              THEN [database |-> kept.database, artifact |-> None] ELSE kept
  BY <1>2, KeptMoves DEF RestoreArtifact
<1>6. kept' \in [database : Databases, artifact : Artifacts \cup {None}] /\ kept'.database = kept.database
  BY <1>2, <1>5
<1>7. /\ published' \in Trees
      /\ published \in Artifacts => published' = published \/ Removes
  BY <1>2, <1>3 DEF RestoreArtifact, Installs, Trees, Removes
<1>8. PublicationInv'
  <2>1. CASE kept'.artifact = None
    BY <2>1 DEF PublicationInv, PublicationKeepsReplaced
  <2>2. CASE kept'.artifact # None
    <3>1. kept' = kept /\ (published = kept.artifact => published' = published)
      BY <1>2, <1>5, <1>7, <2>2
    <3> QED BY <1>1, <3>1 DEF CheckpointInv, PublicationInv, PublicationKeepsReplaced
  <2> QED BY <2>1, <2>2
<1>9. \E pc \in Installing \cup {"revert", "idle"} :
        /\ cmd' \in Command /\ cmd'.pc = pc
        /\ pc # "idle" => cmd'.kind = "checkpoint" /\ cmd'.artifact = cmd.artifact
  <2>1. ASSUME NEW next \in Installing, NEW b \in BOOLEAN, cmd' = [cmd EXCEPT !.pc = next, !.removed = b]
        PROVE  cmd' \in Command /\ cmd'.pc = next /\ cmd'.kind = cmd.kind /\ cmd'.artifact = cmd.artifact
    BY <1>2, <2>1 DEF Command
  <2>2. CASE cmd' = NoCmd
    BY <2>2 DEF NoCmd, Command, Trees
  <2>3. CASE CmdAt("revert")
    BY <1>2, <1>3, <2>3, CmdMoves DEF Command
  <2>4. CASE \E next \in Installing : cmd' = [cmd EXCEPT !.pc = next, !.removed = @ \/ Removes]
    <3>1. PICK next \in Installing : cmd' = [cmd EXCEPT !.pc = next, !.removed = cmd.removed \/ Removes]
      BY <2>4
    <3>2. (cmd.removed \/ Removes) \in BOOLEAN
      OBVIOUS
    <3> QED BY <1>3, <2>1, <3>1, <3>2
  <2> QED BY <2>2, <2>3, <2>4 DEF RestoreArtifact
<1>10. RestoreInv'
  BY <1>1, <1>4, <1>6, <1>9 DEF RestoreInv, Holds, RollbackCopySurvives, FailedRestoreIsUndone, Installing
<1>11. {published', previous', aside'} \subseteq Trees
  BY <1>1, <1>2, <1>7
<1> QED BY <1>1, <1>2, <1>3, <1>6, <1>8, <1>9, <1>10, <1>11, RestoreFrame DEF Installing

\* The command dies.
LEMMA CrashStep ==
    ASSUME CheckpointInv, CrashCommand
    PROVE  CheckpointInv'
<1>1. /\ UNCHANGED <<up, version, open, database, rollback, published, previous, aside, checkpoint, pub, kept>>
      /\ cmd' = NoCmd
  BY DEF CrashCommand, databaseFiles, artifactFiles
<1>2. /\ open \in BOOLEAN /\ (open => rollback # None)
      /\ database \in {None} \cup Databases /\ rollback \in {None} \cup Databases
      /\ Holds(database, kept.database) \/ Holds(rollback, kept.database)
  BY DEF CheckpointInv, CheckpointTypeOK, PhaseInv, RestoreInv, RollbackCopySurvives
<1> QED BY <1>1, <1>2, RestoreEnds

\* Every step keeps the invariant.
LEMMA StepHolds == CheckpointInv /\ [Next]_vars => CheckpointInv'
<1> SUFFICES ASSUME CheckpointInv, [Next]_vars PROVE CheckpointInv'
  OBVIOUS
<1>1. CASE Next
  BY <1>1, ServerStep, PromotionStep, BuildStep, CreateStep, RestoreBegins, DatabaseStep, ArtifactStep,
     CrashStep DEF Next
<1>2. CASE UNCHANGED vars
  <2>1. UNCHANGED <<up, open, database, rollback, version, published, previous, aside, checkpoint, pub,
                    cmd, kept>>
    BY <1>2 DEF vars
  <2>2. CheckpointTypeOK' /\ PhaseInv'
    BY <2>1 DEF CheckpointInv, CheckpointTypeOK, PhaseInv
  <2> QED BY <2>1, <2>2, CopyQuiet, RestoreQuiet, PublicationQuiet DEF CheckpointInv
<1> QED BY <1>1, <1>2

\* The inductive invariant of the file system.
THEOREM CheckpointInvariant == Spec => []CheckpointInv
BY InitHolds, StepHolds, PTL DEF Spec

\* Type correctness.
THEOREM CheckpointTypeCorrect == Spec => []CheckpointTypeOK
<1>1. CheckpointInv => CheckpointTypeOK
  BY DEF CheckpointInv
<1> QED BY <1>1, CheckpointInvariant, PTL

\* A checkpoint at its path is one verify_system_checkpoint() accepts, however
\* many artifacts and writes there are (checkpoint.py:76-118).
THEOREM CheckpointsVerify == Spec => []CheckpointVerifies
<1>1. CheckpointInv => CheckpointVerifies
  BY DEF CheckpointInv, CopyInv
<1> QED BY <1>1, CheckpointInvariant, PTL

\* Every write of the database a restore found stays at its path or at
\* .previous until the next restore (backup.py:103-139, checkpoint.py:145-172).
THEOREM RollbackCopyStays == Spec => []RollbackCopySurvives
<1>1. CheckpointInv => RollbackCopySurvives
  BY DEF CheckpointInv, RestoreInv
<1> QED BY <1>1, CheckpointInvariant, PTL

\* A restore that failed and was rolled back has left the database it found at
\* the path (backup.py:133-138, checkpoint.py:169-172).
THEOREM FailedRestoresAreUndone == Spec => []FailedRestoreIsUndone
<1>1. CheckpointInv => FailedRestoreIsUndone
  BY DEF CheckpointInv, RestoreInv
<1> QED BY <1>1, CheckpointInvariant, PTL

\* The artifact a promotion or a build replaces stays at one of three names
\* until the next publication, unless a restore removes it
\* (backends.py:587-603, 607-649).
THEOREM ReplacedArtifactStays == Spec => []PublicationKeepsReplaced
<1>1. CheckpointInv => PublicationKeepsReplaced
  BY DEF CheckpointInv, PublicationInv
<1> QED BY <1>1, CheckpointInvariant, PTL
=============================================================================
