---------------------------- MODULE ArtifactStore ----------------------------
(***************************************************************************)
(* LocalArtifactStore of adapters/local_artifacts.py.  A put writes its     *)
(* content to a staging file, and then, in a thread, under the write lock   *)
(* of a small database: looks up its idempotency key and its artifact ID,   *)
(* links the staging file to the object that its content names, links the   *)
(* file of its metadata, and commits the two rows that make the artifact    *)
(* visible.  When the thread has returned, or when the caller is cancelled  *)
(* (the thread runs on then), the staging file is removed.                  *)
(*                                                                          *)
(* A file is verified by reading it twice between two looks at its state,   *)
(* which has the number of its links: what the removal of a staging file    *)
(* does to a verification depends on the system.  POSIX removes it, and the *)
(* verification finds the object changed; Windows refuses to remove it, and *)
(* the put whose file it is fails after it has committed.                   *)
(*                                                                          *)
(* Content is not damaged by others, and a crash is the death of the        *)
(* Worker, which loses nothing that is written.                             *)
(***************************************************************************)
EXTENDS Naturals, FiniteSets

CONSTANTS
    Puts, Keys, Ids, Contents, None,
    Plans,          \* what the puts may ask for, see `asked'
    MaxTroubles     \* bound: what comes from outside, in all: see Trouble

\* ArtifactMetadata; `at' stands for what else it has, such as the time.
Metadata == [id : Ids, content : Contents, at : Nat]

ASSUME ArtifactAssumption ==
    /\ Plans \subseteq [Puts -> [key : Keys, metadata : Metadata]]
    /\ None \notin Puts \cup Metadata \cup Contents
    /\ MaxTroubles \in Nat

VARIABLES
    asked,          \* asked[p]: the idempotency key and the metadata; it never changes
    system,         \* os.name
    entries,        \* committed: the metadata of the visible artifacts
    idempotency,    \* committed: the request that a key is bound to
    objects,        \* the put whose staging file is the object of this content
    descriptions,   \* the metadata files
    staging,        \* the puts whose staging file exists
    writer,         \* the put that is in a transaction
    pc,             \* where the thread of a put is
    seen,           \* the links of the object it has open
    told,           \* what the caller of a put is told
    owing,          \* the puts whose staging file is still to be removed
    reading,        \* the content that a reader has open
    disturbed,      \* history: the puts at work that do not have the store to themselves
    troubles

database == <<entries, idempotency>>
files == <<objects, descriptions, staging>>
vars == <<asked, system, database, files, writer, pc, seen, told, owing, reading,
          disturbed, troubles>>

Meta(p) == asked[p].metadata
Key(p) == asked[p].key
Id(p) == Meta(p).id
Content(p) == Meta(p).content

Links(c) ==
    IF objects[c] = None THEN 0 ELSE IF objects[c] \in staging THEN 2 ELSE 1

Verifying(p) == pc[p] \in {"verify", "verify_object"}
Working(p) == pc[p] \in {"begin", "stage", "promote", "verify", "verify_object", "describe", "commit"}
Busy(p) == Working(p) \/ p \in owing

\* Whether the staging file of p, under either of its names, is open.
Held(p) ==
    \/ pc[p] \in {"promote", "verify_object"}
    \/ /\ objects[Content(p)] = p
       /\ reading = Content(p) \/ \E q \in Puts : Verifying(q) /\ Content(q) = Content(p)

Init ==
    /\ asked \in Plans /\ system \in {"nt", "posix"}
    /\ entries = [i \in Ids |-> None] /\ idempotency = [k \in Keys |-> None]
    /\ objects = [c \in Contents |-> None] /\ descriptions = [i \in Ids |-> None]
    /\ staging = {} /\ writer = None
    /\ pc = [p \in Puts |-> "idle"] /\ seen = [p \in Puts |-> 0]
    /\ told = [p \in Puts |-> "nothing"] /\ owing = {} /\ reading = None
    /\ disturbed = {} /\ troubles = 0

\* A cancellation, a failing file operation or database call, the death of the
\* Worker.
Trouble == troubles < MaxTroubles /\ troubles' = troubles + 1

-----------------------------------------------------------------------------
(* How the thread goes on, and how it ends.                                 *)

Goto(p, l) == pc' = [pc EXCEPT ![p] = l] /\ UNCHANGED <<writer, told>>

\* A caller that was cancelled does not hear of it.
Ends(p, a) ==
    /\ pc' = [pc EXCEPT ![p] = "ended"]
    /\ writer' = IF writer = p THEN None ELSE writer
    /\ told' = IF told[p] = "nothing" THEN [told EXCEPT ![p] = a] ELSE told

\* The rollback takes back rows and leaves files.
Fails(p, a) ==
    /\ Ends(p, a) /\ seen' = [seen EXCEPT ![p] = 0]
    /\ UNCHANGED <<database, files, owing, reading>>

\* _open_verified_object: the object is opened and its state is taken.
Opens(p, l) == Goto(p, l) /\ seen' = [seen EXCEPT ![p] = Links(Content(p))]

-----------------------------------------------------------------------------
(* put, on the event loop.                                                  *)

\* (A put that fails or is cancelled while it writes leaves no more than a file
\* that nothing else is linked to.)
Stage(p) ==
    /\ pc[p] = "idle"
    /\ Goto(p, "begin")
    /\ staging' = staging \cup {p} /\ owing' = owing \cup {p}
    /\ UNCHANGED <<database, objects, descriptions, seen, reading, troubles>>

\* asyncio cancels the caller.
Cancel(p) ==
    /\ Working(p) /\ told[p] = "nothing" /\ Trouble
    /\ told' = [told EXCEPT ![p] = "cancelled"]
    /\ UNCHANGED <<database, files, writer, pc, seen, owing, reading>>

\* The token of put_stream is cancelled: the thread finds it at a checkpoint.
Checkpoint(p) ==
    /\ pc[p] \in {"begin", "promote", "verify", "verify_object"}
    /\ Trouble /\ Fails(p, "cancelled")

Cleanup(p) ==
    /\ p \in owing /\ told[p] # "nothing"
    /\ owing' = owing \ {p}
    /\ IF system = "nt" /\ Held(p) /\ p \in staging
       THEN told' = [told EXCEPT ![p] = "failed"] /\ UNCHANGED staging
       ELSE staging' = staging \ {p} /\ UNCHANGED told
    /\ UNCHANGED <<database, objects, descriptions, writer, pc, seen, reading, troubles>>

-----------------------------------------------------------------------------
(* _commit_staged, in its thread.                                           *)

\* The metadata of what is there under the ID is not looked at.
Mutant_Found(p) ==
    IF idempotency[Key(p)] \notin {None, Meta(p)} THEN "conflict"
    ELSE IF entries[Id(p)] # None THEN "stored" ELSE "new"

\* What the two rows, and the metadata file, say to the request.
Found(p) ==
    LET bound == idempotency[Key(p)]
        entry == entries[Id(p)]
    IN  IF bound \notin {None, Meta(p)} THEN "conflict"
        ELSE IF entry # None /\ descriptions[Id(p)] # entry THEN "corrupt"
        ELSE IF entry = Meta(p) THEN "stored"
        ELSE IF entry = None /\ bound = None THEN "new" ELSE "conflict"

Begin(p) ==
    /\ pc[p] = "begin" /\ writer = None
    /\ \/ /\ Found(p) = "new"
          /\ pc' = [pc EXCEPT ![p] = "stage"] /\ UNCHANGED seen
       \/ /\ Found(p) = "stored"
          /\ pc' = [pc EXCEPT ![p] = "verify"]
          /\ seen' = [seen EXCEPT ![p] = Links(Content(p))]
    /\ writer' = p
    /\ UNCHANGED <<database, files, told, owing, reading, troubles>>

Refuse(p) ==
    /\ pc[p] = "begin" /\ writer = None
    /\ Found(p) \in {"conflict", "corrupt"}
    /\ Fails(p, Found(p)) /\ UNCHANGED troubles

\* _promote_staging opens the staging file and verifies it.
OpenStaging(p) ==
    /\ pc[p] = "stage"
    /\ IF p \in staging
       THEN Goto(p, "promote") /\ UNCHANGED <<database, files, seen, owing, reading, troubles>>
       ELSE Fails(p, "failed") /\ UNCHANGED troubles

\* The object may be there: of another artifact, or of a put that went no further.
Promote(p) ==
    /\ pc[p] = "promote"
    /\ \/ /\ p \notin staging
          /\ Fails(p, "corrupt") /\ UNCHANGED troubles
       \/ /\ p \in staging /\ objects[Content(p)] = None
          /\ objects' = [objects EXCEPT ![Content(p)] = p]
          /\ Goto(p, "describe")
          /\ UNCHANGED <<database, descriptions, staging, seen, owing, reading, troubles>>
       \/ /\ p \in staging /\ objects[Content(p)] # None
          /\ Opens(p, "verify_object")
          /\ UNCHANGED <<database, files, owing, reading, troubles>>

\* _verify_open_stream
Unchanged(p) == seen[p] > 0 /\ Links(Content(p)) = seen[p]

Verify(p) ==
    /\ Verifying(p)
    /\ IF Unchanged(p)
       THEN /\ Goto(p, IF pc[p] = "verify" THEN "commit" ELSE "describe")
            /\ seen' = [seen EXCEPT ![p] = 0]
            /\ UNCHANGED <<database, files, owing, reading, troubles>>
       ELSE Fails(p, "corrupt") /\ UNCHANGED troubles

\* A metadata file that is there already is refused, whatever it says.
Mutant_Described(p) == descriptions[Id(p)] = None

\* _write_metadata_file
Described(p) == descriptions[Id(p)] \in {None, Meta(p)}

Describe(p) ==
    /\ pc[p] = "describe"
    /\ IF Described(p)
       THEN /\ descriptions' = [descriptions EXCEPT ![Id(p)] = Meta(p)]
            /\ Goto(p, "commit")
            /\ UNCHANGED <<database, objects, staging, seen, owing, reading, troubles>>
       ELSE Fails(p, "corrupt") /\ UNCHANGED troubles

Stored(p) ==
    /\ entries' = [entries EXCEPT ![Id(p)] = Meta(p)]
    /\ idempotency' = [idempotency EXCEPT ![Key(p)] = Meta(p)]

Commit(p) ==
    /\ pc[p] = "commit"
    /\ Stored(p) /\ Ends(p, "ok")
    /\ UNCHANGED <<files, seen, owing, reading, troubles>>

\* The metadata file is removed when the commit raises.
Mutant_CommitFails(p) ==
    /\ pc[p] = "commit" /\ Trouble
    /\ Stored(p) \/ UNCHANGED database
    /\ Ends(p, "corrupt")
    /\ descriptions' = [descriptions EXCEPT ![Id(p)] = None]
    /\ UNCHANGED <<objects, staging, seen, owing, reading>>

\* The commit raises, and is durable or not.
CommitFails(p) ==
    /\ pc[p] = "commit" /\ Trouble
    /\ Stored(p) \/ UNCHANGED database
    /\ Ends(p, "corrupt")
    /\ UNCHANGED <<files, seen, owing, reading>>

\* A file operation fails (the next state of one that is done by then is its own),
\* or the lock is not had in time.
StepFails(p) ==
    /\ Working(p) /\ Trouble
    /\ Fails(p, IF pc[p] = "begin" \/ Verifying(p) THEN "corrupt" ELSE "failed")

-----------------------------------------------------------------------------
(* A reader, and the Worker.                                                *)

Read(i) ==
    /\ reading = None /\ entries[i] # None
    /\ reading' = entries[i].content
    /\ UNCHANGED <<database, files, writer, pc, seen, told, owing, troubles>>

ReadEnds ==
    /\ reading # None
    /\ reading' = None
    /\ UNCHANGED <<database, files, writer, pc, seen, told, owing, troubles>>

Crash ==
    /\ Trouble
    /\ pc' = [p \in Puts |-> IF Busy(p) THEN "dead" ELSE pc[p]]
    /\ writer' = None /\ owing' = {} /\ reading' = None /\ seen' = [p \in Puts |-> 0]
    /\ UNCHANGED <<database, files, told>>

Step ==
    \/ \E p \in Puts :
        \/ Stage(p) \/ Cancel(p) \/ Checkpoint(p) \/ Cleanup(p)
        \/ Begin(p) \/ Refuse(p) \/ OpenStaging(p) \/ Promote(p) \/ Verify(p)
        \/ Describe(p) \/ Commit(p) \/ CommitFails(p) \/ StepFails(p)
    \/ \E i \in Ids : Read(i)
    \/ ReadEnds
    \/ Crash

AtWork == {p \in Puts : Busy(p)}

\* Two at work at once disturb each other, and so does a reader, and trouble.
Observe ==
    disturbed' = (disturbed \cap AtWork) \cup
        IF troubles' # troubles \/ reading' # None \/ \E p, q \in AtWork' : p # q
        THEN AtWork \cup AtWork' ELSE {}

Next == Step /\ Observe /\ UNCHANGED <<asked, system>>

Spec == Init /\ [][Next]_vars

-----------------------------------------------------------------------------
(* What puts and readers rely on.                                           *)

TypeOK ==
    /\ asked \in Plans /\ system \in {"nt", "posix"}
    /\ entries \in [Ids -> Metadata \cup {None}]
    /\ idempotency \in [Keys -> Metadata \cup {None}]
    /\ objects \in [Contents -> Puts \cup {None}]
    /\ descriptions \in [Ids -> Metadata \cup {None}]
    /\ staging \subseteq Puts /\ writer \in Puts \cup {None}
    /\ pc \in [Puts -> {"idle", "begin", "stage", "promote", "verify", "verify_object",
                        "describe", "commit", "ended", "dead"}]
    /\ seen \in [Puts -> 0 .. 2]
    /\ told \in [Puts -> {"nothing", "ok", "conflict", "corrupt", "failed", "cancelled"}]
    /\ owing \subseteq Puts /\ reading \in Contents \cup {None}
    /\ disturbed \subseteq Puts

\* What is visible is whole: the metadata file of an artifact is what its row
\* says, its object is there, and a key that is bound names such an artifact:
\* whichever put was cancelled, failed in its commit or died half-way, and
\* whoever else stores the same content.
VisibleIsWhole ==
    /\ \A i \in Ids : entries[i] # None =>
        /\ entries[i].id = i
        /\ descriptions[i] = entries[i]
        /\ objects[entries[i].content] # None
    /\ \A k \in Keys : idempotency[k] # None => entries[idempotency[k].id] = idempotency[k]

\* A put that returned is stored as it was asked for, ever after; and one that
\* was refused met another request under its key or its artifact ID.
ToldAsStored ==
    \A p \in Puts :
        /\ told[p] = "ok" => entries[Id(p)] = Meta(p) /\ idempotency[Key(p)] = Meta(p)
        /\ told[p] = "conflict" =>
            \/ entries[Id(p)] \notin {None, Meta(p)}
            \/ idempotency[Key(p)] \notin {None, Meta(p)}

\* Nobody asks for anything else under the key or the ID of p.
Unrivalled(p) ==
    \A q \in Puts : Key(q) = Key(p) \/ Id(q) = Id(p) => Meta(q) = Meta(p)

\* Whatever earlier puts of the same request left behind (an object, a metadata
\* file, a staging file, a commit that raised), a put that has the store to
\* itself succeeds: "an identical retry can reconcile them without overwrite".
RetryReconciles ==
    [][\A p \in AtWork : p \notin AtWork' \cup disturbed' /\ Unrivalled(p) => told'[p] = "ok"]_vars

-----------------------------------------------------------------------------
(* What a test says and the code does not do.                               *)

\* test_local_artifact_store.py:237, "two store instances atomically bind the same
\* key": identical puts that run at once, with nothing going wrong, are all told that
\* they are stored.  (Windows refuses a removal for another reason.)
IdenticalPutsAreStored ==
    [][troubles' = 0 /\ system = "posix" =>
           \A p \in Puts : Unrivalled(p) => told'[p] \in {"nothing", "ok"}]_vars
=============================================================================
