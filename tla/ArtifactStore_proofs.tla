------------------------ MODULE ArtifactStore_proofs ------------------------
(***************************************************************************)
(* What is visible in the artifact store is whole, and what a put was told  *)
(* stays true.                                                              *)
(*                                                                          *)
(* Files are only ever added, and rows are only added by the one put that   *)
(* holds the write lock: so what it found when it took the lock still holds *)
(* when it commits, and the files it has linked meanwhile are still there   *)
(* (`WriterKnows').                                                         *)
(***************************************************************************)
EXTENDS ArtifactStore, TLAPS

Writing == {"stage", "promote", "verify", "verify_object", "describe", "commit"}

\* What the put that holds the write lock relies on in each of its states.
WriterKnows ==
    \A p \in Puts :
        /\ pc[p] \in Writing <=> writer = p
        /\ pc[p] \in {"stage", "promote", "verify_object", "describe"} =>
              entries[Id(p)] = None /\ idempotency[Key(p)] = None
        /\ pc[p] \in {"verify", "commit"} =>
              /\ entries[Id(p)] \in {None, Meta(p)} /\ idempotency[Key(p)] \in {None, Meta(p)}
              /\ descriptions[Id(p)] = Meta(p)
        /\ pc[p] \in {"verify", "verify_object", "describe", "commit"} => objects[Content(p)] # None

IInv == TypeOK /\ VisibleIsWhole /\ ToldAsStored /\ WriterKnows

USE DEF Meta, Key, Id, Content

LEMMA InitIInv == Init => IInv
  BY ArtifactAssumption
     DEF Init, IInv, TypeOK, VisibleIsWhole, ToldAsStored, WriterKnows, Writing

\* What the puts ask for.
LEMMA Asked ==
  ASSUME IInv
  PROVE \A p \in Puts : /\ Meta(p) \in Metadata /\ Key(p) \in Keys /\ Id(p) \in Ids
                        /\ Content(p) \in Contents /\ Meta(p) # None
  BY ArtifactAssumption DEF IInv, TypeOK, Metadata

\* A step that leaves rows and files of metadata alone, adds at most objects, and
\* tells nobody that a put succeeded or met a conflict, keeps what is stored.
LEMMA StoredKept ==
  ASSUME IInv, UNCHANGED <<asked, database, descriptions>>,
         \A c \in Contents : objects[c] # None => objects'[c] # None,
         \A p \in Puts : told'[p] \in {"ok", "conflict"} => told'[p] = told[p]
  PROVE  VisibleIsWhole' /\ ToldAsStored'
<1>1. VisibleIsWhole'  BY DEF IInv, TypeOK, VisibleIsWhole, database, Metadata
<1>2. ToldAsStored'  BY DEF IInv, TypeOK, ToldAsStored, database
<1> QED  BY <1>1, <1>2

\* The thread of a put ends with a failure: its lock is free, its files stay.
LEMMA FailsKept ==
  ASSUME IInv, NEW p \in Puts, NEW a \in {"corrupt", "failed", "cancelled"},
         pc[p] \in Writing \cup {"begin"}, Fails(p, a), UNCHANGED <<asked, system>>,
         disturbed' \subseteq Puts
  PROVE  IInv'
<1>1. UNCHANGED <<asked, database, files>>  BY DEF Fails
<1>2. \A q \in Puts : told'[q] \in {"ok", "conflict"} => told'[q] = told[q]
  BY DEF Fails, Ends, IInv, TypeOK
<1>3. VisibleIsWhole' /\ ToldAsStored'  BY <1>1, <1>2, StoredKept DEF files
<1>4. TypeOK'  BY DEF Fails, Ends, IInv, TypeOK, database, files
<1>5. WriterKnows'
  BY ArtifactAssumption DEF Fails, Ends, IInv, TypeOK, WriterKnows, Writing, database, files
<1> QED  BY <1>3, <1>4, <1>5 DEF IInv

\* Who is at work is a put.
LEMMA ObserveTyped == IInv /\ Observe => disturbed' \subseteq Puts
  BY DEF Observe, AtWork, IInv, TypeOK

LEMMA NextIInv == IInv /\ [Next]_vars => IInv'
<1> SUFFICES ASSUME IInv, [Next]_vars PROVE IInv'
  OBVIOUS
<1> USE ArtifactAssumption
<1>1. CASE UNCHANGED vars
  <2>1. UNCHANGED <<asked, system, entries, idempotency, objects, descriptions, staging,
                    writer, pc, seen, told, owing, reading, disturbed>>
    BY <1>1 DEF vars, database, files
  <2> QED  BY <2>1 DEF IInv, TypeOK, VisibleIsWhole, ToldAsStored, WriterKnows
<1>2. CASE Next
  <2>0. disturbed' \subseteq Puts /\ UNCHANGED <<asked, system>>
    BY <1>2, ObserveTyped DEF Next
  <2>1. ASSUME NEW p \in Puts, Stage(p) PROVE IInv'
    <3>1. VisibleIsWhole' /\ ToldAsStored'
      BY <2>0, <2>1, StoredKept DEF Stage, Goto
    <3>2. TypeOK'  BY <2>0, <2>1 DEF Stage, Goto, IInv, TypeOK, database
    <3>3. WriterKnows'
      BY <2>0, <2>1 DEF Stage, Goto, IInv, TypeOK, WriterKnows, Writing, database
    <3> QED  BY <3>1, <3>2, <3>3 DEF IInv
  <2>2. ASSUME NEW p \in Puts, Cancel(p) PROVE IInv'
    <3>1. VisibleIsWhole' /\ ToldAsStored'
      BY <2>0, <2>2, StoredKept DEF Cancel, files, IInv, TypeOK
    <3>2. TypeOK'  BY <2>0, <2>2 DEF Cancel, files, IInv, TypeOK, database
    <3>3. WriterKnows'
      BY <2>0, <2>2 DEF Cancel, files, IInv, TypeOK, WriterKnows, Writing, database
    <3> QED  BY <3>1, <3>2, <3>3 DEF IInv
  <2>3. ASSUME NEW p \in Puts, Checkpoint(p) PROVE IInv'
    BY <2>0, <2>3, FailsKept DEF Checkpoint, Writing
  <2>4. ASSUME NEW p \in Puts, Cleanup(p) PROVE IInv'
    <3>1. VisibleIsWhole' /\ ToldAsStored'
      BY <2>0, <2>4, StoredKept DEF Cleanup, IInv, TypeOK
    <3>2. TypeOK'  BY <2>0, <2>4 DEF Cleanup, IInv, TypeOK, database
    <3>3. WriterKnows'
      BY <2>0, <2>4 DEF Cleanup, IInv, TypeOK, WriterKnows, Writing, database
    <3> QED  BY <3>1, <3>2, <3>3 DEF IInv
  <2>5. ASSUME NEW p \in Puts, Begin(p) PROVE IInv'
    <3>1. VisibleIsWhole' /\ ToldAsStored'
      BY <2>0, <2>5, StoredKept DEF Begin, files
    <3>2. Links(Content(p)) \in 0 .. 2  BY DEF Links
    <3>3. TypeOK'
      <4>1. pc' \in [Puts -> {"idle", "begin", "stage", "promote", "verify", "verify_object",
                             "describe", "commit", "ended", "dead"}]
        BY <2>5 DEF Begin, IInv, TypeOK
      <4>2. seen' \in [Puts -> 0 .. 2]
        BY <2>5, <3>2 DEF Begin, IInv, TypeOK
      <4> QED
        BY <2>0, <2>5, <4>1, <4>2 DEF Begin, files, IInv, TypeOK, database
    <3>4. CASE Found(p) = "new"
      <4>1. entries[Id(p)] = None /\ idempotency[Key(p)] = None
        BY <3>4, Asked DEF Found
      <4>2. WriterKnows'
        BY <2>0, <2>5, <3>4, <4>1
           DEF Begin, files, IInv, TypeOK, WriterKnows, Writing, database
      <4> QED  BY <3>1, <3>3, <4>2 DEF IInv
    <3>5. CASE Found(p) = "stored"
      <4>1. /\ entries[Id(p)] = Meta(p) /\ idempotency[Key(p)] \in {None, Meta(p)}
            /\ descriptions[Id(p)] = Meta(p)
        BY <3>5, Asked DEF Found
      <4>2. objects[Content(p)] # None
        BY <4>1, Asked DEF IInv, VisibleIsWhole
      <4>3. WriterKnows'
        BY <2>0, <2>5, <3>5, <4>1, <4>2
           DEF Begin, files, IInv, TypeOK, WriterKnows, Writing, database
      <4> QED  BY <3>1, <3>3, <4>3 DEF IInv
    <3> QED  BY <2>5, <3>4, <3>5 DEF Begin
  <2>6. ASSUME NEW p \in Puts, Refuse(p) PROVE IInv'
    <3>1. CASE Found(p) = "corrupt"  BY <2>0, <2>6, <3>1, FailsKept DEF Refuse
    <3>2. CASE Found(p) = "conflict"
      <4>1. UNCHANGED <<entries, idempotency, objects, descriptions, staging>>
        BY <2>6 DEF Refuse, Fails, database, files
      <4>2. \/ entries[Id(p)] \notin {None, Meta(p)}
            \/ idempotency[Key(p)] \notin {None, Meta(p)}
        <5>1. \/ idempotency[Key(p)] \notin {None, Meta(p)}
              \/ /\ entries[Id(p)] # Meta(p)
                 /\ entries[Id(p)] # None \/ idempotency[Key(p)] # None
          BY <3>2 DEF Found
        <5>2. idempotency[Key(p)] = Meta(p) => entries[Id(p)] = Meta(p)
          BY Asked DEF IInv, VisibleIsWhole
        <5> QED  BY <5>1, <5>2
      <4>3. ToldAsStored'
        BY <2>0, <2>6, <3>2, <4>1, <4>2 DEF Refuse, Fails, Ends, IInv, TypeOK, ToldAsStored
      <4>4. VisibleIsWhole'
        BY <4>1 DEF IInv, VisibleIsWhole
      <4>5. TypeOK'
        BY <2>0, <2>6, <3>2, <4>1 DEF Refuse, Fails, Ends, IInv, TypeOK
      <4>6. WriterKnows'
        BY <2>0, <2>6, <4>1 DEF Refuse, Fails, Ends, IInv, TypeOK, WriterKnows, Writing
      <4> QED  BY <4>3, <4>4, <4>5, <4>6 DEF IInv
    <3> QED  BY <2>6, <3>1, <3>2 DEF Refuse
  <2>7. ASSUME NEW p \in Puts, OpenStaging(p) PROVE IInv'
    <3>1. CASE p \notin staging
      BY <2>0, <2>7, <3>1, FailsKept DEF OpenStaging, Writing
    <3>2. CASE p \in staging
      <4>1. VisibleIsWhole' /\ ToldAsStored'
        BY <2>0, <2>7, <3>2, StoredKept DEF OpenStaging, Goto, files
      <4>2. TypeOK'
        BY <2>0, <2>7, <3>2 DEF OpenStaging, Goto, IInv, TypeOK, database, files
      <4>3. WriterKnows'
        BY <2>0, <2>7, <3>2
           DEF OpenStaging, Goto, IInv, TypeOK, WriterKnows, Writing, database, files
      <4> QED  BY <4>1, <4>2, <4>3 DEF IInv
    <3> QED  BY <3>1, <3>2
  <2>8. ASSUME NEW p \in Puts, Promote(p) PROVE IInv'
    <3>0. pc[p] = "promote"  BY <2>8 DEF Promote
    <3>1. CASE p \notin staging
      BY <2>0, <2>8, <3>1, FailsKept DEF Promote, Writing
    <3>2. CASE p \in staging /\ objects[Content(p)] = None
      <4>1. /\ objects' = [objects EXCEPT ![Content(p)] = p] /\ Goto(p, "describe")
            /\ UNCHANGED <<database, descriptions, staging, seen, owing, reading>>
        BY <2>8, <3>2 DEF Promote
      <4>2. p # None  OBVIOUS
      <4>3. \A c \in Contents : objects[c] # None => objects'[c] # None
        BY <4>1, <4>2 DEF IInv, TypeOK
      <4>4. VisibleIsWhole' /\ ToldAsStored'
        BY <2>0, <4>1, <4>3, StoredKept DEF Goto
      <4>5. TypeOK'
        BY <2>0, <4>1, Asked DEF Goto, IInv, TypeOK, database
      <4>6. WriterKnows'
        BY <2>0, <3>0, <4>1, <4>2, <4>3, Asked
           DEF Goto, IInv, TypeOK, WriterKnows, Writing, database
      <4> QED  BY <4>4, <4>5, <4>6 DEF IInv
    <3>3. CASE p \in staging /\ objects[Content(p)] # None
      <4>1. Opens(p, "verify_object") /\ UNCHANGED <<database, files, owing, reading>>
        BY <2>8, <3>3 DEF Promote
      <4>2. Links(Content(p)) \in 0 .. 2  BY DEF Links
      <4>3. VisibleIsWhole' /\ ToldAsStored'
        BY <2>0, <4>1, StoredKept DEF Opens, Goto, files
      <4>4. TypeOK'
        BY <2>0, <4>1, <4>2 DEF Opens, Goto, IInv, TypeOK, database, files
      <4>5. WriterKnows'
        BY <2>0, <3>0, <3>3, <4>1
           DEF Opens, Goto, IInv, TypeOK, WriterKnows, Writing, database, files
      <4> QED  BY <4>3, <4>4, <4>5 DEF IInv
    <3> QED  BY <3>1, <3>2, <3>3
  <2>9. ASSUME NEW p \in Puts, Verify(p) PROVE IInv'
    <3>0. pc[p] \in {"verify", "verify_object"}  BY <2>9 DEF Verify, Verifying
    <3>1. CASE ~Unchanged(p)
      BY <2>0, <2>9, <3>0, <3>1, FailsKept DEF Verify, Writing
    <3>2. CASE Unchanged(p)
      <4>1. /\ Goto(p, IF pc[p] = "verify" THEN "commit" ELSE "describe")
            /\ seen' = [seen EXCEPT ![p] = 0] /\ UNCHANGED <<database, files, owing, reading>>
        BY <2>9, <3>2 DEF Verify
      <4>2. VisibleIsWhole' /\ ToldAsStored'
        BY <2>0, <4>1, StoredKept DEF Goto, files
      <4>3. TypeOK'
        BY <2>0, <4>1 DEF Goto, IInv, TypeOK, database, files
      <4>4. WriterKnows'
        BY <2>0, <3>0, <4>1 DEF Goto, IInv, TypeOK, WriterKnows, Writing, database, files
      <4> QED  BY <4>2, <4>3, <4>4 DEF IInv
    <3> QED  BY <3>1, <3>2
  <2>10. ASSUME NEW p \in Puts, Describe(p) PROVE IInv'
    <3>0. pc[p] = "describe"  BY <2>10 DEF Describe
    <3>1. CASE ~Described(p)
      BY <2>0, <2>10, <3>0, <3>1, FailsKept DEF Describe, Writing
    <3>2. CASE Described(p)
      <4>1. /\ descriptions' = [descriptions EXCEPT ![Id(p)] = Meta(p)]
            /\ Goto(p, "commit")
            /\ UNCHANGED <<entries, idempotency, objects, staging, seen, owing, reading>>
        BY <2>10, <3>2 DEF Describe, database
      <4>2. entries[Id(p)] = None /\ idempotency[Key(p)] = None /\ objects[Content(p)] # None
        BY <3>0 DEF IInv, WriterKnows
      <4>3. VisibleIsWhole'
        BY <2>0, <4>1, <4>2, Asked DEF IInv, TypeOK, VisibleIsWhole
      <4>4. ToldAsStored'
        BY <2>0, <4>1 DEF Goto, IInv, ToldAsStored
      <4>5. TypeOK'
        BY <2>0, <4>1, Asked DEF Goto, IInv, TypeOK
      <4>6. WriterKnows'
        BY <2>0, <3>0, <4>1, <4>2, Asked DEF Goto, IInv, TypeOK, WriterKnows, Writing
      <4> QED  BY <4>3, <4>4, <4>5, <4>6 DEF IInv
    <3> QED  BY <3>1, <3>2
  <2>11. ASSUME NEW p \in Puts, pc[p] = "commit", Stored(p) \/ UNCHANGED database,
                NEW a \in {"ok", "corrupt"}, a = "ok" => Stored(p),
                Ends(p, a), UNCHANGED <<files, seen, owing, reading>>
         PROVE IInv'
    <3>1. UNCHANGED <<objects, descriptions, staging>>  BY <2>11 DEF files
    <3>2. /\ entries[Id(p)] \in {None, Meta(p)} /\ idempotency[Key(p)] \in {None, Meta(p)}
          /\ descriptions[Id(p)] = Meta(p) /\ objects[Content(p)] # None /\ writer = p
      BY <2>11 DEF IInv, WriterKnows, Writing
    <3>3. /\ \A i \in Ids : entries'[i] = entries[i] \/ (i = Id(p) /\ entries'[i] = Meta(p))
          /\ \A k \in Keys : \/ idempotency'[k] = idempotency[k]
                             \/ k = Key(p) /\ idempotency'[k] = Meta(p) /\ entries'[Id(p)] = Meta(p)
      BY <2>11, Asked DEF Stored, IInv, TypeOK, database
    <3>4. VisibleIsWhole'
      <4>1. ASSUME NEW i \in Ids, entries'[i] # None
            PROVE  /\ entries'[i].id = i /\ descriptions'[i] = entries'[i]
                   /\ objects'[entries'[i].content] # None
        <5>1. CASE entries'[i] = entries[i]
          BY <3>1, <4>1, <5>1 DEF IInv, VisibleIsWhole
        <5>2. CASE i = Id(p) /\ entries'[i] = Meta(p)
          BY <3>1, <3>2, <5>2
        <5> QED  BY <3>3, <5>1, <5>2
      <4>2. ASSUME NEW k \in Keys, idempotency'[k] # None
            PROVE  entries'[idempotency'[k].id] = idempotency'[k]
        <5>1. CASE idempotency'[k] = idempotency[k]
          <6>1. idempotency[k] \in Metadata  BY <4>2, <5>1 DEF IInv, TypeOK
          <6>2. idempotency[k].id \in Ids  BY <6>1 DEF Metadata
          <6>3. entries[idempotency[k].id] = idempotency[k]
            BY <4>2, <5>1 DEF IInv, VisibleIsWhole
          <6>4. CASE idempotency[k].id = Id(p)
            BY <3>2, <3>3, <5>1, <6>1, <6>2, <6>3, <6>4
          <6>5. CASE idempotency[k].id # Id(p)
            BY <3>3, <5>1, <6>2, <6>3, <6>5
          <6> QED  BY <6>4, <6>5
        <5>2. CASE k = Key(p) /\ idempotency'[k] = Meta(p) /\ entries'[Id(p)] = Meta(p)
          BY <5>2
        <5> QED  BY <3>3, <5>1, <5>2
      <4> QED  BY <4>1, <4>2 DEF VisibleIsWhole
    <3>5. a = "ok" => entries'[Id(p)] = Meta(p) /\ idempotency'[Key(p)] = Meta(p)
      BY <2>11, Asked DEF Stored, IInv, TypeOK
    <3>6. \A q \in Puts : told'[q] = told[q] \/ (q = p /\ told'[q] = a)
      BY <2>11 DEF Ends, IInv, TypeOK
    <3>7. ToldAsStored'
      BY <2>0, <3>2, <3>3, <3>5, <3>6, Asked DEF IInv, ToldAsStored
    <3>8. TypeOK'
      BY <2>0, <2>11, <3>1, Asked DEF Ends, Stored, IInv, TypeOK, database
    <3>9. WriterKnows'
      <4>1. \A q \in Puts : pc'[q] \in Writing <=> writer' = q
        BY <2>11, <3>2 DEF Ends, IInv, TypeOK, WriterKnows, Writing
      <4>2. writer' = None  BY <2>11, <3>2 DEF Ends
      <4> QED  BY <4>1, <4>2 DEF WriterKnows, Writing
    <3> QED  BY <3>4, <3>7, <3>8, <3>9 DEF IInv
  <2>12. ASSUME NEW p \in Puts, Commit(p) PROVE IInv'
    BY <2>11, <2>12 DEF Commit
  <2>13. ASSUME NEW p \in Puts, CommitFails(p) PROVE IInv'
    BY <2>11, <2>13 DEF CommitFails
  <2>14. ASSUME NEW p \in Puts, StepFails(p) PROVE IInv'
    BY <2>0, <2>14, FailsKept DEF StepFails, Working, Writing
  <2>15. ASSUME NEW i \in Ids, Read(i) PROVE IInv'
    <3>1. UNCHANGED <<entries, idempotency, objects, descriptions, staging, writer, pc, seen, told, owing>>
      BY <2>15 DEF Read, database, files
    <3>2. reading' \in Contents  BY <2>15 DEF Read, IInv, TypeOK, Metadata
    <3> QED
      BY <2>0, <3>1, <3>2 DEF IInv, TypeOK, VisibleIsWhole, ToldAsStored, WriterKnows
  <2>16. ASSUME ReadEnds PROVE IInv'
    <3>1. UNCHANGED <<entries, idempotency, objects, descriptions, staging, writer, pc, seen, told, owing>>
      BY <2>16 DEF ReadEnds, database, files
    <3> QED
      BY <2>0, <2>16, <3>1
         DEF ReadEnds, IInv, TypeOK, VisibleIsWhole, ToldAsStored, WriterKnows
  <2>17. ASSUME Crash PROVE IInv'
    <3>1. VisibleIsWhole' /\ ToldAsStored'
      BY <2>0, <2>17, StoredKept DEF Crash, files
    <3>2. TypeOK'  BY <2>0, <2>17 DEF Crash, IInv, TypeOK, database, files
    <3>3. \A q \in Puts : pc'[q] \notin Writing
      BY <2>17 DEF Crash, Busy, Working, Writing, IInv, TypeOK
    <3>4. WriterKnows'
      BY <2>17, <3>3 DEF Crash, WriterKnows, Writing
    <3> QED  BY <3>1, <3>2, <3>4 DEF IInv
  <2> QED
    BY <1>2, <2>1, <2>2, <2>3, <2>4, <2>5, <2>6, <2>7, <2>8, <2>9, <2>10, <2>12, <2>13,
       <2>14, <2>15, <2>16, <2>17 DEF Next, Step
<1> QED  BY <1>1, <1>2 DEF Next

LEMMA InvariantHolds == Spec => []IInv
  BY InitIInv, NextIInv, PTL DEF Spec

\* The state of the store, its files and its puts keeps the types that
\* _commit_staged and its callers rely on.
THEOREM TypeCorrect == Spec => []TypeOK
<1>1. IInv => TypeOK  BY DEF IInv
<1> QED  BY InvariantHolds, <1>1, PTL

\* An artifact that the database shows has its metadata file and its object,
\* whatever cancelled, failing or dying puts left behind (_commit_staged).
THEOREM VisibleArtifactsAreWhole == Spec => []VisibleIsWhole
<1>1. IInv => VisibleIsWhole  BY DEF IInv
<1> QED  BY InvariantHolds, <1>1, PTL

\* What a put was told of its artifact stays true (_commit_staged).
THEOREM AnswersAreKept == Spec => []ToldAsStored
<1>1. IInv => ToldAsStored  BY DEF IInv
<1> QED  BY InvariantHolds, <1>1, PTL
-----------------------------------------------------------------------------
(* RetryReconciles.  A put that is not disturbed has the store to itself,   *)
(* so that what it found stays true until it has been told.                 *)

\* Whatever is written under a key or an ID was asked for under it.
Provenance ==
    /\ \A i \in Ids : entries[i] # None => \E q \in Puts : Id(q) = i /\ Meta(q) = entries[i]
    /\ \A i \in Ids : descriptions[i] # None =>
          \E q \in Puts : Id(q) = i /\ Meta(q) = descriptions[i]
    /\ \A k \in Keys : idempotency[k] # None =>
          \E q \in Puts : Key(q) = k /\ Meta(q) = idempotency[k]

\* Nobody else is at work, nobody reads.
Alone(p) == AtWork = {p} /\ reading = None

\* What has been done for an undisturbed put so far has gone well.
GoesWell(p) ==
    /\ p \in owing
    /\ Working(p) => told[p] = "nothing" /\ p \in staging
    /\ ~Working(p) => told[p] = "ok"
    /\ Verifying(p) => seen[p] = Links(Content(p))

Undisturbed == AtWork \ disturbed

RetryInv ==
    /\ troubles \in Nat
    /\ Provenance
    /\ \A p \in Puts : pc[p] = "idle" => p \notin owing /\ told[p] = "nothing"
    /\ \A p \in Undisturbed : Alone(p) /\ (Unrivalled(p) => GoesWell(p))

\* Nothing of the request of an unrivalled put is written but its own metadata, so that
\* its look-up finds nothing or itself.
LEMMA FindsItself ==
  ASSUME IInv, Provenance, NEW p \in Puts, Unrivalled(p)
  PROVE  Found(p) \in {"new", "stored"} /\ descriptions[Id(p)] \in {None, Meta(p)}
<1>1. /\ idempotency[Key(p)] \in {None, Meta(p)} /\ entries[Id(p)] \in {None, Meta(p)}
      /\ descriptions[Id(p)] \in {None, Meta(p)}
  BY Asked DEF Provenance, Unrivalled
<1>2. entries[Id(p)] # None => descriptions[Id(p)] = entries[Id(p)]
  BY Asked DEF IInv, VisibleIsWhole
<1>3. idempotency[Key(p)] = Meta(p) => entries[Id(p)] = Meta(p)
  BY Asked DEF IInv, VisibleIsWhole
<1> QED  BY <1>1, <1>2, <1>3, Asked DEF Found

LEMMA ProvenanceKept == IInv /\ Provenance /\ [Next]_vars => Provenance'
<1> SUFFICES ASSUME IInv, Provenance, [Next]_vars PROVE Provenance'
  OBVIOUS
<1>0. asked' = asked  BY DEF Next, vars
<1>1. ASSUME UNCHANGED <<entries, idempotency, descriptions>> PROVE Provenance'
  BY <1>0, <1>1 DEF Provenance
<1>2. ASSUME NEW p \in Puts, Describe(p) PROVE Provenance'
  <2>1. UNCHANGED <<entries, idempotency>>
    BY <1>2 DEF Describe, Fails, database
  <2>2. \A i \in Ids : descriptions'[i] = descriptions[i] \/ (i = Id(p) /\ descriptions'[i] = Meta(p))
    BY <1>2, Asked DEF Describe, Fails, files, IInv, TypeOK
  <2> QED  BY <1>0, <2>1, <2>2 DEF Provenance
<1>3. ASSUME NEW p \in Puts, Stored(p) \/ UNCHANGED database, UNCHANGED files PROVE Provenance'
  <2>1. /\ \A i \in Ids : entries'[i] = entries[i] \/ (i = Id(p) /\ entries'[i] = Meta(p))
        /\ \A k \in Keys : \/ idempotency'[k] = idempotency[k]
                           \/ k = Key(p) /\ idempotency'[k] = Meta(p)
    BY <1>3, Asked DEF Stored, IInv, TypeOK, database
  <2>2. descriptions' = descriptions  BY <1>3 DEF files
  <2> QED  BY <1>0, <2>1, <2>2 DEF Provenance
<1>4. CASE UNCHANGED vars  BY <1>1, <1>4 DEF vars, database, files
<1>5. CASE Next
  <2>1. ASSUME NEW p \in Puts,
               \/ Stage(p) \/ Cancel(p) \/ Checkpoint(p) \/ Cleanup(p)
               \/ Begin(p) \/ Refuse(p) \/ OpenStaging(p) \/ Promote(p) \/ Verify(p) \/ StepFails(p)
        PROVE  UNCHANGED <<entries, idempotency, descriptions>>
    BY <2>1 DEF Stage, Cancel, Checkpoint, Cleanup, Begin, Refuse, OpenStaging, Promote, Verify,
                StepFails, Fails, database, files
  <2>2. ASSUME NEW p \in Puts, Commit(p) \/ CommitFails(p) PROVE Provenance'
    BY <1>3, <2>2 DEF Commit, CommitFails
  <2>3. ASSUME (\E i \in Ids : Read(i)) \/ ReadEnds \/ Crash PROVE Provenance'
    BY <1>1, <2>3 DEF Read, ReadEnds, Crash, database, files
  <2> QED  BY <1>1, <1>2, <1>5, <2>1, <2>2, <2>3 DEF Next, Step
<1> QED  BY <1>4, <1>5

\* Who is at work after a step and undisturbed is alone, and the step was no trouble.
LEMMA UndisturbedIsAlone ==
  ASSUME IInv, Next, NEW p \in Undisturbed'
  PROVE  p \in Puts /\ Alone(p)' /\ (p \in AtWork => p \notin disturbed)
<1>1. p \in AtWork' /\ p \notin disturbed'  BY DEF Undisturbed
<1>2. p \in Puts  BY <1>1 DEF AtWork
<1>3. reading' = None /\ ~(\E q, r \in AtWork' : q # r)
  BY <1>1 DEF Next, Observe
<1> QED  BY <1>1, <1>2, <1>3 DEF Alone, Next, Observe

\* The only steps that do not disturb a put at work are its own, and the start of another.
LEMMA OwnSteps ==
  ASSUME IInv, RetryInv, Next, NEW p \in AtWork, p \notin disturbed'
  PROVE  /\ p \in Puts /\ p \in Undisturbed /\ reading = None
         /\ \/ \E q \in Puts : q # p /\ Stage(q)
            \/ Cleanup(p) \/ Begin(p) \/ Refuse(p) \/ OpenStaging(p) \/ Promote(p) \/ Verify(p)
            \/ Describe(p) \/ Commit(p)
<1>1. p \in Puts /\ Busy(p)  BY DEF AtWork
<1>2. p \in Undisturbed  BY DEF Next, Observe, Undisturbed
<1>3. AtWork = {p} /\ reading = None  BY <1>2 DEF RetryInv, Alone
<1>4. troubles' = troubles /\ reading' = None  BY DEF Next, Observe
<1>5. ~Trouble  BY <1>4 DEF Trouble, RetryInv
<1>6. \A q \in Puts : Busy(q) => q = p  BY <1>3 DEF AtWork
<1>7. ASSUME NEW q \in Puts, Stage(q) PROVE q # p
  BY <1>1, <1>7 DEF Stage, Busy, Working, RetryInv
<1>8. ASSUME NEW i \in Ids, Read(i) PROVE FALSE
  BY <1>4, <1>8, ArtifactAssumption DEF Read, IInv, TypeOK, Metadata
<1>9. ~ReadEnds /\ ~Crash  BY <1>3, <1>5 DEF ReadEnds, Crash
<1>10. ASSUME NEW q \in Puts,
              \/ Cancel(q) \/ Checkpoint(q) \/ CommitFails(q) \/ StepFails(q)
       PROVE  FALSE
  BY <1>5, <1>10 DEF Cancel, Checkpoint, CommitFails, StepFails
<1>11. ASSUME NEW q \in Puts,
              \/ Cleanup(q) \/ Begin(q) \/ Refuse(q) \/ OpenStaging(q) \/ Promote(q) \/ Verify(q)
              \/ Describe(q) \/ Commit(q)
       PROVE  q = p
  BY <1>6, <1>11 DEF Cleanup, Begin, Refuse, OpenStaging, Promote, Verify, Describe, Commit,
                     Busy, Working, Verifying
<1> QED  BY <1>1, <1>2, <1>3, <1>7, <1>8, <1>9, <1>10, <1>11 DEF Next, Step

\* A put that begins has been told nothing, and its staging file is there.
LEMMA BeginsWell ==
  ASSUME IInv, RetryInv, Next, NEW p \in Undisturbed', p \notin AtWork
  PROVE  GoesWell(p)'
<1>1. p \in Puts /\ Busy(p)' /\ ~Busy(p)  BY UndisturbedIsAlone DEF Undisturbed, AtWork
<1>2. Stage(p)
  <2>1. ASSUME NEW q \in Puts, Stage(q) PROVE q = p
    BY <1>1, <2>1 DEF Stage, Goto, Busy, Working, IInv, TypeOK
  <2>2. ASSUME NEW q \in Puts,
               \/ Cancel(q) \/ Checkpoint(q) \/ Cleanup(q)
               \/ Begin(q) \/ Refuse(q) \/ OpenStaging(q) \/ Promote(q) \/ Verify(q)
               \/ Describe(q) \/ Commit(q) \/ CommitFails(q) \/ StepFails(q)
        PROVE  FALSE
    <3>1. /\ pc' = pc \/ \E l : pc' = [pc EXCEPT ![q] = l]
          /\ owing' \subseteq owing
      BY <2>2 DEF Cancel, Checkpoint, Cleanup, Begin, Refuse, OpenStaging, Promote, Verify, Describe,
                  Commit, CommitFails, StepFails, Fails, Ends, Goto, Opens
    <3>2. q \in owing \/ Working(q)
      BY <2>2 DEF Cancel, Checkpoint, Cleanup, Begin, Refuse, OpenStaging, Promote, Verify, Describe,
                  Commit, CommitFails, StepFails, Working, Verifying
    <3>3. q # p  BY <1>1, <3>2 DEF Busy
    <3> QED  BY <1>1, <3>1, <3>3 DEF Busy, Working, IInv, TypeOK
  <2>3. ASSUME (\E i \in Ids : Read(i)) \/ ReadEnds \/ Crash PROVE FALSE
    BY <1>1, <2>3 DEF Read, ReadEnds, Crash, Busy, Working, IInv, TypeOK
  <2> QED  BY <2>1, <2>2, <2>3 DEF Next, Step
<1>3. told[p] = "nothing"  BY <1>1, <1>2 DEF Stage, RetryInv
<1> QED
  BY <1>1, <1>2, <1>3 DEF GoesWell, Stage, Goto, Working, Verifying, IInv, TypeOK

\* A put that is alone and unrivalled goes on well.
LEMMA GoesOnWell ==
  ASSUME IInv, RetryInv, Next, NEW p \in Undisturbed', p \in AtWork, Unrivalled(p)
  PROVE  GoesWell(p)'
<1>1. p \notin disturbed' /\ p \in Puts /\ Busy(p)' /\ AtWork' = {p}
  BY UndisturbedIsAlone DEF Undisturbed, Alone, AtWork
<1>2. /\ p \in Undisturbed /\ Busy(p) /\ GoesWell(p)
  BY <1>1, OwnSteps DEF AtWork, RetryInv
<1>3. asked' = asked  BY DEF Next
<1>4. ASSUME UNCHANGED <<objects, staging>> PROVE Links(Content(p))' = Links(Content(p))
  BY <1>3, <1>4 DEF Links
<1>5. ASSUME NEW q \in Puts, q # p, Stage(q) PROVE FALSE
  BY <1>1, <1>5 DEF Stage, Busy, AtWork
<1>6. ASSUME Cleanup(p) PROVE FALSE
  BY <1>1, <1>2, <1>6 DEF Cleanup, GoesWell, Busy, Working
<1>7. CASE Begin(p)
  <2>1. told[p] = "nothing" /\ p \in staging  BY <1>2, <1>7 DEF GoesWell, Begin, Working
  <2>2. UNCHANGED <<objects, staging, owing, told>>  BY <1>7 DEF Begin, files
  <2>3. CASE Found(p) = "new"
    BY <1>1, <1>2, <1>7, <2>1, <2>2, <2>3
       DEF Begin, GoesWell, Working, Verifying, IInv, TypeOK
  <2>4. CASE Found(p) = "stored"
    <3>1. pc'[p] = "verify" /\ seen'[p] = Links(Content(p))
      BY <1>1, <1>7, <2>4 DEF Begin, IInv, TypeOK
    <3> QED  BY <1>2, <1>4, <2>1, <2>2, <3>1 DEF GoesWell, Working
  <2> QED  BY <1>7, <2>3, <2>4 DEF Begin
<1>8. ASSUME Refuse(p) PROVE FALSE
  BY <1>1, <1>8, FindsItself DEF Refuse, RetryInv
<1>9. CASE OpenStaging(p)
  BY <1>1, <1>2, <1>9
     DEF OpenStaging, Goto, GoesWell, Working, Verifying, files, IInv, TypeOK
<1>10. CASE Promote(p)
  <2>1. told[p] = "nothing" /\ p \in staging  BY <1>2, <1>10 DEF GoesWell, Promote, Working
  <2>2. CASE objects[Content(p)] = None
    BY <1>1, <1>2, <1>10, <2>1, <2>2
       DEF Promote, Goto, GoesWell, Working, Verifying, IInv, TypeOK
  <2>3. CASE objects[Content(p)] # None
    <3>1. pc'[p] = "verify_object" /\ seen'[p] = Links(Content(p))
      BY <1>1, <1>10, <2>1, <2>3 DEF Promote, Opens, Goto, IInv, TypeOK
    <3>2. UNCHANGED <<objects, staging, owing, told>>
      BY <1>10, <2>1, <2>3 DEF Promote, Opens, Goto, files
    <3> QED  BY <1>2, <1>4, <2>1, <3>1, <3>2 DEF GoesWell, Working
  <2> QED  BY <2>2, <2>3
<1>11. CASE Verify(p)
  <2>1. told[p] = "nothing" /\ p \in staging /\ seen[p] = Links(Content(p))
    BY <1>2, <1>11 DEF GoesWell, Verify, Working, Verifying
  <2>2. objects[Content(p)] # None
    BY <1>1, <1>11 DEF Verify, Verifying, IInv, WriterKnows
  <2>3. Unchanged(p)  BY <2>1, <2>2 DEF Unchanged, Links
  <2>4. pc'[p] \in {"commit", "describe"} /\ UNCHANGED <<staging, owing, told>>
    BY <1>1, <1>11, <2>3 DEF Verify, Goto, files, IInv, TypeOK
  <2> QED  BY <1>2, <2>1, <2>4 DEF GoesWell, Working, Verifying
<1>12. CASE Describe(p)
  <2>1. Described(p)  BY <1>1, FindsItself DEF Described, RetryInv
  <2>2. told[p] = "nothing" /\ p \in staging  BY <1>2, <1>12 DEF GoesWell, Describe, Working
  <2> QED
    BY <1>1, <1>2, <1>12, <2>1, <2>2
       DEF Describe, Goto, GoesWell, Working, Verifying, IInv, TypeOK
<1>13. CASE Commit(p)
  <2>1. told[p] = "nothing"  BY <1>2, <1>13 DEF GoesWell, Commit, Working
  <2> QED
    BY <1>1, <1>2, <1>13, <2>1
       DEF Commit, Ends, GoesWell, Working, Verifying, IInv, TypeOK
<1> QED
  BY <1>1, <1>5, <1>6, <1>7, <1>8, <1>9, <1>10, <1>11, <1>12, <1>13, OwnSteps

LEMMA RetryInit == Init => RetryInv
  BY DEF Init, RetryInv, Provenance, Undisturbed, AtWork, Busy, Working

LEMMA RetryKept == IInv /\ RetryInv /\ [Next]_vars => RetryInv'
<1> SUFFICES ASSUME IInv, RetryInv, [Next]_vars PROVE RetryInv'
  OBVIOUS
<1>1. Provenance'  BY ProvenanceKept DEF RetryInv
<1>2. CASE UNCHANGED vars
  <2>1. /\ UNCHANGED <<asked, pc, owing, told, troubles, reading, disturbed, staging, seen, objects>>
    BY <1>2 DEF vars, files
  <2> QED
    BY <1>1, <2>1 DEF RetryInv, Undisturbed, AtWork, Busy, Working, Alone, GoesWell, Unrivalled,
                      Verifying, Links
<1>3. CASE Next
  <2>1. troubles' \in Nat
    BY <1>3 DEF RetryInv, Next, Step, Stage, Cancel, Checkpoint, Cleanup, Begin, Refuse, OpenStaging,
                Promote, Verify, Describe, Commit, CommitFails, StepFails, Read, ReadEnds, Crash, Trouble
  <2>2. ASSUME NEW p \in Puts, pc'[p] = "idle" PROVE p \notin owing' /\ told'[p] = "nothing"
    <3>1. ASSUME NEW q \in Puts,
                 \/ Stage(q) \/ Cancel(q) \/ Checkpoint(q) \/ Cleanup(q)
                 \/ Begin(q) \/ Refuse(q) \/ OpenStaging(q) \/ Promote(q) \/ Verify(q)
                 \/ Describe(q) \/ Commit(q) \/ CommitFails(q) \/ StepFails(q)
          PROVE  /\ q # p /\ pc[p] = "idle" 
                 /\ p \in owing' => p \in owing 
                 /\ told'[p] = told[p]
      <4>1. CASE Stage(q)
        BY <2>2, <4>1 DEF Stage, Goto, IInv, TypeOK
      <4>2. CASE Cancel(q)
        BY <2>2, <4>2 DEF Cancel, Working, IInv, TypeOK
      <4>3. CASE Cleanup(q)
        BY <2>2, <4>3 DEF Cleanup, RetryInv, IInv, TypeOK
      <4>4. ASSUME NEW a, Fails(q, a), pc[q] # "idle"
            PROVE  /\ q # p /\ pc[p] = "idle" 
                   /\ p \in owing' => p \in owing 
                   /\ told'[p] = told[p]
        BY <2>2, <4>4 DEF Fails, Ends, IInv, TypeOK
      <4>5. CASE Checkpoint(q) \/ Refuse(q) \/ StepFails(q)
        BY <4>4, <4>5 DEF Checkpoint, Refuse, StepFails, Working
      <4>6. CASE Begin(q)
        BY <2>2, <4>6 DEF Begin, IInv, TypeOK
      <4>7. CASE OpenStaging(q) \/ Promote(q)
        BY <2>2, <4>4, <4>7 DEF OpenStaging, Promote, Goto, Opens, IInv, TypeOK
      <4>8. CASE Verify(q) \/ Describe(q)
        BY <2>2, <4>4, <4>8 DEF Verify, Verifying, Describe, Goto, IInv, TypeOK
      <4>9. CASE Commit(q) \/ CommitFails(q)
        BY <2>2, <4>9 DEF Commit, CommitFails, Ends, IInv, TypeOK
      <4> QED  BY <3>1, <4>1, <4>2, <4>3, <4>5, <4>6, <4>7, <4>8, <4>9
    <3>2. ASSUME (\E i \in Ids : Read(i)) \/ ReadEnds \/ Crash
          PROVE  pc[p] = "idle" /\ (p \in owing' => p \in owing) /\ told'[p] = told[p]
      BY <2>2, <3>2 DEF Read, ReadEnds, Crash, IInv, TypeOK
    <3> QED  BY <1>3, <3>1, <3>2 DEF Next, Step, RetryInv
  <2>3. ASSUME NEW p \in Undisturbed' PROVE Alone(p)' /\ (Unrivalled(p)' => GoesWell(p)')
    <3>1. Alone(p)' /\ p \in Puts  BY <1>3, <2>3, UndisturbedIsAlone
    <3>2. Unrivalled(p)' => Unrivalled(p)  BY <1>3 DEF Next, Unrivalled
    <3> QED  BY <1>3, <2>3, <3>1, <3>2, BeginsWell, GoesOnWell
  <2> QED  BY <1>1, <2>1, <2>2, <2>3 DEF RetryInv
<1> QED  BY <1>2, <1>3

\* Whatever earlier puts of the same request left behind, a put that has the store to
\* itself ends with its artifact stored: nothing that a cancelled, failing or dying put
\* can leave, under its key, under its ID or as its object, stands in its way.
THEOREM RetriesReconcile == Spec => RetryReconciles
<1>1. ASSUME IInv, RetryInv, [Next]_vars
      PROVE  [\A p \in AtWork : p \notin AtWork' \cup disturbed' /\ Unrivalled(p) => told'[p] = "ok"]_vars
  <2>1. ASSUME Next, NEW p \in AtWork, p \notin AtWork' \cup disturbed', Unrivalled(p)
        PROVE  told'[p] = "ok"
    <3>1. p \in Puts /\ p \in Undisturbed /\ reading = None /\ ~Busy(p)' /\ AtWork = {p}
      BY <1>1, <2>1, OwnSteps DEF AtWork, RetryInv, Alone
    <3>2. GoesWell(p)  BY <1>1, <2>1, <3>1 DEF RetryInv
    <3>3. p \notin owing'  BY <3>1 DEF Busy
    <3>4. Cleanup(p)
      <4>1. ASSUME NEW q \in Puts, Stage(q) PROVE FALSE
        BY <3>2, <3>3, <4>1 DEF Stage, GoesWell
      <4>2. ASSUME Refuse(p) PROVE FALSE
        BY <3>2, <3>3, <4>2 DEF Refuse, Fails, GoesWell
      <4>3. ASSUME \/ Begin(p) \/ OpenStaging(p) \/ Promote(p) \/ Verify(p) \/ Describe(p) \/ Commit(p)
            PROVE FALSE
        BY <3>2, <3>3, <4>3 DEF Begin, OpenStaging, Promote, Verify, Describe, Commit, Fails, GoesWell
      <4> QED  BY <1>1, <2>1, <4>1, <4>2, <4>3, OwnSteps
    <3>5. told[p] = "ok"  BY <3>2, <3>4 DEF Cleanup, GoesWell
    <3>6. ~Held(p)
      <4>1. ~Working(p)  BY <3>2, <3>5 DEF GoesWell
      <4>2. \A q \in Puts : ~Verifying(q)
        BY <3>1, <4>1 DEF AtWork, Busy, Working, Verifying
      <4>3. reading # Content(p)  BY <1>1, <3>1, Asked, ArtifactAssumption
      <4> QED  BY <4>1, <4>2, <4>3 DEF Held, Working
    <3> QED  BY <3>4, <3>5, <3>6 DEF Cleanup
  <2> QED  BY <1>1, <2>1
<1>2. Spec => []RetryInv
  BY RetryInit, RetryKept, InvariantHolds, PTL DEF Spec
<1> QED  BY <1>1, <1>2, InvariantHolds, PTL DEF Spec, RetryReconciles
=============================================================================
