-------------------------- MODULE Delivery_proofs --------------------------
(***************************************************************************)
(* What a Worker delivers: a Wiki to the Vault, and events to a client.     *)
(*                                                                          *)
(* No published Wiki is lost (PublishedIsKept) and one failing operation is *)
(* put right by the call it fails in (OneFailureIsMended), for any plans    *)
(* and any number of revisions, deaths of the Worker and failures.          *)
(* PublishedIsKept speaks of the files only; what makes it inductive is     *)
(* which files a step finds (Placed), and that the journal, the catalog and *)
(* the two directories agree between any two steps (Swapped).               *)
(*                                                                          *)
(* No committed event is overlooked on its way to the client's view         *)
(* (NothingIsOverlooked) and no replay ends short of the heads it read      *)
(* (ReplayReachesTheHeads), for any Runs and any capacities.  The first     *)
(* rests on the order of the live way (InOrder), the second on what the     *)
(* open request asked for (Requests, Replays).                              *)
(***************************************************************************)
EXTENDS KnowledgePublication, EventDelivery, FiniteSetTheorems, SequenceTheorems, WellFoundedInduction, TLAPS

\* The old revision is where it belongs.
OldIsIn == IF catalog = 0 THEN wiki = None ELSE wiki = Whole(catalog)

\* The journaled publication moved it aside.
OldIsAside ==
    /\ journal.id \in roots
    /\ IF journal.had THEN backup = Whole(catalog) ELSE backup = None
    /\ wiki \in {None, Whole(Target(journal.id)), Torn(Target(journal.id))}

Rolling == {"swap", "removing"}
Sweeping == {"sweep", "sweeping", "unlink"}
Swapping == {"moveOld", "noteOld", "moveNew", "noteNew", "commit"}
Committing == {"noteCommitted", "verify"}

\* What the journal says of the catalog and of the two directories.
Swapped ==
    /\ journal = None => OldIsIn /\ pc \notin Rolling \cup Sweeping \cup Swapping \cup Committing
    /\ journal # None =>
        /\ pc \notin {"check", "stage", "prepare"}
        /\ journal.had <=> Base(journal.id) > 0
        /\ \/ /\ catalog = Target(journal.id) /\ wiki = Whole(catalog)
              /\ pc \notin Rolling \cup Swapping
           \/ /\ catalog = Base(journal.id) /\ journal.stage # "committed"
              /\ pc \notin Committing
              /\ \/ OldIsIn /\ backup = None
                 \/ OldIsAside /\ pc \notin Sweeping

\* What the steps of publish find.
Placed ==
    /\ pc \in {"stage", "prepare"} =>
         call \in roots /\ catalog = Base(call) /\ backup = None
    /\ pc \in {"prepare", "moveOld", "noteOld", "moveNew"} => staged = Whole(Target(call))
    /\ pc \in Swapping => journal.id = call /\ call \in roots
    /\ pc \in Committing => journal.id = call
    /\ pc = "removing" => OldIsAside
    /\ pc = "moveOld" => OldIsIn /\ backup = None
    /\ pc \in {"noteOld", "moveNew"} => wiki = None /\ (journal.had => backup = Whole(catalog))
                                        /\ (~journal.had => backup = None)
    /\ pc \in {"noteNew", "commit"} => wiki = Whole(Target(call))

\* What a step takes for granted is there.
Started ==
    /\ pc # "idle" => call # None
    /\ pc \in Rolling \cup Sweeping \cup Swapping \cup Committing => journal # None

IInv == TypeOK /\ Started /\ (edits = 0 => Swapped /\ Placed)

-----------------------------------------------------------------------------
LEMMA Revisions ==
    ASSUME NEW i \in Ingestions
    PROVE  Base(i) \in Nat /\ Target(i) \in Nat /\ Target(i) = Base(i) + 1 /\ Target(i) # 0
BY DEF Ingestions, Base, Target

LEMMA Directories ==
    /\ \A r \in Nat : Whole(r) \in Directory /\ Torn(r) \in Directory
    /\ \A r, s : Whole(r) # Torn(s) /\ (Whole(r) = Whole(s) => r = s) /\ Whole(r).rev = r
    /\ None \notin Directory
    /\ \A d \in Directory : d.rev \in Nat
<1>1. None \notin Directory
  BY KnowledgeAssumption
<1>2. \A r, s : Whole(r) # Torn(s) /\ (Whole(r) = Whole(s) => r = s) /\ Whole(r).rev = r
  <2> TAKE r, s
  <2>1. Whole(r).whole = TRUE /\ Torn(s).whole = FALSE /\ Whole(r).rev = r /\ Whole(s).rev = s
    BY DEF Whole, Torn
  <2> QED  BY <2>1
<1>3. \A r \in Nat : Whole(r) \in Directory /\ Torn(r) \in Directory
  BY DEF Whole, Torn, Directory
<1>4. \A d \in Directory : d.rev \in Nat
  BY DEF Directory
<1> QED  BY <1>1, <1>2, <1>3, <1>4

LEMMA Journals ==
    /\ None \notin Publications /\ None \notin Ingestions
    /\ \A j \in Publications : j.id \in Ingestions /\ j.had \in BOOLEAN
    /\ \A i \in Ingestions, h \in BOOLEAN : [id |-> i, had |-> h, stage |-> "prepared"] \in Publications
    /\ \A j \in Publications, s \in {"prepared", "old_moved", "new_moved", "committed"} :
         /\ [j EXCEPT !.stage = s] \in Publications
         /\ [j EXCEPT !.stage = s].id = j.id /\ [j EXCEPT !.stage = s].had = j.had
         /\ [j EXCEPT !.stage = s].stage = s
BY KnowledgeAssumption DEF Publications

LEMMA Bounds == MaxRevision \in Nat /\ MaxCrashes \in Nat /\ MaxFaults \in Nat /\ MaxEdits \in Nat
BY KnowledgeAssumption

-----------------------------------------------------------------------------
\* Type correctness: no step of publish, of recover or of what goes wrong leaves the types.
LEMMA TypeInit == Init => TypeOK /\ Started
<1> SUFFICES ASSUME Init PROVE TypeOK /\ Started
  OBVIOUS
<1>1. TypeOK
  BY DEF Init, TypeOK, Steps
<1>2. Started
  BY DEF Init, Started, Rolling, Sweeping, Swapping, Committing
<1> QED  BY <1>1, <1>2

LEMMA TypeStep ==
    TypeOK /\ Started /\ [Next]_vars => (TypeOK /\ Started)'
<1> SUFFICES ASSUME TypeOK, Started, [Next]_vars PROVE (TypeOK /\ Started)'
  OBVIOUS
<1> USE DEF TypeOK, Started, Steps, Trying, Rolling, Sweeping, Swapping, Committing, files, counters
<1>1. ASSUME NEW p \in Plans, Compile(<<catalog, p>>) PROVE (TypeOK /\ Started)'
  <2>1. <<catalog, p>> \in Ingestions
    BY DEF Ingestions
  <2> QED  BY <1>1, <2>1, Journals DEF Compile
<1>2. CASE CompileRefused
  BY <1>2 DEF CompileRefused, Refuse
<1>3. CASE RecoverNothing
  BY <1>3 DEF RecoverNothing, Resume, Goto, Return, files
<1>4. CASE RecoverForward
  BY <1>4 DEF RecoverForward, Goto, files
<1>5. CASE RecoverBack
  BY <1>5 DEF RecoverBack, Goto, files
<1>6. CASE RecoverRefused
  BY <1>6 DEF RecoverRefused, Refuse
<1>7. CASE SwapRemove
  BY <1>7, Directories, Revisions DEF SwapRemove, Goto, NewInPlace, Intact
<1>8. CASE Removed
  BY <1>8, Directories, Revisions DEF Removed, Goto
<1>9. CASE SwapRestore
  BY <1>9 DEF SwapRestore, Goto
<1>10. CASE SwapNothing
  BY <1>10 DEF SwapNothing, Goto, files
<1>11. CASE SwapRefused
  BY <1>11 DEF SwapRefused, Refuse
<1>12. CASE Sweep
  BY <1>12, Directories, Revisions DEF Sweep, Goto, Partly
<1>13. CASE Swept
  BY <1>13 DEF Swept, Goto
<1>14. CASE Unlink
  BY <1>14 DEF Unlink, Resume, Goto, Return
<1>15. CASE Check
  BY <1>15, Directories, Revisions DEF Check, Goto
<1>16. CASE CheckRefused
  BY <1>16 DEF CheckRefused, Refuse
<1>17. CASE Stage
  BY <1>17, Directories, Revisions DEF Stage, Goto
<1>18. CASE Prepare
  <2>1. call \in Ingestions /\ (wiki # None) \in BOOLEAN
    BY <1>18 DEF Prepare
  <2>2. journal' \in Publications
    BY <1>18, <2>1 DEF Prepare, Publications
  <2> QED  BY <1>18, <2>1, <2>2, Journals DEF Prepare, Goto
<1>19. CASE MoveOld
  BY <1>19 DEF MoveOld, Goto
<1>20. CASE NoteOld
  BY <1>20, Journals DEF NoteOld, Note, Goto
<1>21. CASE MoveNew
  BY <1>21 DEF MoveNew, Goto
<1>22. CASE NoteNew
  BY <1>22, Journals DEF NoteNew, Note, Goto
<1>23. CASE Commit
  BY <1>23, Directories, Revisions DEF Commit, Goto
<1>24. CASE NoteCommitted
  BY <1>24, Journals DEF NoteCommitted, Note, Goto
<1>25. CASE Verify
  BY <1>25 DEF Verify
<1>26. CASE Except
  BY <1>26 DEF Except
<1>27. CASE Raise
  BY <1>27 DEF Raise, Goto
<1>28. CASE Fault
  BY <1>28, Bounds DEF Fault, InTry
<1>29. CASE Crash
  BY <1>29, Bounds DEF Crash
<1>30. CASE UserEdit
  BY <1>30, Directories, Revisions, Bounds DEF UserEdit
<1>31. CASE UNCHANGED vars
  BY <1>31 DEF vars
<1> QED
  BY <1>1, <1>2, <1>3, <1>4, <1>5, <1>6, <1>7, <1>8, <1>9, <1>10, <1>11, <1>12, <1>13, <1>14, <1>15, <1>16, <1>17, <1>18, <1>19, <1>20, <1>21, <1>22, <1>23, <1>24, <1>25, <1>26, <1>27, <1>28, <1>29, <1>30, <1>31 DEF Next

THEOREM TypeCorrect == Spec => []TypeOK
<1> QED  BY TypeInit, TypeStep, PTL DEF Spec

-----------------------------------------------------------------------------
(* The invariant of the two directories.                                    *)

LEMMA InductiveInit == Init => IInv
BY TypeInit DEF Init, IInv, Swapped, Placed, OldIsIn, Rolling, Sweeping, Swapping, Committing, Trying

LEMMA InductiveStep ==
    IInv /\ [Next]_vars => IInv'
<1> SUFFICES ASSUME IInv, [Next]_vars, edits' = 0 PROVE (Swapped /\ Placed)'
  BY TypeStep DEF IInv
<1> USE DEF Swapped, Placed, OldIsIn, Rolling, Sweeping, Swapping, Committing, Trying, files, counters
<1>a. TypeOK /\ Started /\ TypeOK'
  BY TypeStep DEF IInv
<1>b. edits = 0 => Swapped /\ Placed
  BY DEF IInv
<1>c. journal # None => /\ Base(journal.id) \in Nat /\ Target(journal.id) = Base(journal.id) + 1
                        /\ journal.id \in Ingestions /\ journal.had \in BOOLEAN
  BY <1>a, Revisions, Journals DEF TypeOK
<1>d. call # None => Base(call) \in Nat /\ Target(call) = Base(call) + 1 /\ call \in Ingestions
  BY <1>a, Revisions DEF TypeOK
<1>e. catalog \in Nat
  BY <1>a DEF TypeOK
<1>1. ASSUME NEW p \in Plans, Compile(<<catalog, p>>) PROVE (Swapped /\ Placed)'
  BY <1>1, <1>a, <1>b DEF Compile, OldIsAside, Started
<1>2. CASE CompileRefused
  BY <1>2, <1>a, <1>b, <1>c, <1>d, <1>e, Directories, Journals DEF CompileRefused, Refuse, OldIsAside, Started
<1>3. CASE RecoverNothing
  BY <1>3, <1>a, <1>b, <1>c, <1>d, <1>e, Directories, Journals DEF RecoverNothing, Resume, Goto, Return, Started
<1>4. CASE RecoverForward
  BY <1>4, <1>a, <1>b, <1>c, <1>d, <1>e, Directories, Journals DEF RecoverForward, Goto, Decided, Intact, Started
<1>5. CASE RecoverBack
  BY <1>5, <1>a, <1>b, <1>c, <1>d, <1>e, Directories, Journals DEF RecoverBack, Goto, Decided, Undecided, OldIsAside, Started
<1>6. CASE RecoverRefused
  BY <1>6, <1>a, <1>b, <1>c, <1>d, <1>e, Directories, Journals DEF RecoverRefused, Refuse, OldIsAside, Started
<1>7. CASE SwapRemove
  BY <1>7, <1>a, <1>b, <1>c, <1>d, <1>e, Directories, Journals DEF SwapRemove, Goto, NewInPlace, Intact, OldIsAside, Started
<1>8. CASE Removed
  BY <1>8, <1>a, <1>b, <1>c, <1>d, <1>e, Directories, Journals DEF Removed, Goto, OldIsAside, Started
<1>9. CASE SwapRestore
  BY <1>9, <1>a, <1>b, <1>c, <1>d, <1>e, Directories, Journals DEF SwapRestore, Goto, Intact, OldIsAside, Started
<1>10. CASE SwapNothing
  BY <1>10, <1>a, <1>b, <1>c, <1>d, <1>e, Directories, Journals DEF SwapNothing, Goto, Intact, OldInPlace, OldIsAside, Started
<1>11. CASE SwapRefused
  BY <1>11, <1>a, <1>b, <1>c, <1>d, <1>e, Directories, Journals DEF SwapRefused, Refuse, OldIsAside, Started
<1>12. CASE Sweep
  BY <1>12, <1>a, <1>b, <1>c, <1>d, <1>e, Directories, Journals DEF Sweep, Goto, Partly, Started
<1>13. CASE Swept
  BY <1>13, <1>a, <1>b, <1>c, <1>d, <1>e, Directories, Journals DEF Swept, Goto, Started
<1>14. CASE Unlink
  BY <1>14, <1>a, <1>b, <1>c, <1>d, <1>e, Directories, Journals DEF Unlink, Resume, Goto, Return, Started
<1>15. CASE Check
  BY <1>15, <1>a, <1>b, <1>c, <1>d, <1>e, Directories, Journals DEF Check, Goto, Readable, Intact, Started
<1>16. CASE CheckRefused
  BY <1>16, <1>a, <1>b, <1>c, <1>d, <1>e, Directories, Journals DEF CheckRefused, Refuse, OldIsAside, Started
<1>17. CASE Stage
  BY <1>17, <1>a, <1>b, <1>c, <1>d, <1>e, Directories, Journals DEF Stage, Goto, Started
<1>18. CASE Prepare
  <2>1. journal' = [id |-> call, had |-> wiki # None, stage |-> "prepared"] /\ call \in Ingestions
    BY <1>18, <1>a, <1>d DEF Prepare, Started
  <2>2. journal'.id = call /\ journal'.stage = "prepared" /\ (journal'.had <=> wiki # None)
    BY <2>1
  <2>3. journal' # None
    BY <2>1, Journals, (wiki # None) \in BOOLEAN
  <2> QED  BY <1>18, <2>2, <2>3, <1>a, <1>b, <1>d, <1>e, Directories DEF Prepare, Goto, OldIsAside, Started
<1>19. CASE MoveOld
  BY <1>19, <1>a, <1>b, <1>c, <1>d, <1>e, Directories, Journals DEF MoveOld, Goto, OldIsAside, Started
<1>20. CASE NoteOld
  <2>1. journal # None /\ journal' = [journal EXCEPT !.stage = "old_moved"]
    BY <1>20, <1>a DEF NoteOld, Note, Started
  <2>2. journal'.id = journal.id /\ journal'.had = journal.had /\ journal'.stage = "old_moved" /\ journal' # None
    BY <2>1, <1>a, Journals DEF TypeOK
  <2> QED  BY <1>20, <2>2, <1>a, <1>b, <1>c, <1>d, <1>e, Directories DEF NoteOld, Note, Goto, OldIsAside, Started
<1>21. CASE MoveNew
  BY <1>21, <1>a, <1>b, <1>c, <1>d, <1>e, Directories, Journals DEF MoveNew, Goto, OldIsAside, Started
<1>22. CASE NoteNew
  <2>1. journal # None /\ journal' = [journal EXCEPT !.stage = "new_moved"]
    BY <1>22, <1>a DEF NoteNew, Note, Started
  <2>2. journal'.id = journal.id /\ journal'.had = journal.had /\ journal'.stage = "new_moved" /\ journal' # None
    BY <2>1, <1>a, Journals DEF TypeOK
  <2> QED  BY <1>22, <2>2, <1>a, <1>b, <1>c, <1>d, <1>e, Directories DEF NoteNew, Note, Goto, OldIsAside, Started
<1>23. CASE Commit
  BY <1>23, <1>a, <1>b, <1>c, <1>d, <1>e, Directories, Journals DEF Commit, Goto, OldIsAside, Started
<1>24. CASE NoteCommitted
  <2>1. journal # None /\ journal' = [journal EXCEPT !.stage = "committed"]
    BY <1>24, <1>a DEF NoteCommitted, Note, Started
  <2>2. journal'.id = journal.id /\ journal'.had = journal.had /\ journal'.stage = "committed" /\ journal' # None
    BY <2>1, <1>a, Journals DEF TypeOK
  <2> QED  BY <1>24, <2>2, <1>a, <1>b, <1>c, <1>d, <1>e, Directories DEF NoteCommitted, Note, Goto, OldIsAside, Started
<1>25. CASE Verify
  BY <1>25, <1>a, <1>b, <1>c, <1>d, <1>e, Directories, Journals DEF Verify, Intact, Started
<1>26. CASE Except
  BY <1>26, <1>a, <1>b, <1>c, <1>d, <1>e, Directories, Journals DEF Except, OldIsAside, Started
<1>27. CASE Raise
  BY <1>27, <1>a, <1>b, <1>c, <1>d, <1>e, Directories, Journals DEF Raise, Goto, Intact, OldIsAside, Started
<1>28. CASE Fault
  BY <1>28, <1>a, <1>b, <1>c, <1>d, <1>e, Directories, Journals DEF Fault, InTry, OldIsAside, Started
<1>29. CASE Crash
  BY <1>29, <1>a, <1>b, <1>c, <1>d, <1>e, Directories, Journals DEF Crash, OldIsAside, Started
<1>30. CASE UserEdit
  BY <1>30, <1>a, <1>b, <1>c, <1>d, <1>e, Directories, Journals DEF UserEdit, TypeOK
<1>31. CASE UNCHANGED vars
  BY <1>31, <1>b DEF vars, OldIsAside
<1> QED
  BY <1>1, <1>2, <1>3, <1>4, <1>5, <1>6, <1>7, <1>8, <1>9, <1>10, <1>11, <1>12, <1>13, <1>14, <1>15, <1>16, <1>17, <1>18, <1>19, <1>20, <1>21, <1>22, <1>23, <1>24, <1>25, <1>26, <1>27, <1>28, <1>29, <1>30, <1>31 DEF Next

-----------------------------------------------------------------------------
\* Between any two steps, and whatever dies or fails, the revision that the catalog
\* names is whole in its place or in the backup of the journaled publication, as long
\* as nobody else changes knowledge/ (publish, recover, _rollback_uncommitted_swap).
THEOREM PublishedIsNeverLost == Spec => []PublishedIsKept
<1>1. IInv => PublishedIsKept
  BY Revisions, Journals, Directories
  DEF IInv, Swapped, OldIsIn, OldIsAside, PublishedIsKept, Readable, Intact, TypeOK
<1> QED  BY <1>1, InductiveInit, InductiveStep, PTL DEF Spec


-----------------------------------------------------------------------------
(* One failing operation.  While nothing died, nobody edited and at most one *)
(* operation failed, a call starts from a clean state, and what it raised on *)
(* leads to a recovery that nothing disturbs.                              *)

Calm == edits = 0 /\ crashes = 0 /\ faults <= 1

\* A call that has not begun to write.
Reading == pc \in {"idle", "check"} \/ (pc = "recover" /\ then = "publish")

Mended ==
    /\ ~refused
    /\ Reading => journal = None /\ roots = {}
    /\ Reading /\ pc # "idle" => catalog = Base(call)
    /\ pc # "idle" => roots \subseteq {call} /\ (journal # None => journal.id = call)
    /\ pc \in Trying \cup {"check"} => then = "publish"
    /\ pc \in Rolling => then = "fail"
    /\ pc = "recover" => then \in {"publish", "fail"}
    /\ pc \in Sweeping => then \in {"succeed", "fail"}
    /\ pc = "except" \/ (pc # "idle" /\ then = "fail") => faults = 1
    /\ pc = "unlink" \/ (pc = "recover" /\ journal = None) => roots = {}
    /\ pc # "removing" => OldIsIn \/ wiki = None \/ wiki = Whole(Target(journal.id))

MInv == IInv /\ (Calm => Mended)

LEMMA MendedInit == Init => MInv
BY InductiveInit DEF Init, MInv, Calm, Mended, Reading, OldIsIn, Rolling, Sweeping, Trying

LEMMA MendedStep ==
    MInv /\ [Next]_vars => MInv'
<1> SUFFICES ASSUME MInv, [Next]_vars, Calm' PROVE Mended'
  BY InductiveStep DEF MInv
<1> USE DEF Mended, Reading, Swapped, Placed, OldIsIn, Rolling, Sweeping, Swapping, Committing, Trying, files, counters
<1>a. TypeOK /\ Started /\ TypeOK'
  BY TypeStep DEF MInv, IInv
<1>b. Calm => Mended /\ Swapped /\ Placed
  BY DEF MInv, IInv, Calm
<1>c. journal # None => /\ Base(journal.id) \in Nat /\ Target(journal.id) = Base(journal.id) + 1
                        /\ journal.id \in Ingestions /\ journal.had \in BOOLEAN
  BY <1>a, Revisions, Journals DEF TypeOK
<1>d. call # None => Base(call) \in Nat /\ Target(call) = Base(call) + 1 /\ call \in Ingestions
  BY <1>a, Revisions DEF TypeOK
<1>e. catalog \in Nat /\ faults \in Nat
  BY <1>a DEF TypeOK
<1>1. ASSUME NEW p \in Plans, Compile(<<catalog, p>>) PROVE Mended'
  <2>1. Base(<<catalog, p>>) = catalog
    BY DEF Base
  <2> QED  BY <1>1, <2>1, <1>a, <1>b, <1>e DEF Compile, Calm, Started
<1>2. CASE CompileRefused
  BY <1>2, <1>a, <1>b, <1>c, <1>d, <1>e, Directories DEF CompileRefused, Refuse, OldIsAside, Readable, Intact, Started, Calm
<1>3. CASE RecoverNothing
  BY <1>3, <1>a, <1>b, <1>c, <1>d, <1>e, Directories DEF RecoverNothing, Resume, Goto, Return, Started, Calm
<1>4. CASE RecoverForward
  BY <1>4, <1>a, <1>b, <1>c, <1>d, <1>e, Directories DEF RecoverForward, Goto, Decided, Intact, TypeOK, Started, Calm
<1>5. CASE RecoverBack
  BY <1>5, <1>a, <1>b, <1>c, <1>d, <1>e, Directories DEF RecoverBack, Goto, Decided, Undecided, OldIsAside, TypeOK, Started, Calm
<1>6. CASE RecoverRefused
  BY <1>6, <1>a, <1>b, <1>c, <1>d, <1>e, Directories DEF RecoverRefused, Refuse, OldIsAside, Decided, Undecided, Intact, Started, Calm
<1>7. CASE SwapRemove
  BY <1>7, <1>a, <1>b, <1>c, <1>d, <1>e, Directories DEF SwapRemove, Goto, NewInPlace, Intact, OldIsAside, Started, Calm
<1>8. CASE Removed
  BY <1>8, <1>a, <1>b, <1>c, <1>d, <1>e, Directories DEF Removed, Goto, OldIsAside, Started, Calm
<1>9. CASE SwapRestore
  BY <1>9, <1>a, <1>b, <1>c, <1>d, <1>e, Directories DEF SwapRestore, Goto, Intact, OldIsAside, Started, Calm
<1>10. CASE SwapNothing
  BY <1>10, <1>a, <1>b, <1>c, <1>d, <1>e, Directories DEF SwapNothing, Goto, Intact, OldInPlace, OldIsAside, Started, Calm
<1>11. CASE SwapRefused
  BY <1>11, <1>a, <1>b, <1>c, <1>d, <1>e, Directories DEF SwapRefused, Refuse, OldIsAside, OldInPlace, NewInPlace, Intact, Started, Calm
<1>12. CASE Sweep
  BY <1>12, <1>a, <1>b, <1>c, <1>d, <1>e, Directories DEF Sweep, Goto, Partly, Started, Calm
<1>13. CASE Swept
  BY <1>13, <1>a, <1>b, <1>c, <1>d, <1>e, Directories DEF Swept, Goto, Started, Calm
<1>14. CASE Unlink
  BY <1>14, <1>a, <1>b, <1>c, <1>d, <1>e, Directories DEF Unlink, Resume, Goto, Return, Started, Calm
<1>15. CASE Check
  BY <1>15, <1>a, <1>b, <1>c, <1>d, <1>e, Directories DEF Check, Goto, Readable, Intact, Started, Calm
<1>16. CASE CheckRefused
  BY <1>16, <1>a, <1>b, <1>c, <1>d, <1>e, Directories DEF CheckRefused, Refuse, OldIsAside, Readable, Intact, Started, Calm
<1>17. CASE Stage
  BY <1>17, <1>a, <1>b, <1>c, <1>d, <1>e, Directories DEF Stage, Goto, Started, Calm
<1>18. CASE Prepare
  <2>1. journal'.id = call
    BY <1>18 DEF Prepare
  <2> QED  BY <1>18, <2>1, <1>a, <1>b, <1>d, <1>e DEF Prepare, Goto, Started, Calm
<1>19. CASE MoveOld
  BY <1>19, <1>a, <1>b, <1>c, <1>d, <1>e, Directories DEF MoveOld, Goto, OldIsAside, Started, Calm
<1>20. CASE NoteOld
  <2>1. journal # None /\ journal' = [journal EXCEPT !.stage = "old_moved"]
    BY <1>20, <1>a DEF NoteOld, Note, Started
  <2>2. journal'.id = journal.id /\ journal' # None
    BY <2>1, <1>a, Journals DEF TypeOK
  <2> QED  BY <1>20, <2>1, <2>2, <1>a, <1>b, <1>c, <1>d, <1>e DEF NoteOld, Note, Goto, Started, Calm
<1>21. CASE MoveNew
  BY <1>21, <1>a, <1>b, <1>c, <1>d, <1>e, Directories DEF MoveNew, Goto, OldIsAside, Started, Calm
<1>22. CASE NoteNew
  <2>1. journal # None /\ journal' = [journal EXCEPT !.stage = "new_moved"]
    BY <1>22, <1>a DEF NoteNew, Note, Started
  <2>2. journal'.id = journal.id /\ journal' # None
    BY <2>1, <1>a, Journals DEF TypeOK
  <2> QED  BY <1>22, <2>1, <2>2, <1>a, <1>b, <1>c, <1>d, <1>e DEF NoteNew, Note, Goto, Started, Calm
<1>23. CASE Commit
  BY <1>23, <1>a, <1>b, <1>c, <1>d, <1>e, Directories DEF Commit, Goto, OldIsAside, Started, Calm
<1>24. CASE NoteCommitted
  <2>1. journal # None /\ journal' = [journal EXCEPT !.stage = "committed"]
    BY <1>24, <1>a DEF NoteCommitted, Note, Started
  <2>2. journal'.id = journal.id /\ journal' # None
    BY <2>1, <1>a, Journals DEF TypeOK
  <2> QED  BY <1>24, <2>1, <2>2, <1>a, <1>b, <1>c, <1>d, <1>e DEF NoteCommitted, Note, Goto, Started, Calm
<1>25. CASE Verify
  BY <1>25, <1>a, <1>b, <1>c, <1>d, <1>e, Directories DEF Verify, Intact, Started, Calm
<1>26. CASE Except
  BY <1>26, <1>a, <1>b, <1>c, <1>d, <1>e, Directories DEF Except, OldIsAside, Started, Calm
<1>27. CASE Raise
  BY <1>27, <1>a, <1>b, <1>c, <1>d, <1>e, Directories DEF Raise, Goto, Intact, OldIsAside, Started, Calm
<1>28. CASE Fault
  <2>1. Calm /\ faults = 0
    BY <1>28, <1>e DEF Fault, Calm
  <2>2. pc # "except" /\ (pc # "idle" => then # "fail")
    BY <2>1, <1>b
  <2>3. CASE InTry
    <3>1. pc # "unlink" \/ roots = {}
      BY <2>1, <1>b
    <3> QED  BY <1>28, <2>1, <2>2, <2>3, <1>a, <1>b DEF Fault, InTry, Started
  <2>4. CASE ~InTry
    <3>1. Reading
      BY <1>28, <2>1, <2>2, <2>4, <1>a, <1>b DEF Fault, InTry, TypeOK, Steps
    <3> QED  BY <1>28, <2>1, <2>4, <3>1, <1>b DEF Fault
  <2> QED  BY <2>3, <2>4
<1>29. CASE Crash
  BY <1>29, <1>a DEF Crash, Calm, TypeOK
<1>30. CASE UserEdit
  BY <1>30, <1>a DEF UserEdit, Calm, TypeOK
<1>31. CASE UNCHANGED vars
  BY <1>31, <1>b DEF vars, Calm
<1> QED
  BY <1>1, <1>2, <1>3, <1>4, <1>5, <1>6, <1>7, <1>8, <1>9, <1>10, <1>11, <1>12, <1>13, <1>14, <1>15, <1>16, <1>17, <1>18, <1>19, <1>20, <1>21, <1>22, <1>23, <1>24, <1>25, <1>26, <1>27, <1>28, <1>29, <1>30, <1>31 DEF Next

\* The recovery that `except' starts puts right whatever single operation failed: no
\* later call finds anything to refuse (publish, recover, current_page_indexes).
THEOREM OneFailureMends == Spec => []OneFailureIsMended
<1>1. MInv => OneFailureIsMended
  BY DEF MInv, IInv, TypeOK, Calm, Mended, OneFailureIsMended
<1> QED  BY <1>1, MendedInit, MendedStep, PTL DEF Spec
-----------------------------------------------------------------------------
(* Events: what the live way carries of a Run is in order, and newer than   *)
(* what the client holds back.                                              *)

Frames == Events \cup {Reply}

Follows(q) == \A i, j \in 1..Len(q) : i < j /\ q[i].run = q[j].run => q[i].seq < q[j].seq

\* The queue carries no event of r up to n any more, and none is to come.
CarriedBeyond(q, r, n) == \A m \in Nat : Queued(q, Event(r, m)) => n < m
Told(r, n) == n <= durable[r] /\ (r \in untold => n < durable[r])

NewerBehind(r) ==
    /\ \A n \in Nat : Queued(sink, Event(r, n)) => Told(r, n)
    /\ \A n \in Nat : Queued(wire, Event(r, n)) => Told(r, n) /\ CarriedBeyond(sink, r, n)
    /\ \A n \in pending[r] : Told(r, n) /\ CarriedBeyond(sink, r, n) /\ CarriedBeyond(wire, r, n)

InOrder == Follows(wire) /\ Follows(sink) /\ \A r \in Runs : NewerBehind(r)

OnItsWay(r, n) ==
    \/ r \in untold /\ n = durable[r]
    \/ Queued(sink, Event(r, n)) \/ Queued(wire, Event(r, n))

Overlooked(r, n) ==
    /\ view[r] < n /\ n <= durable[r]
    /\ n \notin pending[r] /\ Event(r, n) \notin lost /\ ~OnItsWay(r, n)

\* What the buffer holds does not fit yet.
Waits(r) == \A n \in pending[r] : view[r] + 1 < n
HeldForALoss(r) == \A n \in pending[r] : \E m \in Missing(r) : m < n

Delivered == \A r \in Runs : Waits(r) /\ \A n \in Nat : ~Overlooked(r, n)

Live ==
    /\ InOrder
    /\ conn # "down" => Delivered
    /\ \A r \in Runs : HeldForALoss(r)

-----------------------------------------------------------------------------
(* Hydration: a response is of the request that is open, and the end of a   *)
(* replay is at or beyond the heads that were read before it.               *)

Answered == reply \in {"read", "sent", "here"}

Requests ==
    /\ reply = "none" <=> hydration = "none"
    /\ conn = "down" => hydration = "none" /\ wire = <<>> /\ sending = FALSE
    /\ Queued(wire, Reply) => reply = "sent"

Replays ==
    /\ Answered => \A r \in Runs : answer.to[r] <= durable[r]
    /\ hydration = "replay" => \A r \in Runs :
          /\ heads[r] <= durable[r] /\ cursors[r] <= view[r]
          /\ Answered => cursors[r] <= answer.to[r] /\ (~answer.more => heads[r] <= answer.to[r])

DeliveryInv == DeliveryTypeOK /\ Live /\ Requests /\ Replays /\ ReplayReachesTheHeads

-----------------------------------------------------------------------------
(* Queues and the reorder buffer.                                           *)

LEMMA EventsDiffer ==
  /\ \A r \in Runs, n \in Nat : Event(r, n) \in Events /\ Event(r, n) # Reply
  /\ \A r, s, n, m : Event(r, n) = Event(s, m) <=> r = s /\ n = m
  /\ \A e \in Events : e = Event(e.run, e.seq) /\ e.run \in Runs /\ e.seq \in Nat
  /\ Reply \notin Events
BY DeliveryAssumption DEF Event, Events, Reply

LEMMA AppendQueue ==
  ASSUME NEW U, NEW q \in Seq(U), NEW e \in U
  PROVE  /\ Append(q, e) \in Seq(U)
         /\ \A x : Queued(Append(q, e), x) <=> Queued(q, x) \/ x = e
         /\ Follows(q) /\ (\A i \in 1..Len(q) : q[i].run = e.run => q[i].seq < e.seq)
               => Follows(Append(q, e))
<1> DEFINE a == Append(q, e)
<1>1. /\ a \in Seq(U) /\ Len(a) = Len(q) + 1 /\ Len(q) \in Nat
      /\ \A i \in 1..Len(q) : a[i] = q[i]
      /\ a[Len(q) + 1] = e
  BY AppendProperties, LenProperties
<1>2. 1..Len(a) = 1..Len(q) \cup {Len(q) + 1} /\ Len(q) + 1 \notin 1..Len(q)  BY <1>1
<1> HIDE DEF a
<1>3. \A x : Queued(a, x) <=> Queued(q, x) \/ x = e  BY <1>1, <1>2 DEF Queued
<1>4. ASSUME Follows(q), \A i \in 1..Len(q) : q[i].run = e.run => q[i].seq < e.seq
      PROVE  Follows(a)
  <2> SUFFICES ASSUME NEW i \in 1..Len(a), NEW j \in 1..Len(a), i < j, a[i].run = a[j].run
               PROVE  a[i].seq < a[j].seq
    BY DEF Follows
  <2>1. i \in 1..Len(q) /\ a[i] = q[i]  BY <1>1, <1>2
  <2>2. CASE j \in 1..Len(q)  BY <1>1, <1>4, <2>1, <2>2 DEF Follows
  <2>3. CASE j = Len(q) + 1  BY <1>1, <1>4, <2>1, <2>3
  <2> QED  BY <1>2, <2>2, <2>3
<1> QED  BY <1>1, <1>3, <1>4 DEF a

LEMMA TailQueue ==
  ASSUME NEW U, NEW q \in Seq(U), q # <<>>
  PROVE  /\ Head(q) \in U /\ Tail(q) \in Seq(U) /\ Queued(q, Head(q))
         /\ \A x : Queued(Tail(q), x) => Queued(q, x)
         /\ \A x : Queued(q, x) => x = Head(q) \/ Queued(Tail(q), x)
         /\ Follows(q) => /\ Follows(Tail(q))
                          /\ \A r, n : Head(q) = Event(r, n) => CarriedBeyond(Tail(q), r, n)
                          /\ Head(q) = Reply => ~Queued(Tail(q), Reply)
<1> DEFINE t == Tail(q)
<1>1. /\ Head(q) \in U /\ t \in Seq(U) /\ Len(t) = Len(q) - 1
      /\ \A i \in 1..Len(t) : t[i] = q[i + 1]
  BY HeadTailProperties
<1>2. Len(q) \in Nat /\ Len(q) # 0 /\ Head(q) = q[1]
  BY LenProperties, EmptySeq
<1>3. /\ \A i \in 1..Len(t) : i + 1 \in 1..Len(q) /\ 1 < i + 1
      /\ \A i \in 1..Len(q) : i = 1 \/ i - 1 \in 1..Len(t)
      /\ \A i \in 1..Len(q) : i # 1 => (i - 1) + 1 = i
      /\ 1 \in 1..Len(q)
  BY <1>1, <1>2
<1> HIDE DEF t
<1>4. \A x : Queued(t, x) => Queued(q, x)  BY <1>1, <1>3 DEF Queued
<1>5. ASSUME NEW x, Queued(q, x) PROVE x = Head(q) \/ Queued(t, x)
  <2>1. PICK i \in 1..Len(q) : q[i] = x  BY <1>5 DEF Queued
  <2>2. CASE i = 1  BY <1>2, <2>1, <2>2
  <2>3. CASE i # 1
    <3>1. i - 1 \in 1..Len(t) /\ t[i - 1] = q[i]  BY <1>1, <1>3, <2>3
    <3> QED  BY <2>1, <3>1 DEF Queued
  <2> QED  BY <2>2, <2>3
<1>6. ASSUME Follows(q)
      PROVE  /\ Follows(t)
             /\ \A r, n : Head(q) = Event(r, n) => CarriedBeyond(t, r, n)
             /\ Head(q) = Reply => ~Queued(t, Reply)
  <2>1. Follows(t)
    <3> SUFFICES ASSUME NEW i \in 1..Len(t), NEW j \in 1..Len(t), i < j, t[i].run = t[j].run
                 PROVE  t[i].seq < t[j].seq
      BY DEF Follows
    <3>1. i + 1 < j + 1  OBVIOUS
    <3> QED  BY <1>1, <1>3, <1>6, <3>1 DEF Follows
  <2>2. ASSUME NEW i \in 1..Len(t), t[i].run = Head(q).run PROVE Head(q).seq < t[i].seq
    BY <1>1, <1>2, <1>3, <1>6, <2>2 DEF Follows
  <2>3. ASSUME NEW r, NEW n, Head(q) = Event(r, n), NEW m \in Nat, Queued(t, Event(r, m)) PROVE n < m
    BY <2>2, <2>3 DEF Queued, Event
  <2>4. ASSUME Head(q) = Reply, Queued(t, Reply) PROVE FALSE
    BY <2>2, <2>4 DEF Queued, Reply
  <2> QED  BY <2>1, <2>3, <2>4 DEF CarriedBeyond
<1> QED  BY <1>1, <1>2, <1>3, <1>4, <1>5, <1>6 DEF t, Queued

\* The induction of the library is over a predicate; this is its use for a set.
LEMMA Greatest ==
  ASSUME NEW S, S \subseteq Nat, S # {}, NEW b \in Nat, \A n \in S : n <= b
  PROVE  Max(S) \in S /\ \A n \in S : n <= Max(S)
<1> DEFINE T == {b - n : n \in S}
           below == {0..n : n \in T}
<1>1. T \subseteq Nat /\ T # {}
  <2>1. ASSUME NEW n \in S PROVE b - n \in Nat
    <3> n \in Nat /\ n <= b  OBVIOUS
    <3> QED  OBVIOUS
  <2> QED  BY <2>1
<1> HIDE DEF T
<1>2. below \subseteq FiniteSubsetsOf(Nat) /\ below # {}
  <2>1. ASSUME NEW n \in T PROVE 0..n \in FiniteSubsetsOf(Nat)
    <3>1. IsFiniteSet(0..n)  BY <1>1, FS_Interval
    <3> QED  BY <1>1, <3>1 DEF FiniteSubsetsOf
  <2> QED  BY <1>1, <2>1
<1>3. PICK x \in below : \A y \in below : ~ (<<y, x>> \in StrictSubsetOrdering(Nat))
  <2> HIDE DEF below
  <2> QED  BY <1>2, FS_StrictSubsetOrderingWellFounded, WFMin
<1>4. PICK m \in T : x = 0..m  OBVIOUS
<1>5. ASSUME NEW k \in T, k < m PROVE FALSE
  <2>1. 0..k \subseteq 0..m /\ 0..k # 0..m  BY <1>1, <1>5
  <2>2. <<0..k, x>> \in StrictSubsetOrdering(Nat)  BY <1>1, <1>4, <2>1 DEF StrictSubsetOrdering
  <2> QED  BY <1>3, <2>2
<1>6. PICK g \in S : m = b - g  BY DEF T
<1>7. \A n \in S : b - n \in T  BY DEF T
<1>8. \A n \in S : g >= n
  <2> SUFFICES ASSUME NEW n \in S PROVE g >= n  OBVIOUS
  <2>1. ~ (b - n < b - g) /\ n \in Nat /\ g \in Nat  BY <1>5, <1>6, <1>7
  <2> QED  BY <2>1
<1>9. Max(S) \in S /\ \A n \in S : Max(S) >= n  BY <1>8 DEF Max
<1>10. Max(S) \in Nat  BY <1>9
<1> QED  BY <1>9, <1>10

\* EventReducer shows what fits and holds back what does not.
LEMMA DrainedShows ==
  ASSUME NEW v \in Nat, NEW held, held \subseteq Nat, NEW b \in Nat, \A n \in held : n <= b
  PROVE  /\ Drained(v, held) \in Nat /\ v <= Drained(v, held)
         /\ Drained(v, held) + 1 \notin held
<1> DEFINE S == {v} \cup {n \in held : (v + 1)..n \subseteq held}
           d == Drained(v, held)
<1>1. S \subseteq Nat /\ S # {} /\ v + b \in Nat /\ v \in S
      /\ \A n \in S : n <= v + b
  <2>1. ASSUME NEW n \in S PROVE n \in Nat /\ n <= v + b
    <3>1. CASE n = v  BY <3>1
    <3>2. CASE n \in held
      <4> n \in Nat /\ n <= b  BY <3>2
      <4> QED  OBVIOUS
    <3> QED  BY <3>1, <3>2
  <2>2. v \in S /\ v + b \in Nat  OBVIOUS
  <2> HIDE DEF S
  <2> QED  BY <2>1, <2>2
<1>2. d \in S /\ \A n \in S : n <= d
  <2> HIDE DEF S
  <2>1. Max(S) \in S /\ \A n \in S : n <= Max(S)  BY <1>1, Greatest
  <2> QED  BY <2>1 DEF Drained, S
<1> HIDE DEF d
<1>3. d \in Nat /\ v <= d  BY <1>1, <1>2
<1>4. (v + 1)..d \subseteq held
  <2>1. CASE d = v  BY <2>1
  <2>2. CASE d # v  BY <1>2, <2>2
  <2> QED  BY <2>1, <2>2
<1>5. ASSUME d + 1 \in held PROVE FALSE
  <2>1. (v + 1)..(d + 1) = (v + 1)..d \cup {d + 1}  BY <1>3
  <2>2. d + 1 \in S  BY <1>4, <1>5, <2>1
  <2>3. d + 1 <= d  BY <1>2, <2>2
  <2> QED  BY <1>3, <2>3
<1> QED  BY <1>3, <1>5 DEF d

LEMMA LargerOfTwo ==
  ASSUME NEW a \in Nat, NEW b \in Nat
  PROVE  Max({a, b}) \in Nat /\ a <= Max({a, b}) /\ b <= Max({a, b})
<1> DEFINE S == {a, b}
<1>1. S \subseteq Nat /\ S # {} /\ a + b \in Nat /\ \A n \in S : n <= a + b  OBVIOUS
<1>2. a \in S /\ b \in S  OBVIOUS
<1> HIDE DEF S
<1>3. Max(S) \in S /\ \A n \in S : n <= Max(S)  BY <1>1, Greatest
<1>4. Max(S) \in Nat /\ a <= Max(S) /\ b <= Max(S)  BY <1>1, <1>2, <1>3
<1> QED  BY <1>4 DEF S

\* What is shown of an event, and of a page.
LEMMA ShowShows ==
  ASSUME DeliveryTypeOK, InOrder, NEW r \in Runs, NEW n \in Nat, Told(r, n),
         Show(r, view[r], pending[r] \cup {n})
  PROVE  /\ view' \in [Runs -> Nat] /\ pending' \in [Runs -> SUBSET Nat]
         /\ \A s \in Runs : s # r => view'[s] = view[s] /\ pending'[s] = pending[s]
         /\ view[r] <= view'[r]
         /\ pending'[r] = {k \in pending[r] \cup {n} : k > view'[r]}
         /\ Waits(r)'
<1> DEFINE held == pending[r] \cup {n}
           d == Drained(view[r], held)
<1>1. /\ view \in [Runs -> Nat] /\ pending \in [Runs -> SUBSET Nat] /\ durable[r] \in Nat
      /\ view' = [view EXCEPT ![r] = d]
      /\ pending' = [pending EXCEPT ![r] = {k \in held : k > d}]
  BY DEF DeliveryTypeOK, Show
<1>2. held \subseteq Nat /\ \A k \in held : k <= durable[r]
  BY <1>1 DEF InOrder, NewerBehind, Told
<1> HIDE DEF held
<1>3. d \in Nat /\ view[r] <= d /\ d + 1 \notin held  BY <1>1, <1>2, DrainedShows
<1> HIDE DEF d
<1>4. view'[r] = d /\ pending'[r] = {k \in held : k > d}  BY <1>1
<1>5. view' \in [Runs -> Nat] /\ pending' \in [Runs -> SUBSET Nat]  BY <1>1, <1>2, <1>3
<1>6. \A s \in Runs : s # r => view'[s] = view[s] /\ pending'[s] = pending[s]  BY <1>1
<1>7. Waits(r)'
  <2> SUFFICES ASSUME NEW k \in held, k > d PROVE d + 1 < k
    BY <1>4 DEF Waits
  <2> k \in Nat /\ k # d + 1  BY <1>2, <1>3
  <2> QED  BY <1>3
<1> QED  BY <1>3, <1>4, <1>5, <1>6, <1>7 DEF held

LEMMA AcceptedShows ==
  ASSUME DeliveryTypeOK, InOrder, Delivered, NEW S, S \subseteq Runs, Accepted(S)
  PROVE  /\ view' \in [Runs -> Nat] /\ pending' \in [Runs -> SUBSET Nat]
         /\ \A r \in Runs : /\ view[r] <= view'[r] /\ (r \in S => answer.to[r] <= view'[r])
                            /\ pending'[r] = {n \in pending[r] : n > view'[r]}
                            /\ Waits(r)'
<1> DEFINE v(r) == IF r \in S THEN Drained(Max({view[r], answer.to[r]}), pending[r]) ELSE view[r]
<1>1. /\ view' = [r \in Runs |-> v(r)]
      /\ pending' = [r \in Runs |-> {n \in pending[r] : n > v(r)}]
  BY DEF Accepted
<1>2. ASSUME NEW r \in Runs
      PROVE  /\ v(r) \in Nat /\ view[r] <= v(r) /\ (r \in S => answer.to[r] <= v(r))
             /\ v(r) + 1 \notin pending[r] /\ pending[r] \subseteq Nat
  <2>1. view[r] \in Nat /\ answer.to[r] \in Nat /\ pending[r] \subseteq Nat /\ durable[r] \in Nat
    BY DEF DeliveryTypeOK
  <2>2. CASE r \notin S
    <3>1. v(r) = view[r]  BY <2>2
    <3>2. view[r] + 1 \notin pending[r]
      <4>1. \A n \in pending[r] : view[r] + 1 < n  BY DEF Delivered, Waits
      <4> QED  BY <2>1, <4>1
    <3> QED  BY <2>1, <2>2, <3>1, <3>2
  <2>3. CASE r \in S
    <3> DEFINE m == Max({view[r], answer.to[r]})
               d == Drained(m, pending[r])
    <3>1. m \in Nat /\ view[r] <= m /\ answer.to[r] <= m  BY <2>1, LargerOfTwo
    <3> HIDE DEF m
    <3>2. \A n \in pending[r] : n <= durable[r]  BY DEF InOrder, NewerBehind, Told
    <3>3. d \in Nat /\ m <= d /\ d + 1 \notin pending[r]  BY <2>1, <3>1, <3>2, DrainedShows
    <3>4. v(r) = d  BY <2>3 DEF m
    <3> HIDE DEF d, v
    <3>5. view[r] <= d /\ answer.to[r] <= d  BY <2>1, <3>1, <3>3
    <3> QED  BY <2>1, <3>3, <3>4, <3>5
  <2> QED  BY <2>2, <2>3
<1> HIDE DEF v
<1>3. \A r \in Runs : view'[r] = v(r) /\ pending'[r] = {n \in pending[r] : n > v(r)}  BY <1>1
<1>4. view' \in [Runs -> Nat] /\ pending' \in [Runs -> SUBSET Nat]  BY <1>1, <1>2
<1>5. ASSUME NEW r \in Runs PROVE Waits(r)'
  <2> SUFFICES ASSUME NEW n \in pending[r], n > v(r) PROVE v(r) + 1 < n
    BY <1>3 DEF Waits
  <2> n \in Nat /\ n # v(r) + 1 /\ v(r) \in Nat  BY <1>2
  <2> QED  OBVIOUS
<1> QED  BY <1>2, <1>3, <1>4, <1>5

-----------------------------------------------------------------------------
(* The live way.                                                            *)

\* The client holds an event back for an earlier one that is lost.
LEMMA HeldFollows ==
  DeliveryTypeOK /\ InOrder /\ Delivered => \A r \in Runs : HeldForALoss(r)
<1> SUFFICES ASSUME DeliveryTypeOK, InOrder, Delivered, NEW r \in Runs, NEW n \in pending[r]
             PROVE  \E m \in Missing(r) : m < n
  BY DEF HeldForALoss
<1> DEFINE m == view[r] + 1
<1>1. n \in Nat /\ view[r] \in Nat /\ durable[r] \in Nat /\ m \in Nat  BY DEF DeliveryTypeOK
<1>2. n <= durable[r] /\ CarriedBeyond(sink, r, n) /\ CarriedBeyond(wire, r, n)
  BY DEF InOrder, NewerBehind, Told
<1>3. m < n /\ \A k \in pending[r] : m < k  BY DEF Delivered, Waits
<1>4. m \notin pending[r]  BY <1>1, <1>3
<1>5. view[r] < m /\ m <= durable[r] /\ m # durable[r] /\ m \in 1..durable[r]  BY <1>1, <1>2, <1>3
<1>6. ~Overlooked(r, m)  BY <1>1 DEF Delivered
<1> HIDE DEF m
<1>7. ~Queued(sink, Event(r, m)) /\ ~Queued(wire, Event(r, m))
  <2>1. ~(n < m)  BY <1>1, <1>3
  <2> QED  BY <1>1, <1>2, <2>1 DEF CarriedBeyond
<1>8. Event(r, m) \in lost  BY <1>4, <1>5, <1>6, <1>7 DEF Overlooked, OnItsWay
<1> QED  BY <1>3, <1>5, <1>8 DEF Missing

LEMMA HeldStays ==
  ASSUME DeliveryTypeOK, UNCHANGED <<view, pending>>, lost \subseteq lost',
         \A r \in Runs : durable'[r] \in Nat /\ durable[r] <= durable'[r],
         \A r \in Runs : HeldForALoss(r)
  PROVE  \A r \in Runs : HeldForALoss(r)'
<1> SUFFICES ASSUME NEW r \in Runs, NEW n \in pending[r] PROVE \E m \in Missing(r)' : m < n
  BY DEF HeldForALoss
<1>1. PICK m \in Missing(r) : m < n  BY DEF HeldForALoss
<1>2. durable[r] \in Nat /\ durable'[r] \in Nat /\ durable[r] <= durable'[r]  BY DEF DeliveryTypeOK
<1>3. m \in 1..durable[r] /\ Event(r, m) \in lost /\ m > view[r]  BY DEF Missing
<1>4. m \in 1..durable'[r]  BY <1>2, <1>3
<1>5. m \in Missing(r)'  BY <1>3, <1>4 DEF Missing, Event
<1> QED  BY <1>1, <1>5

LEMMA LiveStays ==
  ASSUME Live, UNCHANGED <<durable, untold, sink, wire, view, pending, lost>>,
         conn' # "down" => conn # "down"
  PROVE  Live'
<1>1. InOrder'  BY DEF Live, InOrder, NewerBehind, CarriedBeyond, Told, Queued, Follows
<1>2. conn' # "down" => Delivered'
  BY DEF Live, Delivered, Waits, Overlooked, OnItsWay, Queued
<1>3. \A r \in Runs : HeldForALoss(r)'  BY DEF Live, HeldForALoss, Missing
<1> QED  BY <1>1, <1>2, <1>3 DEF Live

LEMMA CommitLive ==
  ASSUME DeliveryInv, NEW r \in Runs, CommitEvent(r), DeliveryTypeOK'
  PROVE  Live'
<1>1. /\ r \notin untold /\ untold' = untold \cup {r}
      /\ durable' = [durable EXCEPT ![r] = @ + 1]
      /\ UNCHANGED <<sink, wire, view, pending, lost, conn>>
  BY DEF CommitEvent, client
<1>2. /\ durable'[r] = durable[r] + 1 /\ durable[r] \in Nat
      /\ \A s \in Runs : s # r => durable'[s] = durable[s]
      /\ \A s \in Runs : durable[s] \in Nat /\ durable'[s] \in Nat /\ durable[s] <= durable'[s]
  <2>1. durable \in [Runs -> Nat]  BY DEF DeliveryInv, DeliveryTypeOK
  <2>2. durable'[r] = durable[r] + 1 /\ durable[r] \in Nat  BY <1>1, <2>1
  <2>3. \A s \in Runs : s # r => durable'[s] = durable[s] /\ durable[s] \in Nat  BY <1>1, <2>1
  <2> QED  BY <2>2, <2>3
<1>3. \A s \in Runs, n \in Nat : Told(s, n) => Told(s, n)'
  BY <1>1, <1>2 DEF Told
<1>4. \A s \in Runs : pending[s] \subseteq Nat  BY DEF DeliveryInv, DeliveryTypeOK
<1>5. InOrder'
  <2>1. Follows(wire)' /\ Follows(sink)'
    BY <1>1 DEF DeliveryInv, Live, InOrder, Follows
  <2>2. ASSUME NEW s \in Runs PROVE NewerBehind(s)'
    <3>1. NewerBehind(s)  BY DEF DeliveryInv, Live, InOrder
    <3>2. UNCHANGED <<wire, sink, pending>>  BY <1>1
    <3> QED  BY <1>3, <1>4, <3>1, <3>2 DEF NewerBehind, CarriedBeyond, Queued
  <2> QED  BY <2>1, <2>2 DEF InOrder
<1>6. ASSUME conn # "down", NEW s \in Runs PROVE Waits(s)' /\ \A n \in Nat : ~Overlooked(s, n)'
  <2>1. Waits(s) /\ \A n \in Nat : ~Overlooked(s, n)  BY <1>6 DEF DeliveryInv, Live, Delivered
  <2>2. Waits(s)'  BY <1>1, <2>1 DEF Waits
  <2>3. ASSUME NEW n \in Nat, Overlooked(s, n)' PROVE FALSE
    <3>1. /\ view[s] < n /\ n <= durable'[s] /\ n \notin pending[s] /\ Event(s, n) \notin lost
          /\ ~(s \in untold' /\ n = durable'[s])
          /\ ~Queued(sink, Event(s, n)) /\ ~Queued(wire, Event(s, n))
      BY <1>1, <2>3 DEF Overlooked, OnItsWay, Queued, Event
    <3>2. n <= durable[s] /\ ~(s \in untold /\ n = durable[s])
      BY <1>1, <1>2, <3>1
    <3> QED  BY <2>1, <3>1, <3>2 DEF Overlooked, OnItsWay
  <2> QED  BY <2>2, <2>3
<1>7. \A s \in Runs : HeldForALoss(s)'
  BY <1>1, <1>2, HeldStays DEF DeliveryInv, Live
<1> QED  BY <1>1, <1>5, <1>6, <1>7 DEF Live, Delivered

\* The last event of r goes to the sink, or is lost.
LEMMA TellLive ==
  ASSUME DeliveryInv, NEW r \in Runs, Publish(r) \/ Unpublished(r), DeliveryTypeOK'
  PROVE  Live'
<1> DEFINE e == Event(r, durable[r])
<1>1. /\ r \in untold /\ untold' = untold \ {r}
      /\ UNCHANGED <<durable, wire, view, pending, conn>>
      /\ \/ sink' = Append(sink, e) /\ lost' = lost
         \/ lost' = lost \cup {e} /\ sink' = sink
  BY DEF Publish, Unpublished, client
<1>2. /\ sink \in Seq(Events) /\ e \in Events /\ durable \in [Runs -> Nat]
      /\ \A s \in Runs : pending[s] \subseteq Nat
  BY EventsDiffer DEF DeliveryInv, DeliveryTypeOK
<1>3. \A s \in Runs, n \in Nat : Told(s, n) => Told(s, n)' /\ (s = r => n < durable[r])
  BY <1>1, <1>2 DEF Told
<1>4. \A n \in Nat : n = durable[r] => Told(r, n)'  BY <1>1, <1>2 DEF Told
<1>5. \A s \in Runs : NewerBehind(s)  BY DEF DeliveryInv, Live, InOrder
<1>6. /\ \A x : Queued(sink, x) => Queued(sink', x)
      /\ \A x : Queued(sink', x) => Queued(sink, x) \/ x = e
  <2>1. CASE sink' = Append(sink, e)  BY <1>2, <2>1, AppendQueue
  <2>2. CASE sink' = sink  BY <2>2
  <2> QED  BY <1>1, <2>1, <2>2
<1>7. Follows(sink)'
  <2>1. CASE sink' = Append(sink, e)
    <3>1. ASSUME NEW i \in 1..Len(sink), sink[i].run = e.run PROVE sink[i].seq < e.seq
      <4>1. sink[i] \in Events  BY <1>2
      <4>2. sink[i] = Event(r, sink[i].seq) /\ sink[i].seq \in Nat /\ e.seq = durable[r]
        BY <3>1, <4>1, EventsDiffer DEF Event
      <4>3. Queued(sink, Event(r, sink[i].seq))  BY <4>2 DEF Queued
      <4> QED  BY <1>3, <1>5, <4>2, <4>3 DEF NewerBehind
    <3>2. Follows(sink)  BY DEF DeliveryInv, Live, InOrder
    <3>3. Follows(Append(sink, e))
      <4> HIDE DEF e
      <4> QED  BY <1>2, <3>1, <3>2, AppendQueue
    <3> QED  BY <2>1, <3>3 DEF Follows
  <2>2. CASE sink' = sink  BY <2>2 DEF DeliveryInv, Live, InOrder, Follows
  <2> QED  BY <1>1, <2>1, <2>2
<1>8. ASSUME NEW s \in Runs PROVE NewerBehind(s)'
  <2>1. \A n \in Nat : Queued(sink', Event(s, n)) => Queued(sink, Event(s, n)) \/ (s = r /\ n = durable[r])
    BY <1>2, <1>6, EventsDiffer
  <2>2. ASSUME NEW n \in Nat, Told(s, n), CarriedBeyond(sink, s, n) PROVE CarriedBeyond(sink, s, n)'
    <3> SUFFICES ASSUME NEW m \in Nat, Queued(sink', Event(s, m)) PROVE n < m
      BY DEF CarriedBeyond, Queued, Event
    <3> QED  BY <1>3, <2>1, <2>2 DEF CarriedBeyond
  <2>3. \A n \in Nat : Queued(sink, Event(s, n))' => Told(s, n)'
    <3> SUFFICES ASSUME NEW n \in Nat, Queued(sink', Event(s, n)) PROVE Told(s, n)'
      BY DEF Queued, Event
    <3> QED  BY <1>3, <1>4, <1>5, <2>1 DEF NewerBehind
  <2>4. \A n \in Nat : Queued(wire, Event(s, n))' => Told(s, n)' /\ CarriedBeyond(sink, s, n)'
    <3> SUFFICES ASSUME NEW n \in Nat, Queued(wire, Event(s, n))
                 PROVE  Told(s, n)' /\ CarriedBeyond(sink, s, n)'
      BY <1>1 DEF Queued, Event
    <3> QED  BY <1>3, <1>5, <2>2 DEF NewerBehind
  <2>5. \A n \in pending[s] : Told(s, n)' /\ CarriedBeyond(sink, s, n)' /\ CarriedBeyond(wire, s, n)'
    <3> SUFFICES ASSUME NEW n \in pending[s]
                 PROVE  Told(s, n)' /\ CarriedBeyond(sink, s, n)' /\ CarriedBeyond(wire, s, n)'
      OBVIOUS
    <3>1. n \in Nat /\ Told(s, n) /\ CarriedBeyond(sink, s, n) /\ CarriedBeyond(wire, s, n)
      BY <1>2, <1>5 DEF NewerBehind
    <3>2. CarriedBeyond(wire, s, n)'  BY <1>1, <3>1 DEF CarriedBeyond, Queued
    <3> QED  BY <1>3, <2>2, <3>1, <3>2
  <2> QED  BY <1>1, <2>3, <2>4, <2>5 DEF NewerBehind
<1>9. InOrder'
  BY <1>1, <1>7, <1>8 DEF DeliveryInv, Live, InOrder, Follows
<1>10. ASSUME conn # "down", NEW s \in Runs PROVE Waits(s)' /\ \A n \in Nat : ~Overlooked(s, n)'
  <2>1. Waits(s) /\ \A n \in Nat : ~Overlooked(s, n)  BY <1>10 DEF DeliveryInv, Live, Delivered
  <2>2. Waits(s)'  BY <1>1, <2>1 DEF Waits
  <2>3. ASSUME NEW n \in Nat, Overlooked(s, n)' PROVE FALSE
    <3>1. /\ view[s] < n /\ n <= durable[s] /\ n \notin pending[s] /\ Event(s, n) \notin lost'
          /\ ~(s \in untold' /\ n = durable[s])
          /\ ~Queued(sink', Event(s, n)) /\ ~Queued(wire, Event(s, n))
      BY <1>1, <2>3 DEF Overlooked, OnItsWay, Queued, Event
    <3>2. Event(s, n) # e
      <4>1. CASE sink' = Append(sink, e)
        <5>1. Queued(sink', e)  BY <1>2, <4>1, AppendQueue
        <5> QED  BY <3>1, <5>1
      <4>2. CASE lost' = lost \cup {e}  BY <3>1, <4>2
      <4> QED  BY <1>1, <4>1, <4>2
    <3>3. ~(s \in untold /\ n = durable[s])  BY <1>1, <3>1, <3>2
    <3>4. Event(s, n) \notin lost /\ ~Queued(sink, Event(s, n))  BY <1>1, <1>6, <3>1
    <3> QED  BY <2>1, <3>1, <3>3, <3>4 DEF Overlooked, OnItsWay
  <2> QED  BY <2>2, <2>3
<1>11. \A s \in Runs : HeldForALoss(s)'
  <2>1. lost \subseteq lost' /\ \A s \in Runs : durable'[s] \in Nat /\ durable[s] <= durable'[s]
    BY <1>1, <1>2
  <2> QED  BY <1>1, <2>1, HeldStays DEF DeliveryInv, Live
<1> QED  BY <1>1, <1>9, <1>10, <1>11 DEF Live, Delivered

\* The sink hands its first event to the connection, or to nobody.
LEMMA DeliverLive ==
  ASSUME DeliveryInv, Deliver, DeliveryTypeOK'
  PROVE  Live'
<1> DEFINE e == Head(sink)
<1>1. /\ sink # <<>> /\ sink' = Tail(sink)
      /\ UNCHANGED <<durable, untold, conn, view, pending>>
      /\ \/ wire' = Append(wire, e) /\ lost' = lost
         \/ lost' = lost \cup {e} /\ wire' = wire
  BY DEF Deliver, client
<1>2. /\ sink \in Seq(Events) /\ wire \in Seq(Frames) /\ durable \in [Runs -> Nat]
      /\ \A s \in Runs : pending[s] \subseteq Nat
  BY DEF DeliveryInv, DeliveryTypeOK, Frames
<1>3. \A s \in Runs : NewerBehind(s)  BY DEF DeliveryInv, Live, InOrder
<1>4. /\ e \in Events /\ Queued(sink, e) /\ e \in Frames
      /\ \A x : Queued(sink', x) => Queued(sink, x)
      /\ \A x : Queued(sink, x) => x = e \/ Queued(sink', x)
      /\ Follows(Tail(sink)) /\ \A s, n : e = Event(s, n) => CarriedBeyond(Tail(sink), s, n)
  BY <1>1, <1>2, TailQueue DEF DeliveryInv, Live, InOrder, Frames
<1>5. /\ \A x : Queued(wire, x) => Queued(wire', x)
      /\ \A x : Queued(wire', x) => Queued(wire, x) \/ x = e
  <2>1. CASE wire' = Append(wire, e)
    <3> HIDE DEF e
    <3> QED  BY <1>2, <1>4, <2>1, AppendQueue
  <2>2. CASE wire' = wire  BY <2>2
  <2> QED  BY <1>1, <2>1, <2>2
<1>6. Follows(wire)'
  <2>1. CASE wire' = Append(wire, e)
    <3>1. ASSUME NEW i \in 1..Len(wire), wire[i].run = e.run PROVE wire[i].seq < e.seq
      <4>1. wire[i] \in Frames /\ e.run \in Runs /\ e.seq \in Nat /\ e = Event(e.run, e.seq)
        BY <1>2, <1>4, EventsDiffer
      <4>2. wire[i] # Reply  BY <3>1, <4>1, DeliveryAssumption DEF Reply
      <4>3. wire[i] = Event(e.run, wire[i].seq) /\ wire[i].seq \in Nat
        BY <3>1, <4>1, <4>2, EventsDiffer DEF Frames
      <4>4. Queued(wire, Event(e.run, wire[i].seq))  BY <4>3 DEF Queued
      <4>5. CarriedBeyond(sink, e.run, wire[i].seq)  BY <1>3, <4>1, <4>3, <4>4 DEF NewerBehind
      <4> HIDE DEF e
      <4> QED  BY <1>4, <4>1, <4>5 DEF CarriedBeyond
    <3>2. Follows(wire)  BY DEF DeliveryInv, Live, InOrder
    <3>3. Follows(Append(wire, e))
      <4> HIDE DEF e
      <4> QED  BY <1>2, <1>4, <3>1, <3>2, AppendQueue
    <3> QED  BY <2>1, <3>3 DEF Follows
  <2>2. CASE wire' = wire  BY <2>2 DEF DeliveryInv, Live, InOrder, Follows
  <2> QED  BY <1>1, <2>1, <2>2
<1>7. ASSUME NEW s \in Runs PROVE NewerBehind(s)'
  <2>1. \A n : Told(s, n)' <=> Told(s, n)  BY <1>1 DEF Told
  <2>2. \A n : CarriedBeyond(sink, s, n) => CarriedBeyond(sink, s, n)'
    <3> SUFFICES ASSUME NEW n, CarriedBeyond(sink, s, n), NEW m \in Nat, Queued(sink', Event(s, m))
                 PROVE  n < m
      BY DEF CarriedBeyond, Queued, Event
    <3> QED  BY <1>4 DEF CarriedBeyond
  <2>3. \A n \in Nat : Queued(sink, Event(s, n))' => Told(s, n)'
    <3> SUFFICES ASSUME NEW n \in Nat, Queued(sink', Event(s, n)) PROVE Told(s, n)'
      BY DEF Queued, Event
    <3> QED  BY <1>3, <1>4, <2>1 DEF NewerBehind
  <2>4. \A n \in Nat : Queued(wire, Event(s, n))' => Told(s, n)' /\ CarriedBeyond(sink, s, n)'
    <3> SUFFICES ASSUME NEW n \in Nat, Queued(wire', Event(s, n))
                 PROVE  Told(s, n)' /\ CarriedBeyond(sink, s, n)'
      BY DEF Queued, Event
    <3>1. CASE Queued(wire, Event(s, n))  BY <1>3, <2>1, <2>2, <3>1 DEF NewerBehind
    <3>2. CASE Event(s, n) = e
      <4>1. Told(s, n)  BY <1>3, <1>4, <3>2 DEF NewerBehind
      <4>2. CarriedBeyond(sink, s, n)'
        <5>1. CarriedBeyond(Tail(sink), s, n)  BY <1>4, <3>2
        <5> QED  BY <1>1, <5>1 DEF CarriedBeyond, Queued, Event
      <4> QED  BY <2>1, <4>1, <4>2
    <3> QED  BY <1>5, <3>1, <3>2
  <2>5. \A n \in pending[s] : Told(s, n)' /\ CarriedBeyond(sink, s, n)' /\ CarriedBeyond(wire, s, n)'
    <3> SUFFICES ASSUME NEW n \in pending[s]
                 PROVE  Told(s, n)' /\ CarriedBeyond(sink, s, n)' /\ CarriedBeyond(wire, s, n)'
      OBVIOUS
    <3>1. Told(s, n) /\ CarriedBeyond(sink, s, n) /\ CarriedBeyond(wire, s, n)
      BY <1>3 DEF NewerBehind
    <3>2. ASSUME NEW m \in Nat, Queued(wire', Event(s, m)) PROVE n < m
      <4>1. Queued(wire, Event(s, m)) \/ Queued(sink, Event(s, m))  BY <1>4, <1>5, <3>2
      <4> QED  BY <3>1, <4>1 DEF CarriedBeyond
    <3>3. CarriedBeyond(wire, s, n)'  BY <3>2 DEF CarriedBeyond, Queued, Event
    <3> QED  BY <2>1, <2>2, <3>1, <3>3
  <2> QED  BY <1>1, <2>3, <2>4, <2>5 DEF NewerBehind
<1>8. InOrder'
  BY <1>1, <1>4, <1>6, <1>7 DEF InOrder, Follows
<1>9. ASSUME conn # "down", NEW s \in Runs PROVE Waits(s)' /\ \A n \in Nat : ~Overlooked(s, n)'
  <2>1. Waits(s) /\ \A n \in Nat : ~Overlooked(s, n)  BY <1>9 DEF DeliveryInv, Live, Delivered
  <2>2. Waits(s)'  BY <1>1, <2>1 DEF Waits
  <2>3. ASSUME NEW n \in Nat, Overlooked(s, n)' PROVE FALSE
    <3>1. /\ view[s] < n /\ n <= durable[s] /\ n \notin pending[s] /\ Event(s, n) \notin lost'
          /\ ~(s \in untold /\ n = durable[s])
          /\ ~Queued(sink', Event(s, n)) /\ ~Queued(wire', Event(s, n))
      BY <1>1, <2>3 DEF Overlooked, OnItsWay, Queued, Event
    <3>2. Event(s, n) # e
      <4>1. CASE wire' = Append(wire, e)
        <5>1. Queued(wire', e)
          <6> HIDE DEF e
          <6> QED  BY <1>2, <1>4, <4>1, AppendQueue
        <5> QED  BY <3>1, <5>1
      <4>2. CASE lost' = lost \cup {e}  BY <3>1, <4>2
      <4> QED  BY <1>1, <4>1, <4>2
    <3>3. Event(s, n) \notin lost  BY <1>1, <3>1
    <3>4. ~Queued(sink, Event(s, n)) /\ ~Queued(wire, Event(s, n))  BY <1>4, <1>5, <3>1, <3>2
    <3> QED  BY <2>1, <3>1, <3>3, <3>4 DEF Overlooked, OnItsWay
  <2> QED  BY <2>2, <2>3
<1>10. \A s \in Runs : HeldForALoss(s)'
  <2>1. lost \subseteq lost' /\ \A s \in Runs : durable'[s] \in Nat /\ durable[s] <= durable'[s]
    BY <1>1, <1>2
  <2> QED  BY <1>1, <2>1, HeldStays DEF DeliveryInv, Live
<1> QED  BY <1>1, <1>8, <1>9, <1>10 DEF Live, Delivered

\* A new client has an empty view, and what was told before it came is lost to it.
LEMMA ConnectLive ==
  ASSUME DeliveryInv, Connect, DeliveryTypeOK'
  PROVE  Live'
<1>1. /\ conn = "down" /\ UNCHANGED <<durable, untold, sink, wire>>
      /\ view' = Zero /\ pending' = Nothing
      /\ lost' = {e \in UNION {Committed(r) : r \in Runs} :
                    ~(e.run \in untold /\ e.seq = durable[e.run]) /\ ~Queued(sink, e)}
  BY DEF Connect, server
<1>2. /\ durable \in [Runs -> Nat]
      /\ \A r \in Runs : view'[r] = 0 /\ pending'[r] = {}
      /\ \A r \in Runs : NewerBehind(r)
  BY <1>1 DEF DeliveryInv, DeliveryTypeOK, Zero, Nothing, Live, InOrder
<1>3. \A r \in Runs : NewerBehind(r)'
  BY <1>1, <1>2 DEF NewerBehind, CarriedBeyond, Told, Queued
<1>4. InOrder'  BY <1>1, <1>3 DEF DeliveryInv, Live, InOrder, Follows
<1>5. ASSUME NEW r \in Runs, NEW n \in Nat, Overlooked(r, n)' PROVE FALSE
  <2>1. /\ 0 < n /\ n <= durable[r] /\ Event(r, n) \notin lost'
        /\ ~(r \in untold /\ n = durable[r]) /\ ~Queued(sink, Event(r, n))
    BY <1>1, <1>2, <1>5 DEF Overlooked, OnItsWay, Queued, Event
  <2>2. n \in 1..durable[r]  BY <1>2, <2>1
  <2>3. Event(r, n) \in UNION {Committed(s) : s \in Runs}  BY <2>2 DEF Committed
  <2>4. Event(r, n).run = r /\ Event(r, n).seq = n  BY DEF Event
  <2> QED  BY <1>1, <2>1, <2>3, <2>4
<1>6. \A r \in Runs : Waits(r)' /\ HeldForALoss(r)'  BY <1>2 DEF Waits, HeldForALoss
<1> QED  BY <1>4, <1>5, <1>6 DEF Live, Delivered

LEMMA DownLive ==
  ASSUME DeliveryInv, Down, DeliveryTypeOK'
  PROVE  Live'
<1>1. /\ conn' = "down" /\ untold' = {} /\ sink' = <<>> /\ wire' = <<>>
      /\ UNCHANGED <<durable, view, pending, lost>>
  BY DEF Down, client
<1>2. \A x : ~Queued(sink', x) /\ ~Queued(wire', x)  BY <1>1 DEF Queued
<1>3. ASSUME NEW r \in Runs PROVE NewerBehind(r)'
  <2>1. \A n : CarriedBeyond(sink, r, n)' /\ CarriedBeyond(wire, r, n)'
    BY <1>2 DEF CarriedBeyond, Queued, Event
  <2>2. \A n \in Nat : ~Queued(sink, Event(r, n))' /\ ~Queued(wire, Event(r, n))'
    BY <1>2 DEF Queued, Event
  <2>3. \A n \in pending[r] : Told(r, n)'
    <3>1. \A n \in pending[r] : Told(r, n)  BY DEF DeliveryInv, Live, InOrder, NewerBehind
    <3> QED  BY <1>1, <3>1 DEF Told
  <2> QED  BY <1>1, <2>1, <2>2, <2>3 DEF NewerBehind
<1>4. InOrder'
  <2>1. Follows(sink)' /\ Follows(wire)'  BY <1>1 DEF Follows
  <2> QED  BY <1>3, <2>1 DEF InOrder
<1>5. \A r \in Runs : HeldForALoss(r)'
  BY <1>1 DEF DeliveryInv, Live, HeldForALoss, Missing
<1> QED  BY <1>1, <1>4, <1>5 DEF Live

\* The client takes the frame h, or a page, and shows more; what it does not show yet
\* it holds back.
LEMMA ClientLive ==
  ASSUME DeliveryInv, DeliveryTypeOK', conn # "down", NEW h,
         UNCHANGED <<durable, untold, sink, conn, lost>>,
         Follows(wire'),
         \A x : Queued(wire', x) => Queued(wire, x),
         \A x : Queued(wire, x) => x = h \/ Queued(wire', x),
         \A s \in Runs, n \in Nat : h = Event(s, n) => Queued(wire, h) /\ CarriedBeyond(wire', s, n),
         \A s \in Runs : view[s] <= view'[s] /\ Waits(s)',
         \A s \in Runs, n \in Nat :
             n > view'[s] /\ (n \in pending[s] \/ Event(s, n) = h) => n \in pending'[s],
         \A s \in Runs : \A n \in pending'[s] : n \in pending[s] \/ Event(s, n) = h
  PROVE  Live'
<1>1. /\ DeliveryTypeOK /\ InOrder /\ Delivered
      /\ view \in [Runs -> Nat] /\ view' \in [Runs -> Nat] /\ durable \in [Runs -> Nat]
      /\ \A s \in Runs : pending[s] \subseteq Nat /\ pending'[s] \subseteq Nat /\ NewerBehind(s)
  BY DEF DeliveryInv, DeliveryTypeOK, Live, InOrder
<1>2. ASSUME NEW s \in Runs PROVE NewerBehind(s)'
  <2>1. \A n : (Told(s, n)' <=> Told(s, n)) /\ (CarriedBeyond(sink, s, n)' <=> CarriedBeyond(sink, s, n))
    BY DEF Told, CarriedBeyond, Queued
  <2>2. \A n \in Nat : Queued(sink, Event(s, n))' => Told(s, n)'
    BY <1>1, <2>1 DEF NewerBehind, Queued, Event
  <2>3. \A n \in Nat : Queued(wire, Event(s, n))' => Told(s, n)' /\ CarriedBeyond(sink, s, n)'
    <3> SUFFICES ASSUME NEW n \in Nat, Queued(wire', Event(s, n))
                 PROVE  Told(s, n)' /\ CarriedBeyond(sink, s, n)'
      BY DEF Queued, Event
    <3> QED  BY <1>1, <2>1 DEF NewerBehind
  <2>4. ASSUME NEW n \in pending'[s]
        PROVE  Told(s, n)' /\ CarriedBeyond(sink, s, n)' /\ CarriedBeyond(wire, s, n)'
    <3>1. n \in Nat  BY <1>1
    <3>2. Told(s, n) /\ CarriedBeyond(sink, s, n) /\ CarriedBeyond(wire', s, n)
      <4>1. CASE n \in pending[s]
        <5>1. Told(s, n) /\ CarriedBeyond(sink, s, n) /\ CarriedBeyond(wire, s, n)
          BY <1>1, <4>1 DEF NewerBehind
        <5> QED  BY <5>1 DEF CarriedBeyond
      <4>2. CASE Event(s, n) = h
        <5>1. Queued(wire, Event(s, n)) /\ CarriedBeyond(wire', s, n)  BY <3>1, <4>2
        <5> QED  BY <1>1, <3>1, <5>1 DEF NewerBehind
      <4> QED  BY <4>1, <4>2
    <3>3. CarriedBeyond(wire, s, n)'  BY <3>2 DEF CarriedBeyond, Queued, Event
    <3> QED  BY <2>1, <3>2, <3>3
  <2> QED  BY <2>2, <2>3, <2>4 DEF NewerBehind
<1>3. InOrder'
  <2>1. Follows(wire)' /\ Follows(sink)'  BY <1>1 DEF InOrder, Follows
  <2> QED  BY <1>2, <2>1 DEF InOrder
<1>4. Delivered'
  <2>1. ASSUME NEW s \in Runs, NEW n \in Nat, Overlooked(s, n)' PROVE FALSE
    <3>1. /\ view'[s] < n /\ n <= durable[s] /\ n \notin pending'[s] /\ Event(s, n) \notin lost
          /\ ~(s \in untold /\ n = durable[s])
          /\ ~Queued(sink, Event(s, n)) /\ ~Queued(wire', Event(s, n))
      BY <2>1 DEF Overlooked, OnItsWay, Queued, Event
    <3>2. view[s] \in Nat /\ view'[s] \in Nat /\ view[s] <= view'[s]  BY <1>1
    <3>3. n \notin pending[s] /\ Event(s, n) # h /\ view[s] < n  BY <3>1, <3>2
    <3>4. ~Queued(wire, Event(s, n))  BY <3>1, <3>3
    <3> QED  BY <1>1, <3>1, <3>3, <3>4 DEF Delivered, Overlooked, OnItsWay
  <2> QED  BY <2>1 DEF Delivered
<1>5. (DeliveryTypeOK /\ InOrder /\ Delivered => \A r \in Runs : HeldForALoss(r))'
  BY HeldFollows, PTL
<1> QED  BY <1>3, <1>4, <1>5 DEF Live

LEMMA EventLive ==
  ASSUME DeliveryInv, ReceiveEvent, ~Down, DeliveryTypeOK'
  PROVE  Live' /\ \A s \in Runs : view[s] <= view'[s]
<1> DEFINE h == Head(wire)
           r == h.run
           n == h.seq
<1>1. /\ wire # <<>> /\ h # Reply /\ wire' = Tail(wire)
      /\ UNCHANGED <<durable, untold, sink, conn, lost>>
      /\ IF n > view[r] THEN Show(r, view[r], pending[r] \cup {n}) ELSE UNCHANGED <<view, pending>>
  BY DEF ReceiveEvent, server, client
<1>2. /\ DeliveryTypeOK /\ InOrder /\ Delivered
      /\ wire \in Seq(Frames) /\ view \in [Runs -> Nat]
      /\ \A s \in Runs : pending[s] \subseteq Nat
      /\ conn # "down"
  BY <1>1 DEF DeliveryInv, DeliveryTypeOK, Frames, Live, Requests
<1>3. /\ Queued(wire, h) /\ h \in Frames
      /\ \A x : Queued(wire', x) => Queued(wire, x)
      /\ \A x : Queued(wire, x) => x = h \/ Queued(wire', x)
      /\ Follows(wire')
      /\ \A s, m : h = Event(s, m) => CarriedBeyond(wire', s, m)
  BY <1>1, <1>2, TailQueue DEF InOrder
<1>4. r \in Runs /\ n \in Nat /\ h = Event(r, n)
  BY <1>1, <1>3, EventsDiffer DEF Frames
<1>5. \A s, m : Event(s, m) = h <=> s = r /\ m = n
  <2> HIDE DEF h
  <2> QED  BY <1>4, EventsDiffer
<1>6. /\ \A s \in Runs : view[s] <= view'[s] /\ Waits(s)'
      /\ \A s \in Runs, m \in Nat :
             m > view'[s] /\ (m \in pending[s] \/ Event(s, m) = h) => m \in pending'[s]
      /\ \A s \in Runs : \A m \in pending'[s] : m \in pending[s] \/ Event(s, m) = h
  <2>1. CASE n > view[r]
    <3>1. Told(r, n)  BY <1>2, <1>3, <1>4 DEF InOrder, NewerBehind
    <3>2. Show(r, view[r], pending[r] \cup {n})  BY <1>1, <2>1
    <3> HIDE DEF h, r, n
    <3>3. /\ \A s \in Runs : s # r => view'[s] = view[s] /\ pending'[s] = pending[s]
          /\ view[r] <= view'[r]
          /\ pending'[r] = {k \in pending[r] \cup {n} : k > view'[r]}
      BY <1>2, <1>4, <3>1, <3>2, ShowShows
    <3>4. \A s \in Runs : Waits(s)'
      <4> SUFFICES ASSUME NEW s \in Runs PROVE Waits(s)'  OBVIOUS
      <4>1. CASE s = r
        <5>1. \A k \in pending'[r] : view'[r] + 1 < k
          <6>1. \A s2 \in {r} : Waits(s2)'  BY <1>2, <1>4, <3>1, <3>2, ShowShows
          <6> QED  BY <6>1 DEF Waits
        <5> QED  BY <4>1, <5>1 DEF Waits
      <4>2. CASE s # r  BY <1>2, <3>3, <4>2 DEF Delivered, Waits
      <4> QED  BY <4>1, <4>2
    <3>5. \A s \in Runs : view[s] <= view'[s]  BY <1>2, <3>3
    <3>6. ASSUME NEW s \in Runs, NEW m \in Nat, m > view'[s], m \in pending[s] \/ Event(s, m) = h
          PROVE  m \in pending'[s]
      <4>1. CASE s = r  BY <1>5, <3>3, <3>6, <4>1
      <4>2. CASE s # r  BY <1>5, <3>3, <3>6, <4>2
      <4> QED  BY <4>1, <4>2
    <3>7. ASSUME NEW s \in Runs, NEW m \in pending'[s] PROVE m \in pending[s] \/ Event(s, m) = h
      <4>1. CASE s = r  BY <1>5, <3>3, <3>7, <4>1
      <4>2. CASE s # r  BY <3>3, <3>7, <4>2
      <4> QED  BY <4>1, <4>2
    <3> QED  BY <3>4, <3>5, <3>6, <3>7
  <2>2. CASE ~(n > view[r])
    <3>1. view' = view /\ pending' = pending  BY <1>1, <2>2
    <3> HIDE DEF h, r, n
    <3>2. \A s \in Runs : view[s] <= view'[s] /\ Waits(s)'  BY <1>2, <3>1 DEF Delivered, Waits
    <3>3. \A s \in Runs, m \in Nat : m > view[s] => Event(s, m) # h  BY <1>5, <2>2
    <3> QED  BY <3>1, <3>2, <3>3
  <2> QED  BY <2>1, <2>2
<1>7. \A s \in Runs, m \in Nat : h = Event(s, m) => Queued(wire, h) /\ CarriedBeyond(wire', s, m)
  BY <1>3
<1> HIDE DEF h, r, n
<1> QED  BY <1>1, <1>2, <1>3, <1>6, <1>7, ClientLive

LEMMA ReplyLive ==
  ASSUME DeliveryInv, ReceiveReply, DeliveryTypeOK'
  PROVE  Live'
<1>1. /\ wire # <<>> /\ Head(wire) = Reply /\ wire' = Tail(wire)
      /\ UNCHANGED <<durable, untold, sink, conn, lost, view, pending>>
  BY DEF ReceiveReply, server, client
<1>2. /\ InOrder /\ Delivered /\ wire \in Seq(Frames) /\ view \in [Runs -> Nat] /\ conn # "down"
  BY <1>1 DEF DeliveryInv, DeliveryTypeOK, Frames, Live, Requests
<1>3. /\ \A x : Queued(wire', x) => Queued(wire, x)
      /\ \A x : Queued(wire, x) => x = Reply \/ Queued(wire', x)
      /\ Follows(wire')
  BY <1>1, <1>2, TailQueue DEF InOrder
<1>4. \A s \in Runs, m \in Nat : Reply # Event(s, m)  BY EventsDiffer
<1>5. \A s \in Runs : view[s] <= view'[s] /\ Waits(s)'  BY <1>1, <1>2 DEF Delivered, Waits
<1> QED  BY <1>1, <1>2, <1>3, <1>4, <1>5, ClientLive

LEMMA SendLive ==
  ASSUME DeliveryInv, Send, DeliveryTypeOK'
  PROVE  Live'
<1>1. /\ reply = "read" /\ wire' = Append(wire, Reply)
      /\ UNCHANGED <<durable, untold, sink, conn, lost, view, pending>>
  BY DEF Send, server, client
<1>2. /\ InOrder /\ wire \in Seq(Frames) /\ Reply \in Frames /\ view \in [Runs -> Nat]
      /\ conn # "down" /\ ~Queued(wire, Reply)
  BY <1>1 DEF DeliveryInv, DeliveryTypeOK, Frames, Live, Requests
<1>3. Delivered  BY <1>2 DEF DeliveryInv, Live
<1>4. \A x : Queued(wire', x) <=> Queued(wire, x) \/ x = Reply  BY <1>1, <1>2, AppendQueue
<1>5. Follows(wire')
  <2>1. ASSUME NEW i \in 1..Len(wire), wire[i].run = Reply.run PROVE FALSE
    <3>1. wire[i] \in Frames /\ wire[i] # Reply  BY <1>2 DEF Queued
    <3>2. wire[i].run \in Runs  BY <3>1, EventsDiffer DEF Frames
    <3> QED  BY <2>1, <3>2, DeliveryAssumption DEF Reply
  <2>2. Follows(wire)  BY <1>2 DEF InOrder
  <2> QED  BY <1>1, <1>2, <2>1, <2>2, AppendQueue
<1>6. \A s \in Runs, m \in Nat : Reply # Event(s, m)  BY EventsDiffer
<1>7. ASSUME NEW s \in Runs, NEW m \in Nat PROVE Queued(wire', Event(s, m)) <=> Queued(wire, Event(s, m))
  BY <1>4, <1>6
<1>8. InOrder'
  <2>1. ASSUME NEW s \in Runs PROVE NewerBehind(s)'
    <3>1. \A n : (Told(s, n)' <=> Told(s, n)) /\ (CarriedBeyond(sink, s, n)' <=> CarriedBeyond(sink, s, n))
      BY <1>1 DEF Told, CarriedBeyond, Queued
    <3>2. \A n : CarriedBeyond(wire, s, n)' <=> CarriedBeyond(wire, s, n)
      <4>1. \A n : CarriedBeyond(wire, s, n)' <=> CarriedBeyond(wire', s, n)
        BY DEF CarriedBeyond, Queued, Event
      <4> QED  BY <1>7, <4>1 DEF CarriedBeyond
    <3>3. \A n \in Nat : Queued(wire, Event(s, n))' <=> Queued(wire, Event(s, n))
      <4>1. \A n \in Nat : Queued(wire, Event(s, n))' <=> Queued(wire', Event(s, n))
        BY DEF Queued, Event
      <4> QED  BY <1>7, <4>1
    <3>4. \A n \in Nat : Queued(sink, Event(s, n))' <=> Queued(sink, Event(s, n))
      BY <1>1 DEF Queued, Event
    <3> QED  BY <1>1, <1>2, <3>1, <3>2, <3>3, <3>4 DEF InOrder, NewerBehind
  <2> QED  BY <1>1, <1>2, <1>5, <2>1 DEF InOrder, Follows
<1>9. Delivered'
  <2>1. \A s \in Runs : Waits(s)'  BY <1>1, <1>3 DEF Delivered, Waits
  <2>2. ASSUME NEW s \in Runs, NEW n \in Nat, Overlooked(s, n)' PROVE FALSE
    <3>1. /\ view[s] < n /\ n <= durable[s] /\ n \notin pending[s] /\ Event(s, n) \notin lost
          /\ ~(s \in untold /\ n = durable[s])
          /\ ~Queued(sink, Event(s, n)) /\ ~Queued(wire', Event(s, n))
      BY <1>1, <2>2 DEF Overlooked, OnItsWay, Queued, Event
    <3> QED  BY <1>3, <1>7, <3>1 DEF Delivered, Overlooked, OnItsWay
  <2> QED  BY <2>1, <2>2 DEF Delivered
<1>10. \A r \in Runs : HeldForALoss(r)'
  BY <1>1 DEF DeliveryInv, Live, HeldForALoss, Missing
<1> QED  BY <1>8, <1>9, <1>10 DEF Live

\* A page is as good as the events it carries.
LEMMA PageLive ==
  ASSUME DeliveryInv, hydration = "replay", NEW S, S \subseteq Runs, Accepted(S),
         UNCHANGED <<durable, untold, sink, wire, conn, lost>>, DeliveryTypeOK'
  PROVE  Live'
<1>1. /\ DeliveryTypeOK /\ InOrder /\ conn # "down"
  BY DEF DeliveryInv, Live, Requests
<1>2. Delivered  BY <1>1 DEF DeliveryInv, Live
<1>3. \A r \in Runs : /\ view[r] <= view'[r]
                      /\ pending'[r] = {n \in pending[r] : n > view'[r]}
                      /\ Waits(r)'
  BY <1>1, <1>2, AcceptedShows
<1>4. \A s \in Runs, m \in Nat : Reply # Event(s, m)  BY EventsDiffer
<1>5. Follows(wire')  BY <1>1 DEF InOrder
<1> QED  BY <1>1, <1>3, <1>4, <1>5, ClientLive

-----------------------------------------------------------------------------
(* Every step keeps the invariant.                                          *)

LEMMA DownTypes ==
  ASSUME DeliveryTypeOK, Down, failure' \in {"none", "short", "overflow", "unstable", "poisoned"}
  PROVE  DeliveryTypeOK'
<1>1. <<>> \in Seq(Events) /\ <<>> \in Seq(Events \cup {Reply})  OBVIOUS
<1>2. Until(Zero, FALSE) \in [to : [Runs -> Nat], more : BOOLEAN] /\ Zero \in [Runs -> Nat]
  BY DEF Until, Zero
<1>3. 0 \in 0..MaxPasses  BY DeliveryAssumption
<1> QED  BY <1>1, <1>2, <1>3 DEF DeliveryTypeOK, Down, NoHydration, client

LEMMA WorkerTypes ==
  ASSUME DeliveryInv,
         Tell \/ Pump \/ (\E r \in Runs : CommitEvent(r)) \/ Connect \/ Send \/ ReceiveReply
  PROVE  DeliveryTypeOK'
<1> USE DEF client, server, hydrating
<1>1. /\ DeliveryTypeOK /\ wire \in Seq(Frames) /\ sink \in Seq(Events)
      /\ durable \in [Runs -> Nat] /\ Reply \in Frames
  BY DEF DeliveryInv, DeliveryTypeOK, Frames
<1>2. CASE Tell
  <2>1. PICK r \in Runs : Publish(r) \/ Unpublished(r)  BY <1>2 DEF Tell
  <2>2. Event(r, durable[r]) \in Events  BY <1>1, EventsDiffer
  <2>3. Append(sink, Event(r, durable[r])) \in Seq(Events)  BY <1>1, <2>2, AppendQueue
  <2>4. untold' \subseteq Runs /\ sink' \in Seq(Events) /\ lost' \subseteq Events
    BY <1>1, <2>1, <2>2, <2>3 DEF Publish, Unpublished, DeliveryTypeOK
  <2>5. UNCHANGED <<durable, sending, conn, wire, view, pending, hydrating>>
    BY <2>1 DEF Publish, Unpublished
  <2> QED  BY <1>1, <2>4, <2>5 DEF DeliveryTypeOK
<1>3. CASE Deliver
  <2>1. Head(sink) \in Events /\ Tail(sink) \in Seq(Events)  BY <1>1, <1>3, TailQueue DEF Deliver
  <2>2. Append(wire, Head(sink)) \in Seq(Frames)  BY <1>1, <2>1, AppendQueue DEF Frames
  <2>3. sink' \in Seq(Events) /\ wire' \in Seq(Frames) /\ lost' \subseteq Events /\ sending' \in BOOLEAN
    BY <1>1, <1>3, <2>1, <2>2 DEF Deliver, DeliveryTypeOK
  <2>4. UNCHANGED <<durable, untold, conn, view, pending, hydrating>>  BY <1>3 DEF Deliver
  <2> QED  BY <1>1, <2>3, <2>4 DEF DeliveryTypeOK, Frames
<1>4. CASE Written  BY <1>1, <1>4 DEF Written, DeliveryTypeOK
<1>5. CASE AddToHub  BY <1>1, <1>5 DEF AddToHub, DeliveryTypeOK
<1>6. CASE \E r \in Runs : CommitEvent(r)
  <2>1. PICK r \in Runs : CommitEvent(r)  BY <1>6
  <2>2. durable' \in [Runs -> Nat] /\ untold' \subseteq Runs
    BY <1>1, <2>1 DEF CommitEvent, DeliveryTypeOK
  <2>3. UNCHANGED <<sink, sending, conn, wire, view, pending, lost, hydrating>>
    BY <2>1 DEF CommitEvent
  <2> QED  BY <1>1, <2>2, <2>3 DEF DeliveryTypeOK
<1>7. CASE Connect
  <2>1. UNION {Committed(r) : r \in Runs} \subseteq Events
    <3> SUFFICES ASSUME NEW r \in Runs, NEW n \in 1..durable[r] PROVE Event(r, n) \in Events
      BY DEF Committed
    <3> n \in Nat  BY <1>1
    <3> QED  BY EventsDiffer
  <2>2. lost' \subseteq Events  BY <1>7, <2>1 DEF Connect
  <2>3. /\ conn' = "ready" /\ view' \in [Runs -> Nat] /\ pending' \in [Runs -> SUBSET Nat]
        /\ UNCHANGED <<durable, untold, sink, sending, wire, hydrating>>
    BY <1>7 DEF Connect, Zero, Nothing
  <2> QED  BY <1>1, <2>2, <2>3 DEF DeliveryTypeOK
<1>8. CASE Send
  <2>1. wire' \in Seq(Frames)  BY <1>1, <1>8, AppendQueue DEF Send
  <2>2. /\ reply' = "sent"
        /\ UNCHANGED <<durable, untold, sink, sending, conn, view, pending, lost, hydration,
                       heads, cursors, pass, answer, failure>>
    BY <1>8 DEF Send
  <2> QED  BY <1>1, <2>1, <2>2 DEF DeliveryTypeOK, Frames
<1>9. CASE ReceiveReply
  <2>1. wire' \in Seq(Frames)  BY <1>1, <1>9, TailQueue DEF ReceiveReply
  <2>2. /\ reply' = "here"
        /\ UNCHANGED <<durable, untold, sink, sending, conn, view, pending, lost, hydration,
                       heads, cursors, pass, answer, failure>>
    BY <1>9 DEF ReceiveReply
  <2> QED  BY <1>1, <2>1, <2>2 DEF DeliveryTypeOK, Frames
<1> QED  BY <1>2, <1>3, <1>4, <1>5, <1>6, <1>7, <1>8, <1>9 DEF Pump

LEMMA EventTypes ==
  ASSUME DeliveryInv, ReceiveEvent
  PROVE  DeliveryTypeOK'
<1> DEFINE h == Head(wire)
           r == h.run
           n == h.seq
<1>1. DeliveryTypeOK /\ InOrder /\ wire \in Seq(Frames)
  BY DEF DeliveryInv, DeliveryTypeOK, Frames, Live
<1>2. CASE Down /\ failure' = "poisoned"  BY <1>1, <1>2, DownTypes
<1>3. CASE /\ wire' = Tail(wire)
           /\ UNCHANGED <<durable, untold, sink, sending, conn, lost, hydrating>>
           /\ IF n > view[r] THEN Show(r, view[r], pending[r] \cup {n}) ELSE UNCHANGED <<view, pending>>
  <2>1. Tail(wire) \in Seq(Frames) /\ h \in Frames /\ Queued(wire, h)
    BY <1>1, TailQueue DEF ReceiveEvent
  <2>2. r \in Runs /\ n \in Nat /\ h = Event(r, n)
    BY <2>1, EventsDiffer DEF Frames, ReceiveEvent
  <2>3. view' \in [Runs -> Nat] /\ pending' \in [Runs -> SUBSET Nat]
    <3>1. CASE n > view[r]
      <4>1. Told(r, n)  BY <1>1, <2>1, <2>2 DEF InOrder, NewerBehind
      <4>2. Show(r, view[r], pending[r] \cup {n})  BY <1>3, <3>1
      <4> HIDE DEF h, r, n
      <4> QED  BY <1>1, <2>2, <4>1, <4>2, ShowShows
    <3>2. CASE ~(n > view[r])  BY <1>1, <1>3, <3>2 DEF DeliveryTypeOK
    <3> QED  BY <3>1, <3>2
  <2> HIDE DEF h, r, n
  <2> QED  BY <1>1, <1>3, <2>1, <2>3 DEF DeliveryTypeOK, hydrating, Frames
<1> QED  BY <1>2, <1>3 DEF ReceiveEvent, server, client

LEMMA HydrationTypes ==
  ASSUME DeliveryInv,
         Hydrate \/ ReadHeads \/ ReadPage \/ Snapshot \/ Page \/ PageRefused \/ Hydrated \/ OnceMore
  PROVE  DeliveryTypeOK'
<1> USE DEF client, server
<1>1. DeliveryTypeOK /\ InOrder  BY DEF DeliveryInv, Live
<1>2. UNCHANGED <<durable, untold, sink, sending, conn, wire, lost>>
  BY DEF Hydrate, ReadHeads, ReadPage, Snapshot, Page, PageRefused, Hydrated, OnceMore
<1>3. /\ \A c \in [Runs -> Nat], m \in BOOLEAN : Until(c, m) \in [to : [Runs -> Nat], more : BOOLEAN]
      /\ Zero \in [Runs -> Nat] /\ durable \in [Runs -> Nat] /\ view \in [Runs -> Nat]
      /\ answer.to \in [Runs -> Nat] /\ 0 \in 0..MaxPasses
  BY <1>1, DeliveryAssumption DEF Until, Zero, DeliveryTypeOK
<1>4. /\ heads' \in [Runs -> Nat] /\ cursors' \in [Runs -> Nat]
      /\ hydration' \in {"none", "snapshot", "replay", "again"} /\ pass' \in 0..MaxPasses
      /\ reply' \in {"none", "asked", "read", "sent", "here"}
      /\ answer' \in [to : [Runs -> Nat], more : BOOLEAN]
      /\ failure' \in {"none", "short", "overflow", "unstable", "poisoned"}
  <2> USE DEF Ask, Replay, Fail, NoHydration
  <2>1. CASE Hydrate  BY <1>1, <1>3, <2>1 DEF Hydrate, DeliveryTypeOK
  <2>2. CASE ReadHeads  BY <1>1, <1>3, <2>2 DEF ReadHeads, DeliveryTypeOK
  <2>3. CASE ReadPage
    <3>1. PICK c \in [Runs -> 0..MaxEvents] : answer' = Until(c, HasMore(c))  BY <2>3 DEF ReadPage
    <3>2. c \in [Runs -> Nat] /\ HasMore(c) \in BOOLEAN  BY DeliveryAssumption DEF HasMore
    <3>3. answer' \in [to : [Runs -> Nat], more : BOOLEAN]  BY <1>3, <3>1, <3>2
    <3> QED  BY <1>1, <2>3, <3>3 DEF ReadPage, DeliveryTypeOK
  <2>4. CASE Snapshot  BY <1>1, <1>3, <2>4 DEF Snapshot, DeliveryTypeOK
  <2>5. CASE Page  BY <1>1, <1>3, <2>5 DEF Page, DeliveryTypeOK
  <2>6. CASE PageRefused  BY <1>1, <1>3, <2>6 DEF PageRefused, DeliveryTypeOK
  <2>7. CASE Hydrated  BY <1>1, <1>3, <2>7 DEF Hydrated, DeliveryTypeOK
  <2>8. CASE OnceMore
    <3>1. pass + 1 < MaxPasses => pass + 1 \in 0..MaxPasses
      BY <1>1, DeliveryAssumption DEF DeliveryTypeOK
    <3> QED  BY <1>1, <1>3, <2>8, <3>1 DEF OnceMore, DeliveryTypeOK
  <2> QED  BY <2>1, <2>2, <2>3, <2>4, <2>5, <2>6, <2>7, <2>8
<1>5. view' \in [Runs -> Nat] /\ pending' \in [Runs -> SUBSET Nat]
  <2>1. CASE UNCHANGED <<view, pending>>  BY <1>1, <2>1 DEF DeliveryTypeOK
  <2>2. CASE \E S \in SUBSET Runs : hydration = "replay" /\ Accepted(S)
    <3>1. PICK S \in SUBSET Runs : Accepted(S)  BY <2>2
    <3>2. Delivered  BY <2>2 DEF DeliveryInv, Live, Requests
    <3> QED  BY <1>1, <3>1, <3>2, AcceptedShows
  <2> QED  BY <2>1, <2>2 DEF Hydrate, ReadHeads, ReadPage, Snapshot, Page, PageRefused, Hydrated, OnceMore
<1> QED  BY <1>1, <1>2, <1>4, <1>5 DEF DeliveryTypeOK

LEMMA LiveKept ==
  ASSUME DeliveryInv, DeliveryNext, DeliveryTypeOK'
  PROVE  Live'
<1>1. CASE Tell
  <2>1. PICK r \in Runs : Publish(r) \/ Unpublished(r)  BY <1>1 DEF Tell
  <2> QED  BY <2>1, TellLive
<1>2. CASE Deliver  BY <1>2, DeliverLive
<1>3. CASE ReceiveEvent
  <2>1. CASE Down  BY <2>1, DownLive
  <2>2. CASE ~Down  BY <1>3, <2>2, EventLive
  <2> QED  BY <2>1, <2>2
<1>4. CASE ReceiveReply  BY <1>4, ReplyLive
<1>5. CASE \E r \in Runs : CommitEvent(r)  BY <1>5, CommitLive
<1>6. CASE Connect  BY <1>6, ConnectLive
<1>7. CASE Disconnect  BY <1>7, DownLive DEF Disconnect
<1>8. CASE Send  BY <1>8, SendLive
<1>9. CASE Page \/ PageRefused
  <2>1. /\ hydration = "replay" /\ \E S \in SUBSET Runs : Accepted(S)
        /\ UNCHANGED <<durable, untold, sink, wire, conn, lost>>
    BY <1>9 DEF Page, PageRefused, server
  <2>2. PICK S \in SUBSET Runs : Accepted(S)  BY <2>1
  <2> QED  BY <2>1, <2>2, PageLive
<1>10. CASE Written \/ AddToHub \/ Hydrate \/ ReadHeads \/ ReadPage \/ Snapshot \/ Hydrated \/ OnceMore
  <2>1. /\ UNCHANGED <<durable, untold, sink, wire, view, pending, lost>>
        /\ conn' # "down" => conn # "down"
    BY <1>10 DEF Written, AddToHub, Hydrate, ReadHeads, ReadPage, Snapshot, Hydrated, OnceMore,
                 server, client
  <2> QED  BY <2>1, LiveStays DEF DeliveryInv
<1> QED  BY <1>1, <1>2, <1>3, <1>4, <1>5, <1>6, <1>7, <1>8, <1>9, <1>10
         DEF DeliveryNext, Pump, Receive

LEMMA DownRequests ==
  ASSUME Down
  PROVE  Requests'
<1>1. /\ conn' = "down" /\ wire' = <<>> /\ sending' = FALSE /\ reply' = "none" /\ hydration' = "none"
  BY DEF Down, NoHydration
<1> QED  BY <1>1 DEF Requests, Queued

\* No response is on the wire but that of the open request.
LEMMA RequestsKept ==
  ASSUME DeliveryInv, DeliveryNext
  PROVE  Requests'
<1> USE DEF server, client, hydrating
<1>1. /\ Requests /\ wire \in Seq(Frames) /\ sink \in Seq(Events) /\ Follows(wire)
      /\ Reply \in Frames /\ Reply \notin Events
  BY EventsDiffer DEF DeliveryInv, DeliveryTypeOK, Frames, Live, InOrder
<1>2. CASE Tell \/ Written \/ AddToHub \/ \E r \in Runs : CommitEvent(r)
  <2>1. /\ UNCHANGED <<reply, hydration, wire>> /\ (conn' = "down" => conn = "down")
        /\ sending' = sending \/ sending' = FALSE
    BY <1>2 DEF Tell, Publish, Unpublished, Written, AddToHub, CommitEvent
  <2> QED  BY <1>1, <2>1 DEF Requests, Queued
<1>3. CASE Deliver
  <2>1. Head(sink) \in Events /\ Head(sink) \in Frames
    BY <1>1, <1>3, TailQueue DEF Deliver, Frames
  <2>2. UNCHANGED <<reply, hydration, conn>>  BY <1>3 DEF Deliver
  <2>3. CASE conn = "added"
    <3>1. wire' = Append(wire, Head(sink))  BY <1>3, <2>3 DEF Deliver
    <3>2. Queued(wire', Reply) => Queued(wire, Reply)  BY <1>1, <2>1, <3>1, AppendQueue
    <3>3. Queued(wire, Reply)' => reply' = "sent"
      <4>1. Queued(wire, Reply)' <=> Queued(wire', Reply)  BY DEF Queued, Reply
      <4> QED  BY <1>1, <2>2, <3>2, <4>1 DEF Requests
    <3> QED  BY <1>1, <2>2, <2>3, <3>3 DEF Requests
  <2>4. CASE conn # "added"
    <3>1. UNCHANGED <<wire, sending>>  BY <1>3, <2>4 DEF Deliver
    <3> QED  BY <1>1, <2>2, <3>1 DEF Requests, Queued
  <2> QED  BY <2>3, <2>4
<1>4. CASE ReceiveEvent /\ ~Down
  <2>1. /\ UNCHANGED <<reply, hydration, conn, sending>> /\ wire' = Tail(wire) /\ wire # <<>>
    BY <1>4 DEF ReceiveEvent
  <2>2. Queued(wire', Reply) => Queued(wire, Reply)  BY <1>1, <2>1, TailQueue
  <2>3. Queued(wire, Reply)' => reply' = "sent"
    <3>1. Queued(wire, Reply)' <=> Queued(wire', Reply)  BY DEF Queued, Reply
    <3> QED  BY <1>1, <2>1, <2>2, <3>1 DEF Requests
  <2> QED  BY <1>1, <2>1, <2>3 DEF Requests
<1>5. CASE (ReceiveEvent /\ Down) \/ Disconnect  BY <1>5, DownRequests DEF Disconnect
<1>6. CASE ReceiveReply
  <2>1. /\ UNCHANGED <<hydration, conn, sending>> /\ wire' = Tail(wire) /\ wire # <<>>
        /\ Head(wire) = Reply /\ reply' = "here"
    BY <1>6 DEF ReceiveReply
  <2>2. Queued(wire, Reply) /\ ~Queued(wire', Reply)  BY <1>1, <2>1, TailQueue
  <2>3. reply = "sent" /\ hydration # "none"  BY <1>1, <2>2 DEF Requests
  <2>4. ~Queued(wire, Reply)'
    <3>1. Queued(wire, Reply)' <=> Queued(wire', Reply)  BY DEF Queued, Reply
    <3> QED  BY <2>2, <3>1
  <2> QED  BY <1>1, <2>1, <2>3, <2>4 DEF Requests
<1>7. CASE Connect
  <2>1. /\ UNCHANGED <<hydration, wire, sending, reply>> /\ conn' = "ready"  BY <1>7 DEF Connect
  <2> QED  BY <1>1, <2>1 DEF Requests, Queued
<1>8. CASE Send
  <2>1. reply = "read" /\ reply' = "sent" /\ UNCHANGED <<hydration, conn, sending>>  BY <1>8 DEF Send
  <2> QED  BY <1>1, <2>1 DEF Requests
<1>9. CASE Hydrate \/ ReadHeads \/ ReadPage \/ Snapshot \/ Page \/ PageRefused \/ Hydrated \/ OnceMore
  <2>1. /\ reply \in {"none", "asked", "here"} /\ UNCHANGED <<wire, conn, sending>>
        /\ conn # "down" /\ (reply' = "none" <=> hydration' = "none")
    <3>1. reply # "none" => conn # "down"  BY <1>1 DEF Requests
    <3> QED
      BY <1>1, <1>9, <3>1
      DEF Hydrate, ReadHeads, ReadPage, Snapshot, Page, PageRefused, Hydrated, OnceMore,
          Ask, Replay, Fail, NoHydration, Requests
  <2>2. ~Queued(wire, Reply)'  BY <1>1, <2>1 DEF Requests, Queued
  <2> QED  BY <2>1, <2>2 DEF Requests
<1> QED  BY <1>2, <1>3, <1>4, <1>5, <1>6, <1>7, <1>8, <1>9 DEF DeliveryNext, Pump, Receive

\* Heads and cursors are no news: what is read is beyond what was read before.
LEMMA ReplaysKept ==
  ASSUME DeliveryInv, DeliveryNext, DeliveryTypeOK'
  PROVE  Replays' /\ ReplayReachesTheHeads'
<1> USE DEF server, client, hydrating
<1>1. /\ Replays /\ Requests /\ failure # "short"
      /\ durable \in [Runs -> Nat] /\ view \in [Runs -> Nat] /\ answer.to \in [Runs -> Nat]
      /\ heads \in [Runs -> Nat] /\ cursors \in [Runs -> Nat]
      /\ view' \in [Runs -> Nat] /\ durable' \in [Runs -> Nat]
  BY DEF DeliveryInv, DeliveryTypeOK, ReplayReachesTheHeads
<1>2. ASSUME \/ UNCHANGED <<reply, answer, hydration, heads, cursors, failure>>
             \/ ReceiveReply \/ Send,
             \A r \in Runs : durable[r] <= durable'[r] /\ view[r] <= view'[r]
      PROVE  Replays' /\ ReplayReachesTheHeads'
  <2>1. UNCHANGED <<answer, hydration, heads, cursors, failure>> /\ (Answered' => Answered)
    <3>1. CASE UNCHANGED <<reply, answer, hydration, heads, cursors, failure>>  BY <3>1 DEF Answered
    <3>2. CASE Send  BY <3>2 DEF Send, Answered
    <3>3. CASE ReceiveReply
      <4>1. Queued(wire, Reply)
        <5>1. wire \in Seq(Frames) /\ wire # <<>> /\ Head(wire) = Reply
          BY <3>3 DEF ReceiveReply, DeliveryInv, DeliveryTypeOK, Frames
        <5> QED  BY <5>1, TailQueue
      <4>2. Answered  BY <1>1, <4>1 DEF Requests, Answered
      <4> QED  BY <3>3, <4>2 DEF ReceiveReply
    <3> QED  BY <1>2, <3>1, <3>2, <3>3
  <2>2. ASSUME Answered', NEW r \in Runs PROVE answer'.to[r] <= durable'[r]
    BY <1>1, <1>2, <2>1, <2>2 DEF Replays
  <2>3. ASSUME hydration' = "replay", NEW r \in Runs
        PROVE  /\ heads'[r] <= durable'[r] /\ cursors'[r] <= view'[r]
               /\ Answered' => cursors'[r] <= answer'.to[r] /\ (~answer'.more => heads'[r] <= answer'.to[r])
    BY <1>1, <1>2, <2>1, <2>3 DEF Replays
  <2> QED  BY <1>1, <2>1, <2>2, <2>3 DEF Replays, ReplayReachesTheHeads
<1>3. CASE Tell \/ Pump \/ \E r \in Runs : CommitEvent(r)
  <2>1. UNCHANGED <<reply, answer, hydration, heads, cursors, failure, view>>
    BY <1>3 DEF Tell, Publish, Unpublished, Pump, Deliver, Written, AddToHub, CommitEvent
  <2>2. \A r \in Runs : durable[r] <= durable'[r]
    <3>1. CASE \E r \in Runs : CommitEvent(r)  BY <1>1, <3>1 DEF CommitEvent
    <3>2. CASE Tell \/ Pump
      BY <1>1, <3>2 DEF Tell, Publish, Unpublished, Pump, Deliver, Written, AddToHub
    <3> QED  BY <1>3, <3>1, <3>2
  <2> QED  BY <1>1, <1>2, <2>1, <2>2
<1>4. CASE ReceiveEvent /\ ~Down
  <2>1. UNCHANGED <<reply, answer, hydration, heads, cursors, failure, durable>>
    BY <1>4 DEF ReceiveEvent
  <2>2. \A r \in Runs : view[r] <= view'[r]  BY <1>4, EventLive
  <2> QED  BY <1>1, <1>2, <2>1, <2>2
<1>5. CASE (ReceiveEvent /\ Down) \/ Disconnect
  <2>1. reply' = "none" /\ hydration' = "none" /\ failure' # "short"
    BY <1>1, <1>5 DEF ReceiveEvent, Disconnect, Down, NoHydration
  <2> QED  BY <2>1 DEF Replays, Answered, ReplayReachesTheHeads
<1>6. CASE ReceiveReply \/ Send
  <2>1. UNCHANGED <<durable, view>>  BY <1>6 DEF ReceiveReply, Send
  <2> QED  BY <1>1, <1>2, <1>6, <2>1
<1>7. CASE Connect
  <2>1. UNCHANGED <<hydration, reply, failure>> /\ conn = "down"  BY <1>7 DEF Connect
  <2>2. hydration = "none" /\ reply = "none"  BY <1>1, <2>1 DEF Requests
  <2> QED  BY <1>1, <2>1, <2>2 DEF Replays, Answered, ReplayReachesTheHeads
<1>8. CASE Hydrate \/ Hydrated \/ PageRefused
  <2>1. hydration' # "replay" /\ reply' \in {"none", "asked"} /\ failure' # "short"
    BY <1>1, <1>8 DEF Hydrate, Hydrated, PageRefused, Ask, Fail, NoHydration
  <2> QED  BY <2>1 DEF Replays, Answered, ReplayReachesTheHeads
<1>9. CASE ReadHeads
  <2>1. /\ answer'.to = durable /\ hydration' # "replay" /\ UNCHANGED <<durable, failure>>
    BY <1>9 DEF ReadHeads, Until
  <2> QED  BY <1>1, <2>1 DEF Replays, ReplayReachesTheHeads
<1>10. CASE ReadPage
  <2>1. PICK c \in [Runs -> 0..MaxEvents] :
          /\ \A r \in Runs : cursors[r] <= c[r] /\ c[r] <= durable[r]
          /\ answer' = Until(c, HasMore(c))
    BY <1>10 DEF ReadPage
  <2>2. /\ UNCHANGED <<durable, view, heads, cursors, hydration, failure>> /\ hydration = "replay"
        /\ answer'.to = c /\ answer'.more = HasMore(c)
    BY <1>10, <2>1 DEF ReadPage, Until
  <2>3. \A r \in Runs : c[r] \in Nat  BY DeliveryAssumption
  <2>4. \A r \in Runs : ~HasMore(c) => heads[r] <= c[r]
    <3> SUFFICES ASSUME NEW r \in Runs, ~HasMore(c) PROVE heads[r] <= c[r]  OBVIOUS
    <3>1. durable[r] <= c[r]  BY <1>1, <2>3 DEF HasMore
    <3>2. heads[r] <= durable[r]  BY <1>1, <2>2 DEF Replays
    <3> QED  BY <1>1, <2>3, <3>1, <3>2
  <2> QED  BY <1>1, <2>1, <2>2, <2>4 DEF Replays, ReplayReachesTheHeads
<1>11. CASE Snapshot \/ OnceMore
  <2>1. Answered  BY <1>11 DEF Snapshot, OnceMore, Answered
  <2>2. CASE hydration' = "replay"
    <3>1. /\ heads' = answer.to /\ cursors' = view /\ reply' = "asked"
          /\ UNCHANGED <<durable, view, failure>>
      BY <1>11, <2>2 DEF Snapshot, OnceMore, Replay, Ask, Fail, NoHydration
    <3>2. \A r \in Runs : heads'[r] <= durable'[r] /\ cursors'[r] <= view'[r]
      BY <1>1, <2>1, <3>1 DEF Replays
    <3> QED  BY <1>1, <3>1, <3>2 DEF Replays, Answered, ReplayReachesTheHeads
  <2>3. CASE hydration' # "replay"
    <3>1. reply' = "none" /\ failure' # "short"
      BY <1>1, <1>11, <2>3 DEF Snapshot, OnceMore, Replay, Ask, Fail, NoHydration
    <3> QED  BY <2>3, <3>1 DEF Replays, Answered, ReplayReachesTheHeads
  <2> QED  BY <2>2, <2>3
<1>12. CASE Page
  <2>1. /\ hydration = "replay" /\ reply = "here" /\ Accepted(Runs) /\ UNCHANGED <<durable>>
    BY <1>12 DEF Page
  <2>2. \A r \in Runs : answer.to[r] <= view'[r]
    <3>1. DeliveryTypeOK /\ InOrder /\ Delivered
      BY <1>1, <2>1 DEF DeliveryInv, Live, Requests
    <3> QED  BY <2>1, <3>1, AcceptedShows
  <2>3. Answered  BY <2>1 DEF Answered
  <2>4. CASE answer.more
    <3>1. /\ cursors' = answer.to /\ reply' = "asked" /\ UNCHANGED <<heads, failure>>
      BY <1>12, <2>4 DEF Page, Replay, Ask
    <3> QED  BY <1>1, <2>1, <2>2, <3>1 DEF Replays, Answered, ReplayReachesTheHeads
  <2>5. CASE ~answer.more
    <3>1. \A r \in Runs : heads[r] <= answer.to[r] /\ heads[r] <= view'[r]
      <4> SUFFICES ASSUME NEW r \in Runs PROVE heads[r] <= answer.to[r] /\ heads[r] <= view'[r]
        OBVIOUS
      <4>1. heads[r] <= answer.to[r]  BY <1>1, <2>1, <2>3, <2>5 DEF Replays
      <4>2. heads[r] \in Nat /\ answer.to[r] \in Nat /\ view'[r] \in Nat /\ answer.to[r] <= view'[r]
        BY <1>1, <2>2
      <4> QED  BY <4>1, <4>2
    <3>2. hydration' = "again" /\ reply' = "asked" /\ failure' = failure
      BY <1>12, <2>5, <3>1 DEF Page, Ask
    <3> QED  BY <1>1, <3>2 DEF Replays, Answered, ReplayReachesTheHeads
  <2> QED  BY <2>4, <2>5
<1> QED  BY <1>3, <1>4, <1>5, <1>6, <1>7, <1>8, <1>9, <1>10, <1>11, <1>12 DEF DeliveryNext, Receive

LEMMA TypesKept ==
  ASSUME DeliveryInv, DeliveryNext
  PROVE  DeliveryTypeOK'
<1>1. CASE Disconnect
  <2>1. DeliveryTypeOK /\ Down /\ failure' \in {"none", "short", "overflow", "unstable", "poisoned"}
    BY <1>1 DEF Disconnect, DeliveryInv, DeliveryTypeOK
  <2> QED  BY <2>1, DownTypes
<1> QED  BY <1>1, WorkerTypes, EventTypes, HydrationTypes DEF DeliveryNext, Receive

LEMMA DeliveryStarts == DeliveryInit => DeliveryInv
<1> SUFFICES ASSUME DeliveryInit PROVE DeliveryInv  OBVIOUS
<1> USE DEF DeliveryInit
<1>1. DeliveryTypeOK
  <2>1. <<>> \in Seq(Events) /\ <<>> \in Seq(Events \cup {Reply})  OBVIOUS
  <2>2. 0 \in 0..MaxPasses  BY DeliveryAssumption
  <2> QED  BY <2>1, <2>2 DEF DeliveryTypeOK, Zero, Nothing, Until
<1>2. \A x : ~Queued(sink, x) /\ ~Queued(wire, x)  BY DEF Queued
<1>3. InOrder  BY <1>2 DEF InOrder, Follows, NewerBehind, Nothing
<1>4. Live  BY <1>3 DEF Live, HeldForALoss, Nothing
<1>5. Requests /\ Replays /\ ReplayReachesTheHeads
  BY <1>2 DEF Requests, Replays, Answered, ReplayReachesTheHeads
<1> QED  BY <1>1, <1>4, <1>5 DEF DeliveryInv

LEMMA DeliveryKept == DeliveryInv /\ [DeliveryNext]_deliveryVars => DeliveryInv'
<1> SUFFICES ASSUME DeliveryInv, [DeliveryNext]_deliveryVars PROVE DeliveryInv'  OBVIOUS
<1>1. CASE DeliveryNext
  BY <1>1, TypesKept, LiveKept, RequestsKept, ReplaysKept DEF DeliveryInv
<1>2. CASE UNCHANGED deliveryVars
  <2> USE <1>2 DEF deliveryVars, server, client, hydrating
  <2>1. DeliveryTypeOK'  BY DEF DeliveryInv, DeliveryTypeOK
  <2>2. Live'  BY LiveStays DEF DeliveryInv
  <2>3. Requests' /\ Replays' /\ ReplayReachesTheHeads'
    BY DEF DeliveryInv, Requests, Replays, Answered, ReplayReachesTheHeads, Queued
  <2> QED  BY <2>1, <2>2, <2>3 DEF DeliveryInv
<1> QED  BY <1>1, <1>2

-----------------------------------------------------------------------------
\* The order of the live way, what the buffer holds and what a hydration has read agree
\* at every moment, and all variables have their types, for any Runs, limits and number
\* of connections.
THEOREM DeliveryInvariant == DeliverySpec => []DeliveryInv
BY DeliveryStarts, DeliveryKept, PTL DEF DeliverySpec

\* Whatever sink, hub and connection drop: a committed event that is not shown is on its
\* way, held back, or lost and nothing but a hydration will fetch it; and an event is
\* held back only for a lost one before it.
THEOREM EventsAreAccounted == DeliverySpec => []NothingIsOverlooked
<1>1. DeliveryInv => NothingIsOverlooked
  <2> SUFFICES ASSUME DeliveryInv, NEW r \in Runs
               PROVE  /\ conn # "down" => \A n \in (view[r] + 1)..durable[r] :
                           \/ n \in pending[r] \cup Missing(r) \/ (r \in untold /\ n = durable[r])
                           \/ Queued(sink, Event(r, n)) \/ Queued(wire, Event(r, n))
                      /\ \A n \in pending[r] : \E m \in Missing(r) : m < n
    BY DEF NothingIsOverlooked
  <2>1. ASSUME conn # "down", NEW n \in (view[r] + 1)..durable[r]
        PROVE  \/ n \in pending[r] \cup Missing(r) \/ (r \in untold /\ n = durable[r])
               \/ Queued(sink, Event(r, n)) \/ Queued(wire, Event(r, n))
    <3>1. view[r] \in Nat /\ durable[r] \in Nat  BY DEF DeliveryInv, DeliveryTypeOK
    <3>2. n \in Nat /\ view[r] < n /\ n <= durable[r] /\ n \in 1..durable[r]  BY <3>1
    <3>3. ~Overlooked(r, n)  BY <2>1, <3>2 DEF DeliveryInv, Live, Delivered
    <3> QED  BY <3>2, <3>3 DEF Overlooked, OnItsWay, Missing
  <2>2. HeldForALoss(r)  BY DEF DeliveryInv, Live
  <2> QED  BY <2>1, <2>2 DEF HeldForALoss
<1> QED  BY <1>1, DeliveryInvariant, PTL

\* However live events fall between its requests, no hydration ends short of the heads
\* that it read.
THEOREM ReplaysReachTheHeads == DeliverySpec => []ReplayReachesTheHeads
<1>1. DeliveryInv => ReplayReachesTheHeads  BY DEF DeliveryInv
<1> QED  BY <1>1, DeliveryInvariant, PTL
=============================================================================
