------------------------- MODULE KnowledgePublication -------------------------
(***************************************************************************)
(* KnowledgePublisher of knowledge/publisher.py, entered by way of          *)
(* KnowledgeCompiler.publish (knowledge/compiler.py): a new revision of the *)
(* Wiki is built beside the old one in a transaction directory, the two     *)
(* directories are swapped under a journal, and the catalog file names the  *)
(* revision that counts.  What a swap leaves behind when it is interrupted  *)
(* is put right by `recover', and only publish calls that.                  *)
(*                                                                          *)
(* Calls come one at a time, under the exclusive effect gate (EffectGate).  *)
(* Contents are abstracted to the revision a directory holds and to whether *)
(* it is what its manifest says (_verify_snapshot).  Files are replaced in  *)
(* one step; a directory is removed, and built, in two.                     *)
(***************************************************************************)
EXTENDS Naturals

CONSTANTS
    Plans,          \* what may be published on top of one revision
    MaxRevision,    \* bound: the last revision
    MaxCrashes,     \* bound: deaths of the Worker
    MaxFaults,      \* bound: file operations that fail
    MaxEdits,       \* bound: changes that the user makes to knowledge/
    None

\* An ingestion is bound to the revision it was prepared on, and by its content:
\* to prepare the same sources again gives the same identity.
Ingestions == Nat \X Plans
Base(i) == i[1]
Target(i) == i[1] + 1

Directory == [rev : Nat, whole : BOOLEAN]
Whole(r) == [rev |-> r, whole |-> TRUE]
Torn(r) == [rev |-> r, whole |-> FALSE]

\* The journal of a publication.
Publications ==
    [id : Ingestions, had : BOOLEAN, stage : {"prepared", "old_moved", "new_moved", "committed"}]

ASSUME KnowledgeAssumption ==
    /\ MaxRevision \in Nat /\ MaxCrashes \in Nat /\ MaxFaults \in Nat /\ MaxEdits \in Nat
    /\ None \notin Directory /\ None \notin Publications /\ None \notin Ingestions

VARIABLES
    wiki,       \* the directory knowledge/, or None
    roots,      \* the transaction directories there are, by ingestion
    staged,     \* `wiki' in the transaction directory of the call or the journal
    backup,     \* and `backup'
    journal,    \* active-publication.json, or None
    catalog,    \* the revision of the catalog
    pc,         \* where the call is
    call,       \* the ingestion it publishes
    then,       \* what it does once it has recovered
    refused,    \* a call was refused because of what it found
    crashes, faults, edits

files == <<wiki, roots, staged, backup, journal, catalog>>
counters == <<crashes, faults, edits>>
vars == <<files, pc, call, then, refused, counters>>

\* _verify_snapshot
Intact(d, r) == d = Whole(r)

\* current_page_indexes, existing_wiki_ids, and publish once it has recovered.
Readable == IF wiki = None THEN catalog = 0 ELSE Intact(wiki, catalog)

Init ==
    /\ wiki = None /\ roots = {} /\ staged = None /\ backup = None /\ journal = None
    /\ catalog = 0 /\ pc = "idle" /\ call = None /\ then = "publish" /\ refused = FALSE
    /\ crashes = 0 /\ faults = 0 /\ edits = 0

-----------------------------------------------------------------------------
(* How a call ends, or goes on.                                             *)

Goto(l) == pc' = l /\ UNCHANGED <<call, then, refused, counters>>
Return == pc' = "idle" /\ call' = None /\ UNCHANGED <<then, refused, counters>>
Refuse == pc' = "idle" /\ call' = None /\ refused' = TRUE /\ UNCHANGED <<files, then, counters>>

\* After `recover': publish goes on, or fails as it would have.
Resume == IF then = "publish" THEN Goto("check") ELSE Return

-----------------------------------------------------------------------------
(* KnowledgeCompiler.publish: the Wiki is read before the publisher is asked. *)

Compile(i) ==
    /\ pc = "idle" /\ Base(i) = catalog /\ catalog < MaxRevision /\ Readable
    /\ pc' = "recover" /\ call' = i /\ then' = "publish"
    /\ UNCHANGED <<files, refused, counters>>

CompileRefused ==
    /\ pc = "idle" /\ catalog < MaxRevision /\ ~Readable
    /\ Refuse

-----------------------------------------------------------------------------
(* recover                                                                  *)

RecoverNothing ==
    /\ pc = "recover" /\ journal = None
    /\ Resume /\ UNCHANGED files

\* The catalog decides.
Decided == catalog = Target(journal.id)
Undecided == catalog = Base(journal.id) /\ journal.stage # "committed"

RecoverForward ==
    /\ pc = "recover" /\ journal # None /\ Decided /\ Intact(wiki, catalog)
    /\ Goto("sweep") /\ UNCHANGED files

RecoverBack ==
    /\ pc = "recover" /\ journal # None /\ ~Decided /\ Undecided
    /\ Goto("swap") /\ UNCHANGED files

RecoverRefused ==
    /\ pc = "recover" /\ journal # None
    /\ IF Decided THEN ~Intact(wiki, catalog) ELSE ~Undecided
    /\ Refuse

(* _rollback_uncommitted_swap                                               *)

\* The new Wiki is in the place of the old one, or of none.
NewInPlace == wiki # None /\ (journal.had => backup # None)
OldInPlace == IF journal.had THEN Intact(wiki, catalog) ELSE wiki = None

SwapRemove ==
    /\ pc = "swap" /\ (journal.had \/ backup = None) /\ NewInPlace
    /\ Intact(wiki, Target(journal.id))
    /\ wiki' = Torn(wiki.rev)
    /\ Goto("removing") /\ UNCHANGED <<roots, staged, backup, journal, catalog>>

Removed ==
    /\ pc = "removing" /\ wiki' = None
    /\ Goto("swap") /\ UNCHANGED <<roots, staged, backup, journal, catalog>>

SwapRestore ==
    /\ pc = "swap" /\ journal.had /\ wiki = None /\ Intact(backup, catalog)
    /\ wiki' = backup /\ backup' = None
    /\ Goto("sweep") /\ UNCHANGED <<roots, staged, journal, catalog>>

SwapNothing ==
    /\ pc = "swap" /\ backup = None /\ OldInPlace
    /\ Goto("sweep") /\ UNCHANGED files

SwapRefused ==
    /\ pc = "swap"
    /\ ~(backup = None /\ OldInPlace)
    /\ IF NewInPlace
       THEN ~Intact(wiki, Target(journal.id)) \/ ~(journal.had \/ backup = None)
       ELSE ~(journal.had /\ wiki = None /\ Intact(backup, catalog))
    /\ Refuse

(* _finish_transaction                                                      *)

Partly(d) == IF d = None THEN {None} ELSE {None, Torn(d.rev)}

Sweep ==
    /\ pc = "sweep" /\ journal.id \in roots
    /\ staged' \in Partly(staged) /\ backup' \in Partly(backup)
    /\ Goto("sweeping") /\ UNCHANGED <<wiki, roots, journal, catalog>>

Swept ==
    /\ pc = "sweeping" \/ (pc = "sweep" /\ journal.id \notin roots)
    /\ roots' = roots \ {journal.id} /\ staged' = None /\ backup' = None
    /\ Goto("unlink") /\ UNCHANGED <<wiki, journal, catalog>>

Unlink ==
    /\ pc = "unlink" /\ journal' = None
    /\ Resume /\ UNCHANGED <<wiki, roots, staged, backup, catalog>>

-----------------------------------------------------------------------------
(* publish                                                                  *)

Check ==
    /\ pc = "check" /\ catalog = Base(call) /\ Readable /\ call \notin roots
    /\ roots' = roots \cup {call} /\ staged' = Torn(Target(call)) /\ backup' = None
    /\ Goto("stage") /\ UNCHANGED <<wiki, journal, catalog>>

CheckRefused ==
    /\ pc = "check" /\ (catalog # Base(call) \/ ~Readable \/ call \in roots)
    /\ Refuse

Stage ==
    /\ pc = "stage" /\ staged' = Whole(Target(call))
    /\ Goto("prepare") /\ UNCHANGED <<wiki, roots, backup, journal, catalog>>

Note(from, to, stage) ==
    /\ pc = from /\ journal' = [journal EXCEPT !.stage = stage]
    /\ Goto(to) /\ UNCHANGED <<wiki, roots, staged, backup, catalog>>

\* Seeded: the journal does not say that there was a Wiki.
Mutant_Prepare ==
    /\ pc = "prepare" /\ journal' = [id |-> call, had |-> FALSE, stage |-> "prepared"]
    /\ Goto("moveOld") /\ UNCHANGED <<wiki, roots, staged, backup, catalog>>

Prepare ==
    /\ pc = "prepare" /\ journal' = [id |-> call, had |-> wiki # None, stage |-> "prepared"]
    /\ Goto("moveOld") /\ UNCHANGED <<wiki, roots, staged, backup, catalog>>

MoveOld ==
    /\ pc = "moveOld"
    /\ IF wiki = None THEN UNCHANGED <<wiki, backup>> ELSE backup' = wiki /\ wiki' = None
    /\ Goto("noteOld") /\ UNCHANGED <<roots, staged, journal, catalog>>

NoteOld == Note("noteOld", "moveNew", "old_moved")

MoveNew ==
    /\ pc = "moveNew" /\ wiki = None /\ wiki' = staged /\ staged' = None
    /\ Goto("noteNew") /\ UNCHANGED <<roots, backup, journal, catalog>>

NoteNew == Note("noteNew", "commit", "new_moved")

Commit ==
    /\ pc = "commit" /\ catalog' = Target(call)
    /\ Goto("noteCommitted") /\ UNCHANGED <<wiki, roots, staged, backup, journal>>

NoteCommitted == Note("noteCommitted", "verify", "committed")

Verify ==
    /\ pc = "verify" /\ Intact(wiki, catalog)
    /\ pc' = "sweep" /\ then' = "succeed"
    /\ UNCHANGED <<files, call, refused, counters>>

\* Seeded: what was staged before there was a journal is left.
Mutant_Except ==
    /\ pc = "except"
    /\ pc' = "recover" /\ then' = "fail"
    /\ UNCHANGED <<files, call, refused, counters>>

\* `except BaseException': clear away what no journal knows of, and recover.
Except ==
    /\ pc = "except"
    /\ IF journal = None
       THEN roots' = roots \ {call} /\ staged' = None
       ELSE UNCHANGED <<roots, staged>>
    /\ pc' = "recover" /\ then' = "fail"
    /\ UNCHANGED <<wiki, backup, journal, catalog, call, refused, counters>>

\* What stands in the way of the move or of the last look.
Raise ==
    /\ (pc = "moveNew" /\ wiki # None) \/ (pc = "verify" /\ ~Intact(wiki, catalog))
    /\ Goto("except") /\ UNCHANGED files

-----------------------------------------------------------------------------
(* What goes wrong.                                                         *)

Trying == {"stage", "prepare", "moveOld", "noteOld", "moveNew", "noteNew", "commit",
           "noteCommitted", "verify"}

\* The body of `try', its own _finish_transaction included.
InTry == pc \in Trying \/ (pc \in {"sweep", "sweeping", "unlink"} /\ then = "succeed")

Fault ==
    /\ pc # "idle" /\ faults < MaxFaults /\ faults' = faults + 1
    /\ IF InTry
       THEN pc' = "except" /\ UNCHANGED call
       ELSE pc' = "idle" /\ call' = None
    /\ UNCHANGED <<files, then, refused, crashes, edits>>

Crash ==
    /\ pc # "idle" /\ crashes < MaxCrashes /\ crashes' = crashes + 1
    /\ pc' = "idle" /\ call' = None
    /\ UNCHANGED <<files, then, refused, faults, edits>>

\* knowledge/ lies in the Vault: the user may edit it, delete it or make it.
UserEdit ==
    /\ edits < MaxEdits /\ edits' = edits + 1
    /\ wiki' \in {None, Torn(catalog)} \ {wiki}
    /\ UNCHANGED <<roots, staged, backup, journal, catalog, pc, call, then, refused, crashes, faults>>

Next ==
    \/ \E p \in Plans : Compile(<<catalog, p>>)
    \/ CompileRefused
    \/ RecoverNothing \/ RecoverForward \/ RecoverBack \/ RecoverRefused
    \/ SwapRemove \/ Removed \/ SwapRestore \/ SwapNothing \/ SwapRefused
    \/ Sweep \/ Swept \/ Unlink
    \/ Check \/ CheckRefused \/ Stage \/ Prepare
    \/ MoveOld \/ NoteOld \/ MoveNew \/ NoteNew \/ Commit \/ NoteCommitted \/ Verify
    \/ Except \/ Raise
    \/ Fault \/ Crash \/ UserEdit

Spec == Init /\ [][Next]_vars

-----------------------------------------------------------------------------
Steps == Trying \cup {"idle", "recover", "swap", "removing", "sweep", "sweeping", "unlink",
                      "check", "except"}

TypeOK ==
    /\ wiki \in Directory \cup {None} /\ staged \in Directory \cup {None}
    /\ backup \in Directory \cup {None} /\ roots \subseteq Ingestions
    /\ journal \in Publications \cup {None}
    /\ catalog \in Nat /\ pc \in Steps /\ call \in Ingestions \cup {None}
    /\ then \in {"publish", "succeed", "fail"} /\ refused \in BOOLEAN
    /\ crashes \in Nat /\ faults \in Nat /\ edits \in Nat

\* As long as the user leaves knowledge/ alone, the revision that the catalog names is
\* whole in its place, or a journaled publication knows where it is: as its backup.  With
\* nothing journaled it is in its place.  Whatever fails and whenever the Worker dies,
\* no published Wiki is lost.
PublishedIsKept ==
    edits = 0 =>
        \/ Readable
        \/ /\ journal # None /\ journal.had = (catalog > 0)
           /\ journal.had => /\ Base(journal.id) = catalog /\ journal.id \in roots
                             /\ Intact(backup, catalog)

\* One file operation that fails is put right by the call it fails in: only the user,
\* a death of the Worker, or a second failure while the first is put right, make a
\* later call refuse what it finds.
OneFailureIsMended == refused => edits > 0 \/ crashes > 0 \/ faults > 1
=============================================================================
