--------------------------- MODULE CancellationTree ---------------------------
(***************************************************************************)
(* CancellationScope of runtime/cancellation.py: a root Run has a scope and *)
(* each of its child Runs a child scope (HarnessChildCancellationFactory).  *)
(*                                                                          *)
(* `cancel' marks a scope and takes a snapshot of its children in one step; *)
(* each child is then cancelled by a task of its own, which comes later,    *)
(* and not at all when the caller's task is killed before: gather hands     *)
(* that on.  Meanwhile children come and go.                                *)
(***************************************************************************)
CONSTANTS Scopes, NoScope

VARIABLES
    created, closed,    \* the scopes there are, and those of them that were closed
    parent,             \* parent[s]: the scope above, or None
    children,           \* children[s]: `_children'
    scopesCancelled,    \* the scopes whose event is set
    due,                \* the calls of `cancel' that have not begun
    lost                \* and those that were killed before they began

scopeVars == <<created, closed, parent, children, scopesCancelled, due, lost>>

TreeInit ==
    /\ created = {} /\ closed = {} /\ scopesCancelled = {} /\ due = {} /\ lost = {}
    /\ parent = [s \in Scopes |-> NoScope] /\ children = [s \in Scopes |-> {}]

\* TurnManager.start makes the scope of a root.
CreateRoot(s) ==
    /\ s \in Scopes \ created /\ created' = created \cup {s}
    /\ UNCHANGED <<closed, parent, children, scopesCancelled, due, lost>>

\* mutant: a child waits for the cancellation of its parent, which is over.
Mutant_BornCancelled(p) == FALSE

\* A child of a cancelled scope starts cancelled.
BornCancelled(p) == p \in scopesCancelled

\* `child': no suspension between joining the parent and looking at its event.
CreateChild(s, p) ==
    /\ s \in Scopes \ created /\ p \in created \ closed /\ p # NoScope
    /\ created' = created \cup {s}
    /\ parent' = [parent EXCEPT ![s] = p]
    /\ children' = [children EXCEPT ![p] = @ \cup {s}]
    /\ scopesCancelled' = IF BornCancelled(p) THEN scopesCancelled \cup {s} ELSE scopesCancelled
    /\ UNCHANGED <<closed, due, lost>>

\* Somebody calls `cancel': a client, a deadline, the end of a parent.
Ask(s) ==
    /\ s \in created /\ due' = due \cup {s}
    /\ UNCHANGED <<created, closed, parent, children, scopesCancelled, lost>>

\* The call begins.  It returns at once when the scope is cancelled already.
Cancel(s) ==
    /\ s \in due /\ scopesCancelled' = scopesCancelled \cup {s}
    /\ due' = (due \ {s}) \cup (IF s \in scopesCancelled THEN {} ELSE children[s])
    /\ UNCHANGED <<created, closed, parent, children, lost>>

\* The task that called is killed, and the calls it gathered with it.
KillCall(s) ==
    /\ s \in due /\ due' = due \ {s} /\ lost' = lost \cup {s}
    /\ UNCHANGED <<created, closed, parent, children, scopesCancelled>>

\* A child Run is over; the scope of a root has no parent to leave.
Close(s) ==
    /\ s \in created \ closed /\ parent[s] # NoScope
    /\ closed' = closed \cup {s}
    /\ children' = [children EXCEPT ![parent[s]] = @ \ {s}]
    /\ UNCHANGED <<created, parent, scopesCancelled, due, lost>>

TreeNext ==
    \E s \in Scopes :
        \/ CreateRoot(s) \/ Ask(s) \/ Cancel(s) \/ KillCall(s) \/ Close(s)
        \/ \E p \in Scopes : CreateChild(s, p)

TreeSpec == TreeInit /\ [][TreeNext]_scopeVars

-----------------------------------------------------------------------------
TreeTypeOK ==
    /\ created \subseteq Scopes /\ closed \subseteq created
    /\ scopesCancelled \subseteq created /\ due \subseteq created /\ lost \subseteq created
    /\ parent \in [Scopes -> Scopes \cup {NoScope}]
    /\ children \in [Scopes -> SUBSET created]

\* Who is open is known to the scope above.
Linked ==
    \A s \in Scopes : parent[s] # NoScope =>
        s \in created /\ parent[s] \in created /\ (s \notin closed => s \in children[parent[s]])

\* No open child escapes the cancellation of its parent, although it may be made
\* while that goes on: it is cancelled, or will be, or the one who cancelled was
\* killed in the middle.
NoEscape ==
    \A s \in created \ closed :
        parent[s] # NoScope /\ parent[s] \in scopesCancelled =>
            s \in scopesCancelled \cup due \cup lost
===============================================================================
