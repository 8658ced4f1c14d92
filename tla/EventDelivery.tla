---------------------------- MODULE EventDelivery ----------------------------
(***************************************************************************)
(* How the durable events of Runs reach the view of the client.  Each event *)
(* is committed (the event store is the authority), and then told live:     *)
(* BufferedEventSink, a bounded queue that drops what it cannot hold,       *)
(* _EventHub, one event at a time over the one connection of the Worker,    *)
(* and the client's EventReducer, which shows the events of a Run in order  *)
(* and holds back those that come too early.  What the live way loses is    *)
(* fetched when the client hydrates a session: session/get, events/replay   *)
(* page by page, and session/get again until the heads stand still.         *)
(*                                                                          *)
(* All Runs are of one session.  An event is its number in its Run.         *)
(***************************************************************************)
EXTENDS Naturals, Sequences, FiniteSets, FiniteSetsExt, Functions

CONSTANTS
    Runs,
    MaxEvents,      \* bound: events of all Runs
    Capacity,       \* of BufferedEventSink
    MaxPending,     \* maxPendingPerStream of EventReducer
    PageLimit,      \* events of a page of events/replay
    MaxPasses,      \* MAX_SESSION_HYDRATION_STABILIZATION_PASSES
    MaxConnections  \* bound: Workers, each with one connection

\* A response is of no Run.
ASSUME DeliveryAssumption == "reply" \notin Runs /\ MaxEvents \in Nat /\ MaxPasses \in Nat

VARIABLES
    durable,        \* Run -> number of committed events
    untold,         \* Runs whose last event is committed and not yet published
    sink,           \* queue of the sink
    sending,        \* the hub waits for the write of an event
    conn,           \* "down", "ready", or "added" to the hub
    wire,           \* frames on their way to the client
    view,           \* Run -> lastSequence of its stream
    pending,        \* Run -> events held back
    lost,           \* events that this connection will never carry live
    hydration,      \* "none" or what the hydration waits for
    heads,          \* Run heads of its last snapshot
    cursors,        \* replay cursors
    pass,
    reply,          \* its request: "none", "asked", "read", "sent", "here"
    answer,         \* heads or cursors that the server read, and hasMore
    failure,        \* why the last hydration failed
    connections

server == <<untold, sink, sending>>
client == <<view, pending>>
hydrating == <<hydration, heads, cursors, pass, reply, answer, failure>>
deliveryVars == <<durable, server, conn, wire, client, lost, hydrating, connections>>

Zero == [r \in Runs |-> 0]
Nothing == [r \in Runs |-> {}]
Until(c, more) == [to |-> c, more |-> more]
Event(r, n) == [run |-> r, seq |-> n]
Committed(r) == {Event(r, n) : n \in 1..durable[r]}
Reply == [run |-> "reply", seq |-> 0]

DeliveryInit ==
    /\ durable = Zero /\ untold = {} /\ sink = <<>> /\ sending = FALSE
    /\ conn = "down" /\ wire = <<>> /\ view = Zero /\ pending = Nothing /\ lost = {}
    /\ hydration = "none" /\ heads = Zero /\ cursors = Zero /\ pass = 0
    /\ reply = "none" /\ answer = Until(Zero, FALSE) /\ failure = "none" /\ connections = 0

Queued(q, e) == \E i \in 1..Len(q) : q[i] = e

\* How many events there are beyond the cursors c.
Rest(c) == FoldFunction(+, 0, [r \in Runs |-> durable[r] - c[r]])

-----------------------------------------------------------------------------
(* The Worker                                                               *)

\* A Run commits its next event; it publishes it before it commits another.
CommitEvent(r) ==
    /\ r \notin untold /\ Rest(Zero) < MaxEvents
    /\ durable' = [durable EXCEPT ![r] = @ + 1] /\ untold' = untold \cup {r}
    /\ UNCHANGED <<sink, sending, conn, wire, client, lost, hydrating, connections>>

\* A full queue drops the batch.
Publish(r) ==
    /\ r \in untold /\ untold' = untold \ {r}
    /\ IF Len(sink) < Capacity
       THEN sink' = Append(sink, Event(r, durable[r])) /\ UNCHANGED lost
       ELSE lost' = lost \cup {Event(r, durable[r])} /\ UNCHANGED sink
    /\ UNCHANGED <<durable, sending, conn, wire, client, hydrating, connections>>

\* A Run that was cancelled in the commit does not publish.
Unpublished(r) ==
    /\ r \in untold /\ untold' = untold \ {r}
    /\ lost' = lost \cup {Event(r, durable[r])}
    /\ UNCHANGED <<durable, sink, sending, conn, wire, client, hydrating, connections>>

\* The sink hands a batch to the hub, which awaits the write of each event: to nobody
\* as long as the connection is not among its own.
Deliver ==
    /\ sink # <<>> /\ ~sending /\ sink' = Tail(sink)
    /\ IF conn = "added"
       THEN wire' = Append(wire, Head(sink)) /\ sending' = TRUE /\ UNCHANGED lost
       ELSE lost' = lost \cup {Head(sink)} /\ UNCHANGED <<wire, sending>>
    /\ UNCHANGED <<durable, untold, conn, client, hydrating, connections>>

\* Seeded: the hub goes on only when no request is being answered.
Mutant_Written ==
    /\ sending /\ reply = "sent" /\ sending' = FALSE
    /\ UNCHANGED <<durable, untold, sink, conn, wire, client, lost, hydrating, connections>>

Written ==
    /\ sending /\ sending' = FALSE
    /\ UNCHANGED <<durable, untold, sink, conn, wire, client, lost, hydrating, connections>>

-----------------------------------------------------------------------------
(* The connection                                                           *)

\* A Worker starts and initialize succeeds: an empty view, for which everything that
\* is already committed was told too early.
Connect ==
    /\ conn = "down" /\ connections < MaxConnections /\ connections' = connections + 1
    /\ conn' = "ready" /\ view' = Zero /\ pending' = Nothing
    /\ lost' = {e \in UNION {Committed(r) : r \in Runs} :
                  /\ ~(e.run \in untold /\ e.seq = durable[e.run])
                  /\ ~Queued(sink, e)}
    /\ UNCHANGED <<durable, server, wire, hydrating>>

\* By then the connection may have answered requests.
AddToHub ==
    /\ conn = "ready" /\ conn' = "added"
    /\ UNCHANGED <<durable, server, wire, client, lost, hydrating, connections>>

NoHydration ==
    /\ hydration' = "none" /\ heads' = Zero /\ cursors' = Zero /\ pass' = 0
    /\ reply' = "none" /\ answer' = Until(Zero, FALSE)

\* The Worker goes with its connection: it died, the client closed it, a write took
\* too long, or the client found the stream invalid.
Down ==
    /\ conn' = "down" /\ untold' = {} /\ sink' = <<>> /\ sending' = FALSE /\ wire' = <<>>
    /\ NoHydration
    /\ UNCHANGED <<durable, client, lost, connections>>

Disconnect == conn # "down" /\ Down /\ UNCHANGED failure

-----------------------------------------------------------------------------
(* EventReducer                                                             *)

\* The last event shown when those up to v, and those of held, are there.
Drained(v, held) == Max({v} \cup {n \in held : (v + 1)..n \subseteq held})

Full(r) == Cardinality(pending[r]) >= MaxPending

\* accept: the buffer is looked at before it is known whether the event fits.
Refuses(r, n) == n > view[r] /\ n \notin pending[r] /\ Full(r)

Show(r, v, held) ==
    /\ view' = [view EXCEPT ![r] = Drained(v, held)]
    /\ pending' = [pending EXCEPT ![r] = {n \in held : n > Drained(v, held)}]

ReceiveEvent ==
    /\ wire # <<>> /\ Head(wire) # Reply
    /\ LET r == Head(wire).run
           n == Head(wire).seq IN
       IF Refuses(r, n) THEN Down /\ failure' = "poisoned"
       ELSE /\ IF n > view[r] THEN Show(r, view[r], pending[r] \cup {n}) ELSE UNCHANGED client
            /\ wire' = Tail(wire)
            /\ UNCHANGED <<durable, server, conn, lost, hydrating, connections>>

-----------------------------------------------------------------------------
(* ChatStore.hydrateSessionOnce, and what the server answers                *)

Ask(what) == hydration' = what /\ reply' = "asked" /\ answer' = Until(Zero, FALSE)

Hydrate ==
    /\ conn # "down" /\ hydration = "none"
    /\ Ask("snapshot") /\ pass' = 0 /\ failure' = "none"
    /\ UNCHANGED <<durable, server, conn, wire, client, lost, heads, cursors, connections>>

\* session/get: the heads of all Runs in one unit of work.
ReadHeads ==
    /\ reply = "asked" /\ hydration \in {"snapshot", "again"}
    /\ answer' = Until(durable, FALSE) /\ reply' = "read"
    /\ UNCHANGED <<durable, server, conn, wire, client, lost, hydration, heads, cursors, pass,
                   failure, connections>>

\* Seeded: the last event of a Run beyond the page is forgotten.
Mutant_HasMore(c) == \E r \in Runs : c[r] + 1 < durable[r]
HasMore(c) == \E r \in Runs : c[r] < durable[r]

\* events/replay: a page of what lies beyond the cursors; in which order the Runs take
\* turns is left open.
ReadPage ==
    /\ reply = "asked" /\ hydration = "replay"
    /\ \E c \in [Runs -> 0..MaxEvents] :
         /\ \A r \in Runs : cursors[r] <= c[r] /\ c[r] <= durable[r]
         /\ Rest(cursors) - Rest(c) = Min({PageLimit, Rest(cursors)})
         /\ answer' = Until(c, HasMore(c))
    /\ reply' = "read"
    /\ UNCHANGED <<durable, server, conn, wire, client, lost, hydration, heads, cursors, pass,
                   failure, connections>>

Send ==
    /\ reply = "read" /\ reply' = "sent" /\ wire' = Append(wire, Reply)
    /\ UNCHANGED <<durable, server, conn, client, lost, hydration, heads, cursors, pass, answer,
                   failure, connections>>

\* The response resolves a promise; what awaits it runs later.
ReceiveReply ==
    /\ wire # <<>> /\ Head(wire) = Reply /\ wire' = Tail(wire) /\ reply' = "here"
    /\ UNCHANGED <<durable, server, conn, client, lost, hydration, heads, cursors, pass, answer,
                   failure, connections>>

Fail(why) == NoHydration /\ failure' = why

Replay(from) == Ask("replay") /\ cursors' = from /\ UNCHANGED failure

Snapshot ==
    /\ hydration = "snapshot" /\ reply = "here"
    /\ heads' = answer.to /\ Replay(view) /\ UNCHANGED pass
    /\ UNCHANGED <<durable, server, conn, wire, client, lost, connections>>

\* The events of the page up to answer.to[r] are accepted in turn.
Overflows(r) == answer.to[r] > view[r] /\ Full(r)

\* Seeded: what a page leaves in the reorder buffer is forgotten.
Mutant_Accepted(S) ==
    /\ view' = [r \in Runs |-> IF r \in S THEN Drained(Max({view[r], answer.to[r]}), pending[r])
                                        ELSE view[r]]
    /\ pending' = Nothing

Accepted(S) ==
    LET v(r) == IF r \in S THEN Drained(Max({view[r], answer.to[r]}), pending[r]) ELSE view[r] IN
    /\ view' = [r \in Runs |-> v(r)]
    /\ pending' = [r \in Runs |-> {n \in pending[r] : n > v(r)}]

Page ==
    /\ hydration = "replay" /\ reply = "here" /\ \A r \in Runs : ~Overflows(r)
    /\ Accepted(Runs)
    /\ IF answer.more
       THEN Replay(answer.to) /\ UNCHANGED <<heads, pass>>
       ELSE IF \A r \in Runs : heads[r] <= answer.to[r] /\ heads[r] <= view'[r]
       THEN Ask("again") /\ UNCHANGED <<heads, cursors, pass, failure>>
       ELSE Fail("short")
    /\ UNCHANGED <<durable, server, conn, wire, lost, connections>>

PageRefused ==
    /\ hydration = "replay" /\ reply = "here"
    /\ LET over == {r \in Runs : Overflows(r)} IN
         over # {} /\ \E S \in SUBSET (Runs \ over) : Accepted(S)
    /\ Fail("overflow")
    /\ UNCHANGED <<durable, server, conn, wire, lost, connections>>

Hydrated ==
    /\ hydration = "again" /\ reply = "here" /\ answer.to = heads
    /\ NoHydration /\ UNCHANGED failure
    /\ UNCHANGED <<durable, server, conn, wire, client, lost, connections>>

OnceMore ==
    /\ hydration = "again" /\ reply = "here" /\ answer.to # heads
    /\ IF pass + 1 < MaxPasses
       THEN pass' = pass + 1 /\ heads' = answer.to /\ Replay(view)
       ELSE Fail("unstable")
    /\ UNCHANGED <<durable, server, conn, wire, client, lost, connections>>

-----------------------------------------------------------------------------
Tell == \E r \in Runs : Publish(r) \/ Unpublished(r)
Pump == Deliver \/ Written \/ AddToHub
Receive == ReceiveEvent \/ ReceiveReply

DeliveryNext ==
    \/ Tell \/ Pump \/ Receive
    \/ \E r \in Runs : CommitEvent(r)
    \/ Connect \/ Disconnect
    \/ Hydrate \/ ReadHeads \/ ReadPage \/ Send
    \/ Snapshot \/ Page \/ PageRefused \/ Hydrated \/ OnceMore

DeliverySpec == DeliveryInit /\ [][DeliveryNext]_deliveryVars /\ WF_deliveryVars(Tell) /\ WF_deliveryVars(Pump) /\ WF_deliveryVars(Receive)

-----------------------------------------------------------------------------
Events == [run : Runs, seq : Nat]

DeliveryTypeOK ==
    /\ durable \in [Runs -> Nat] /\ untold \subseteq Runs
    /\ sink \in Seq(Events) /\ wire \in Seq(Events \cup {Reply}) /\ lost \subseteq Events
    /\ conn \in {"down", "ready", "added"} /\ sending \in BOOLEAN
    /\ view \in [Runs -> Nat] /\ pending \in [Runs -> SUBSET Nat]
    /\ heads \in [Runs -> Nat] /\ cursors \in [Runs -> Nat]
    /\ hydration \in {"none", "snapshot", "replay", "again"} /\ pass \in 0..MaxPasses
    /\ reply \in {"none", "asked", "read", "sent", "here"}
    /\ answer \in [to : [Runs -> Nat], more : BOOLEAN]
    /\ failure \in {"none", "short", "overflow", "unstable", "poisoned"}

\* Lost to this connection, and not yet fetched.
Missing(r) == {n \in 1..durable[r] : Event(r, n) \in lost /\ n > view[r]}

\* What is committed and not shown is on its way, held back by the client, or known to
\* be lost: delivery overlooks nothing.  And the client holds an event back, and so can
\* run out of room and give the connection up, only for an earlier event of the Run
\* that the live way has lost.
NothingIsOverlooked ==
    \A r \in Runs :
        /\ conn # "down" => \A n \in (view[r] + 1)..durable[r] :
             \/ n \in pending[r] \cup Missing(r) \/ (r \in untold /\ n = durable[r])
             \/ Queued(sink, Event(r, n)) \/ Queued(wire, Event(r, n))
        /\ \A n \in pending[r] : \E m \in Missing(r) : m < n

\* However live events fall between the requests, a replay ends at or beyond the heads
\* that were read before it.
ReplayReachesTheHeads == failure # "short"

\* Time and again the view catches up with what is committed, unless the connection is
\* down or an event of the Run is lost to it.
CaughtUp(r) == conn = "down" \/ view[r] = durable[r] \/ Missing(r) # {}
ViewCatchesUp == \A r \in Runs : []<>CaughtUp(r)
=============================================================================
