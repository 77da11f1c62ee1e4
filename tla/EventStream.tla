---------------------------- MODULE EventStream -----------------------------
(***************************************************************************)
(* internal/api/events.go: the global event stream GET /v1/events.  A      *)
(* publisher appends to a ring buffer under a mutex, and then, outside it, *)
(* offers the event to the channel of each subscriber it saw.  A client    *)
(* that reconnects sends the id of the last event it received and is given *)
(* a replay, a resync signal, or nothing.                                  *)
(*                                                                         *)
(* An event is the run of the daemon (boot) that issued it and its Seq.    *)
(* What a client knows is history: the events it was sent, and, after a    *)
(* resync or a first connection, all that had happened by then, because it *)
(* re-fetches the show over REST.                                          *)
(***************************************************************************)
EXTENDS Naturals, Sequences, FiniteSets

CONSTANTS
    Clients,
    Publishers,     \* goroutines that publish (mutations, script lifecycle)
    Capacity,       \* EventRingBufferCapacity: of the buffer, and of a channel
    MaxPublished,   \* bound: events in one behaviour
    MaxBoots,       \* bound: runs of the daemon
    MaxDrops        \* bound: disconnections

ASSUME StreamAssumption ==
    /\ Capacity \in Nat \ {0}
    /\ MaxPublished \in Nat
    /\ MaxBoots \in Nat \ {0}
    /\ MaxDrops \in Nat

Events == [boot : 1 .. MaxBoots, seq : 1 .. MaxPublished]

VARIABLES
    boot,       \* this run of the daemon
    nextSeq,    \* eventBroadcaster.nextSeq
    buffer,     \* eventBroadcaster.buffer
    open,       \* clients whose channel is in eventBroadcaster.subscribers
    channel,    \* each client's channel
    outbox,     \* what handleEventStream has still to replay to each client
    pub,        \* each publisher: the event in its hands, whom to offer it
    lastId,     \* each client: the id it would reconnect with (0: none)
    valid,      \* each client: its API key is neither revoked nor expired
    drops,      \* disconnections still to come (bound)
    history,    \* all events published
    known,      \* history: the events each client knows of
    behind      \* history: clients whose full channel lost an event, or whose
                \* id is of an earlier run

streamVars == <<boot, nextSeq, buffer>>
connVars == <<open, channel, outbox>>
eventVars == <<boot, nextSeq, buffer, open, channel, outbox, pub, lastId, valid,
              drops, history, known, behind>>

NoEvent == [boot |-> 0, seq |-> 0]
Quiet == [event |-> NoEvent, to |-> {}]

StreamInit ==
    /\ boot = 1
    /\ nextSeq = 0
    /\ buffer = <<>>
    /\ open = {}
    /\ channel = [c \in Clients |-> <<>>]
    /\ outbox = [c \in Clients |-> <<>>]
    /\ pub = [p \in Publishers |-> Quiet]
    /\ lastId = [c \in Clients |-> 0]
    /\ valid = [c \in Clients |-> TRUE]
    /\ drops = MaxDrops
    /\ history = {}
    /\ known = [c \in Clients |-> {}]
    /\ behind = {}

-----------------------------------------------------------------------------
(* publish *)

FaultKeepOldest(s, n) == IF Len(s) > n THEN SubSeq(s, 1, n) ELSE s

\* the newest n elements of s
Newest(s, n) == IF Len(s) > n THEN SubSeq(s, Len(s) - n + 1, Len(s)) ELSE s

\* its critical section: assign Seq, append, trim, snapshot the subscribers
AppendEvent(p) ==
    LET ev == [boot |-> boot, seq |-> nextSeq + 1] IN
    /\ pub[p] = Quiet
    /\ nextSeq < MaxPublished
    /\ nextSeq' = nextSeq + 1
    /\ buffer' = Newest(Append(buffer, ev), Capacity)
    /\ pub' = [pub EXCEPT ![p] = [event |-> ev, to |-> open]]
    /\ history' = history \cup {ev}
    /\ UNCHANGED <<boot, lastId, valid, drops, known, behind>>
    /\ UNCHANGED connVars

\* its fan-out: one non-blocking send to a channel of the snapshot
Offer(p, c) ==
    /\ c \in pub[p].to
    /\ pub' = [pub EXCEPT ![p].to = @ \ {c}]
    /\ IF Len(channel[c]) < Capacity
       THEN /\ channel' = [channel EXCEPT ![c] = Append(@, pub[p].event)]
            /\ UNCHANGED behind
       ELSE /\ behind' = behind \cup {c}
            /\ UNCHANGED channel
    /\ UNCHANGED <<open, outbox, lastId, valid, drops, history, known>>
    /\ UNCHANGED streamVars

PublishDone(p) ==
    /\ pub[p].event # NoEvent
    /\ pub[p].to = {}
    /\ pub' = [pub EXCEPT ![p] = Quiet]
    /\ UNCHANGED <<lastId, valid, drops, history, known, behind>>
    /\ UNCHANGED streamVars
    /\ UNCHANGED connVars

-----------------------------------------------------------------------------
(* subscribe: what a client reconnecting with id is told first *)

Oldest == buffer[1].seq
Latest == buffer[Len(buffer)].seq

\* Fault: the boundary of the replayable window is one too low
FaultLateResync(id) ==
    id > 0 /\ (buffer = <<>> \/ id < Oldest - 2 \/ id > Latest)

Resync(id) ==
    /\ id > 0
    /\ \/ buffer = <<>>
       \/ /\ buffer # <<>>
          /\ (id < Oldest - 1 \/ id > Latest)

\* the events of the buffer after id, in the buffer's order
After(id) ==
    LET later == {i \in 1 .. Len(buffer) : buffer[i].seq > id} IN
    [n \in 1 .. Cardinality(later) |->
        buffer[CHOOSE i \in later : Cardinality({j \in later : j <= i}) = n]]

Replay(id) == IF id = 0 \/ Resync(id) THEN <<>> ELSE After(id)

\* A client connects with the id it holds; with none it just opened the show.
\* A resync is one message without an id, NoEvent here.
Subscribe(c) ==
    /\ c \notin open
    /\ valid[c]
    /\ open' = open \cup {c}
    /\ channel' = [channel EXCEPT ![c] = <<>>]
    /\ outbox' = [outbox EXCEPT ![c] =
                     IF Resync(lastId[c]) THEN <<NoEvent>> ELSE Replay(lastId[c])]
    /\ known' = [known EXCEPT ![c] = IF lastId[c] = 0 THEN history ELSE @]
    /\ UNCHANGED <<pub, lastId, valid, drops, history, behind>>
    /\ UNCHANGED streamVars

\* the event is in the hands of a publisher or queued for the client
OnItsWay(c, ev) ==
    \/ \E p \in Publishers : pub[p].event = ev /\ c \in pub[p].to
    \/ \E i \in 1 .. Len(channel[c]) : channel[c][i] = ev
    \/ \E i \in 1 .. Len(outbox[c]) : outbox[c][i] = ev

Receive(c, ev) ==
    /\ lastId' = [lastId EXCEPT ![c] = ev.seq]
    /\ known' = [known EXCEPT ![c] = @ \cup {ev}]

\* the client fetches the show again; its id stays what it was
ReceiveResync(c) ==
    /\ known' = [known EXCEPT ![c] = @ \cup {ev \in history : ~OnItsWay(c, ev)}]
    /\ UNCHANGED lastId

\* handleEventStream: the replay or the resync first, then the live channel
SendReplay(c) ==
    /\ c \in open
    /\ outbox[c] # <<>>
    /\ IF Head(outbox[c]) = NoEvent THEN ReceiveResync(c)
                                   ELSE Receive(c, Head(outbox[c]))
    /\ outbox' = [outbox EXCEPT ![c] = Tail(@)]
    /\ UNCHANGED <<open, channel, pub, valid, drops, history, behind>>
    /\ UNCHANGED streamVars

SendLive(c) ==
    /\ c \in open
    /\ outbox[c] = <<>>
    /\ channel[c] # <<>>
    /\ Receive(c, Head(channel[c]))
    /\ channel' = [channel EXCEPT ![c] = Tail(@)]
    /\ UNCHANGED <<open, outbox, pub, valid, drops, history, behind>>
    /\ UNCHANGED streamVars

\* the channel is forgotten; a publisher that still holds it offers in vain
Unsubscribe(c) ==
    /\ open' = open \ {c}
    /\ pub' = [p \in Publishers |-> [pub[p] EXCEPT !.to = @ \ {c}]]
    /\ channel' = [channel EXCEPT ![c] = <<>>]
    /\ outbox' = [outbox EXCEPT ![c] = <<>>]

\* the connection breaks with events still unread
Disconnect(c) ==
    /\ c \in open
    /\ drops > 0
    /\ drops' = drops - 1
    /\ Unsubscribe(c)
    /\ UNCHANGED <<lastId, valid, history, known, behind>>
    /\ UNCHANGED streamVars

\* RevokeAPIKey, or the key expires
Revoke(c) ==
    /\ valid[c]
    /\ valid' = [valid EXCEPT ![c] = FALSE]
    /\ UNCHANGED <<pub, lastId, drops, history, known, behind>>
    /\ UNCHANGED streamVars
    /\ UNCHANGED connVars

\* the ticker of handleEventStream re-validates the key (apiKeyStillValid)
RevocationTick(c) ==
    /\ c \in open
    /\ outbox[c] = <<>>
    /\ ~valid[c]
    /\ Unsubscribe(c)
    /\ UNCHANGED <<lastId, valid, drops, history, known, behind>>
    /\ UNCHANGED streamVars

\* the daemon stops and is started again: the sequence starts over
Restart ==
    /\ boot < MaxBoots
    /\ boot' = boot + 1
    /\ nextSeq' = 0
    /\ buffer' = <<>>
    /\ open' = {}
    /\ channel' = [c \in Clients |-> <<>>]
    /\ outbox' = [c \in Clients |-> <<>>]
    /\ pub' = [p \in Publishers |-> Quiet]
    /\ behind' = behind \cup {c \in Clients : lastId[c] # 0}
    /\ UNCHANGED <<lastId, valid, drops, history, known>>

-----------------------------------------------------------------------------
Send(c) == SendReplay(c) \/ SendLive(c)
FanOut(p) == (\E c \in Clients : Offer(p, c)) \/ PublishDone(p)

StreamNext ==
    \/ \E p \in Publishers : AppendEvent(p) \/ FanOut(p)
    \/ \E c \in Clients : \/ Subscribe(c) \/ Send(c) \/ Disconnect(c)
                          \/ Revoke(c) \/ RevocationTick(c)
    \/ Restart

\* publish and a connection's loop run to their end; Go's select picks a
\* ready ticker sooner or later: a tick is not starved by live events
StreamFairness ==
    /\ \A p \in Publishers : WF_eventVars(FanOut(p))
    /\ \A c \in Clients : WF_eventVars(Send(c)) /\ WF_eventVars(RevocationTick(c))

StreamSpec == StreamInit /\ [][StreamNext]_eventVars /\ StreamFairness

-----------------------------------------------------------------------------
(* Properties *)

\* Every variable has its type; buffer and channels keep their capacity.
StreamTypeOK ==
    /\ boot \in 1 .. MaxBoots
    /\ nextSeq \in 0 .. MaxPublished
    /\ buffer \in Seq(Events) /\ Len(buffer) <= Capacity
    /\ open \subseteq Clients
    /\ channel \in [Clients -> Seq(Events)]
    /\ \A c \in Clients : Len(channel[c]) <= Capacity
    /\ outbox \in [Clients -> Seq(Events \cup {NoEvent})]
    /\ pub \in [Publishers -> [event : Events \cup {NoEvent}, to : SUBSET Clients]]
    /\ lastId \in [Clients -> 0 .. MaxPublished]
    /\ valid \in [Clients -> BOOLEAN]
    /\ drops \in 0 .. MaxDrops
    /\ history \subseteq Events
    /\ known \in [Clients -> SUBSET Events]
    /\ behind \subseteq Clients

\* The buffer holds the latest events of this run, without a hole and in
\* order, however publishers interleave (eventBroadcaster: "the buffer can
\* never hold an out-of-order or duplicate sequence").
BufferIsLatest ==
    \A i \in 1 .. Len(buffer) :
        buffer[i] = [boot |-> boot, seq |-> nextSeq - Len(buffer) + i]

\* a resync is on its way to the client, or a reconnect would bring the event
Recoverable(c, ev) ==
    \/ outbox[c] = <<NoEvent>>
    \/ lastId[c] = 0
    \/ Resync(lastId[c])
    \/ \E i \in 1 .. Len(Replay(lastId[c])) : Replay(lastId[c])[i] = ev

Gap(c) ==
    \E ev \in history \ known[c] : ~OnItsWay(c, ev) /\ ~Recoverable(c, ev)

\* No client that kept up with its channel, and holds no id of an earlier run
\* of the daemon, is left with "a silently-missing gap": an event it has not
\* been told of is on its way, or is what its next reconnect would bring
\* (events.go, the replay by Last-Event-ID).
NoSilentGapIfKeepingUp == \A c \in Clients \ behind : ~Gap(c)

\* What is queued for such a client is in the order of Seq and new to it: a
\* replay and the live events behind it neither overlap nor repeat what it was
\* sent, though subscribe and publish race for the mutex (one publisher).
QueuedOnceInOrder ==
    \A c \in Clients \ behind :
        LET queue == outbox[c] \o channel[c] IN
        \A i \in 1 .. Len(queue) :
            /\ queue[i] \notin known[c]
            /\ \A j \in 1 .. (i - 1) : queue[j].seq < queue[i].seq

\* A subscriber is handed each event once, in order, and one that keeps up
\* misses none without being told to resync.
DeliveredOnceInOrder ==
  /\ StreamTypeOK
  /\ NoSilentGapIfKeepingUp
  /\ QueuedOnceInOrder

\* A connection whose key is revoked or expires is closed.
RevokedIsClosed ==
    \A c \in Clients : (~valid[c]) ~> (c \notin open)
=============================================================================
