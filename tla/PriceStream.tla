----------------------------- MODULE PriceStream -----------------------------
(* The price WebSocket (price.gateway.ts, price.service.ts). Two maps say    *)
(* who watches which pool; the first watcher of a pool subscribes the Redis  *)
(* channel and the last one leaving unsubscribes it. The commands are sent   *)
(* in order and not waited for, over a connection that ioredis restores.     *)
EXTENDS Naturals, Sequences, FiniteSets, FiniteSetsExt

CONSTANTS Watchers,   \* WebSocket clients
          StreamPools, \* pools
          MaxSubs,    \* maxSubscriptions, by client
          MaxQueue,   \* bound: commands in flight
          MaxDrops    \* bound: lost connections and failed commands

ASSUME StreamAssumption ==
    /\ MaxSubs \in [Watchers -> Nat]
    /\ MaxQueue \in Nat /\ MaxDrops \in Nat

VARIABLES subscriptions, \* pool -> its clients; no entry is an empty set
          clientPools,   \* client -> its pools
          open,          \* clients with a connection
          queue,         \* commands sent to Redis, in order
          channels,      \* channels Redis has subscribed, which ioredis tracks
          up,            \* the connection to Redis is ready
          lost,          \* history: pools whose subscribe failed since 'ready'
          extra,         \* history: pools whose unsubscribe failed
          drops

streamVars == <<subscriptions, clientPools, open, queue, channels, up, lost, extra, drops>>

Watched == {p \in StreamPools : subscriptions[p] # {}}

StreamInit ==
    /\ subscriptions = [p \in StreamPools |-> {}]
    /\ clientPools = [c \in Watchers |-> {}]
    /\ open = {}
    /\ queue = <<>>
    /\ channels = {}
    /\ up = TRUE
    /\ lost = {}
    /\ extra = {}
    /\ drops = 0

Send(op, ps) == queue' = IF ps = {} THEN queue ELSE Append(queue, [op |-> op, pools |-> ps])

-----------------------------------------------------------------------------
(* The gateway *)

\* onClientConnection, for a handshake the policy accepts.
Connect(c) ==
    /\ c \notin open
    /\ open' = open \cup {c}
    /\ UNCHANGED <<subscriptions, clientPools, queue, channels, up, lost, extra, drops>>

\* The action "subscribe": refused at the limit, even for a pool held already.
Subscribe(c, p) ==
    /\ Len(queue) < MaxQueue
    /\ c \in open
    /\ Cardinality(clientPools[c]) < MaxSubs[c]
    /\ subscriptions' = [subscriptions EXCEPT ![p] = @ \cup {c}]
    /\ clientPools' = [clientPools EXCEPT ![c] = @ \cup {p}]
    /\ Send("sub", {p} \ Watched)
    /\ UNCHANGED <<open, channels, up, lost, extra, drops>>

\* Unsubscribing the channels a client leaves, whoever else watches them.
LeaveAll(c, ps) ==
    /\ subscriptions' = [p \in StreamPools |-> subscriptions[p] \ (IF p \in ps THEN {c} ELSE {})]
    /\ clientPools' = [clientPools EXCEPT ![c] = @ \ ps]
    /\ Send("unsub", {p \in ps : c \in subscriptions[p]})

\* unsubscribe of each of these pools: the last client to leave ends the channel.
Leave(c, ps) ==
    /\ subscriptions' = [p \in StreamPools |-> subscriptions[p] \ (IF p \in ps THEN {c} ELSE {})]
    /\ clientPools' = [clientPools EXCEPT ![c] = @ \ ps]
    /\ Send("unsub", {p \in ps : subscriptions[p] = {c}})

Unsubscribe(c, p) ==
    /\ Len(queue) < MaxQueue
    /\ c \in open
    /\ Leave(c, {p})
    /\ UNCHANGED <<open, channels, up, lost, extra, drops>>

\* removeClient on 'close' or 'error' of the socket.
Close(c) ==
    /\ Len(queue) < MaxQueue
    /\ c \in open
    /\ open' = open \ {c}
    /\ Leave(c, clientPools[c])
    /\ UNCHANGED <<channels, up, lost, extra, drops>>

\* broadcastPrice or a reply cannot be sent: removeClient, with the socket open.
SendFails(c) ==
    /\ Len(queue) < MaxQueue
    /\ c \in open
    /\ Leave(c, clientPools[c])
    /\ UNCHANGED <<open, channels, up, lost, extra, drops>>

-----------------------------------------------------------------------------
(* Redis *)

\* The oldest command is executed.
Execute ==
    /\ up /\ queue # <<>>
    /\ LET cmd == Head(queue)
       IN IF cmd.op = "sub"
          THEN /\ channels' = channels \cup cmd.pools
               /\ lost' = lost \ cmd.pools
               /\ extra' = extra
          ELSE /\ channels' = channels \ cmd.pools
               /\ lost' = lost
               /\ extra' = extra \ cmd.pools
    /\ queue' = Tail(queue)
    /\ UNCHANGED <<subscriptions, clientPools, open, up, drops>>

\* The oldest command fails, or ioredis gives it up: a warning is logged.
CommandFails ==
    /\ queue # <<>> /\ drops < MaxDrops
    /\ drops' = drops + 1
    /\ LET cmd == Head(queue)
       IN IF cmd.op = "sub" THEN lost' = lost \cup cmd.pools /\ extra' = extra
                            ELSE lost' = lost /\ extra' = extra \cup cmd.pools
    /\ queue' = Tail(queue)
    /\ UNCHANGED <<subscriptions, clientPools, open, channels, up>>

Disconnect ==
    /\ up /\ drops < MaxDrops
    /\ drops' = drops + 1
    /\ up' = FALSE
    /\ UNCHANGED <<subscriptions, clientPools, open, queue, channels, lost, extra>>

\* ioredis subscribes what it had, then sends the commands without an answer and
\* those issued meanwhile; the handler of 'ready' subscribes every pool watched.
Ready ==
    /\ ~up
    /\ up' = TRUE
    /\ LET sub(ps) == IF ps = {} THEN <<>> ELSE <<[op |-> "sub", pools |-> ps]>>
       IN queue' = sub(channels) \o queue \o sub(Watched)
    /\ channels' = {}
    /\ lost' = lost \ Watched
    /\ UNCHANGED <<subscriptions, clientPools, open, extra, drops>>

StreamNext ==
    \/ \E c \in Watchers : Connect(c) \/ Close(c) \/ SendFails(c)
    \/ \E c \in Watchers, p \in StreamPools : Subscribe(c, p) \/ Unsubscribe(c, p)
    \/ Execute \/ CommandFails \/ Disconnect \/ Ready

-----------------------------------------------------------------------------
StreamTypeOK ==
    /\ subscriptions \in [StreamPools -> SUBSET Watchers]
    /\ clientPools \in [Watchers -> SUBSET StreamPools]
    /\ open \subseteq Watchers
    /\ queue \in Seq([op : {"sub", "unsub"}, pools : SUBSET StreamPools])
    /\ channels \subseteq StreamPools
    /\ up \in BOOLEAN
    /\ lost \subseteq StreamPools /\ extra \subseteq StreamPools
    /\ drops \in Nat

\* Whether the channel of p will be subscribed once the commands sent are done.
WillBe(p) ==
    LET about == {i \in DOMAIN queue : p \in queue[i].pools}
    IN IF about = {} THEN p \in channels ELSE queue[Max(about)].op = "sub"

\* Once the commands in flight are done, exactly the watched pools are
\* subscribed, but for commands that failed since the last 'ready', across
\* reconnections and however clients come, go and fail; the two maps say the
\* same, and a client with no connection or at its limit holds no more
\* (subscribe, unsubscribe and the 'ready' handler, price.service.ts:132-190).
StreamSettles ==
    /\ \A p \in Watched : WillBe(p) \/ p \in lost
    /\ \A p \in StreamPools : WillBe(p) => p \in Watched \cup extra
    /\ \A c \in Watchers, p \in StreamPools : c \in subscriptions[p] <=> p \in clientPools[c]
    /\ \A c \in Watchers : /\ Cardinality(clientPools[c]) <= MaxSubs[c]
                           /\ c \notin open => clientPools[c] = {}
=============================================================================
