------------------------------ MODULE Stream ------------------------------
(***************************************************************************)
(* The live stream of the dashboard (services/broadcast.py, api/stream.py):*)
(* one handler per WebSocket connection, a bounded queue per subscriber,   *)
(* a cap on the connections of a token, and the tokens an administrator    *)
(* revokes meanwhile (services/tokens.py).                                 *)
(*                                                                         *)
(* The server is one asyncio process: a step of a handler runs from one    *)
(* await to the next, and publish() does not await.                        *)
(***************************************************************************)
EXTENDS Integers, Sequences, FiniteSets, SequencesExt

CONSTANTS
    Connections,    \* WebSocket connections, each opened once
    Tokens,
    TokenOf,        \* the token a connection is opened with
    Limit,          \* ws_max_connections_per_token
    QueueSize,      \* _QUEUE_SIZE
    MaxMessages     \* bound on the messages published

ASSUME StreamAssumption ==
    /\ TokenOf \in [Connections -> Tokens]
    /\ IsFiniteSet(Connections)
    /\ Limit \in Nat
    /\ QueueSize \in Nat \ {0}
    /\ MaxMessages \in Nat

VARIABLES
    revoked,        \* the tokens that are revoked
    published,      \* the number of messages published; they are numbered
    handler,        \* where the handler of each connection is
    gone,           \* the connections whose client has left
    count,          \* app.state.ws_connections
    subscribers,    \* Broadcaster._subscribers
    queue,          \* the queue of each subscriber
    sending,        \* the message a handler has taken
    received        \* the messages each client has been sent

vars == <<revoked, published, handler, gone, count, subscribers, queue, sending, received>>

(* Not opened; authorized; admitted and accepting the handshake; waiting   *)
(* for a message; sending one; about to close as the token is revoked; and *)
(* closed, by either side.                                                 *)
Places == {"new", "checked", "accepting", "waiting", "sending", "ending", "closed"}

Admitted == {"accepting", "waiting", "sending", "ending"}

-----------------------------------------------------------------------------
Init ==
    /\ revoked = {}
    /\ published = 0
    /\ handler = [c \in Connections |-> "new"]
    /\ gone = {}
    /\ count = [t \in Tokens |-> 0]
    /\ subscribers = {}
    /\ queue = [c \in Connections |-> <<>>]
    /\ sending = [c \in Connections |-> <<>>]
    /\ received = [c \in Connections |-> <<>>]

(* _authorize reads the token from the database.                           *)
Authorize(c) ==
    /\ handler[c] = "new"
    /\ handler' = [handler EXCEPT ![c] = IF TokenOf[c] \in revoked THEN "closed" ELSE "checked"]
    /\ UNCHANGED <<revoked, published, gone, count, subscribers, queue, sending, received>>

(* The test of the cap and the increment, without an await in between.     *)
Admit(c) ==
    /\ handler[c] = "checked"
    /\ IF count[TokenOf[c]] >= Limit
       THEN /\ handler' = [handler EXCEPT ![c] = "closed"]
            /\ UNCHANGED count
       ELSE /\ handler' = [handler EXCEPT ![c] = "accepting"]
            /\ count' = [count EXCEPT ![TokenOf[c]] = @ + 1]
    /\ UNCHANGED <<revoked, published, gone, subscribers, queue, sending, received>>

(* Mutant: a connection that ends keeps its place under the cap. *)
EndedUncounted(c) ==
    /\ handler' = [handler EXCEPT ![c] = "closed"]
    /\ subscribers' = subscribers \ {c}
    /\ UNCHANGED count

(* The handler returns or fails: the finally blocks of subscribe() and     *)
(* stream().                                                               *)
Ended(c) ==
    /\ handler' = [handler EXCEPT ![c] = "closed"]
    /\ subscribers' = subscribers \ {c}
    /\ count' = [count EXCEPT ![TokenOf[c]] = @ - 1]

(* accept() may find that the client has left.                             *)
Subscribe(c) ==
    /\ handler[c] = "accepting"
    /\ \/ /\ handler' = [handler EXCEPT ![c] = "waiting"]
          /\ subscribers' = subscribers \union {c}
          /\ UNCHANGED count
       \/ c \in gone /\ Ended(c)
    /\ UNCHANGED <<revoked, published, gone, queue, sending, received>>

(* queue.get().                                                            *)
Take(c) ==
    /\ handler[c] = "waiting"
    /\ queue[c] # <<>>
    /\ handler' = [handler EXCEPT ![c] = "sending"]
    /\ sending' = [sending EXCEPT ![c] = <<Head(queue[c])>>]
    /\ queue' = [queue EXCEPT ![c] = Tail(@)]
    /\ UNCHANGED <<revoked, published, gone, count, subscribers, received>>

(* send_json(): only here does a handler learn that its client has left.   *)
Send(c) ==
    /\ handler[c] = "sending"
    /\ IF c \in gone
       THEN Ended(c) /\ UNCHANGED <<sending, received>>
       ELSE /\ sending' = [sending EXCEPT ![c] = <<>>]
            /\ received' = [received EXCEPT ![c] = @ \o sending[c]]
            /\ handler' = [handler EXCEPT ![c] = "waiting"]
            /\ UNCHANGED <<count, subscribers>>
    /\ UNCHANGED <<revoked, published, gone, queue>>

(* Mutant: the token is not read again. *)
ReauthorizeNever(c) ==
    /\ handler[c] = "waiting"
    /\ queue[c] = <<>>
    /\ UNCHANGED vars

(* No message for ws_reauth_interval_seconds: the token is read again, in  *)
(* the database, and messages may come before the connection is closed.    *)
Reauthorize(c) ==
    /\ handler[c] = "waiting"
    /\ queue[c] = <<>>
    /\ TokenOf[c] \in revoked
    /\ handler' = [handler EXCEPT ![c] = "ending"]
    /\ UNCHANGED <<revoked, published, gone, count, subscribers, queue, sending, received>>

CloseRevoked(c) ==
    /\ handler[c] = "ending"
    /\ Ended(c)
    /\ UNCHANGED <<revoked, published, gone, queue, sending, received>>

(* Mutant: the oldest message makes room. *)
PublishOverOldest ==
    /\ published < MaxMessages
    /\ published' = published + 1
    /\ queue' = [c \in Connections |->
                   IF c \notin subscribers THEN queue[c]
                   ELSE IF Len(queue[c]) = QueueSize
                   THEN Append(Tail(queue[c]), published + 1)
                   ELSE Append(queue[c], published + 1)]
    /\ UNCHANGED <<revoked, handler, gone, count, subscribers, sending, received>>

(* publish(): a subscriber whose queue is full is dropped.                 *)
Publish ==
    /\ published < MaxMessages
    /\ published' = published + 1
    /\ queue' = [c \in Connections |->
                   IF c \in subscribers /\ Len(queue[c]) < QueueSize
                   THEN Append(queue[c], published + 1) ELSE queue[c]]
    /\ subscribers' = {c \in subscribers : Len(queue[c]) < QueueSize}
    /\ UNCHANGED <<revoked, handler, gone, count, sending, received>>

(* The client closes the page.                                             *)
Leave(c) ==
    /\ handler[c] \notin {"new", "closed"}
    /\ c \notin gone
    /\ gone' = gone \union {c}
    /\ UNCHANGED <<revoked, published, handler, count, subscribers, queue, sending, received>>

(* revoke_token.                                                           *)
Revoke(t) ==
    /\ revoked' = revoked \union {t}
    /\ UNCHANGED <<published, handler, gone, count, subscribers, queue, sending, received>>

HandlerStep(c) ==
    \/ Admit(c) \/ Subscribe(c) \/ Take(c) \/ Send(c)
    \/ Reauthorize(c) \/ CloseRevoked(c)

Next ==
    \/ \E c \in Connections : Authorize(c) \/ HandlerStep(c) \/ Leave(c)
    \/ \E t \in Tokens : Revoke(t)
    \/ Publish

Spec == Init /\ [][Next]_vars

(* The event loop runs a handler that can go on; a client that is there    *)
(* reads what it is sent.                                                  *)
Fairness == \A c \in Connections : WF_vars(HandlerStep(c))

FairSpec == Spec /\ Fairness

-----------------------------------------------------------------------------
(* Properties.                                                             *)

Open(t) == {c \in Connections : TokenOf[c] = t /\ handler[c] \in Admitted}

(* The queues are bounded, and only open connections subscribe.            *)
TypeOK ==
    /\ revoked \subseteq Tokens
    /\ published \in 0 .. MaxMessages
    /\ handler \in [Connections -> Places]
    /\ gone \subseteq Connections
    /\ count \in [Tokens -> Int]
    /\ subscribers \subseteq {c \in Connections : handler[c] \in Admitted \ {"accepting"}}
    /\ queue \in [Connections -> Seq(Nat)]
    /\ sending \in [Connections -> Seq(Nat)]
    /\ received \in [Connections -> Seq(Nat)]
    /\ \A c \in Connections : Len(queue[c]) <= QueueSize

(* The cap (NFR-SEC-003): a place is held exactly while a connection is    *)
(* open, whatever ends it, and a token never has more than Limit.          *)
PlacesCounted ==
    \A t \in Tokens : count[t] = Cardinality(Open(t)) /\ count[t] <= Limit

Feed(c) == received[c] \o sending[c] \o queue[c]

(* A dashboard misses nothing in the middle: what a client was sent and    *)
(* what waits for it are consecutive messages, up to the newest as long as *)
(* it subscribes.  One that is too slow is dropped (broadcast.py, "Slow or *)
(* dead subscribers that fill their queue are dropped"), and then gets     *)
(* what its queue holds and nothing later.                                 *)
FeedHasNoGap ==
    \A c \in Connections :
        /\ \A i \in 2 .. Len(Feed(c)) : Feed(c)[i] = Feed(c)[i - 1] + 1
        /\ c \in subscribers /\ Feed(c) # <<>> => Last(Feed(c)) = published

(* A revocation ends the connections of the token, those that were being   *)
(* opened included ("a revocation drops the live connection in-flight"),   *)
(* once no messages come any more: the token is only read again after an   *)
(* interval without one.                                                   *)
RevokedIsClosed ==
    \A c \in Connections :
        TokenOf[c] \in revoked ~> handler[c] \in {"new", "closed"}

=============================================================================
