-------------------------------- MODULE Net --------------------------------
(***************************************************************************)
(* The network of src/net.c.  A server keeps one slot per card; a card is  *)
(* a client that runs swicc_net_client on one connection.  The program     *)
(* around the server sends a request, waits for the reply, and hangs up    *)
(* when anything goes wrong (src/tool/server-dummy).                       *)
(*                                                                         *)
(* A member of Conn is a connection together with the client process that  *)
(* made it; it may be used again when both ends are closed.  At most one   *)
(* message is under way in each direction.  A message that arrives in      *)
(* pieces is received as a short read, for recv is called once per part.   *)
(***************************************************************************)
EXTENDS Naturals, Sequences, FiniteSets

CONSTANTS
  Conn,      \* connections
  None,      \* -1: no socket
  Slot,      \* slots of the server
  Asks       \* lengths a card may ask for

ASSUME NetAssumption == None \notin Conn /\ Asks \subseteq Nat /\ 0 \in Asks

\* Requests: data for the card, and controls.  The four mock resets are one.
Ctrl == {"NONE", "KEEPALIVE", "RESET", "UNKNOWN"}

VARIABLES
  listening,   \* the server's socket is open
  queue,       \* connections not accepted yet
  slot,        \* server_ctx.sock_client
  sock,        \* the server's end of a connection
  await,       \* the server waits for a reply
  told,        \* buf_len_exp of the last reply, if there was one
  pc,          \* where the client is: outside of its loop, at its test, ...
  shutdown,    \* swicc_state->shutdown
  served,      \* msg_received
  ret,         \* what swicc_net_client returned
  want,        \* swicc_state->buf_rx_len, between two calls of the card
  request,     \* the message on its way to the client
  reply,       \* the message on its way to the server
  mark         \* history: tells a request from the one before

serverVars == <<listening, queue, slot, sock, await, told>>
clientVars == <<pc, shutdown, served, ret, want>>
lineVars   == <<request, reply, mark>>
netVars    == <<serverVars, clientVars, lineVars>>

NoMessage == [kind |-> "none"]

\* What the rest of a message looks like after a short read.
Rest == [kind |-> "rest"]

Request(ctrl, m) == [kind |-> "request", ctrl |-> ctrl, mark |-> m]
Reply(m, exp)    == [kind |-> "reply", mark |-> m, exp |-> exp]

-----------------------------------------------------------------------------
(* The client.                                                             *)

\* swicc_net_client_create, and swicc_net_client up to its loop.
ClientCreate(c) ==
  /\ pc[c] = "absent" /\ sock[c] = "closed" /\ listening
  /\ queue' = Append(queue, c)
  /\ sock' = [sock EXCEPT ![c] = "queued"]
  /\ told' = [told EXCEPT ![c] = None]
  /\ pc' = [pc EXCEPT ![c] = "test"]
  /\ shutdown' = [shutdown EXCEPT ![c] = FALSE]
  /\ served' = [served EXCEPT ![c] = FALSE]
  /\ ret' = [ret EXCEPT ![c] = "none"]
  /\ want' = [want EXCEPT ![c] = 0]
  /\ request' = [request EXCEPT ![c] = NoMessage]
  /\ reply' = [reply EXCEPT ![c] = NoMessage]
  /\ mark' = [mark EXCEPT ![c] = FALSE]
  /\ UNCHANGED <<listening, slot, await>>

\* "Indicates if the card should shutdown gracefully right now": set by a
\* signal handler or by a handler of a command.  A client that is blocked in
\* recv is woken, unless the signal came just before the call.
Shutdown(c) ==
  /\ pc[c] \in {"test", "recv"} /\ ~shutdown[c]
  /\ shutdown' = [shutdown EXCEPT ![c] = TRUE]
  /\ \/ UNCHANGED pc
     \/ /\ pc[c] = "recv" /\ request[c] = NoMessage
        /\ pc' = [pc EXCEPT ![c] = "done"]
  /\ UNCHANGED <<serverVars, served, ret, want, lineVars>>

\* The condition of the loop, before it receives.
MayGoOnAlways(c) == TRUE
MayGoOn(c)       == ~shutdown[c]

TestLoop(c) ==
  /\ pc[c] = "test"
  /\ pc' = [pc EXCEPT ![c] = IF MayGoOn(c) THEN "recv" ELSE "done"]
  /\ UNCHANGED <<serverVars, shutdown, served, ret, want, lineVars>>

\* Where a failed receive leads: what is left of the message must never be
\* taken for another.
AfterFailureRetry(c) == "test"
AfterFailure(c)      == "done"

\* A message that is short or whose size is refused, or the end of file.
RecvFails(c) ==
  /\ pc[c] = "recv"
  /\ \/ request[c].kind = "request" /\ request' = [request EXCEPT ![c] = Rest]
     \/ /\ request[c] = NoMessage /\ sock[c] = "closed"
        /\ UNCHANGED request
  /\ pc' = [pc EXCEPT ![c] = AfterFailure(c)]
  /\ UNCHANGED <<serverVars, shutdown, served, ret, want, reply, mark>>

\* What the card wants after a request was carried out.  swicc_io decides
\* anew; so does a mock reset, unless swicc_reset fails right away.
Carried(c, ctrl, n, down) ==
  \/ ctrl \in {"KEEPALIVE", "UNKNOWN"} /\ n = want[c] /\ down = shutdown[c]
  \/ ctrl = "NONE" /\ n \in Asks /\ down = shutdown[c]
  \/ ctrl = "RESET" /\ n \in Asks /\ down = FALSE
  \/ ctrl = "RESET" /\ n = want[c] /\ down = shutdown[c]

\* Every request gets a reply, also one that failed or is not known.
AnswersKnown(ctrl) == ctrl # "UNKNOWN"
Answers(ctrl)      == TRUE

\* The length in a reply is the one after the request.
ExpBefore(c, n) == want[c]
Exp(c, n)       == n

\* A reply that was sent counts as a message received.
CountsData(ctrl) == ctrl = "NONE"
Counts(ctrl)     == TRUE

\* One pass of the loop of swicc_net_client.  What is sent to an end that
\* has closed may be lost or may fail.
Serve(c) ==
  /\ pc[c] = "recv" /\ request[c].kind # "none"
  /\ \E ctrl \in (IF request[c] = Rest THEN Ctrl ELSE {request[c].ctrl}),
        m \in (IF request[c] = Rest THEN {~mark[c]} ELSE {request[c].mark}),
        n \in Asks, down \in BOOLEAN :
       /\ Carried(c, ctrl, n, down)
       /\ want' = [want EXCEPT ![c] = n]
       /\ shutdown' = [shutdown EXCEPT ![c] = down]
       /\ request' = [request EXCEPT ![c] = NoMessage]
       /\ \/ /\ pc' = [pc EXCEPT ![c] = "test"]
             /\ served' = [served EXCEPT ![c] = served[c] \/ Counts(ctrl)]
             /\ reply' = IF Answers(ctrl) /\ sock[c] = "open"
                         THEN [reply EXCEPT ![c] = Reply(m, Exp(c, n))]
                         ELSE reply
          \/ /\ sock[c] = "closed"
             /\ pc' = [pc EXCEPT ![c] = "done"]
             /\ UNCHANGED <<served, reply>>
  /\ UNCHANGED <<serverVars, ret, mark>>

\* The end of swicc_net_client, where msg_received goes out of scope, and
\* swicc_net_client_destroy.
Return(c) ==
  /\ pc[c] = "done"
  /\ pc' = [pc EXCEPT ![c] = "absent"]
  /\ ret' = [ret EXCEPT ![c] = IF shutdown[c] THEN "SUCCESS"
                               ELSE IF served[c] THEN "NET_DISCONNECTED"
                               ELSE "ERROR"]
  /\ served' = [served EXCEPT ![c] = FALSE]
  /\ UNCHANGED <<serverVars, shutdown, want, lineVars>>

-----------------------------------------------------------------------------
(* The server.                                                             *)

\* swicc_net_server_create
ServerCreate ==
  /\ ~listening
  /\ listening' = TRUE
  /\ UNCHANGED <<queue, slot, sock, await, told, clientVars, lineVars>>

\* A slot takes a client when it has none.
SlotFreeAny(s) == TRUE
SlotFree(s)    == slot[s] = None

\* swicc_net_server_client_connect, with a client in the queue.
Accept(s) ==
  /\ listening /\ SlotFree(s) /\ queue # << >>
  /\ slot' = [slot EXCEPT ![s] = Head(queue)]
  /\ sock' = [sock EXCEPT ![Head(queue)] = "open"]
  /\ queue' = Tail(queue)
  /\ UNCHANGED <<listening, await, told, clientVars, lineVars>>

\* A message that cannot be sent leads to Disconnect.
Send(s, ctrl) ==
  /\ slot[s] # None /\ ~await[slot[s]]
  /\ request' = [request EXCEPT ![slot[s]] = Request(ctrl, ~mark[slot[s]])]
  /\ mark' = [mark EXCEPT ![slot[s]] = ~@]
  /\ await' = [await EXCEPT ![slot[s]] = TRUE]
  /\ UNCHANGED <<listening, queue, slot, sock, told, clientVars, reply>>

Receive(s) ==
  /\ slot[s] # None /\ await[slot[s]] /\ reply[slot[s]] # NoMessage
  /\ told' = [told EXCEPT ![slot[s]] = reply[slot[s]].exp]
  /\ reply' = [reply EXCEPT ![slot[s]] = NoMessage]
  /\ await' = [await EXCEPT ![slot[s]] = FALSE]
  /\ UNCHANGED <<listening, queue, slot, sock, clientVars, request, mark>>

\* A slot without a client holds -1, and not 0, which may be a socket.
Freed == None

\* The server's ends of the connections in C are closed; replies on their
\* way to them are lost.
Close(C) ==
  /\ sock'  = [c \in Conn |-> IF c \in C THEN "closed" ELSE sock[c]]
  /\ await' = [c \in Conn |-> await[c] /\ c \notin C]
  /\ slot'  = [s \in Slot |-> IF slot[s] \in C THEN Freed ELSE slot[s]]
  /\ reply' = [c \in Conn |-> IF c \in C THEN NoMessage ELSE reply[c]]

\* swicc_net_server_client_disconnect, when the program wants to.
Disconnect(s) ==
  /\ slot[s] # None
  /\ Close({slot[s]})
  /\ UNCHANGED <<listening, queue, told, clientVars, request, mark>>

\* The same after a reply that came short, or did not come.
ReceiveFails(s) ==
  /\ slot[s] # None /\ await[slot[s]]
  /\ reply[slot[s]] # NoMessage \/ pc[slot[s]] = "absent"
  /\ Close({slot[s]})
  /\ UNCHANGED <<listening, queue, told, clientVars, request, mark>>

\* swicc_net_server_destroy: clients in the queue are refused.
Occupied    == {slot[s] : s \in Slot} \ {None}
Queued      == {queue[i] : i \in DOMAIN queue}
Destroyed   == Occupied \cup Queued
ServerDestroy ==
  /\ listening
  /\ listening' = FALSE /\ queue' = << >>
  /\ Close(Destroyed)
  /\ UNCHANGED <<told, clientVars, request, mark>>

-----------------------------------------------------------------------------
NetInit ==
  /\ listening = FALSE /\ queue = << >>
  /\ slot     = [s \in Slot |-> None]
  /\ sock     = [c \in Conn |-> "closed"]
  /\ await    = [c \in Conn |-> FALSE]
  /\ told     = [c \in Conn |-> None]
  /\ pc       = [c \in Conn |-> "absent"]
  /\ shutdown = [c \in Conn |-> FALSE]
  /\ served   = [c \in Conn |-> FALSE]
  /\ ret      = [c \in Conn |-> "none"]
  /\ want     = [c \in Conn |-> 0]
  /\ request  = [c \in Conn |-> NoMessage]
  /\ reply    = [c \in Conn |-> NoMessage]
  /\ mark     = [c \in Conn |-> FALSE]

ClientStep(c) == TestLoop(c) \/ RecvFails(c) \/ Serve(c) \/ Return(c)

NetNext ==
  \/ \E c \in Conn : ClientCreate(c) \/ Shutdown(c) \/ ClientStep(c)
  \/ \E s \in Slot :
       \/ Accept(s) \/ Receive(s) \/ Disconnect(s) \/ ReceiveFails(s)
       \/ \E ctrl \in Ctrl : Send(s, ctrl)
  \/ ServerCreate
  \/ ServerDestroy

NetSpec == NetInit /\ [][NetNext]_netVars

\* Processes run, and the server takes the replies it waits for.  When it has
\* them, it goes on sending (keep-alives, if nothing else) or hangs up.
Fairness ==
  /\ \A c \in Conn : WF_netVars(ClientStep(c))
  /\ \A s \in Slot :
       /\ WF_netVars(Receive(s) \/ ReceiveFails(s))
       /\ WF_netVars(\/ \E ctrl \in Ctrl : Send(s, ctrl)
                     \/ Disconnect(s) /\ ~await[slot[s]])

FairNetSpec == NetSpec /\ Fairness

-----------------------------------------------------------------------------
Messages ==
  {NoMessage, Rest} \cup {Request(ctrl, m) : ctrl \in Ctrl, m \in BOOLEAN}
Replies == {NoMessage} \cup {Reply(m, n) : m \in BOOLEAN, n \in Asks}

NetTypeOK ==
  /\ listening \in BOOLEAN
  /\ queue \in Seq(Conn)
  /\ slot \in [Slot -> Conn \cup {None}]
  /\ sock \in [Conn -> {"queued", "open", "closed"}]
  /\ await \in [Conn -> BOOLEAN]
  /\ told \in [Conn -> Asks \cup {None}]
  /\ pc \in [Conn -> {"absent", "test", "recv", "done"}]
  /\ shutdown \in [Conn -> BOOLEAN]
  /\ served \in [Conn -> BOOLEAN]
  /\ ret \in [Conn -> {"none", "SUCCESS", "NET_DISCONNECTED", "ERROR"}]
  /\ want \in [Conn -> Asks]
  /\ request \in [Conn -> Messages]
  /\ reply \in [Conn -> Replies]
  /\ mark \in [Conn -> BOOLEAN]

(***************************************************************************)
(* The server loses no socket and shares none: a connection is open just   *)
(* when one slot has it, and waits to be accepted just once in the queue   *)
(* (swicc_net_server_client_connect refuses a slot that is taken).         *)
(***************************************************************************)
SocketsKept ==
  /\ \A c \in Conn : sock[c] = "open" <=> \E s \in Slot : slot[s] = c
  /\ \A s, t \in Slot : slot[s] = slot[t] /\ slot[s] # None => s = t
  /\ \A i, j \in DOMAIN queue : queue[i] = queue[j] => i = j
  /\ \A i \in DOMAIN queue : sock[queue[i]] = "queued"

(***************************************************************************)
(* A reply is the one to the request before it.  Messages carry no number: *)
(* this rests on each end giving up the connection when it lost count, as  *)
(* msg_recv does not read on after a short read.                           *)
(***************************************************************************)
ReplyMatches ==
  \A c \in Conn :
    reply[c] # NoMessage => await[c] /\ reply[c].mark = mark[c]

(***************************************************************************)
(* "These data members [...] represent the state of the ICC after the      *)
(* request": the server knows how many bytes the card wants, also after    *)
(* keep-alives, controls that are not known and resets that failed.        *)
(***************************************************************************)
ToldIsCurrent ==
  \A c \in Conn :
    sock[c] = "open" /\ ~await[c] /\ told[c] # None => told[c] = want[c]

(***************************************************************************)
(* The return value is "useful to see if client got disconnected or failed *)
(* to connect at all": it is an error only if the server never heard from  *)
(* the client.                                                             *)
(***************************************************************************)
ErrorMeansUnheard ==
  \A c \in Conn : ret[c] = "ERROR" => told[c] = None

\* No request keeps a server of swicc_net_recv waiting: it is answered or the
\* connection is given up, whatever it was and whatever happens to the client.
RequestEnds == \A c \in Conn : await[c] ~> ~await[c]

\* A client that is to shut down leaves the loop of swicc_net_client, even
\* when the signal came where recv could not notice it; unless a mock reset
\* comes first, for swicc_reset clears the flag.
ShutdownEnds ==
  \A c \in Conn :
    shutdown[c] /\ sock[c] # "queued" ~> pc[c] = "absent" \/ ~shutdown[c]
=============================================================================
