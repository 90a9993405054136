----------------------------- MODULE NetProofs -----------------------------
(***************************************************************************)
(* The network for every number of clients and slots: TLC checks the same  *)
(* formulas in MCNet.                                                      *)
(***************************************************************************)
EXTENDS Net, TLAPS

\* Where a conversation stands: what is under way on c belongs to the
\* request the server waits for, and a reply tells what the card wants.
Conversation(c) ==
  /\ sock[c] # "open" => ~await[c] /\ reply[c] = NoMessage
  /\ sock[c] = "queued" => request[c] = NoMessage /\ told[c] = None
  /\ sock[c] = "open" /\ request[c] \notin {NoMessage, Rest} =>
       await[c] /\ request[c].mark = mark[c] /\ reply[c] = NoMessage
  /\ request[c] = Rest => pc[c] \in {"done", "absent"}
  /\ reply[c] # NoMessage =>
       await[c] /\ reply[c].mark = mark[c] /\ reply[c].exp = want[c]
  /\ sock[c] = "open" /\ ~await[c] /\ told[c] # None => told[c] = want[c]

\* A client the server heard of knows that it was served.
Heard(c) ==
  /\ pc[c] # "absent" => ret[c] = "none"
  /\ told[c] # None \/ reply[c] # NoMessage =>
       IF pc[c] = "absent" THEN ret[c] # "ERROR" ELSE served[c]

Talk == \A c \in Conn : Conversation(c) /\ Heard(c)

NetInv == NetTypeOK /\ SocketsKept /\ Talk

-----------------------------------------------------------------------------
(* Messages.                                                               *)

LEMMA MessageKinds ==
  /\ NoMessage # Rest
  /\ \A ctrl \in Ctrl, m \in BOOLEAN :
       /\ Request(ctrl, m).ctrl = ctrl /\ Request(ctrl, m).mark = m
       /\ Request(ctrl, m).kind = "request"
       /\ Request(ctrl, m) \notin {NoMessage, Rest}
  /\ \A m \in BOOLEAN, n \in Asks :
       /\ Reply(m, n).mark = m /\ Reply(m, n).exp = n
       /\ Reply(m, n) # NoMessage
  /\ NoMessage.kind = "none" /\ Rest.kind = "rest"
<1>1. NoMessage.kind = "none" /\ Rest.kind = "rest"
  BY DEF NoMessage, Rest
<1>2. \A ctrl \in Ctrl, m \in BOOLEAN :
        /\ Request(ctrl, m).ctrl = ctrl /\ Request(ctrl, m).mark = m
        /\ Request(ctrl, m).kind = "request"
  BY DEF Request
<1>3. \A m \in BOOLEAN, n \in Asks :
        /\ Reply(m, n).mark = m /\ Reply(m, n).exp = n
        /\ Reply(m, n).kind = "reply"
  BY DEF Reply
<1> QED BY <1>1, <1>2, <1>3

LEMMA NoMessageType == NoMessage \in Messages /\ NoMessage \in Replies
  BY DEF Messages, Replies

LEMMA EmptyQueue == << >> \in Seq(Conn)
  OBVIOUS

LEMMA Negation == \A b \in BOOLEAN : (~b) \in BOOLEAN
  OBVIOUS

LEMMA RequestTypes ==
  ASSUME NEW r \in Messages, r \notin {NoMessage, Rest}
  PROVE  r.ctrl \in Ctrl /\ r.mark \in BOOLEAN
  BY MessageKinds DEF Messages

LEMMA ReplyTypes ==
  ASSUME NEW r \in Replies, r # NoMessage
  PROVE  r.exp \in Asks /\ r.mark \in BOOLEAN
  BY MessageKinds DEF Replies

-----------------------------------------------------------------------------
(* One lemma per action.                                                   *)

LEMMA InitKeeps == NetInit => NetInv
<1> SUFFICES ASSUME NetInit PROVE NetInv
  OBVIOUS
<1> USE NetAssumption DEF NetInit
<1>1. NetTypeOK
  <2>1. queue \in Seq(Conn) /\ listening \in BOOLEAN
    BY EmptyQueue
  <2>2. /\ slot \in [Slot -> Conn \cup {None}]
        /\ told \in [Conn -> Asks \cup {None}]
        /\ want \in [Conn -> Asks]
    OBVIOUS
  <2>3. /\ await \in [Conn -> BOOLEAN] /\ shutdown \in [Conn -> BOOLEAN]
        /\ served \in [Conn -> BOOLEAN] /\ mark \in [Conn -> BOOLEAN]
    OBVIOUS
  <2>4. /\ sock \in [Conn -> {"queued", "open", "closed"}]
        /\ pc \in [Conn -> {"absent", "test", "recv", "done"}]
        /\ ret \in [Conn -> {"none", "SUCCESS", "NET_DISCONNECTED", "ERROR"}]
    OBVIOUS
  <2>5. request \in [Conn -> Messages] /\ reply \in [Conn -> Replies]
    BY NoMessageType
  <2> QED BY <2>1, <2>2, <2>3, <2>4, <2>5 DEF NetTypeOK
<1>2. SocketsKept
  BY DEF SocketsKept
<1>3. Talk
  BY MessageKinds DEF Talk, Conversation, Heard
<1> QED BY <1>1, <1>2, <1>3 DEF NetInv

LEMMA ClientCreateKeeps ==
  ASSUME NetInv, NEW c \in Conn, ClientCreate(c)
  PROVE  NetInv'
<1> USE NetAssumption DEF NetInv, ClientCreate
<1>1. NetTypeOK'
  BY NoMessageType DEF NetTypeOK
<1>2. SocketsKept'
  <2>1. \A i \in DOMAIN queue : queue[i] # c
    BY DEF SocketsKept
  <2>2. /\ DOMAIN queue' = 1..(Len(queue) + 1)
        /\ \A i \in DOMAIN queue : queue'[i] = queue[i]
        /\ queue'[Len(queue) + 1] = c
        /\ DOMAIN queue = 1..Len(queue)
    BY DEF NetTypeOK
  <2>3. \A i, j \in DOMAIN queue' : queue'[i] = queue'[j] => i = j
    BY <2>1, <2>2 DEF SocketsKept, NetTypeOK
  <2>4. \A i \in DOMAIN queue' : queue'[i] \in Conn /\ sock'[queue'[i]] = "queued"
    BY <2>1, <2>2 DEF SocketsKept, NetTypeOK
  <2>5. \A d \in Conn : sock'[d] = "open" <=> \E s \in Slot : slot'[s] = d
    BY DEF SocketsKept, NetTypeOK
  <2>6. \A s, t \in Slot : slot'[s] = slot'[t] /\ slot'[s] # None => s = t
    BY DEF SocketsKept
  <2> QED BY <2>3, <2>4, <2>5, <2>6 DEF SocketsKept
<1>3. Talk'
  <2>1. \A d \in Conn \ {c} : (Conversation(d) /\ Heard(d))'
    BY DEF Talk, Conversation, Heard, NetTypeOK
  <2>2. (Conversation(c) /\ Heard(c))'
    BY MessageKinds DEF Talk, Conversation, Heard, NetTypeOK
  <2> QED BY <2>1, <2>2 DEF Talk
<1> QED BY <1>1, <1>2, <1>3

LEMMA ShutdownKeeps ==
  ASSUME NetInv, NEW c \in Conn, Shutdown(c)
  PROVE  NetInv'
<1> USE DEF NetInv, Shutdown, serverVars, lineVars
<1>1. NetTypeOK'
  BY DEF NetTypeOK
<1>2. SocketsKept'
  BY DEF SocketsKept
<1>3. Talk'
  BY DEF Talk, Conversation, Heard, NetTypeOK
<1> QED BY <1>1, <1>2, <1>3

LEMMA TestLoopKeeps ==
  ASSUME NetInv, NEW c \in Conn, TestLoop(c)
  PROVE  NetInv'
<1> USE DEF NetInv, TestLoop, serverVars, lineVars
<1>1. NetTypeOK'
  BY DEF NetTypeOK
<1>2. SocketsKept'
  BY DEF SocketsKept
<1>3. Talk'
  BY DEF Talk, Conversation, Heard, NetTypeOK
<1> QED BY <1>1, <1>2, <1>3

LEMMA RecvFailsKeeps ==
  ASSUME NetInv, NEW c \in Conn, RecvFails(c)
  PROVE  NetInv'
<1> USE DEF NetInv, RecvFails, AfterFailure, serverVars
<1>1. NetTypeOK'
  BY DEF NetTypeOK, Messages
<1>2. SocketsKept'
  BY DEF SocketsKept
<1>3. Talk'
  <2>1. \A d \in Conn \ {c} : (Conversation(d) /\ Heard(d))'
    BY DEF Talk, Conversation, Heard, NetTypeOK
  <2>2. (Conversation(c) /\ Heard(c))'
    BY MessageKinds DEF Talk, Conversation, Heard, NetTypeOK
  <2> QED BY <2>1, <2>2 DEF Talk
<1> QED BY <1>1, <1>2, <1>3

LEMMA ReturnKeeps ==
  ASSUME NetInv, NEW c \in Conn, Return(c)
  PROVE  NetInv'
<1> USE DEF NetInv, Return, serverVars, lineVars
<1>1. NetTypeOK'
  BY DEF NetTypeOK
<1>2. SocketsKept'
  BY DEF SocketsKept
<1>3. Talk'
  <2>1. \A d \in Conn \ {c} : (Conversation(d) /\ Heard(d))'
    BY DEF Talk, Conversation, Heard, NetTypeOK
  <2>2. (Conversation(c) /\ Heard(c))'
    BY DEF Talk, Conversation, Heard, NetTypeOK
  <2> QED BY <2>1, <2>2 DEF Talk
<1> QED BY <1>1, <1>2, <1>3

\* The reply is to the request just taken, and tells what the card wants.
LEMMA ServeKeeps ==
  ASSUME NetInv, NEW c \in Conn, Serve(c)
  PROVE  NetInv'
<1> USE DEF NetInv, serverVars
<1>1. request[c] \notin {NoMessage, Rest} /\ pc[c] = "recv"
  BY MessageKinds DEF Talk, Conversation, Serve
<1>2. request[c].ctrl \in Ctrl /\ request[c].mark \in BOOLEAN
  BY <1>1, RequestTypes DEF NetTypeOK
<1>3. PICK n \in Asks, down \in BOOLEAN :
        /\ want' = [want EXCEPT ![c] = n]
        /\ shutdown' = [shutdown EXCEPT ![c] = down]
        /\ request' = [request EXCEPT ![c] = NoMessage]
        /\ \/ /\ pc' = [pc EXCEPT ![c] = "test"]
              /\ served' = [served EXCEPT ![c] = TRUE]
              /\ reply' = IF sock[c] = "open"
                          THEN [reply EXCEPT ![c] = Reply(request[c].mark, n)]
                          ELSE reply
           \/ /\ sock[c] = "closed"
              /\ pc' = [pc EXCEPT ![c] = "done"]
              /\ UNCHANGED <<served, reply>>
  BY <1>1 DEF Serve, Answers, Counts, Exp
<1>4. UNCHANGED <<listening, queue, slot, sock, await, told, ret, mark>>
  BY DEF Serve
<1>5. NetTypeOK'
  <2>1. NoMessage \in Messages /\ Reply(request[c].mark, n) \in Replies
    BY <1>2 DEF Messages, Replies
  <2> QED BY <1>3, <1>4, <2>1 DEF NetTypeOK
<1>6. SocketsKept'
  BY <1>4 DEF SocketsKept
<1>7. Talk'
  <2>1. \A d \in Conn \ {c} : (Conversation(d) /\ Heard(d))'
    BY <1>3, <1>4 DEF Talk, Conversation, Heard, NetTypeOK
  <2>2. Conversation(c)'
    BY <1>1, <1>2, <1>3, <1>4, MessageKinds
       DEF Talk, Conversation, NetTypeOK
  <2>3. Heard(c)'
    BY <1>1, <1>3, <1>4 DEF Talk, Conversation, Heard, NetTypeOK
  <2> QED BY <2>1, <2>2, <2>3 DEF Talk
<1> QED BY <1>5, <1>6, <1>7

LEMMA ServerCreateKeeps ==
  ASSUME NetInv, ServerCreate
  PROVE  NetInv'
<1> USE DEF NetInv, ServerCreate, clientVars, lineVars
<1>1. NetTypeOK'
  BY DEF NetTypeOK
<1>2. SocketsKept'
  BY DEF SocketsKept
<1>3. Talk'
  BY DEF Talk, Conversation, Heard
<1> QED BY <1>1, <1>2, <1>3

LEMMA AcceptKeeps ==
  ASSUME NetInv, NEW s \in Slot, Accept(s)
  PROVE  NetInv'
<1> USE NetAssumption DEF NetInv, Accept, SlotFree, clientVars, lineVars
<1>1. /\ Head(queue) \in Conn /\ Head(queue) = queue[1]
      /\ Tail(queue) \in Seq(Conn)
      /\ DOMAIN queue = 1..Len(queue) /\ 1 \in DOMAIN queue
      /\ DOMAIN Tail(queue) = 1..(Len(queue) - 1)
      /\ Len(queue) \in Nat
      /\ \A i \in DOMAIN Tail(queue) :
           i + 1 \in DOMAIN queue /\ Tail(queue)[i] = queue[i + 1]
  BY DEF NetTypeOK
<1>2. NetTypeOK'
  BY <1>1 DEF NetTypeOK
<1>3. SocketsKept'
  <2>1. sock[Head(queue)] = "queued"
    BY <1>1 DEF SocketsKept
  <2>2. \A t \in Slot : slot[t] # Head(queue)
    BY <1>1, <2>1 DEF SocketsKept
  <2>3. \A d \in Conn : sock'[d] = "open" <=> \E t \in Slot : slot'[t] = d
    BY <1>1, <2>1, <2>2 DEF SocketsKept, NetTypeOK
  <2>4. \A t, u \in Slot : slot'[t] = slot'[u] /\ slot'[t] # None => t = u
    BY <1>1, <2>2 DEF SocketsKept, NetTypeOK
  <2>5. \A i, j \in DOMAIN queue' : queue'[i] = queue'[j] => i = j
    BY <1>1 DEF SocketsKept
  <2>6. \A i \in DOMAIN queue' :
          queue'[i] # Head(queue) /\ queue'[i] \in Conn
    <3>1. SUFFICES ASSUME NEW i \in DOMAIN Tail(queue)
                   PROVE  /\ Tail(queue)[i] # Head(queue)
                          /\ Tail(queue)[i] \in Conn
      OBVIOUS
    <3>2. /\ i + 1 \in DOMAIN queue /\ i + 1 # 1
          /\ Tail(queue)[i] = queue[i + 1]
      BY <1>1
    <3>3. queue[i + 1] # queue[1]
      BY <1>1, <3>2 DEF SocketsKept
    <3>4. queue[i + 1] \in Conn
      BY <3>2 DEF NetTypeOK
    <3> QED BY <1>1, <3>2, <3>3, <3>4
  <2>7. \A i \in DOMAIN queue' : sock'[queue'[i]] = "queued"
    BY <1>1, <2>6 DEF SocketsKept, NetTypeOK
  <2> QED BY <2>3, <2>4, <2>5, <2>7 DEF SocketsKept
<1>4. Talk'
  <2>1. sock[Head(queue)] = "queued"
    BY <1>1 DEF SocketsKept
  <2> QED BY <1>1, <2>1 DEF Talk, Conversation, Heard, NetTypeOK
<1> QED BY <1>2, <1>3, <1>4

LEMMA SendKeeps ==
  ASSUME NetInv, NEW s \in Slot, NEW ctrl \in Ctrl, Send(s, ctrl)
  PROVE  NetInv'
<1> USE NetAssumption DEF NetInv, Send, clientVars
<1> DEFINE c == slot[s]
<1>1. c \in Conn /\ sock[c] = "open" /\ ~await[c]
  BY DEF NetTypeOK, SocketsKept
<1>2. NetTypeOK'
  <2>1. (~mark[c]) \in BOOLEAN
    <3>1. mark[c] \in BOOLEAN
      BY <1>1 DEF NetTypeOK
    <3> QED BY <3>1, Negation
  <2>2. Request(ctrl, ~mark[c]) \in Messages
    <3>1. \A m \in BOOLEAN : Request(ctrl, m) \in Messages
      BY DEF Messages
    <3> HIDE DEF NetInv, Send
    <3> QED BY <2>1, <3>1
  <2> QED BY <1>1, <2>1, <2>2 DEF NetTypeOK
<1>3. SocketsKept'
  BY DEF SocketsKept
<1>4. Talk'
  <2>1. reply[c] = NoMessage
    BY <1>1 DEF Talk, Conversation
  <2>2. \A d \in Conn \ {c} : (Conversation(d) /\ Heard(d))'
    BY <1>1 DEF Talk, Conversation, Heard, NetTypeOK
  <2>3. request'[c] = Request(ctrl, ~mark[c]) /\ mark'[c] = ~mark[c]
        /\ await'[c] = TRUE
    BY <1>1 DEF NetTypeOK
  <2>4. /\ Request(ctrl, ~mark[c]).mark = ~mark[c]
        /\ Request(ctrl, ~mark[c]) \notin {NoMessage, Rest}
    BY MessageKinds
  <2>5. (Conversation(c) /\ Heard(c))'
    BY <1>1, <2>1, <2>3, <2>4 DEF Talk, Conversation, Heard
  <2> QED BY <2>2, <2>5 DEF Talk
<1> QED BY <1>2, <1>3, <1>4

LEMMA ReceiveKeeps ==
  ASSUME NetInv, NEW s \in Slot, Receive(s)
  PROVE  NetInv'
<1> USE NetAssumption DEF NetInv, Receive, clientVars
<1> DEFINE c == slot[s]
<1>1. c \in Conn /\ sock[c] = "open" /\ reply[c] # NoMessage
  BY DEF NetTypeOK, SocketsKept
<1>2. reply[c].exp \in Asks
  BY <1>1, ReplyTypes DEF NetTypeOK
<1>3. NetTypeOK'
  BY <1>1, <1>2 DEF NetTypeOK, Replies
<1>4. SocketsKept'
  BY DEF SocketsKept
<1>5. Talk'
  <2>1. \A d \in Conn \ {c} : (Conversation(d) /\ Heard(d))'
    BY <1>1 DEF Talk, Conversation, Heard, NetTypeOK
  <2>2. (Conversation(c) /\ Heard(c))'
    BY <1>1, <1>2 DEF Talk, Conversation, Heard, NetTypeOK
  <2> QED BY <2>1, <2>2 DEF Talk
<1> QED BY <1>3, <1>4, <1>5

\* Closing connections together with their slots and their place in the
\* queue, which is kept, or given up with all that are in it.
LEMMA CloseKeeps ==
  ASSUME NetInv, NEW C \in SUBSET Conn, Close(C),
         \/ queue' = queue /\ \A i \in DOMAIN queue : queue[i] \notin C
         \/ queue' = << >>,
         listening' \in BOOLEAN,
         UNCHANGED <<told, clientVars, request, mark>>
  PROVE  NetInv'
<1> USE NetAssumption DEF NetInv, Close, Freed, clientVars
<1>1. NetTypeOK'
  <2>1. \A c \in Conn : (await[c] /\ c \notin C) \in BOOLEAN
    OBVIOUS
  <2>2. await' \in [Conn -> BOOLEAN]
    BY <2>1
  <2>3. reply' \in [Conn -> Replies] /\ slot' \in [Slot -> Conn \cup {None}]
        /\ sock' \in [Conn -> {"queued", "open", "closed"}]
    BY NoMessageType DEF NetTypeOK
  <2>4. queue' \in Seq(Conn)
    BY EmptyQueue DEF NetTypeOK
  <2> QED BY <2>2, <2>3, <2>4 DEF NetTypeOK
<1>2. SocketsKept'
  <2>1. \A d \in Conn : sock'[d] = "open" <=> \E s \in Slot : slot'[s] = d
    BY DEF SocketsKept, NetTypeOK
  <2>2. \A s, t \in Slot : slot'[s] = slot'[t] /\ slot'[s] # None => s = t
    BY DEF SocketsKept
  <2>3. /\ \A i, j \in DOMAIN queue' : queue'[i] = queue'[j] => i = j
        /\ \A i \in DOMAIN queue' : sock'[queue'[i]] = "queued"
    BY DEF SocketsKept, NetTypeOK
  <2> QED BY <2>1, <2>2, <2>3 DEF SocketsKept
<1>3. Talk'
  BY DEF Talk, Conversation, Heard, NetTypeOK
<1> QED BY <1>1, <1>2, <1>3

LEMMA DisconnectKeeps ==
  ASSUME NetInv, NEW s \in Slot, Disconnect(s) \/ ReceiveFails(s)
  PROVE  NetInv'
<1>1. slot[s] \in Conn /\ sock[slot[s]] = "open"
  BY DEF Disconnect, ReceiveFails, NetInv, NetTypeOK, SocketsKept
<1>2. \A i \in DOMAIN queue : queue[i] \notin {slot[s]}
  BY <1>1 DEF NetInv, SocketsKept
<1>3. listening' \in BOOLEAN
  BY DEF Disconnect, ReceiveFails, NetInv, NetTypeOK
<1> QED BY <1>1, <1>2, <1>3, CloseKeeps DEF Disconnect, ReceiveFails

LEMMA ServerDestroyKeeps ==
  ASSUME NetInv, ServerDestroy
  PROVE  NetInv'
<1>1. Destroyed \in SUBSET Conn
  BY DEF Destroyed, Occupied, Queued, NetInv, NetTypeOK
<1> QED BY <1>1, CloseKeeps DEF ServerDestroy

-----------------------------------------------------------------------------
LEMMA NextKeeps == NetInv /\ [NetNext]_netVars => NetInv'
<1> SUFFICES ASSUME NetInv, [NetNext]_netVars PROVE NetInv'
  OBVIOUS
<1>1. ASSUME NEW c \in Conn,
             ClientCreate(c) \/ Shutdown(c) \/ ClientStep(c)
      PROVE  NetInv'
  BY <1>1, ClientCreateKeeps, ShutdownKeeps, TestLoopKeeps, RecvFailsKeeps,
     ServeKeeps, ReturnKeeps DEF ClientStep
<1>2. ASSUME NEW s \in Slot,
             \/ Accept(s) \/ Receive(s) \/ Disconnect(s) \/ ReceiveFails(s)
             \/ \E ctrl \in Ctrl : Send(s, ctrl)
      PROVE  NetInv'
  BY <1>2, AcceptKeeps, ReceiveKeeps, DisconnectKeeps, SendKeeps
<1>3. CASE UNCHANGED netVars
  BY <1>3 DEF NetInv, NetTypeOK, SocketsKept, Talk, Conversation, Heard,
              netVars, serverVars, clientVars, lineVars
<1> QED
  BY <1>1, <1>2, <1>3, ServerCreateKeeps, ServerDestroyKeeps DEF NetNext

LEMMA Inductive == NetSpec => []NetInv
  BY InitKeeps, NextKeeps, PTL DEF NetSpec

\* Types of the server's and the clients' state.
THEOREM NetTypeCorrect == NetSpec => []NetTypeOK
<1>1. NetInv => NetTypeOK
  BY DEF NetInv
<1> QED BY <1>1, Inductive, PTL

\* However swicc_net_server_client_connect, _disconnect and
\* swicc_net_server_destroy follow each other: a socket is open as long as
\* one slot has it, and then that slot only.
THEOREM SocketsAlwaysKept == NetSpec => []SocketsKept
<1>1. NetInv => SocketsKept
  BY DEF NetInv
<1> QED BY <1>1, Inductive, PTL

\* The reply on its way to the server is to its last request (message_io).
THEOREM RepliesAlwaysMatch == NetSpec => []ReplyMatches
<1>1. NetInv => ReplyMatches
  BY DEF NetInv, Talk, Conversation, ReplyMatches
<1> QED BY <1>1, Inductive, PTL

\* Between two requests, buf_len_exp of the last reply is what the card of
\* swicc_net_client wants.
THEOREM ToldIsAlwaysCurrent == NetSpec => []ToldIsCurrent
<1>1. NetInv => ToldIsCurrent
  BY DEF NetInv, Talk, Conversation, ToldIsCurrent
<1> QED BY <1>1, Inductive, PTL

\* swicc_net_client returns SWICC_RET_ERROR only if no reply was received.
THEOREM ErrorAlwaysUnheard == NetSpec => []ErrorMeansUnheard
<1>1. NetInv => ErrorMeansUnheard
  BY DEF NetInv, NetTypeOK, Talk, Heard, ErrorMeansUnheard
<1> QED BY <1>1, Inductive, PTL
=============================================================================
