--------------------------- MODULE ResponseChain ---------------------------
(***************************************************************************)
(* Response chaining: how swicc_apduh_demux and the handlers of            *)
(* src/apduh.c use the RC buffer.  A command may leave a response in the   *)
(* buffer and announce its length in the status 61xx; GET RESPONSE fetches *)
(* it in parts.                                                            *)
(*                                                                         *)
(* A command is a header followed by rounds of ACK and data (CardFsm), and *)
(* its handler runs once per round with the number of ACKs sent so far, so *)
(* the interface may lose a command between two runs of its handler.  What *)
(* the handlers look up in the file system is left open: here it only      *)
(* matters whether they answer with an error, a status, or a response.     *)
(***************************************************************************)
EXTENDS ApduRc, FiniteSets

CONSTANTS
  Classes,   \* classes of the commands an interface sends
  P3Max,     \* UINT8_MAX: the largest P3, and the most 61xx can announce
  Pro,       \* a handler for the proprietary class is registered
  Overrides  \* interindustry instructions which it handles, too

ASSUME ChainAssumption ==
  /\ Classes \subseteq {"interindustry", "proprietary", "rfu"}
  /\ P3Max \in Nat \ {0} /\ P3Max <= DataMax
  /\ Pro \in BOOLEAN
  /\ Overrides \subseteq {"SELECT", "GET_RESPONSE", "OTHER"}
  /\ << >> \notin Chunks

Instructions == {"SELECT", "GET_RESPONSE", "OTHER"}

\* p1p2 tells whether P1 and P2 are those the instruction takes.
Command ==
  [cla : Classes, ins : Instructions, p1p2 : BOOLEAN, p3 : 0..P3Max]

NoCommand == [ins |-> "none"]

\* What a handler answers: a procedure byte, or a status with SW2 where it
\* carries a length (0 elsewhere).
Answers == {"none", "ACK", "9000", "61", "6282", "6701", "6702", "6A86",
            "6D00", "6E00", "error"}

VARIABLES
  cmd,        \* the command under execution
  count,      \* procedure_count
  data_len,   \* bytes of command data received
  sw,         \* what the last run of a handler answered
  sw2,        \* the length it announced
  chain,      \* history: bytes enqueued since the buffer was last reset
  received,   \* history: those of them the interface has received
  stale,      \* history: class of a command that ran after that, if any
  fetches     \* the interface fetches what it is told of, and never resets

cmdVars   == <<cmd, count, data_len>>
histVars  == <<chain, received, stale>>
chainVars == <<rcVars, cmdVars, sw, sw2, histVars, fetches>>

IsChaining(c) == c.ins = "GET_RESPONSE" /\ c.cla = "interindustry"

-----------------------------------------------------------------------------
(* Answers.                                                                *)

\* The handler wants n bytes of data (none is a legal number).
Ack(n) ==
  /\ sw' = "ACK" /\ sw2' = n
  /\ count' = count + 1
  /\ UNCHANGED <<cmd, data_len>>

\* The command is over.
Status(s, n) ==
  /\ sw' = s /\ sw2' = n
  /\ cmd' = NoCommand /\ count' = 0 /\ data_len' = 0

\* What 61xx can say of n bytes.
AnnounceAll(n) == n
Announce(n)    == IF n > P3Max THEN P3Max ELSE n

\* The buffer is left as q, and what that makes of its history.
Leave(q) ==
  /\ rc' = q /\ out' = << >>
  /\ IF q = RcEmpty THEN chain' = << >> /\ received' = << >> /\ stale' = "no"
                    ELSE UNCHANGED histVars

\* A response is enqueued behind what q holds.
Respond(q, buf) ==
  /\ rc' = Enq(q, buf) /\ out' = << >>
  /\ chain' = IF q = RcEmpty THEN buf ELSE chain \o buf
  /\ received' = IF q = RcEmpty THEN << >> ELSE received
  /\ stale' = "no"

-----------------------------------------------------------------------------
(* The handlers, on the buffer q that the demultiplexer leaves them.       *)

\* apduh_res_get: run once for the procedure byte, once more for the answer.
GetResponse(q) ==
  \/ count = 0 /\ Ack(0) /\ Leave(q)
  \/ count > 0 /\ data_len # 0 /\ Status("6701", 0) /\ Leave(q)
  \/ count > 0 /\ data_len = 0 /\ ~cmd.p1p2 /\ Status("6A86", 0) /\ Leave(q)
  \/ /\ count > 0 /\ data_len = 0 /\ cmd.p1p2 /\ cmd.p3 = 0
     /\ Status("9000", 0) /\ Leave(q)
  \/ /\ count > 0 /\ data_len = 0 /\ cmd.p1p2 /\ cmd.p3 > 0
     /\ DeqFits(q, cmd.p3)
     /\ rc' = Deq(q, cmd.p3) /\ out' = DeqBytes(q, cmd.p3)
     /\ received' = received \o out'
     /\ LET rem == RcLenRem(rc')
        IN IF rem > 0 THEN Status("61", Announce(rem)) ELSE Status("9000", 0)
     /\ UNCHANGED <<chain, stale>>
  \/ /\ count > 0 /\ data_len = 0 /\ cmd.p1p2 /\ cmd.p3 > 0
     /\ ~DeqFits(q, cmd.p3)
     /\ Status("6282", 0) /\ Leave(q)

\* apduh_select: with command data it is run a second time.  (Data before
\* the first ACK cannot be: DataFollowsAck of CardFsm.)
Select(q) ==
  \/ ~cmd.p1p2 /\ Status("6A86", 0) /\ Leave(q)
  \/ cmd.p1p2 /\ count = 0 /\ cmd.p3 > 0 /\ Ack(cmd.p3) /\ Leave(q)
  \/ /\ cmd.p1p2 /\ count >= 1 /\ data_len # cmd.p3
     /\ Status("6702", 0) /\ Leave(q)
  \/ /\ cmd.p1p2 /\ (IF count = 0 THEN cmd.p3 = 0 ELSE data_len = cmd.p3)
     /\ \/ \E s \in {"error", "9000"} : Status(s, 0) /\ Leave(q)
        \/ \E buf \in Chunks :
             /\ Len(buf) <= P3Max /\ EnqFits(q, buf)
             /\ Status("61", Len(buf)) /\ Respond(q, buf)

\* READ BINARY, READ RECORD and UPDATE RECORD answer with their data, if
\* any, next to the status; an unknown instruction with 6D00.
Other(q) ==
  \/ count = 0 /\ (\E n \in {0, cmd.p3} : Ack(n)) /\ Leave(q)
  \/ (\E s \in {"9000", "error", "6D00"} : Status(s, 0)) /\ Leave(q)

\* A registered proprietary handler is the user's code: it may ask for data,
\* refuse the command or answer it, and may reset the buffer and enqueue a
\* response.
Proprietary(q) ==
  \/ count = 0 /\ Ack(cmd.p3) /\ Leave(q)
  \/ \E s \in {"9000", "6D00", "error"}, r \in {q, RcEmpty} :
       Status(s, 0) /\ Leave(r)
  \/ \E r \in {q, RcEmpty}, buf \in Chunks :
       /\ EnqFits(r, buf)
       /\ Status("61", Announce(RcLenRem(Enq(r, buf)))) /\ Respond(r, buf)

\* Every interindustry command but GET RESPONSE finds the buffer empty.
ResetsChainAlways(c) == c.cla = "interindustry"
ResetsChainNever(c)  == FALSE
ResetsChain(c)       == c.cla = "interindustry" /\ c.ins # "GET_RESPONSE"

\* A card that is fetched from answers GET RESPONSE itself.
Overridden ==
  cmd.ins \in Overrides /\ (cmd.ins = "GET_RESPONSE" => ~fetches)

\* swicc_apduh_demux, called for a complete header and after each data.  A
\* proprietary handler comes first for interindustry commands as well, and
\* those it leaves unhandled fall to the handlers above.
RunHandler ==
  /\ cmd # NoCommand /\ sw = "none"
  /\ UNCHANGED fetches
  /\ LET q == IF ResetsChain(cmd) THEN RcEmpty ELSE rc
     IN CASE cmd.cla = "interindustry" ->
               \/ Pro /\ Overridden /\ Proprietary(q)
               \/ cmd.ins = "GET_RESPONSE" /\ GetResponse(q)
               \/ cmd.ins = "SELECT" /\ Select(q)
               \/ cmd.ins = "OTHER" /\ Other(q)
          [] cmd.cla = "rfu"           -> Status("6E00", 0) /\ Leave(q)
          [] cmd.cla = "proprietary"   ->
               IF Pro THEN Proprietary(q) ELSE Status("6D00", 0) /\ Leave(q)

-----------------------------------------------------------------------------
(* The interface.                                                          *)

\* A header arrives.  A command that is not part of the chaining makes what
\* an earlier one left in the buffer stale.
StartCommand(c) ==
  /\ cmd = NoCommand
  /\ cmd' = c /\ sw' = "none" /\ sw2' = 0
  /\ stale' = IF IsChaining(c) \/ chain = << >> THEN stale ELSE c.cla
  /\ out' = << >>
  /\ UNCHANGED <<rc, count, data_len, chain, received, fetches>>

\* Data arrives, "the actual number of bytes read is not guaranteed and can
\* be less or more than requested".
ReceiveData(n) ==
  /\ sw = "ACK" /\ data_len + n <= DataMax
  /\ data_len' = data_len + n /\ sw' = "none" /\ sw2' = 0
  /\ out' = << >>
  /\ UNCHANGED <<rc, cmd, count, histVars, fetches>>

\* An interface that fetches sends this after 61xx, and no other command.
FetchCommand(n) ==
  [cla |-> "interindustry", ins |-> "GET_RESPONSE", p1p2 |-> TRUE, p3 |-> n]

SendCommand ==
  \E c \in Command :
    /\ fetches /\ sw = "61" => c = FetchCommand(sw2)
    /\ StartCommand(c)

\* ... and exactly the data it is asked for.
SendData == \E n \in {0, 1, sw2} : (fetches => n = sw2) /\ ReceiveData(n)

\* swicc_reset, in the middle of whatever was going on.
CardReset ==
  /\ ~fetches
  /\ rc' = RcEmpty /\ out' = << >>
  /\ cmd' = NoCommand /\ count' = 0 /\ data_len' = 0
  /\ sw' = "none" /\ sw2' = 0
  /\ chain' = << >> /\ received' = << >> /\ stale' = "no"
  /\ UNCHANGED fetches

ChainInit ==
  /\ RcInit
  /\ cmd = NoCommand /\ count = 0 /\ data_len = 0 /\ sw = "none" /\ sw2 = 0
  /\ chain = << >> /\ received = << >> /\ stale = "no"
  /\ fetches \in BOOLEAN

ChainNext == SendCommand \/ SendData \/ RunHandler \/ CardReset

\* Only the interface that fetches goes on once it has been told of more.
Fairness ==
  /\ WF_chainVars(fetches /\ sw = "61" /\ SendCommand)
  /\ WF_chainVars(fetches /\ SendData)
  /\ WF_chainVars(RunHandler)

ChainSpec == ChainInit /\ [][ChainNext]_chainVars /\ Fairness

-----------------------------------------------------------------------------
(***************************************************************************)
(* What GET RESPONSE has given the interface and what the buffer still     *)
(* holds make up what was enqueued, in order: nothing is lost, repeated or *)
(* mixed up by partial reads, refused requests or commands in between.     *)
(***************************************************************************)
ReceivedInOrder == received \o Pending = chain

(***************************************************************************)
(* An announcement can be relied upon: after 61xx a GET RESPONSE for xx    *)
(* bytes is served (swicc_apdu_rc_deq is all or nothing), also when more   *)
(* is left than SW2 can say.                                               *)
(***************************************************************************)
AnnouncedIsThere == sw = "61" => sw2 \in 1..P3Max /\ sw2 <= RcLenRem(rc)

(***************************************************************************)
(* 9000 with data is sent only when nothing of the response is left.       *)
(***************************************************************************)
DoneMeansAll ==
  [][out' # << >> /\ sw' = "9000" => received' = chain]_chainVars

(***************************************************************************)
(* "Make GET RESPONSE deterministically not work if resumed": once another *)
(* interindustry command has come in between, nothing of the old response  *)
(* is given out.  (After commands of a proprietary or RFU class alone the  *)
(* code does resume.)                                                      *)
(***************************************************************************)
InterruptedNeverResumes ==
  [][stale = "interindustry" => out' = << >>]_chainVars

(***************************************************************************)
(* An interface that fetches what is announced gets the whole response,    *)
(* also one that is longer than a single 61xx can say (apduh_res_get).     *)
(***************************************************************************)
FetchCompletes ==
  fetches /\ sw = "61" ~> received = chain /\ Pending = << >>
=============================================================================
