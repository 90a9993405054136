----------------------------- MODULE T0Session -----------------------------
(***************************************************************************)
(* The card of CardFsm driven by a well-behaved interface, as the mock of  *)
(* src/mock.c and the network client of src/net.c drive it: the card is    *)
(* reset before it is powered (swicc_mock_reset_cold), contacts are raised *)
(* in the order of that function, and once they are ready the interface    *)
(* hands over the bytes the card asked for, in pieces it chooses.          *)
(*                                                                         *)
(* The interface keeps its own view of the conversation (ifd).  It marks   *)
(* each header byte with its position and with the command it belongs to,  *)
(* so that the card's view can be compared with it.                        *)
(***************************************************************************)
EXTENDS CardFsm

CONSTANTS
  PpsByte,           \* any byte of a PPS request after the first
  DataByte,          \* any byte of command data
  HandlerAcks,       \* ACKs a handler sends for one command, at most
  ResetBeforePower   \* the driver resets the card before powering it

\* The i-th header byte of the current (c) or of the previous (~c) command.
HeaderByte(c, i) == <<c, i>>

ASSUME SessionAssumption ==
  /\ \A c \in BOOLEAN, i \in 1..HdrLen : HeaderByte(c, i) \in Byte \ {PPSS}
  /\ PpsByte \in Byte /\ DataByte \in Byte
  /\ HandlerAcks \in Nat
  /\ ResetBeforePower \in BOOLEAN

\* The drivers have room for an ATR and a PPS response, and of the handlers
\* in the repository none sends NULL, or more ACKs than the card admits.
ASSUME DriverAssumption ==
  /\ \A cap \in TxSizes : cap >= AtrLen /\ cap >= PpsLenMax
  /\ \A res \in Results : res.sw1 # "NULL"
  /\ HandlerAcks <= MaxAcks

VARIABLES
  ifd,        \* what the interface is doing
  cmd,        \* mark of the command it is sending
  hdr_sent,   \* header bytes of that command sent so far
  fresh       \* the card was reset and not powered since

ifdVars == <<ifd, cmd, hdr_sent, fresh>>
svars   == <<vars, ifdVars>>

SessionInit ==
  /\ Init
  /\ ifd = "off" /\ cmd = FALSE /\ hdr_sent = 0 /\ fresh = TRUE

-----------------------------------------------------------------------------
(* Contacts.                                                               *)

\* The order in which swicc_mock_reset_cold raises the contacts.
Raised(cont) ==
  CASE cont = {}                      -> ValidAll
    [] cont = ValidAll                -> ContPowered
    [] cont = ContPowered             -> ContPowered \cup {"IO"}
    [] cont = ContPowered \cup {"IO"} -> ContClocked
    [] OTHER                          -> ContReady

\* A call with the contacts raised by one step, or as they were.
RaiseContacts ==
  /\ cont_state_rx # ContReady
  /\ \E cont \in {cont_state_rx, Raised(cont_state_rx)} :
       /\ cont = ContPowered /\ ResetBeforePower =>
            fresh \/ cont_state_rx = ContPowered
       /\ Io(cont, {<< >>}, TxSizes, Results)
       /\ fresh' = (fresh /\ cont \in {{}, ValidAll})
  /\ UNCHANGED <<ifd, cmd, hdr_sent>>

\* The conversation is over, whatever stage it was in.
HangUp == ifd' = "off" /\ cmd' = ~cmd /\ hdr_sent' = 0

PowerOff ==
  /\ cont_state_rx \notin {{}, ValidAll}
  /\ Io(ValidAll, {<< >>}, TxSizes, Results)
  /\ HangUp
  /\ fresh' = FALSE

\* The first two statements of swicc_mock_reset_cold.
ColdReset ==
  /\ Reset
  /\ cont_state_rx' = ValidAll
  /\ HangUp
  /\ fresh' = TRUE

-----------------------------------------------------------------------------
(* Bytes.                                                                  *)

\* At least one and at most n bytes when n are wanted, none otherwise.
Pieces(n) == IF n = 0 THEN {0} ELSE 1..n

Repeat(b, n) == [i \in 1..n |-> b]

\* The next n bytes of the header being sent.
HeaderPart(n) == [i \in 1..n |-> HeaderByte(cmd, hdr_sent + i)]

\* Handlers ask for no more data than a command can hold, and for no more
\* rounds than HandlerAcks.
HandlerMay ==
  {res \in Results :
     res.sw1 = "ACK" =>
       res.len <= DataMax - data_len /\ procedure_count < HandlerAcks}

Deliver(rx) == Io(ContReady, {rx}, TxSizes, HandlerMay)

AwaitAtr ==
  /\ ifd = "off"
  /\ Deliver(<< >>)
  /\ ifd' = IF buf_tx' = "atr" THEN "protocol" ELSE "off"
  /\ UNCHANGED <<cmd, hdr_sent>>

StartPps ==
  /\ ifd = "protocol"
  /\ Deliver(<<PPSS>>)
  /\ ifd' = "pps"
  /\ UNCHANGED <<cmd, hdr_sent>>

StartHeader ==
  /\ ifd = "protocol"
  /\ Deliver(HeaderPart(1))
  /\ ifd' = "header" /\ hdr_sent' = 1
  /\ UNCHANGED cmd

\* The exchange has succeeded when the response repeats the request; when a
\* complete request is refused or not answered, the interface starts again.
ContinuePps ==
  /\ ifd = "pps"
  /\ \E n \in Pieces(buf_rx_len) : Deliver(Repeat(PpsByte, n))
  /\ ifd' = CASE pps_exp' = 0 \/ pps_len' < pps_exp'       -> "pps"
              [] buf_tx' = "pps" /\ buf_tx_len' = pps_len' -> "header"
              [] OTHER                                     -> "protocol"
  /\ UNCHANGED <<cmd, hdr_sent>>

SendHeader ==
  /\ ifd = "header"
  /\ \E n \in Pieces(buf_rx_len) :
       /\ Deliver(HeaderPart(n))
       /\ hdr_sent' = hdr_sent + n
       /\ ifd' = IF hdr_sent + n = HdrLen THEN "procedure" ELSE "header"
  /\ UNCHANGED cmd

\* After the header the interface does as the procedure bytes say: it sends
\* data when asked, and takes a status for the end of the command.
ServeProcedure ==
  /\ ifd = "procedure"
  /\ \E n \in Pieces(buf_rx_len) : Deliver(Repeat(DataByte, n))
  /\ IF buf_tx' = "status"
       THEN ifd' = "header" /\ cmd' = ~cmd /\ hdr_sent' = 0
       ELSE UNCHANGED <<ifd, cmd, hdr_sent>>

Exchange ==
  /\ cont_state_rx = ContReady
  /\ UNCHANGED fresh
  /\ \/ AwaitAtr
     \/ StartPps
     \/ StartHeader
     \/ ContinuePps
     \/ SendHeader
     \/ ServeProcedure

SessionNext == RaiseContacts \/ PowerOff \/ ColdReset \/ Exchange

SessionSpec == SessionInit /\ [][SessionNext]_svars

\* The interface goes on with a conversation it has begun (the loop of
\* swicc_net_client answers every message it receives).
FairSessionSpec == SessionSpec /\ WF_svars(Exchange)

-----------------------------------------------------------------------------
SessionTypeOK ==
  /\ TypeOK
  /\ ifd \in {"off", "protocol", "pps", "header", "procedure"}
  /\ cmd \in BOOLEAN
  /\ hdr_sent \in 0..HdrLen
  /\ fresh \in BOOLEAN

(***************************************************************************)
(* Card and interface agree on whose turn it is and on what is being sent: *)
(* neither ever takes data bytes for header bytes or a PPS for a command,  *)
(* although the card derives its state from byte counts alone.             *)
(***************************************************************************)
TurnsAgree ==
  cont_state_rx = ContReady =>
    CASE ifd = "off"       -> fsm_state = "ATR_REQ"
      [] ifd = "protocol"  -> fsm_state = "ATR_RES"
      [] ifd = "pps"       -> fsm_state = "PPS_REQ"
      [] ifd = "header"    -> fsm_state = "CMD_WAIT"
      [] ifd = "procedure" -> fsm_state \in {"CMD_PROCEDURE", "CMD_DATA"}

(***************************************************************************)
(* A header is made of the five bytes of one command in their order, never *)
(* of a previous command's, however it was cut into pieces and whether the *)
(* first byte came through fsm_handle_s_atr_res or fsm_handle_s_cmd_wait.  *)
(***************************************************************************)
HeaderIntact ==
  /\ fsm_state \in {"CMD_PROCEDURE", "CMD_DATA"} =>
       tpdu_hdr = [i \in 1..HdrLen |-> HeaderByte(cmd, i)]
  /\ fsm_state = "CMD_WAIT" /\ ~tpdu_processed =>
       tpdu_hdr = [i \in 1..hdr_sent |-> HeaderByte(cmd, i)]

(***************************************************************************)
(* What the card asks for, it can take: delivering exactly buf_rx_len      *)
(* bytes never overruns the PPS, header or data buffer, so it is never     *)
(* answered by discarding them or by switching off.                        *)
(***************************************************************************)
RequestFits ==
  /\ fsm_state = "PPS_REQ"  =>
       pps_len + buf_rx_len <= IF pps_exp = 0 THEN 2 ELSE pps_exp
  /\ fsm_state = "CMD_WAIT" =>
       buf_rx_len + (IF tpdu_processed THEN 0 ELSE Len(tpdu_hdr)) <= HdrLen
  /\ fsm_state = "CMD_DATA" => data_len + buf_rx_len <= DataMax

(***************************************************************************)
(* tpdu_processed tells a new command from one under way: a handler that   *)
(* is called for the first time finds no data and no ACKs of an earlier    *)
(* command, and is called again only after data (apduh.c starts every      *)
(* handler with a test of procedure_count).                                *)
(***************************************************************************)
HandlerStartsClean ==
  fsm_state = "CMD_PROCEDURE" =>
    /\ procedure_count = 0 <=> ~tpdu_processed
    /\ procedure_count = 0 => data_len = 0

\* Every command whose header was sent gets its status, unless the
\* interface hangs up first.
EveryCommandEnds == ifd = "procedure" ~> ifd # "procedure"

(***************************************************************************)
(* The card implements the promise of T0Card, in particular that a command *)
(* ends with a status: "If we don't send anything back, the PCSC           *)
(* transaction will break due to an incomplete command."                   *)
(***************************************************************************)
Phase ==
  CASE fsm_state \in {"ATR_RES", "PPS_REQ"} -> "protocol"
    [] fsm_state = "CMD_WAIT"               -> "idle"
    [] fsm_state = "CMD_PROCEDURE"          -> "executing"
    [] fsm_state = "CMD_DATA"               -> "receiving"
    [] OTHER                                -> "inactive"

Acks == IF Phase \in {"executing", "receiving"} THEN procedure_count ELSE 0

Promise == INSTANCE T0Card WITH phase <- Phase, acks <- Acks, out <- buf_tx

KeepsPromise == Promise!Spec
=============================================================================
