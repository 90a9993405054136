------------------------------ MODULE CardFsm ------------------------------
(***************************************************************************)
(* The card's state machine: swicc_fsm (src/fsm.c), one step per call of   *)
(* swicc_io (src/io.c), and swicc_reset (src/common.c).                    *)
(*                                                                         *)
(* A caller (an interface driver) writes the contact state, the received   *)
(* bytes and the size of the TX buffer into the card, calls swicc_io, and  *)
(* reads back how many bytes the card wants next (buf_rx_len) and what it  *)
(* transmits (buf_tx, buf_tx_len).  The call runs exactly one handler, the *)
(* one of the current state, to completion, so every handler is one        *)
(* action.  Byte values matter only where the code looks at them: PPSS     *)
(* starts a parameter exchange, the header bytes are kept to tell which    *)
(* bytes a header was made of, and data bytes are only counted.            *)
(***************************************************************************)
EXTENDS Naturals, Sequences

CONSTANTS
  Byte,        \* bytes an interface may send
  PPSS,        \* the byte 0xFF, which opens a PPS request
  DataMax,     \* SWICC_DATA_MAX, the capacity of a command's data field
  MaxAcks,     \* sizeof(uint32_t), the ACKs a command may get
  AtrLen,      \* SWICC_ATR_LEN, the length of the Answer-to-Reset
  ContStates,  \* contact states the driver may present
  RxChunks,    \* byte strings the driver may hand over in one call
  TxSizes,     \* sizes of the TX buffer the driver may offer
  Results      \* answers an APDU handler may produce, see Result

ContBits == {"VCC", "RST", "CLK", "SPU", "IO", "VALID_VCC", "VALID_RST",
             "VALID_CLK", "VALID_SPU", "VALID_IO"}
ValidAll == {"VALID_VCC", "VALID_RST", "VALID_CLK", "VALID_SPU", "VALID_IO"}

\* What each phase of the activation sequence looks like on the contacts.
ContPowered == {"VCC"} \cup ValidAll
ContClocked == {"VCC", "IO", "CLK"} \cup ValidAll
ContReady   == {"VCC", "RST", "IO", "CLK"} \cup ValidAll

PpsLenMax == 6   \* SWICC_PPS_LEN_MAX: PPSS PPS0 PPS1 PPS2 PPS3 PCK
HdrLen    == 5   \* CLA INS P1 P2 P3

(***************************************************************************)
(* What swicc_apduh_demux leaves in apdu_res: the class of SW1 and the     *)
(* data length.  "MALFORMED" is a status with an SW2 its SW1 does not      *)
(* admit.  With an ACK, len is the number of bytes asked for.              *)
(***************************************************************************)
Result == [sw1 : {"ACK", "NULL", "STATUS", "MALFORMED"}, len : 0..DataMax]

States == {"OFF", "ACTIVATION", "RESET_COLD", "ATR_REQ", "ATR_RES",
           "PPS_REQ", "CMD_WAIT", "CMD_PROCEDURE", "CMD_DATA"}

\* The transmission parameters: untouched since the reset, the default ones,
\* or those of a PPS1.
TpClass == {"zero", "default", "negotiated"}

ASSUME CardAssumption ==
  /\ PPSS \in Byte
  /\ DataMax \in Nat /\ AtrLen \in Nat /\ MaxAcks \in Nat
  /\ ContStates \subseteq SUBSET ContBits
  /\ RxChunks \subseteq Seq(Byte)
  /\ TxSizes \subseteq Nat
  /\ Results \subseteq Result

VARIABLES
  cont_state_rx,    \* contacts as the driver last presented them
  cont_state_tx,    \* contacts the card asks for
  buf_rx_len,       \* bytes the card wants next
  buf_tx,           \* kind of message transmitted by the last call
  buf_tx_len,       \* its length
  fsm_state,
  pps_len,          \* bytes of the PPS request held
  pps_exp,          \* its full length, 0 until PPS0 is held
  tp,
  tpdu_hdr,         \* tpdu_hdr[0 .. tpdu_hdr_len)
  tpdu_processed,
  procedure_count,
  apdu_bound,       \* apdu_cur points into tpdu_cur
  data_len          \* tpdu_cur.data.len

ioVars  == <<cont_state_rx, buf_rx_len, buf_tx, buf_tx_len>>
ppsVars == <<pps_len, pps_exp, tp>>
cmdVars == <<tpdu_hdr, tpdu_processed, procedure_count, apdu_bound, data_len>>
vars    == <<ioVars, cont_state_tx, fsm_state, ppsVars, cmdVars>>

-----------------------------------------------------------------------------
(* Outputs of a call and transitions.                                      *)

Ask(n)          == buf_rx_len' = n
Send(kind, len) == buf_tx' = kind /\ buf_tx_len' = len
Quiet           == Send("none", 0)
Goto(state)     == fsm_state' = state

\* The common failure exit of the handlers.
TurnOff == Goto("OFF") /\ Quiet /\ Ask(0)

Ready(cont) == cont = ContReady

-----------------------------------------------------------------------------
(* The tests and updates the handlers are made of.  Each is preceded by    *)
(* the forms a slip of the pen would give it.                              *)

\* The I/O contact is requested high, and the request is flagged as valid.
RequestIo == cont_state_tx' = cont_state_tx \cup {"IO", "VALID_IO"}

\* The PPS buffer takes len bytes.
PpsFitsOver(len)  == len <= PpsLenMax + 1
PpsFits(len)      == len <= PpsLenMax

\* The header bytes kept from earlier calls: none once the command they
\* belong to is processed.
HeldUncleared == tpdu_hdr
Held          == IF tpdu_processed THEN << >> ELSE tpdu_hdr

CountUncleared == procedure_count
CountHeld      == IF tpdu_processed THEN 0 ELSE procedure_count

\* Bytes still missing from a header.
MissingAll(hdr) == HdrLen
Missing(hdr)    == HdrLen - Len(hdr)

\* CLA INS P1 P2 alone make the header of an APDU, P3 completes a TPDU's.
HeaderAsApdu(hdr)   == Len(hdr) \in {HdrLen - 1, HdrLen}
HeaderComplete(hdr) == Len(hdr) = HdrLen

\* One more ACK may be sent, and is counted.
AckAllowedUnder == procedure_count + 1 < MaxAcks
AckAllowed      == procedure_count + 1 <= MaxAcks
CountAckNot     == UNCHANGED procedure_count
CountAck        == procedure_count' = procedure_count + 1

\* The data buffer takes n more bytes.
DataFitsUnder(n) == data_len + n < DataMax
DataFits(n)      == data_len + n <= DataMax

-----------------------------------------------------------------------------
(* The handlers, one per state.                                            *)

FsmOff(cont) ==
  /\ fsm_state = "OFF"
  /\ Goto(IF cont = ContPowered THEN "ACTIVATION" ELSE "OFF")
  /\ Quiet /\ Ask(0)
  /\ UNCHANGED <<cont_state_tx, ppsVars, cmdVars>>

\* The test for VCC is a mask: any of the two bits keeps the card here.
FsmActivation(cont) ==
  /\ fsm_state = "ACTIVATION"
  /\ \/ cont = ContClocked /\ Goto("RESET_COLD")
     \/ /\ cont # ContClocked
        /\ cont \cap {"VCC", "VALID_VCC"} # {}
        /\ Goto("ACTIVATION")
     \/ cont \cap {"VCC", "VALID_VCC"} = {} /\ Goto("OFF")
  /\ Quiet /\ Ask(0)
  /\ UNCHANGED <<cont_state_tx, ppsVars, cmdVars>>

FsmResetCold(cont) ==
  /\ fsm_state = "RESET_COLD"
  /\ \/ /\ Ready(cont)
        /\ RequestIo
        /\ Goto("ATR_REQ")
     \/ /\ cont = ContReady \ {"RST"}
        /\ Goto("RESET_COLD")
        /\ UNCHANGED cont_state_tx
     \/ /\ cont \notin {ContReady, ContReady \ {"RST"}}
        /\ Goto("OFF")
        /\ UNCHANGED cont_state_tx
  /\ Quiet /\ Ask(0)
  /\ UNCHANGED <<ppsVars, cmdVars>>

FsmAtrReq(cont, cap) ==
  /\ fsm_state = "ATR_REQ"
  /\ \/ /\ Ready(cont) /\ cap >= AtrLen
        /\ Goto("ATR_RES") /\ Send("atr", AtrLen) /\ Ask(1)
     \/ /\ ~Ready(cont) \/ cap < AtrLen
        /\ TurnOff
  /\ UNCHANGED <<cont_state_tx, ppsVars, cmdVars>>

FsmAtrRes(cont, rx) ==
  /\ fsm_state = "ATR_RES"
  /\ UNCHANGED <<cont_state_tx, tp, tpdu_processed, procedure_count,
                 apdu_bound, data_len>>
  /\ \/ /\ Ready(cont) /\ Len(rx) = 1 /\ rx[1] = PPSS
        /\ pps_len' = 1 /\ pps_exp' = 0
        /\ Goto("PPS_REQ") /\ Quiet /\ Ask(0)
        /\ UNCHANGED tpdu_hdr
     \/ /\ Ready(cont) /\ Len(rx) = 1 /\ rx[1] # PPSS
        /\ tpdu_hdr' = rx
        /\ Goto("CMD_WAIT") /\ Quiet /\ Ask(0)
        /\ UNCHANGED <<pps_len, pps_exp>>
     \/ /\ ~Ready(cont) \/ Len(rx) # 1
        /\ TurnOff
        /\ UNCHANGED <<pps_len, pps_exp, tpdu_hdr>>

(***************************************************************************)
(* swicc_pps on a request of len bytes whose PPS0 announces exp: what PPS1 *)
(* proposes decides the answer (module Pps has the bytes).  A PPS1 naming  *)
(* the default parameters is dropped from the response, and the exchange   *)
(* succeeds only when the response repeats the request.  The size check    *)
(* leaves out the check byte.  On success with a PPS1 that names reserved  *)
(* parameters, an assertion of swicc_etu ends the process: there is no     *)
(* next state.  len > exp is the branch the code declares unreachable; the *)
(* build falls into the handling of a complete request.                    *)
(***************************************************************************)
PpsInvalid ==
  /\ Goto("ATR_RES") /\ Quiet /\ Ask(1)
  /\ UNCHANGED <<tp, tpdu_processed>>

PpsValid(len, exp, cap) ==
  \E pps1 \in {"absent", "default", "supported"} :
    /\ IF pps1 = "absent" THEN exp < PpsLenMax ELSE exp > 3
    /\ LET res == IF pps1 = "default" THEN exp - 1 ELSE exp
       IN \/ /\ cap < res - 1                     \* SWICC_RET_BUFFER_TOO_SHORT
             /\ TurnOff
             /\ UNCHANGED <<tp, tpdu_processed>>
          \/ /\ cap >= res - 1 /\ res # len       \* SWICC_RET_PPS_FAILED
             /\ Goto("ATR_RES") /\ Send("pps", res) /\ Ask(1)
             /\ UNCHANGED <<tp, tpdu_processed>>
          \/ /\ cap >= res - 1 /\ res = len       \* SWICC_RET_SUCCESS
             /\ Goto("CMD_WAIT") /\ Send("pps", res) /\ Ask(0)
             /\ tp' = IF pps1 = "absent" THEN "default" ELSE "negotiated"
             /\ tpdu_processed' = FALSE

\* PPS0, once received, fixes the length (swicc_pps_len).
PpsExpected == IF pps_exp = 0 THEN 3..PpsLenMax ELSE {pps_exp}

FsmPpsReq(cont, rx, cap) ==
  LET len == pps_len + Len(rx)
  IN /\ fsm_state = "PPS_REQ"
     /\ UNCHANGED <<cont_state_tx, tpdu_hdr, procedure_count, apdu_bound,
                    data_len>>
     /\ \/ /\ ~Ready(cont) \/ ~PpsFits(len)
           /\ TurnOff
           /\ UNCHANGED <<ppsVars, tpdu_processed>>
        \/ /\ Ready(cont) /\ PpsFits(len) /\ len < 2
           /\ pps_len' = len
           /\ Goto("PPS_REQ") /\ Quiet /\ Ask(2 - len)
           /\ UNCHANGED <<pps_exp, tp, tpdu_processed>>
        \/ /\ Ready(cont) /\ PpsFits(len) /\ len >= 2
           /\ pps_len' = len
           /\ \E exp \in PpsExpected :
                /\ pps_exp' = exp
                /\ \/ /\ len < exp
                      /\ Goto("PPS_REQ") /\ Quiet /\ Ask(exp - len)
                      /\ UNCHANGED <<tp, tpdu_processed>>
                   \/ len >= exp /\ PpsInvalid
                   \/ len >= exp /\ PpsValid(len, exp, cap)

FsmCmdWait(cont, rx) ==
  LET hdr == Held \o rx
  IN /\ fsm_state = "CMD_WAIT"
     /\ UNCHANGED <<cont_state_tx, ppsVars>>
     /\ \/ ~Ready(cont) /\ TurnOff /\ UNCHANGED cmdVars
        \/ /\ Ready(cont) /\ Quiet
           /\ procedure_count' = CountHeld
           /\ \/ /\ Len(hdr) < HdrLen /\ ~HeaderComplete(hdr)
                 /\ tpdu_hdr' = hdr /\ tpdu_processed' = FALSE
                 /\ data_len' = IF tpdu_processed THEN 0 ELSE data_len
                 /\ Goto("CMD_WAIT") /\ Ask(Missing(hdr))
                 /\ UNCHANGED apdu_bound
              \/ /\ HeaderComplete(hdr)
                 /\ tpdu_hdr' = hdr /\ tpdu_processed' = FALSE
                 /\ data_len' = 0 /\ apdu_bound' = TRUE
                 /\ Goto("CMD_PROCEDURE") /\ Ask(0)
              \/ /\ Len(hdr) > HdrLen
                 /\ tpdu_hdr' = Held /\ tpdu_processed' = TRUE
                 /\ data_len' = IF tpdu_processed THEN 0 ELSE data_len
                 /\ Goto("CMD_WAIT") /\ Ask(HdrLen)
                 /\ UNCHANGED apdu_bound

\* swicc_apdu_res_deparse accepts the handler's answer.
Deparses(res, cap) ==
  /\ cap >= res.len + (IF res.sw1 \in {"ACK", "NULL"} THEN 1 ELSE 2)
  /\ res.sw1 = "NULL" => res.len = 0
  /\ res.sw1 # "MALFORMED"

\* The command is over; the next call clears what it left behind.
Finish == Goto("CMD_WAIT") /\ tpdu_processed' = TRUE

FsmCmdProcedure(cont, rx, cap, res) ==
  /\ fsm_state = "CMD_PROCEDURE"
  /\ UNCHANGED <<cont_state_tx, ppsVars, tpdu_hdr, apdu_bound, data_len>>
  /\ \/ /\ ~Ready(cont) /\ TurnOff
        /\ UNCHANGED <<tpdu_processed, procedure_count>>
     \/ /\ Ready(cont) /\ Deparses(res, cap) /\ res.sw1 = "ACK"
        /\ AckAllowed /\ CountAck
        /\ Goto("CMD_DATA") /\ Send("ack", 1) /\ Ask(res.len)
        /\ UNCHANGED tpdu_processed
     \/ /\ Ready(cont) /\ Deparses(res, cap) /\ res.sw1 = "ACK"
        /\ ~AckAllowed
        /\ Finish /\ Quiet /\ Ask(HdrLen)
        /\ UNCHANGED procedure_count
     \/ /\ Ready(cont) /\ Deparses(res, cap) /\ res.sw1 # "ACK"
        /\ IF res.sw1 = "NULL" THEN Send("null", 1)
                               ELSE Send("status", res.len + 2)
        /\ Finish /\ Ask(HdrLen)
        /\ UNCHANGED procedure_count
     \/ /\ Ready(cont) /\ ~Deparses(res, cap)      \* 6F00 instead
        /\ Finish /\ Send("status", 2) /\ Ask(Len(rx))
        /\ UNCHANGED procedure_count

FsmCmdData(cont, rx) ==
  /\ fsm_state = "CMD_DATA"
  /\ UNCHANGED <<cont_state_tx, ppsVars, tpdu_hdr, procedure_count,
                 apdu_bound>>
  /\ \/ ~Ready(cont) /\ TurnOff /\ UNCHANGED <<tpdu_processed, data_len>>
     \/ /\ Ready(cont) /\ DataFits(Len(rx))
        /\ data_len' = data_len + Len(rx)
        /\ tpdu_processed' = TRUE
        /\ Goto("CMD_PROCEDURE") /\ Quiet /\ Ask(0)
     \/ /\ Ready(cont) /\ ~DataFits(Len(rx))
        /\ Finish /\ Quiet /\ Ask(HdrLen)
        /\ UNCHANGED data_len

(***************************************************************************)
(* swicc_io: the handler of the current state, on contacts, received bytes *)
(* and a TX buffer the driver chooses.  SWICC_FSM_STATE_RESET_WARM has a   *)
(* handler but no transition leads to it.                                  *)
(***************************************************************************)
Io(cont, chunks, sizes, results) ==
  /\ cont_state_rx' = cont
  /\ \/ FsmOff(cont)
     \/ FsmActivation(cont)
     \/ FsmResetCold(cont)
     \/ \E cap \in sizes : FsmAtrReq(cont, cap)
     \/ \E rx \in chunks : FsmAtrRes(cont, rx)
     \/ \E rx \in chunks, cap \in sizes : FsmPpsReq(cont, rx, cap)
     \/ \E rx \in chunks : FsmCmdWait(cont, rx)
     \/ \E rx \in chunks, cap \in sizes, res \in results :
          FsmCmdProcedure(cont, rx, cap, res)
     \/ \E rx \in chunks : FsmCmdData(cont, rx)

\* swicc_reset: the internal state is zeroed, which makes fsm_state OFF.
Reset ==
  /\ Goto("OFF") /\ Quiet
  /\ cont_state_tx' = {}
  /\ pps_len' = 0 /\ pps_exp' = 0 /\ tp' = "zero"
  /\ tpdu_hdr' = << >> /\ tpdu_processed' = FALSE
  /\ procedure_count' = 0 /\ apdu_bound' = FALSE /\ data_len' = 0
  /\ UNCHANGED buf_rx_len

Init ==
  /\ cont_state_rx = {} /\ cont_state_tx = {}
  /\ buf_rx_len = 0 /\ buf_tx = "none" /\ buf_tx_len = 0
  /\ fsm_state = "OFF"
  /\ pps_len = 0 /\ pps_exp = 0 /\ tp = "zero"
  /\ tpdu_hdr = << >> /\ tpdu_processed = FALSE
  /\ procedure_count = 0 /\ apdu_bound = FALSE /\ data_len = 0

\* A driver that may do anything: any contacts, any chunk, any buffer size,
\* and handlers that may answer anything, whatever the state.
Next ==
  \/ \E cont \in ContStates : Io(cont, RxChunks, TxSizes, Results)
  \/ Reset /\ UNCHANGED cont_state_rx

Spec == Init /\ [][Next]_vars

-----------------------------------------------------------------------------
IoTypeOK ==
  /\ cont_state_rx \in SUBSET ContBits
  /\ cont_state_tx \in SUBSET {"IO", "VALID_IO"}
  /\ buf_rx_len \in Nat
  /\ buf_tx \in {"none", "atr", "pps", "ack", "null", "status"}
  /\ buf_tx_len \in Nat
  /\ fsm_state \in States

PpsTypeOK ==
  /\ pps_len \in 0..PpsLenMax
  /\ pps_exp \in {0} \cup 3..PpsLenMax
  /\ tp \in TpClass

CommandTypeOK ==
  /\ tpdu_hdr \in Seq(Byte) /\ Len(tpdu_hdr) <= HdrLen
  /\ tpdu_processed \in BOOLEAN
  /\ procedure_count \in 0..MaxAcks
  /\ apdu_bound \in BOOLEAN
  /\ data_len \in 0..DataMax

(***************************************************************************)
(* Types, and the fixed buffers of swicc_st: whatever the driver delivers, *)
(* the PPS, header and data buffers never hold more than their capacity,   *)
(* and the number of ACKs never passes its limit (the guards of            *)
(* fsm_handle_s_pps_req, _cmd_wait, _cmd_procedure and _cmd_data).         *)
(***************************************************************************)
TypeOK ==
  /\ IoTypeOK
  /\ PpsTypeOK
  /\ CommandTypeOK

(***************************************************************************)
(* The command under execution is there: in the states that dereference    *)
(* apdu_cur (fsm_handle_s_cmd_procedure, fsm_handle_s_cmd_data) it is      *)
(* bound to a TPDU parsed from a complete header, however the driver split *)
(* the bytes and whatever happened before.                                 *)
(***************************************************************************)
CommandBound ==
  fsm_state \in {"CMD_PROCEDURE", "CMD_DATA"} =>
    apdu_bound /\ Len(tpdu_hdr) = HdrLen

(***************************************************************************)
(* A card that speaks has been through the cold reset since it last lost   *)
(* its internal state: it transmits and receives only with the I/O line    *)
(* requested high, which fsm_handle_s_reset_cold does on the way to        *)
(* ATR_REQ and which swicc_reset takes back together with the state.       *)
(***************************************************************************)
IoLineRequested ==
  fsm_state \notin {"OFF", "ACTIVATION", "RESET_COLD"} =>
    {"IO", "VALID_IO"} \subseteq cont_state_tx

(***************************************************************************)
(* Every ACK is followed by its data before the next procedure byte: while *)
(* the card waits for command data it has sent at least one ACK for this   *)
(* header, and a handler that runs with data has been told so through a    *)
(* positive procedure_count (the handlers in apduh.c branch on it).        *)
(***************************************************************************)
DataFollowsAck ==
  /\ fsm_state = "CMD_DATA" => procedure_count > 0
  /\ fsm_state = "CMD_PROCEDURE" /\ data_len > 0 => procedure_count > 0

(***************************************************************************)
(* What the handlers of commands rely on, under any driver: there is a     *)
(* command, and data belong to an ACK for it.                              *)
(***************************************************************************)
HandlersCanRely == CommandBound /\ DataFollowsAck
=============================================================================
