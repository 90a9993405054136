-------------------------- MODULE T0SessionProofs --------------------------
(***************************************************************************)
(* What holds of the card whatever the driver does, and of card and        *)
(* interface together: for every buffer size, any number of ACKs and any   *)
(* handlers.  TLC checks the same formulas on small instances (MCCardFsm,  *)
(* MCT0Session).                                                           *)
(***************************************************************************)
EXTENDS T0Session, TLAPS

-----------------------------------------------------------------------------
(* The card alone (CardFsm).                                               *)

\* Appending a chunk to a byte string.
LEMMA Appended ==
  ASSUME NEW s \in Seq(Byte), NEW rx \in Seq(Byte)
  PROVE  s \o rx \in Seq(Byte) /\ Len(s \o rx) = Len(s) + Len(rx)
  OBVIOUS

\* Part of the state a handler leaves alone keeps its type.
LEMMA FramePps == ASSUME PpsTypeOK, UNCHANGED ppsVars PROVE PpsTypeOK'
  BY DEF PpsTypeOK, ppsVars
LEMMA FrameCommand == ASSUME CommandTypeOK, UNCHANGED cmdVars PROVE CommandTypeOK'
  BY DEF CommandTypeOK, cmdVars

\* The parts of a command's state, one by one: a leaf of the proofs below
\* deals with the numbers, another with the flags.
LEMMA CommandParts ==
  ASSUME tpdu_hdr' \in Seq(Byte), Len(tpdu_hdr') <= HdrLen,
         tpdu_processed' \in BOOLEAN, procedure_count' \in 0..MaxAcks,
         apdu_bound' \in BOOLEAN, data_len' \in 0..DataMax
  PROVE  CommandTypeOK'
  BY Zenon DEF CommandTypeOK

\* How a handler leaves the outputs and the state.
LEMMA OutputType ==
  ASSUME cont_state_rx' \in SUBSET ContBits,
         cont_state_tx' \in SUBSET {"IO", "VALID_IO"},
         NEW n \in Nat, Ask(n), NEW s \in States, Goto(s),
         NEW m \in Nat,
         NEW kind \in {"none", "atr", "pps", "ack", "null", "status"},
         Send(kind, m)
  PROVE  IoTypeOK'
  BY DEF IoTypeOK, Ask, Send, Goto

LEMMA TurnOffType ==
  ASSUME cont_state_rx' \in SUBSET ContBits,
         cont_state_tx' \in SUBSET {"IO", "VALID_IO"}, TurnOff
  PROVE  IoTypeOK'
  BY OutputType DEF TurnOff, Quiet, States

-----------------------------------------------------------------------------
(* The handlers, on inputs of their types.                                 *)

LEMMA ActivationType ==
  ASSUME TypeOK, NEW cont, cont_state_rx' \in SUBSET ContBits,
         FsmOff(cont) \/ FsmActivation(cont)
  PROVE  TypeOK'
<1>1. cont_state_tx' \in SUBSET {"IO", "VALID_IO"} /\ Send("none", 0) /\ Ask(0)
  BY DEF FsmOff, FsmActivation, Quiet, TypeOK, IoTypeOK
<1>2. PICK s \in States : Goto(s)
  BY DEF FsmOff, FsmActivation, States
<1>3. UNCHANGED ppsVars /\ UNCHANGED cmdVars
  BY DEF FsmOff, FsmActivation
<1>4. QED
  BY <1>1, <1>2, <1>3, OutputType, FramePps, FrameCommand DEF TypeOK

LEMMA ResetColdType ==
  ASSUME TypeOK, NEW cont, cont_state_rx' \in SUBSET ContBits,
         FsmResetCold(cont)
  PROVE  TypeOK'
<1>1. cont_state_tx' \in SUBSET {"IO", "VALID_IO"}
  BY DEF FsmResetCold, RequestIo, TypeOK, IoTypeOK
<1>2. PICK s \in States : Goto(s)
  BY DEF FsmResetCold, States
<1>3. Send("none", 0) /\ Ask(0) /\ UNCHANGED ppsVars /\ UNCHANGED cmdVars
  BY DEF FsmResetCold, Quiet
<1>4. QED
  BY <1>1, <1>2, <1>3, OutputType, FramePps, FrameCommand DEF TypeOK

LEMMA AtrReqType ==
  ASSUME TypeOK, NEW cont, NEW cap \in Nat, cont_state_rx' \in SUBSET ContBits,
         FsmAtrReq(cont, cap)
  PROVE  TypeOK'
<1>1. /\ cont_state_tx' \in SUBSET {"IO", "VALID_IO"}
      /\ UNCHANGED ppsVars /\ UNCHANGED cmdVars
  BY DEF FsmAtrReq, TypeOK, IoTypeOK
<1>2. IoTypeOK'
  <2>1. CASE Goto("ATR_RES") /\ Send("atr", AtrLen) /\ Ask(1)
    BY <1>1, <2>1, OutputType, CardAssumption DEF States
  <2>2. CASE TurnOff
    BY <1>1, <2>2, TurnOffType
  <2>3. QED
    BY <2>1, <2>2 DEF FsmAtrReq
<1>3. QED
  BY <1>1, <1>2, FramePps, FrameCommand DEF TypeOK

LEMMA AtrResType ==
  ASSUME TypeOK, NEW cont, NEW rx \in Seq(Byte),
         cont_state_rx' \in SUBSET ContBits, FsmAtrRes(cont, rx)
  PROVE  TypeOK'
<1>1. cont_state_tx' \in SUBSET {"IO", "VALID_IO"}
  BY DEF FsmAtrRes, TypeOK, IoTypeOK
<1>2. IoTypeOK'
  <2>1. CASE TurnOff
    BY <1>1, <2>1, TurnOffType
  <2>2. CASE Goto("PPS_REQ") /\ Quiet /\ Ask(0)
    BY <1>1, <2>2, OutputType DEF Quiet, States
  <2>3. CASE Goto("CMD_WAIT") /\ Quiet /\ Ask(0)
    BY <1>1, <2>3, OutputType DEF Quiet, States
  <2>4. QED
    BY <2>1, <2>2, <2>3 DEF FsmAtrRes
<1>3. PpsTypeOK'
  BY DEF FsmAtrRes, TypeOK, PpsTypeOK, PpsLenMax
<1>4. CommandTypeOK'
  <2>1. tpdu_hdr' \in Seq(Byte) /\ Len(tpdu_hdr') <= HdrLen
    <3>1. CASE Len(rx) = 1 /\ tpdu_hdr' = rx
      BY <3>1 DEF HdrLen
    <3>2. CASE tpdu_hdr' = tpdu_hdr
      BY <3>2 DEF TypeOK, CommandTypeOK
    <3>3. QED
      BY <3>1, <3>2, Zenon DEF FsmAtrRes
  <2>2. QED
    BY <2>1, Zenon DEF FsmAtrRes, TypeOK, CommandTypeOK
<1>5. QED
  BY <1>2, <1>3, <1>4 DEF TypeOK

LEMMA PpsReqType ==
  ASSUME TypeOK, NEW cont, NEW rx \in Seq(Byte), NEW cap \in Nat,
         cont_state_rx' \in SUBSET ContBits, FsmPpsReq(cont, rx, cap)
  PROVE  TypeOK'
<1> DEFINE len == pps_len + Len(rx)
<1> USE DEF PpsLenMax
<1>1. /\ cont_state_tx' \in SUBSET {"IO", "VALID_IO"}
      /\ len \in Nat
  BY DEF FsmPpsReq, TypeOK, IoTypeOK, PpsTypeOK
<1>2. tpdu_processed' \in BOOLEAN => CommandTypeOK'
  BY DEF FsmPpsReq, TypeOK, CommandTypeOK
<1> HIDE DEF len
<1>3. CASE TurnOff /\ UNCHANGED <<ppsVars, tpdu_processed>>
  BY <1>1, <1>2, <1>3, TurnOffType, FramePps DEF TypeOK, CommandTypeOK
<1>4. CASE /\ PpsFits(len) /\ len < 2 /\ pps_len' = len
           /\ Goto("PPS_REQ") /\ Quiet /\ Ask(2 - len)
           /\ UNCHANGED <<pps_exp, tp, tpdu_processed>>
  <2>1. 2 - len \in Nat
    BY <1>1, <1>4
  <2>2. IoTypeOK'
    BY <1>1, <1>4, <2>1, OutputType DEF Quiet, States
  <2>3. PpsTypeOK'
    BY <1>1, <1>4 DEF TypeOK, PpsTypeOK
  <2>4. QED
    BY <1>2, <1>4, <2>2, <2>3 DEF TypeOK, CommandTypeOK
<1>5. ASSUME PpsFits(len), len >= 2, pps_len' = len,
             NEW exp \in PpsExpected, pps_exp' = exp,
             \/ /\ len < exp
                /\ Goto("PPS_REQ") /\ Quiet /\ Ask(exp - len)
                /\ UNCHANGED <<tp, tpdu_processed>>
             \/ len >= exp /\ PpsInvalid
             \/ len >= exp /\ PpsValid(len, exp, cap)
      PROVE  TypeOK'
  <2>1. exp \in 3..PpsLenMax
    BY DEF PpsExpected, TypeOK, PpsTypeOK
  <2>2. tp' \in TpClass => PpsTypeOK'
    BY <1>1, <1>5, <2>1 DEF PpsFits, PpsTypeOK
  <2>3. tp \in TpClass /\ tpdu_processed \in BOOLEAN
    BY DEF TypeOK, PpsTypeOK, CommandTypeOK
  <2>4. CASE /\ len < exp
             /\ Goto("PPS_REQ") /\ Quiet /\ Ask(exp - len)
             /\ UNCHANGED <<tp, tpdu_processed>>
    <3>1. exp - len \in Nat
      BY <1>1, <2>1, <2>4
    <3>2. IoTypeOK'
      BY <1>1, <2>4, <3>1, OutputType DEF Quiet, States
    <3>3. QED
      BY <1>2, <2>2, <2>3, <2>4, <3>2 DEF TypeOK
  <2>5. CASE PpsInvalid
    <3>1. IoTypeOK'
      BY <1>1, <2>5, OutputType DEF PpsInvalid, Quiet, States
    <3>2. QED
      BY <1>2, <2>2, <2>3, <2>5, <3>1 DEF PpsInvalid, TypeOK
  <2>6. CASE PpsValid(len, exp, cap)
    <3>1. PICK m \in {exp - 1, exp} :
            \/ TurnOff /\ UNCHANGED <<tp, tpdu_processed>>
            \/ /\ Goto("ATR_RES") /\ Send("pps", m) /\ Ask(1)
               /\ UNCHANGED <<tp, tpdu_processed>>
            \/ /\ Goto("CMD_WAIT") /\ Send("pps", m) /\ Ask(0)
               /\ tp' \in TpClass /\ tpdu_processed' = FALSE
      BY <2>6 DEF PpsValid, TpClass
    <3>2. m \in Nat
      BY <2>1
    <3>3. IoTypeOK'
      <4>1. CASE TurnOff
        BY <1>1, <4>1, TurnOffType
      <4>2. CASE Goto("ATR_RES") /\ Send("pps", m) /\ Ask(1)
        BY <1>1, <3>2, <4>2, OutputType DEF States
      <4>3. CASE Goto("CMD_WAIT") /\ Send("pps", m) /\ Ask(0)
        BY <1>1, <3>2, <4>3, OutputType DEF States
      <4>4. QED
        BY <3>1, <4>1, <4>2, <4>3
    <3>4. tp' \in TpClass /\ tpdu_processed' \in BOOLEAN
      BY <2>3, <3>1
    <3>5. QED
      BY <1>2, <2>2, <3>3, <3>4 DEF TypeOK
  <2>7. QED
    BY <1>5, <2>4, <2>5, <2>6
<1>6. QED
  BY <1>3, <1>4, <1>5 DEF FsmPpsReq, len

LEMMA CmdWaitType ==
  ASSUME TypeOK, NEW cont, NEW rx \in Seq(Byte),
         cont_state_rx' \in SUBSET ContBits, FsmCmdWait(cont, rx)
  PROVE  TypeOK'
<1> DEFINE hdr == Held \o rx
<1>1. cont_state_tx' \in SUBSET {"IO", "VALID_IO"} /\ PpsTypeOK'
  BY FramePps DEF FsmCmdWait, TypeOK, IoTypeOK
<1>2. /\ Held \in Seq(Byte) /\ Len(Held) <= HdrLen
      /\ hdr \in Seq(Byte) /\ Len(hdr) \in Nat
  BY Appended DEF Held, TypeOK, CommandTypeOK, HdrLen
<1>3. /\ CountHeld \in 0..MaxAcks
      /\ (IF tpdu_processed THEN 0 ELSE data_len) \in 0..DataMax
      /\ 0 \in 0..DataMax
  BY CardAssumption DEF CountHeld, TypeOK, CommandTypeOK
<1>4. apdu_bound \in BOOLEAN
  BY DEF TypeOK, CommandTypeOK
<1> HIDE DEF hdr
<1>5. CASE TurnOff /\ UNCHANGED cmdVars
  BY <1>1, <1>5, TurnOffType, FrameCommand DEF TypeOK
<1>6. CASE /\ Len(hdr) < HdrLen /\ Quiet
           /\ procedure_count' = CountHeld
           /\ tpdu_hdr' = hdr /\ tpdu_processed' = FALSE
           /\ data_len' = IF tpdu_processed THEN 0 ELSE data_len
           /\ Goto("CMD_WAIT") /\ Ask(Missing(hdr))
           /\ UNCHANGED apdu_bound
  <2>1. Missing(hdr) \in Nat
    BY <1>2, <1>6 DEF Missing, HdrLen
  <2>2. IoTypeOK'
    BY <1>1, <1>6, <2>1, OutputType DEF Quiet, States
  <2>3. tpdu_hdr' \in Seq(Byte) /\ Len(tpdu_hdr') <= HdrLen
    BY <1>2, <1>6 DEF HdrLen
  <2>4. CommandTypeOK'
    BY <1>3, <1>4, <1>6, <2>3, CommandParts, Zenon
  <2>5. QED
    BY <1>1, <2>2, <2>4 DEF TypeOK
<1>7. CASE /\ HeaderComplete(hdr) /\ Quiet
           /\ procedure_count' = CountHeld
           /\ tpdu_hdr' = hdr /\ tpdu_processed' = FALSE
           /\ data_len' = 0 /\ apdu_bound' = TRUE
           /\ Goto("CMD_PROCEDURE") /\ Ask(0)
  <2>1. IoTypeOK'
    BY <1>1, <1>7, OutputType DEF Quiet, States
  <2>2. tpdu_hdr' \in Seq(Byte) /\ Len(tpdu_hdr') <= HdrLen
    <3>1. tpdu_hdr' = hdr /\ Len(hdr) = HdrLen
      BY <1>7, Zenon DEF HeaderComplete
    <3>2. QED
      BY <1>2, <3>1 DEF HdrLen
  <2>3. CommandTypeOK'
    BY <1>3, <1>7, <2>2, CommandParts
  <2>4. QED
    BY <1>1, <2>1, <2>3 DEF TypeOK
<1>8. CASE /\ tpdu_hdr' = Held /\ tpdu_processed' = TRUE /\ Quiet
           /\ procedure_count' = CountHeld
           /\ data_len' = IF tpdu_processed THEN 0 ELSE data_len
           /\ Goto("CMD_WAIT") /\ Ask(HdrLen)
           /\ UNCHANGED apdu_bound
  <2>1. IoTypeOK'
    BY <1>1, <1>8, OutputType DEF Quiet, States, HdrLen
  <2>2. CommandTypeOK'
    BY <1>2, <1>3, <1>4, <1>8 DEF CommandTypeOK
  <2>3. QED
    BY <1>1, <2>1, <2>2 DEF TypeOK
<1>9. QED
  BY <1>5, <1>6, <1>7, <1>8 DEF FsmCmdWait, hdr

LEMMA CmdProcedureType ==
  ASSUME TypeOK, NEW cont, NEW rx \in Seq(Byte), NEW cap \in Nat,
         NEW res \in Result, cont_state_rx' \in SUBSET ContBits,
         FsmCmdProcedure(cont, rx, cap, res)
  PROVE  TypeOK'
<1>1. cont_state_tx' \in SUBSET {"IO", "VALID_IO"} /\ PpsTypeOK'
  BY FramePps DEF FsmCmdProcedure, TypeOK, IoTypeOK
<1>2. Len(rx) \in Nat /\ res.len \in Nat /\ res.len + 2 \in Nat
  BY CardAssumption DEF Result
<1>3. IoTypeOK'
  <2>1. CASE TurnOff
    BY <1>1, <2>1, TurnOffType
  <2>2. CASE Goto("CMD_DATA") /\ Send("ack", 1) /\ Ask(res.len)
    BY <1>1, <1>2, <2>2, OutputType DEF States
  <2>3. CASE Finish /\ Quiet /\ Ask(HdrLen)
    BY <1>1, <2>3, OutputType DEF Finish, Quiet, States, HdrLen
  <2>4. CASE /\ Finish /\ Ask(HdrLen)
             /\ Send("null", 1) \/ Send("status", res.len + 2)
    BY <1>1, <1>2, <2>4, OutputType DEF Finish, States, HdrLen
  <2>5. CASE Finish /\ Send("status", 2) /\ Ask(Len(rx))
    BY <1>1, <1>2, <2>5, OutputType DEF Finish, States
  <2>6. QED
    BY <2>1, <2>2, <2>3, <2>4, <2>5 DEF FsmCmdProcedure
<1>4. procedure_count' \in 0..MaxAcks
  <2>1. procedure_count \in 0..MaxAcks
    BY DEF TypeOK, CommandTypeOK
  <2>2. CASE AckAllowed /\ CountAck
    BY <2>1, <2>2, CardAssumption DEF AckAllowed, CountAck
  <2>3. QED
    BY <2>1, <2>2, Zenon DEF FsmCmdProcedure
<1>5. CommandTypeOK'
  BY <1>4, Zenon DEF Finish, FsmCmdProcedure, TypeOK, CommandTypeOK
<1>6. QED
  BY <1>1, <1>3, <1>5 DEF TypeOK

LEMMA CmdDataType ==
  ASSUME TypeOK, NEW cont, NEW rx \in Seq(Byte),
         cont_state_rx' \in SUBSET ContBits, FsmCmdData(cont, rx)
  PROVE  TypeOK'
<1>1. cont_state_tx' \in SUBSET {"IO", "VALID_IO"} /\ PpsTypeOK'
  BY FramePps DEF FsmCmdData, TypeOK, IoTypeOK
<1>2. IoTypeOK'
  <2>1. CASE TurnOff
    BY <1>1, <2>1, TurnOffType
  <2>2. CASE Goto("CMD_PROCEDURE") /\ Quiet /\ Ask(0)
    BY <1>1, <2>2, OutputType DEF Quiet, States
  <2>3. CASE Finish /\ Quiet /\ Ask(HdrLen)
    BY <1>1, <2>3, OutputType DEF Finish, Quiet, States, HdrLen
  <2>4. QED
    BY <2>1, <2>2, <2>3 DEF FsmCmdData
<1>3. data_len' \in 0..DataMax
  <2>1. data_len \in 0..DataMax
    BY DEF TypeOK, CommandTypeOK
  <2>2. CASE DataFits(Len(rx)) /\ data_len' = data_len + Len(rx)
    BY <2>1, <2>2, CardAssumption DEF DataFits
  <2>3. QED
    BY <2>1, <2>2, Zenon DEF FsmCmdData
<1>4. CommandTypeOK'
  BY <1>3, Zenon DEF Finish, FsmCmdData, TypeOK, CommandTypeOK
<1>5. QED
  BY <1>1, <1>2, <1>4 DEF TypeOK

\* One call of swicc_io on inputs a driver may choose.
LEMMA IoType ==
  ASSUME TypeOK, NEW cont \in SUBSET ContBits, NEW chunks \in SUBSET Seq(Byte),
         NEW sizes \in SUBSET Nat, NEW results \in SUBSET Result,
         Io(cont, chunks, sizes, results)
  PROVE  TypeOK'
<1>1. cont_state_rx' \in SUBSET ContBits
  BY DEF Io
<1>2. CASE FsmOff(cont) \/ FsmActivation(cont)
  BY <1>1, <1>2, ActivationType
<1>3. CASE FsmResetCold(cont)
  BY <1>1, <1>3, ResetColdType
<1>4. ASSUME NEW cap \in sizes, FsmAtrReq(cont, cap) PROVE TypeOK'
  BY <1>1, <1>4, AtrReqType
<1>5. ASSUME NEW rx \in chunks, FsmAtrRes(cont, rx) PROVE TypeOK'
  BY <1>1, <1>5, AtrResType
<1>6. ASSUME NEW rx \in chunks, NEW cap \in sizes, FsmPpsReq(cont, rx, cap)
      PROVE  TypeOK'
  BY <1>1, <1>6, PpsReqType
<1>7. ASSUME NEW rx \in chunks, FsmCmdWait(cont, rx) PROVE TypeOK'
  BY <1>1, <1>7, CmdWaitType
<1>8. ASSUME NEW rx \in chunks, NEW cap \in sizes, NEW res \in results,
             FsmCmdProcedure(cont, rx, cap, res)
      PROVE  TypeOK'
  BY <1>1, <1>8, CmdProcedureType
<1>9. ASSUME NEW rx \in chunks, FsmCmdData(cont, rx) PROVE TypeOK'
  BY <1>1, <1>9, CmdDataType
<1>10. QED
  BY <1>2, <1>3, <1>4, <1>5, <1>6, <1>7, <1>8, <1>9 DEF Io

\* swicc_reset from any state.
LEMMA ResetType ==
  ASSUME TypeOK, Reset, cont_state_rx' \in SUBSET ContBits
  PROVE  TypeOK'
<1>1. IoTypeOK'
  BY DEF Reset, TypeOK, IoTypeOK, States, Quiet, Send, Goto
<1>2. PpsTypeOK'
  BY DEF Reset, PpsTypeOK, PpsLenMax, TpClass
<1>3. CommandTypeOK'
  <2>1. 0 \in 0..MaxAcks /\ 0 \in 0..DataMax /\ Len(<< >>) <= HdrLen
    BY CardAssumption DEF HdrLen
  <2>2. << >> \in Seq(Byte)
    OBVIOUS
  <2>3. QED
    BY <2>1, <2>2, CommandParts, Zenon DEF Reset
<1>4. QED
  BY <1>1, <1>2, <1>3 DEF TypeOK

LEMMA InitType == Init => TypeOK
<1> SUFFICES ASSUME Init PROVE TypeOK
  OBVIOUS
<1>1. IoTypeOK
  BY DEF Init, IoTypeOK, States
<1>2. PpsTypeOK
  BY DEF Init, PpsTypeOK, PpsLenMax, TpClass
<1>3. CommandTypeOK
  <2>1. 0 \in 0..MaxAcks /\ 0 \in 0..DataMax /\ Len(<< >>) <= HdrLen
    BY CardAssumption DEF HdrLen
  <2>2. << >> \in Seq(Byte)
    OBVIOUS
  <2>3. QED
    BY <2>1, <2>2, Zenon DEF Init, CommandTypeOK
<1>4. QED
  BY <1>1, <1>2, <1>3 DEF TypeOK

(***************************************************************************)
(* The state of swicc_st keeps its types and no buffer or counter passes   *)
(* its capacity, whatever contacts, chunks, TX sizes and handler answers   *)
(* the calls of swicc_io are given.                                        *)
(***************************************************************************)
THEOREM TypeCorrect == Spec => []TypeOK
<1>1. TypeOK /\ [Next]_vars => TypeOK'
  <2> SUFFICES ASSUME TypeOK, [Next]_vars PROVE TypeOK'
    OBVIOUS
  <2>1. ASSUME NEW cont \in ContStates, Io(cont, RxChunks, TxSizes, Results)
        PROVE  TypeOK'
    BY <2>1, IoType, CardAssumption
  <2>2. CASE Reset /\ UNCHANGED cont_state_rx
    BY <2>2, ResetType DEF TypeOK, IoTypeOK
  <2>3. CASE UNCHANGED vars
    <3>1. IoTypeOK'
      BY <2>3 DEF vars, ioVars, TypeOK, IoTypeOK
    <3>2. QED
      BY <2>3, <3>1, FramePps, FrameCommand DEF vars, TypeOK
  <2>4. QED
    BY <2>1, <2>2, <2>3 DEF Next
<1>2. QED
  BY <1>1, InitType, PTL DEF Spec

-----------------------------------------------------------------------------
(* The safety invariants.  Each is inductive next to TypeOK, and a handler *)
(* can disturb it only where it changes the state of the machine.          *)

\* One call of the card is one handler on some inputs.
LEMMA OneHandler ==
  ASSUME NEW cont \in ContStates, Io(cont, RxChunks, TxSizes, Results)
  PROVE  \/ FsmOff(cont) \/ FsmActivation(cont) \/ FsmResetCold(cont)
         \/ \E cap \in Nat : FsmAtrReq(cont, cap)
         \/ \E rx \in Seq(Byte) : FsmAtrRes(cont, rx)
         \/ \E rx \in Seq(Byte), cap \in Nat : FsmPpsReq(cont, rx, cap)
         \/ \E rx \in Seq(Byte) : FsmCmdWait(cont, rx)
         \/ \E rx \in Seq(Byte), cap \in Nat, res \in Result :
              FsmCmdProcedure(cont, rx, cap, res)
         \/ \E rx \in Seq(Byte) : FsmCmdData(cont, rx)
  BY CardAssumption DEF Io

\* The state a PPS request leaves the card in.
LEMMA PpsReqGoto ==
  ASSUME NEW cont, NEW rx, NEW cap, FsmPpsReq(cont, rx, cap)
  PROVE  fsm_state' \in {"OFF", "PPS_REQ", "ATR_RES", "CMD_WAIT"}
  BY DEF FsmPpsReq, TurnOff, Goto, PpsInvalid, PpsValid

\* CommandBound: only a complete header leads to a procedure, and a
\* procedure and its data leave the header alone.
LEMMA CommandBoundStep ==
  ASSUME CommandBound, [Next]_vars PROVE CommandBound'
<1> USE DEF CommandBound, Goto, TurnOff
<1>1. ASSUME NEW cont, FsmOff(cont) \/ FsmActivation(cont) \/ FsmResetCold(cont)
      PROVE  CommandBound'
  BY <1>1 DEF FsmOff, FsmActivation, FsmResetCold
<1>2. ASSUME NEW cont, NEW cap, FsmAtrReq(cont, cap) PROVE CommandBound'
  BY <1>2 DEF FsmAtrReq
<1>3. ASSUME NEW cont, NEW rx, FsmAtrRes(cont, rx) PROVE CommandBound'
  BY <1>3 DEF FsmAtrRes
<1>4. ASSUME NEW cont, NEW rx, NEW cap, FsmPpsReq(cont, rx, cap)
      PROVE  CommandBound'
  BY <1>4, PpsReqGoto
<1>5. ASSUME NEW cont, NEW rx, FsmCmdWait(cont, rx) PROVE CommandBound'
  BY <1>5 DEF FsmCmdWait, HeaderComplete
<1>6. ASSUME NEW cont, NEW rx, NEW cap, NEW res,
             FsmCmdProcedure(cont, rx, cap, res)
      PROVE  CommandBound'
  BY <1>6 DEF FsmCmdProcedure, cmdVars
<1>7. ASSUME NEW cont, NEW rx, FsmCmdData(cont, rx) PROVE CommandBound'
  BY <1>7 DEF FsmCmdData
<1>8. CASE Reset
  BY <1>8 DEF Reset
<1>9. CASE UNCHANGED vars
  BY <1>9 DEF vars, cmdVars
<1>10. QED
  BY <1>1, <1>2, <1>3, <1>4, <1>5, <1>6, <1>7, <1>8, <1>9, OneHandler DEF Next

\* IoLineRequested: RESET_COLD is the only way to ATR_REQ, and sets the line.
LEMMA IoLineStep ==
  ASSUME IoLineRequested, [Next]_vars PROVE IoLineRequested'
<1> USE DEF IoLineRequested, Goto, TurnOff
<1>1. ASSUME NEW cont, FsmOff(cont) \/ FsmActivation(cont) PROVE IoLineRequested'
  BY <1>1 DEF FsmOff, FsmActivation
<1>2. ASSUME NEW cont, FsmResetCold(cont) PROVE IoLineRequested'
  BY <1>2 DEF FsmResetCold, RequestIo
<1>3. ASSUME NEW cont, NEW cap, FsmAtrReq(cont, cap) PROVE IoLineRequested'
  BY <1>3 DEF FsmAtrReq
<1>4. ASSUME NEW cont, NEW rx, FsmAtrRes(cont, rx) PROVE IoLineRequested'
  BY <1>4 DEF FsmAtrRes
<1>5. ASSUME NEW cont, NEW rx, NEW cap, FsmPpsReq(cont, rx, cap)
      PROVE  IoLineRequested'
  BY <1>5, Zenon DEF FsmPpsReq
<1>6. ASSUME NEW cont, NEW rx, FsmCmdWait(cont, rx) PROVE IoLineRequested'
  BY <1>6, Zenon DEF FsmCmdWait
<1>7. ASSUME NEW cont, NEW rx, NEW cap, NEW res,
             FsmCmdProcedure(cont, rx, cap, res)
      PROVE  IoLineRequested'
  BY <1>7, Zenon DEF FsmCmdProcedure
<1>8. ASSUME NEW cont, NEW rx, FsmCmdData(cont, rx) PROVE IoLineRequested'
  BY <1>8, Zenon DEF FsmCmdData
<1>9. CASE Reset
  BY <1>9 DEF Reset
<1>10. CASE UNCHANGED vars
  BY <1>10 DEF vars
<1>11. QED
  BY <1>1, <1>2, <1>3, <1>4, <1>5, <1>6, <1>7, <1>8, <1>9, <1>10, OneHandler
     DEF Next

\* DataFollowsAck: the count rises on the way to CMD_DATA, and a header
\* completes with no data.
LEMMA DataFollowsAckStep ==
  ASSUME TypeOK, DataFollowsAck, [Next]_vars PROVE DataFollowsAck'
<1> USE DEF DataFollowsAck, Goto, TurnOff
<1>1. ASSUME NEW cont, FsmOff(cont) \/ FsmActivation(cont) \/ FsmResetCold(cont)
      PROVE  DataFollowsAck'
  BY <1>1 DEF FsmOff, FsmActivation, FsmResetCold
<1>2. ASSUME NEW cont, NEW cap, FsmAtrReq(cont, cap) PROVE DataFollowsAck'
  BY <1>2 DEF FsmAtrReq
<1>3. ASSUME NEW cont, NEW rx, FsmAtrRes(cont, rx) PROVE DataFollowsAck'
  BY <1>3 DEF FsmAtrRes
<1>4. ASSUME NEW cont, NEW rx, NEW cap, FsmPpsReq(cont, rx, cap)
      PROVE  DataFollowsAck'
  BY <1>4, PpsReqGoto
<1>5. ASSUME NEW cont, NEW rx, FsmCmdWait(cont, rx) PROVE DataFollowsAck'
  BY <1>5 DEF FsmCmdWait
<1>6. ASSUME NEW cont, NEW rx, NEW cap, NEW res,
             FsmCmdProcedure(cont, rx, cap, res)
      PROVE  DataFollowsAck'
  <2>1. procedure_count \in Nat
    BY DEF TypeOK, CommandTypeOK
  <2>2. CASE CountAck
    BY <2>1, <2>2 DEF CountAck
  <2>3. CASE fsm_state' \in {"OFF", "CMD_WAIT"}
    BY <2>3
  <2>4. QED
    BY <1>6, <2>2, <2>3 DEF FsmCmdProcedure, Finish
<1>7. ASSUME NEW cont, NEW rx, FsmCmdData(cont, rx) PROVE DataFollowsAck'
  BY <1>7 DEF FsmCmdData, Finish
<1>8. CASE Reset
  BY <1>8 DEF Reset
<1>9. CASE UNCHANGED vars
  BY <1>9 DEF vars, cmdVars
<1>10. QED
  BY <1>1, <1>2, <1>3, <1>4, <1>5, <1>6, <1>7, <1>8, <1>9, OneHandler DEF Next

(***************************************************************************)
(* The handlers that dereference apdu_cur (fsm_handle_s_cmd_procedure and  *)
(* fsm_handle_s_cmd_data) find it bound to a complete header, however the  *)
(* bytes were split over the calls.                                        *)
(***************************************************************************)
THEOREM CommandAlwaysBound == Spec => []CommandBound
<1>1. Init => CommandBound
  BY DEF Init, CommandBound
<1>2. QED
  BY <1>1, CommandBoundStep, PTL DEF Spec

(***************************************************************************)
(* The card transmits and receives only with the I/O line requested, which *)
(* fsm_handle_s_reset_cold does and swicc_reset undoes.                    *)
(***************************************************************************)
THEOREM IoLineAlwaysRequested == Spec => []IoLineRequested
<1>1. Init => IoLineRequested
  BY DEF Init, IoLineRequested
<1>2. QED
  BY <1>1, IoLineStep, PTL DEF Spec

(***************************************************************************)
(* A handler that finds data in its command has asked for them: the branch *)
(* on procedure_count in apduh.c never takes data for a fresh command.     *)
(***************************************************************************)
THEOREM DataAlwaysFollowAck == Spec => []DataFollowsAck
<1>1. Init => DataFollowsAck
  BY DEF Init, DataFollowsAck
<1>2. QED
  BY <1>1, TypeCorrect, DataFollowsAckStep, PTL DEF Spec

(***************************************************************************)
(* A handler of a command (apduh.c) is called with a command, and with     *)
(* data only after an ACK, whatever the driver does.                       *)
(***************************************************************************)
THEOREM HandlersCanAlwaysRely == Spec => []HandlersCanRely
<1>1. CommandBound /\ DataFollowsAck => HandlersCanRely
  BY DEF HandlersCanRely
<1>2. QED
  BY <1>1, CommandAlwaysBound, DataAlwaysFollowAck, PTL

-----------------------------------------------------------------------------
(* Card and interface (T0Session).                                         *)

\* The first n header bytes of command c.
HeaderOf(c, n) == [i \in 1..n |-> HeaderByte(c, i)]

\* The n that follow the first k.
PartOf(c, k, n) == [i \in 1..n |-> HeaderByte(c, k + i)]

\* Nothing is held of any command.
Clean ==
  /\ tpdu_hdr = << >> /\ tpdu_processed = FALSE
  /\ procedure_count = 0 /\ data_len = 0

\* On the way up only a card that was reset gets any further.
Unpowered ==
  /\ fsm_state \in {"OFF", "ACTIVATION"}
  /\ fresh => fsm_state = "OFF" /\ Clean

Activating ==
  /\ ifd = "off" /\ hdr_sent = 0
  /\ \/ cont_state_rx \in {{}, ValidAll} /\ Unpowered
     \/ /\ cont_state_rx \in {ContPowered, ContPowered \cup {"IO"}}
        /\ fsm_state = "ACTIVATION" /\ Clean
     \/ cont_state_rx = ContClocked /\ fsm_state = "RESET_COLD" /\ Clean

\* The stages of a conversation, one for each value of ifd.
BeforeAtr   == fsm_state = "ATR_REQ" /\ Clean /\ hdr_sent = 0
Choosing    == fsm_state = "ATR_RES" /\ Clean /\ hdr_sent = 0
Negotiating ==
  /\ fsm_state = "PPS_REQ" /\ Clean /\ hdr_sent = 0
  /\ pps_len + buf_rx_len <= IF pps_exp = 0 THEN 2 ELSE pps_exp
HeaderDue ==
  /\ fsm_state = "CMD_WAIT" /\ hdr_sent < HdrLen
  /\ hdr_sent + buf_rx_len <= HdrLen
  /\ tpdu_processed => hdr_sent = 0
  /\ ~tpdu_processed => /\ tpdu_hdr = HeaderOf(cmd, hdr_sent)
                        /\ procedure_count = 0 /\ data_len = 0
Executing ==
  /\ fsm_state = "CMD_PROCEDURE" /\ buf_rx_len = 0
  /\ procedure_count = 0 <=> ~tpdu_processed
  /\ procedure_count = 0 => data_len = 0
Receiving ==
  /\ fsm_state = "CMD_DATA" /\ procedure_count > 0
  /\ data_len + buf_rx_len <= DataMax

Conversing ==
  /\ cont_state_rx = ContReady
  /\ \/ ifd = "off" /\ BeforeAtr
     \/ ifd = "protocol" /\ Choosing
     \/ ifd = "pps" /\ Negotiating
     \/ ifd = "header" /\ HeaderDue
     \/ /\ ifd = "procedure" /\ tpdu_hdr = HeaderOf(cmd, HdrLen)
        /\ Executing \/ Receiving

SessionInv == SessionTypeOK /\ (Activating \/ Conversing)

-----------------------------------------------------------------------------
(* Contacts, header bytes and calls of the card.                           *)

\* No two rungs of the activation look alike.
LEMMA Rungs ==
  /\ {} # ValidAll /\ {} # ContPowered /\ ValidAll # ContPowered
  /\ ContPowered # ContPowered \cup {"IO"}
  /\ {} # ContClocked /\ ValidAll # ContClocked /\ ContPowered # ContClocked
  /\ ContPowered \cup {"IO"} # ContClocked
  /\ \A cont \in {{}, ValidAll, ContPowered, ContPowered \cup {"IO"},
                  ContClocked} : cont # ContReady
  /\ \A cont \in {ValidAll, ContPowered, ContPowered \cup {"IO"}} :
       cont \cap {"VCC", "VALID_VCC"} # {}
  /\ ContReady \ {"RST"} = ContClocked
<1>1. /\ "VALID_VCC" \in ValidAll /\ "VCC" \notin ValidAll
      /\ "IO" \notin ValidAll /\ "RST" \notin ValidAll /\ "CLK" \notin ValidAll
  BY DEF ValidAll
<1>2. /\ ContPowered = {"VCC"} \cup ValidAll
      /\ ContClocked = {"VCC", "IO", "CLK"} \cup ValidAll
      /\ ContReady = {"VCC", "RST", "IO", "CLK"} \cup ValidAll
  BY DEF ContPowered, ContClocked, ContReady
<1>3. ContReady \ {"RST"} = ContClocked
  BY <1>1, <1>2
<1>4. /\ {} # ValidAll /\ {} # ContPowered /\ ValidAll # ContPowered
      /\ {} # ContClocked /\ ValidAll # ContClocked
  BY <1>1, <1>2
<1>5. /\ ContPowered # ContPowered \cup {"IO"} /\ ContPowered # ContClocked
      /\ ContPowered \cup {"IO"} # ContClocked
  BY <1>1, <1>2
<1>6. ASSUME NEW cont \in {{}, ValidAll, ContPowered, ContPowered \cup {"IO"},
                           ContClocked}
      PROVE  cont # ContReady
  <2>1. "RST" \in ContReady /\ "RST" \notin cont
    BY <1>1, <1>2
  <2>2. QED
    BY <2>1
<1>7. ASSUME NEW cont \in {ValidAll, ContPowered, ContPowered \cup {"IO"}}
      PROVE  cont \cap {"VCC", "VALID_VCC"} # {}
  <2>1. "VALID_VCC" \in cont
    BY <1>1, <1>2
  <2>2. QED
    BY <2>1
<1>8. QED
  BY <1>3, <1>4, <1>5, <1>6, <1>7

LEMMA RungTypes ==
  /\ {} \in SUBSET ContBits /\ ValidAll \in SUBSET ContBits
  /\ ContPowered \in SUBSET ContBits
  /\ ContPowered \cup {"IO"} \in SUBSET ContBits
  /\ ContClocked \in SUBSET ContBits /\ ContReady \in SUBSET ContBits
  BY DEF ContBits, ValidAll, ContPowered, ContClocked, ContReady

\* The elements of a concatenation.
LEMMA JoinedBytes ==
  ASSUME NEW f \in Seq(Byte), NEW g \in Seq(Byte)
  PROVE  /\ f \o g \in Seq(Byte) /\ Len(f \o g) = Len(f) + Len(g)
         /\ \A i \in 1..Len(f) : (f \o g)[i] = f[i]
         /\ \A i \in 1..Len(g) : (f \o g)[Len(f) + i] = g[i]
  OBVIOUS

\* The first header bytes, and those that follow.
LEMMA HeaderParts ==
  ASSUME NEW c \in BOOLEAN, NEW k \in Nat, NEW n \in Nat, k + n <= HdrLen
  PROVE  /\ PartOf(c, k, n) \in Seq(Byte) /\ Len(PartOf(c, k, n)) = n
         /\ HeaderOf(c, k) \in Seq(Byte) /\ Len(HeaderOf(c, k)) = k
         /\ HeaderOf(c, k) \o PartOf(c, k, n) = HeaderOf(c, k + n)
<1> DEFINE part == PartOf(c, k, n)
           head == HeaderOf(c, k)
           both == HeaderOf(c, k + n)
<1>1. \A i \in 1..HdrLen : HeaderByte(c, i) \in Byte
  BY SessionAssumption
<1>2. /\ part \in Seq(Byte) /\ Len(part) = n
      /\ \A i \in 1..n : part[i] = HeaderByte(c, k + i)
  <2>1. \A i \in 1..n : HeaderByte(c, k + i) \in Byte
    BY <1>1 DEF HdrLen
  <2>2. QED
    BY <2>1 DEF PartOf
<1>3. /\ head \in Seq(Byte) /\ Len(head) = k
      /\ \A i \in 1..k : head[i] = HeaderByte(c, i)
  <2>1. \A i \in 1..k : HeaderByte(c, i) \in Byte
    BY <1>1 DEF HdrLen
  <2>2. QED
    BY <2>1 DEF HeaderOf
<1>4. /\ both \in Seq(Byte) /\ Len(both) = k + n
      /\ \A i \in 1..(k + n) : both[i] = HeaderByte(c, i)
  <2>1. \A i \in 1..(k + n) : HeaderByte(c, i) \in Byte
    BY <1>1 DEF HdrLen
  <2>2. QED
    BY <2>1 DEF HeaderOf
<1> HIDE DEF part, head, both
<1>5. head \o part = both
  <2>1. /\ head \o part \in Seq(Byte) /\ Len(head \o part) = k + n
        /\ \A i \in 1..k : (head \o part)[i] = head[i]
        /\ \A i \in 1..n : (head \o part)[k + i] = part[i]
    <3>1. /\ head \o part \in Seq(Byte)
          /\ Len(head \o part) = Len(head) + Len(part)
          /\ \A i \in 1..Len(head) : (head \o part)[i] = head[i]
          /\ \A i \in 1..Len(part) : (head \o part)[Len(head) + i] = part[i]
      BY <1>2, <1>3, JoinedBytes
    <3>2. QED
      BY <1>2, <1>3, <3>1
  <2>2. ASSUME NEW i \in 1..(k + n) PROVE (head \o part)[i] = both[i]
    <3>1. CASE i <= k
      BY <1>3, <1>4, <2>1, <3>1
    <3>2. CASE i > k
      <4>1. PICK j \in 1..n : i = k + j
        <5>1. i - k \in 1..n /\ i = k + (i - k)
          BY <3>2
        <5>2. QED
          BY <5>1
      <4>2. QED
        BY <1>2, <1>4, <2>1, <4>1
    <3>3. i <= k \/ i > k
      OBVIOUS
    <3>4. QED
      BY <3>1, <3>2, <3>3
  <2>3. QED
    BY <1>4, <2>1, <2>2
<1>6. QED
  BY <1>2, <1>3, <1>5 DEF part, head, both

\* The same, one fact at a time.
LEMMA PartBytes ==
  ASSUME NEW c \in BOOLEAN, NEW k \in Nat, NEW n \in Nat, k + n <= HdrLen
  PROVE  PartOf(c, k, n) \in Seq(Byte)
  BY HeaderParts

LEMMA PartLen ==
  ASSUME NEW c \in BOOLEAN, NEW k \in Nat, NEW n \in Nat, k + n <= HdrLen
  PROVE  Len(PartOf(c, k, n)) = n
  BY HeaderParts

LEMMA PartJoins ==
  ASSUME NEW c \in BOOLEAN, NEW k \in Nat, NEW n \in Nat, k + n <= HdrLen
  PROVE  HeaderOf(c, k) \o PartOf(c, k, n) = HeaderOf(c, k + n)
  BY HeaderParts

LEMMA HeaderLen ==
  ASSUME NEW c \in BOOLEAN, NEW k \in Nat, k <= HdrLen
  PROVE  HeaderOf(c, k) \in Seq(Byte) /\ Len(HeaderOf(c, k)) = k
<1>1. k + 0 <= HdrLen /\ 0 \in Nat
  BY DEF HdrLen
<1>2. QED
  BY <1>1, HeaderParts

\* Any bytes of one kind.
LEMMA Repeated ==
  ASSUME NEW b \in Byte, NEW n \in Nat
  PROVE  Repeat(b, n) \in Seq(Byte) /\ Len(Repeat(b, n)) = n
  BY DEF Repeat

\* Delivering what is wanted.
LEMMA PieceSizes ==
  ASSUME NEW wanted \in Nat, NEW n \in Pieces(wanted)
  PROVE  n \in Nat /\ n <= wanted
  BY DEF Pieces

\* A handler runs only in its own state.
LEMMA OwnState ==
  ASSUME NEW cont, NEW rx, NEW cap, NEW res
  PROVE  /\ FsmOff(cont) => fsm_state = "OFF"
         /\ FsmActivation(cont) => fsm_state = "ACTIVATION"
         /\ FsmResetCold(cont) => fsm_state = "RESET_COLD"
         /\ FsmAtrReq(cont, cap) => fsm_state = "ATR_REQ"
         /\ FsmAtrRes(cont, rx) => fsm_state = "ATR_RES"
         /\ FsmPpsReq(cont, rx, cap) => fsm_state = "PPS_REQ"
         /\ FsmCmdWait(cont, rx) => fsm_state = "CMD_WAIT"
         /\ FsmCmdProcedure(cont, rx, cap, res) => fsm_state = "CMD_PROCEDURE"
         /\ FsmCmdData(cont, rx) => fsm_state = "CMD_DATA"
  BY DEF FsmOff, FsmActivation, FsmResetCold, FsmAtrReq, FsmAtrRes, FsmPpsReq,
         FsmCmdWait, FsmCmdProcedure, FsmCmdData

\* One call with bytes rx runs the handler of the state.
LEMMA OneCall ==
  ASSUME NEW cont, NEW rx, NEW results, Io(cont, {rx}, TxSizes, results)
  PROVE  /\ cont_state_rx' = cont
         /\ fsm_state = "OFF" => FsmOff(cont)
         /\ fsm_state = "ACTIVATION" => FsmActivation(cont)
         /\ fsm_state = "RESET_COLD" => FsmResetCold(cont)
         /\ fsm_state = "ATR_REQ" => \E cap \in TxSizes : FsmAtrReq(cont, cap)
         /\ fsm_state = "ATR_RES" => FsmAtrRes(cont, rx)
         /\ fsm_state = "PPS_REQ" =>
              \E cap \in TxSizes : FsmPpsReq(cont, rx, cap)
         /\ fsm_state = "CMD_WAIT" => FsmCmdWait(cont, rx)
         /\ fsm_state = "CMD_PROCEDURE" =>
              \E cap \in TxSizes, res \in results :
                FsmCmdProcedure(cont, rx, cap, res)
         /\ fsm_state = "CMD_DATA" => FsmCmdData(cont, rx)
<1>1. /\ cont_state_rx' = cont
      /\ \/ FsmOff(cont)
         \/ FsmActivation(cont)
         \/ FsmResetCold(cont)
         \/ \E cap \in TxSizes : FsmAtrReq(cont, cap)
         \/ FsmAtrRes(cont, rx)
         \/ \E cap \in TxSizes : FsmPpsReq(cont, rx, cap)
         \/ FsmCmdWait(cont, rx)
         \/ \E cap \in TxSizes, res \in results :
              FsmCmdProcedure(cont, rx, cap, res)
         \/ FsmCmdData(cont, rx)
  BY DEF Io
<1>2. QED
  BY <1>1, OwnState

\* The card's part of the types, in every step.
LEMMA CallType ==
  ASSUME TypeOK, NEW cont \in SUBSET ContBits, NEW rx \in Seq(Byte),
         NEW results \in SUBSET Result, Io(cont, {rx}, TxSizes, results)
  PROVE  TypeOK'
<1>1. {rx} \in SUBSET Seq(Byte) /\ TxSizes \in SUBSET Nat
  BY CardAssumption
<1>2. QED
  BY <1>1, IoType

LEMMA HandlersAreResults ==
  HandlerMay \in SUBSET Result /\ Results \in SUBSET Result
  BY CardAssumption DEF HandlerMay

-----------------------------------------------------------------------------
(* Raising the contacts.                                                   *)

LEMMA RaisedTo ==
  /\ Raised({}) = ValidAll /\ Raised(ValidAll) = ContPowered
  /\ Raised(ContPowered) = ContPowered \cup {"IO"}
  /\ Raised(ContPowered \cup {"IO"}) = ContClocked
  /\ Raised(ContClocked) = ContReady
<1>1. ContPowered \cup {"IO"} # {} /\ ContPowered \cup {"IO"} # ValidAll
  BY DEF ContPowered, ValidAll
<1>2. Raised({}) = ValidAll
  BY <1>1, Rungs DEF Raised
<1>3. /\ Raised(ValidAll) = ContPowered
      /\ Raised(ContPowered) = ContPowered \cup {"IO"}
  BY <1>1, Rungs DEF Raised
<1>4. Raised(ContPowered \cup {"IO"}) = ContClocked
  BY <1>1, Rungs DEF Raised
<1>5. Raised(ContClocked) = ContReady
  BY Rungs DEF Raised
<1>6. QED
  BY <1>2, <1>3, <1>4, <1>5

LEMMA CleanStays ==
  ASSUME Clean, UNCHANGED cmdVars
  PROVE  Clean'
  BY DEF Clean, cmdVars

\* What the handlers of the activation do.
LEMMA ActivationCall ==
  ASSUME NEW cont, NEW rx, NEW results, Io(cont, {rx}, TxSizes, results),
         fsm_state \in {"OFF", "ACTIVATION", "RESET_COLD"}
  PROVE  /\ UNCHANGED cmdVars /\ UNCHANGED ppsVars
         /\ cont_state_rx' = cont /\ buf_tx' = "none"
         /\ fsm_state = "OFF" => fsm_state' =
              IF cont = ContPowered THEN "ACTIVATION" ELSE "OFF"
         /\ fsm_state = "ACTIVATION" =>
              /\ cont = ContClocked => fsm_state' = "RESET_COLD"
              /\ cont # ContClocked => fsm_state' \in {"OFF", "ACTIVATION"}
              /\ cont # ContClocked /\ cont \cap {"VCC", "VALID_VCC"} # {} =>
                   fsm_state' = "ACTIVATION"
         /\ fsm_state = "RESET_COLD" =>
              fsm_state' = IF Ready(cont) THEN "ATR_REQ"
                           ELSE IF cont = ContReady \ {"RST"}
                           THEN "RESET_COLD" ELSE "OFF"
<1> USE DEF Quiet, Send, Goto
<1>1. CASE fsm_state = "OFF"
  BY <1>1, OneCall DEF FsmOff
<1>2. CASE fsm_state = "ACTIVATION"
  <2>1. FsmActivation(cont) /\ cont_state_rx' = cont
    BY <1>2, OneCall
  <2>2. cont = ContClocked => cont \cap {"VCC", "VALID_VCC"} # {}
    BY DEF ContClocked
  <2>3. QED
    BY <1>2, <2>1, <2>2 DEF FsmActivation
<1>3. CASE fsm_state = "RESET_COLD"
  <2>1. FsmResetCold(cont) /\ cont_state_rx' = cont
    BY <1>3, OneCall
  <2>2. ContReady # ContReady \ {"RST"}
    BY DEF ContReady
  <2>3. QED
    BY <1>3, <2>1, <2>2 DEF FsmResetCold, Ready
<1>4. QED
  BY <1>1, <1>2, <1>3

LEMMA RaiseStep ==
  ASSUME ResetBeforePower, SessionInv, RaiseContacts
  PROVE  SessionInv'
<1>1. Activating /\ SessionTypeOK /\ TypeOK
  BY DEF RaiseContacts, SessionInv, Conversing, SessionTypeOK
<1>2. PICK cont \in {cont_state_rx, Raised(cont_state_rx)} :
        /\ cont = ContPowered => fresh \/ cont_state_rx = ContPowered
        /\ Io(cont, {<< >>}, TxSizes, Results)
        /\ fresh' = (fresh /\ cont \in {{}, ValidAll})
  BY DEF RaiseContacts
<1>3. cont \in SUBSET ContBits
  BY <1>1, RaisedTo, RungTypes DEF Activating
<1>4. SessionTypeOK'
  <2>1. TypeOK'
    <3>1. << >> \in Seq(Byte)
      OBVIOUS
    <3>2. QED
      BY <1>1, <1>2, <1>3, <3>1, CallType, HandlersAreResults
  <2>2. QED
    BY <1>1, <1>2, <2>1 DEF SessionTypeOK, RaiseContacts
<1>5. UNCHANGED <<ifd, cmd, hdr_sent>> /\ ifd = "off" /\ hdr_sent = 0
  BY <1>1 DEF RaiseContacts, Activating
<1>6. fsm_state \in {"OFF", "ACTIVATION", "RESET_COLD"}
  BY <1>1 DEF Activating, Unpowered
<1>7. UNCHANGED cmdVars /\ cont_state_rx' = cont
  BY <1>2, <1>6, ActivationCall
<1>8. CASE cont_state_rx \in {{}, ValidAll} /\ Unpowered
  <2>1. cont \in {{}, ValidAll, ContPowered}
    BY <1>2, <1>8, RaisedTo
  <2>2. /\ fsm_state \in {"OFF", "ACTIVATION"}
        /\ fresh => fsm_state = "OFF" /\ Clean
    BY <1>8 DEF Unpowered
  <2>3. CASE cont \in {{}, ValidAll}
    <3>1. cont # ContPowered /\ cont # ContClocked
      BY <2>3, Rungs
    <3>2. /\ fsm_state = "OFF" => fsm_state' = "OFF"
          /\ fsm_state' \in {"OFF", "ACTIVATION"}
      BY <1>2, <2>2, <3>1, ActivationCall
    <3>3. Unpowered'
      BY <1>2, <1>7, <2>2, <2>3, <3>2, CleanStays DEF Unpowered
    <3>4. QED
      BY <1>4, <1>5, <1>7, <2>3, <3>3 DEF SessionInv, Activating
  <2>4. CASE cont = ContPowered
    <3>1. fresh
      BY <1>2, <1>8, <2>4, Rungs
    <3>2. fsm_state' = "ACTIVATION" /\ Clean'
      BY <1>2, <1>7, <2>2, <2>4, <3>1, ActivationCall, CleanStays
    <3>3. QED
      BY <1>4, <1>5, <1>7, <2>4, <3>2 DEF SessionInv, Activating
  <2>5. QED
    BY <2>1, <2>3, <2>4
<1>9. CASE /\ cont_state_rx \in {ContPowered, ContPowered \cup {"IO"}}
           /\ fsm_state = "ACTIVATION" /\ Clean
  <2>1. cont \in {ContPowered, ContPowered \cup {"IO"}, ContClocked}
    BY <1>2, <1>9, RaisedTo
  <2>2. Clean'
    BY <1>7, <1>9, CleanStays
  <2>3. CASE cont = ContClocked
    <3>1. fsm_state' = "RESET_COLD"
      BY <1>2, <1>9, <2>3, ActivationCall
    <3>2. QED
      BY <1>4, <1>5, <1>7, <2>2, <2>3, <3>1 DEF SessionInv, Activating
  <2>4. CASE cont # ContClocked
    <3>1. cont \cap {"VCC", "VALID_VCC"} # {}
      BY <2>1, <2>4, Rungs
    <3>2. fsm_state' = "ACTIVATION"
      BY <1>2, <1>9, <2>4, <3>1, ActivationCall
    <3>3. QED
      BY <1>4, <1>5, <1>7, <2>1, <2>2, <2>4, <3>2 DEF SessionInv, Activating
  <2>5. QED
    BY <2>3, <2>4
<1>10. CASE cont_state_rx = ContClocked /\ fsm_state = "RESET_COLD" /\ Clean
  <2>1. cont \in {ContClocked, ContReady}
    BY <1>2, <1>10, RaisedTo
  <2>2. Clean'
    BY <1>7, <1>10, CleanStays
  <2>3. CASE cont = ContReady
    <3>1. fsm_state' = "ATR_REQ"
      BY <1>2, <1>10, <2>3, ActivationCall DEF Ready
    <3>2. QED
      BY <1>4, <1>5, <1>7, <2>2, <2>3, <3>1
         DEF SessionInv, Conversing, BeforeAtr
  <2>4. CASE cont = ContClocked
    <3>1. cont # ContReady /\ cont = ContReady \ {"RST"}
      BY <2>4, Rungs
    <3>2. fsm_state' = "RESET_COLD"
      BY <1>2, <1>10, <3>1, ActivationCall DEF Ready
    <3>3. QED
      BY <1>4, <1>5, <1>7, <2>2, <2>4, <3>2 DEF SessionInv, Activating
  <2>5. QED
    BY <2>1, <2>3, <2>4
<1>11. QED
  BY <1>1, <1>8, <1>9, <1>10 DEF Activating

-----------------------------------------------------------------------------
(* Losing power and being reset.                                           *)

\* Without power, a card that was in a conversation is off.
LEMMA PowerLost ==
  ASSUME NEW cont, NEW rx, NEW results, Io(cont, {rx}, TxSizes, results),
         cont = ValidAll, fsm_state \in States
  PROVE  fsm_state' \in {"OFF", "ACTIVATION"} /\ buf_tx' = "none"
<1> USE DEF Quiet, Send, Goto, TurnOff
<1>1. ~Ready(cont) /\ cont # ContReady \ {"RST"} /\ cont # ContClocked
      /\ cont # ContPowered
  BY Rungs DEF Ready
<1>2. CASE fsm_state \in {"OFF", "ACTIVATION", "RESET_COLD"}
  BY <1>1, <1>2, ActivationCall
<1>3. CASE fsm_state = "ATR_REQ"
  BY <1>1, <1>3, OneCall DEF FsmAtrReq
<1>4. CASE fsm_state = "ATR_RES"
  BY <1>1, <1>4, OneCall DEF FsmAtrRes
<1>5. CASE fsm_state = "PPS_REQ"
  BY <1>1, <1>5, OneCall DEF FsmPpsReq
<1>6. CASE fsm_state = "CMD_WAIT"
  BY <1>1, <1>6, OneCall DEF FsmCmdWait
<1>7. CASE fsm_state = "CMD_PROCEDURE"
  BY <1>1, <1>7, OneCall DEF FsmCmdProcedure
<1>8. CASE fsm_state = "CMD_DATA"
  BY <1>1, <1>8, OneCall DEF FsmCmdData
<1>9. QED
  BY <1>2, <1>3, <1>4, <1>5, <1>6, <1>7, <1>8 DEF States

LEMMA PowerOffStep ==
  ASSUME SessionInv, PowerOff
  PROVE  SessionInv'
<1>1. /\ Io(ValidAll, {<< >>}, TxSizes, Results)
      /\ ifd' = "off" /\ cmd' = ~cmd /\ hdr_sent' = 0 /\ fresh' = FALSE
  BY DEF PowerOff, HangUp
<1>2. << >> \in Seq(Byte) /\ fsm_state \in States
  BY DEF SessionInv, SessionTypeOK, TypeOK, IoTypeOK
<1>3. TypeOK'
  BY <1>1, <1>2, CallType, HandlersAreResults, RungTypes
     DEF SessionInv, SessionTypeOK
<1>4. SessionTypeOK'
  <2>1. cmd' \in BOOLEAN /\ fresh' \in BOOLEAN
    BY <1>1, Zenon DEF SessionInv, SessionTypeOK
  <2>2. hdr_sent' \in 0..HdrLen
    BY <1>1 DEF HdrLen
  <2>3. QED
    BY <1>1, <1>3, <2>1, <2>2, Zenon DEF SessionTypeOK
<1>5. fsm_state' \in {"OFF", "ACTIVATION"}
  BY <1>1, <1>2, PowerLost
<1>6. cont_state_rx' = ValidAll
  BY <1>1 DEF Io
<1>7. QED
  BY <1>1, <1>4, <1>5, <1>6 DEF SessionInv, Activating, Unpowered

LEMMA ColdResetStep ==
  ASSUME SessionInv, ColdReset
  PROVE  SessionInv'
<1>1. /\ Reset /\ cont_state_rx' = ValidAll
      /\ ifd' = "off" /\ cmd' = ~cmd /\ hdr_sent' = 0 /\ fresh' = TRUE
  BY DEF ColdReset, HangUp
<1>2. TypeOK'
  BY <1>1, ResetType, RungTypes DEF SessionInv, SessionTypeOK
<1>3. SessionTypeOK'
  <2>1. cmd' \in BOOLEAN /\ fresh' \in BOOLEAN
    BY <1>1, Zenon DEF SessionInv, SessionTypeOK
  <2>2. hdr_sent' \in 0..HdrLen
    BY <1>1 DEF HdrLen
  <2>3. QED
    BY <1>1, <1>2, <2>1, <2>2, Zenon DEF SessionTypeOK
<1>4. fsm_state' = "OFF" /\ Clean'
  BY <1>1 DEF Reset, Goto, Clean
<1>5. QED
  BY <1>1, <1>3, <1>4 DEF SessionInv, Activating, Unpowered

-----------------------------------------------------------------------------
(* The conversation.                                                       *)

\* ifd tells the stage.
LEMMA Stage ==
  ASSUME SessionInv, cont_state_rx = ContReady
  PROVE  /\ SessionTypeOK /\ TypeOK
         /\ ifd = "off" => BeforeAtr
         /\ ifd = "protocol" => Choosing
         /\ ifd = "pps" => Negotiating
         /\ ifd = "header" => HeaderDue
         /\ ifd = "procedure" => /\ tpdu_hdr = HeaderOf(cmd, HdrLen)
                                 /\ Executing \/ Receiving
<1>1. SessionTypeOK /\ TypeOK
  BY DEF SessionInv, SessionTypeOK
<1>2. ~Activating
  BY Rungs DEF Activating
<1>3. Conversing
  BY <1>2 DEF SessionInv
<1>4. QED
  BY <1>1, <1>3 DEF Conversing

LEMMA Delivered ==
  ASSUME SessionInv, NEW rx \in Seq(Byte), Deliver(rx)
  PROVE  TypeOK' /\ cont_state_rx' = ContReady
<1>1. TypeOK'
  BY CallType, HandlersAreResults, RungTypes
     DEF Deliver, SessionInv, SessionTypeOK
<1>2. QED
  BY <1>1, OneCall DEF Deliver

\* The interface's part of the types.
LEMMA SessionTypes ==
  ASSUME TypeOK', SessionTypeOK, UNCHANGED fresh,
         ifd' \in {"off", "protocol", "pps", "header", "procedure"},
         cmd' \in BOOLEAN, hdr_sent' \in 0..HdrLen
  PROVE  SessionTypeOK'
  BY Zenon DEF SessionTypeOK

\* A piece of the conversation that leaves the command alone.
LEMMA SameCommand ==
  ASSUME TypeOK', SessionTypeOK, UNCHANGED <<fresh, cmd, hdr_sent>>,
         ifd' \in {"off", "protocol", "pps", "header", "procedure"}
  PROVE  SessionTypeOK'
<1>1. cmd' \in BOOLEAN /\ hdr_sent' \in 0..HdrLen
  BY Zenon DEF SessionTypeOK
<1>2. QED
  BY <1>1, SessionTypes

LEMMA NoHeaderYet ==
  ASSUME NEW c PROVE HeaderOf(c, 0) = << >>
  BY DEF HeaderOf

LEMMA AtrCall ==
  ASSUME SessionInv, cont_state_rx = ContReady, AwaitAtr
  PROVE  /\ fsm_state = "ATR_REQ" /\ fsm_state' = "ATR_RES"
         /\ buf_tx' = "atr" /\ UNCHANGED cmdVars /\ ifd' = "protocol"
<1>1. Deliver(<< >>) /\ ifd = "off"
  BY DEF AwaitAtr
<1>2. BeforeAtr
  BY <1>1, Stage
<1>3. PICK cap \in TxSizes : FsmAtrReq(ContReady, cap)
  BY <1>1, <1>2, OneCall DEF Deliver, BeforeAtr
<1>4. ~(cap < AtrLen) /\ Ready(ContReady)
  BY DriverAssumption, CardAssumption DEF Ready
<1>5. QED
  BY <1>2, <1>3, <1>4 DEF FsmAtrReq, Goto, Send, BeforeAtr, AwaitAtr

LEMMA AtrStep ==
  ASSUME SessionInv, cont_state_rx = ContReady, UNCHANGED fresh, AwaitAtr
  PROVE  SessionInv'
<1>1. /\ fsm_state' = "ATR_RES" /\ UNCHANGED cmdVars /\ ifd' = "protocol"
      /\ UNCHANGED <<cmd, hdr_sent>> /\ ifd = "off" /\ Deliver(<< >>)
  BY AtrCall DEF AwaitAtr
<1>2. << >> \in Seq(Byte)
  OBVIOUS
<1>3. TypeOK' /\ cont_state_rx' = ContReady /\ SessionTypeOK /\ BeforeAtr
  BY <1>1, <1>2, Delivered, Stage
<1>4. SessionTypeOK'
  BY <1>1, <1>3, SameCommand
<1>5. Choosing'
  BY <1>1, <1>3, CleanStays DEF BeforeAtr, Choosing
<1>6. QED
  BY <1>1, <1>3, <1>4, <1>5 DEF SessionInv, Conversing

\* The first byte after the ATR.
LEMMA FirstByte ==
  ASSUME SessionInv, cont_state_rx = ContReady, ifd = "protocol",
         NEW rx \in Seq(Byte), Len(rx) = 1, Deliver(rx)
  PROVE  /\ fsm_state = "ATR_RES" /\ buf_tx' = "none" /\ buf_rx_len' = 0
         /\ UNCHANGED <<tpdu_processed, procedure_count, data_len>>
         /\ rx[1] = PPSS => /\ fsm_state' = "PPS_REQ" /\ UNCHANGED tpdu_hdr
                            /\ pps_len' = 1 /\ pps_exp' = 0
         /\ rx[1] # PPSS => fsm_state' = "CMD_WAIT" /\ tpdu_hdr' = rx
<1>1. Choosing
  BY Stage
<1>2. FsmAtrRes(ContReady, rx)
  BY <1>1, OneCall DEF Deliver, Choosing
<1>3. QED
  BY <1>1, <1>2
     DEF FsmAtrRes, Ready, Goto, Quiet, Send, Ask, Choosing

LEMMA PpsStartStep ==
  ASSUME SessionInv, cont_state_rx = ContReady, UNCHANGED fresh, StartPps
  PROVE  SessionInv'
<1>1. /\ ifd = "protocol" /\ Deliver(<<PPSS>>) /\ ifd' = "pps"
      /\ UNCHANGED <<cmd, hdr_sent>>
  BY DEF StartPps
<1>2. <<PPSS>> \in Seq(Byte) /\ Len(<<PPSS>>) = 1 /\ <<PPSS>>[1] = PPSS
  BY CardAssumption
<1>3. /\ fsm_state' = "PPS_REQ" /\ UNCHANGED tpdu_hdr
      /\ UNCHANGED <<tpdu_processed, procedure_count, data_len>>
      /\ buf_rx_len' = 0 /\ pps_len' = 1 /\ pps_exp' = 0
  BY <1>1, <1>2, FirstByte
<1>4. TypeOK' /\ cont_state_rx' = ContReady /\ SessionTypeOK /\ Choosing
  BY <1>1, <1>2, Delivered, Stage
<1>5. SessionTypeOK'
  BY <1>1, <1>4, SameCommand
<1>6. Negotiating'
  BY <1>1, <1>3, <1>4 DEF Negotiating, Choosing, Clean
<1>7. QED
  BY <1>1, <1>4, <1>5, <1>6 DEF SessionInv, Conversing

\* The first byte of a header is not that of a PPS request.
LEMMA FirstHeaderByte ==
  ASSUME SessionInv, cont_state_rx = ContReady, StartHeader
  PROVE  \E rx \in Seq(Byte) :
           /\ Len(rx) = 1 /\ rx[1] # PPSS /\ rx = HeaderOf(cmd, 1)
           /\ ifd = "protocol" /\ Deliver(rx)
<1> DEFINE rx == HeaderPart(1)
<1>1. ifd = "protocol" /\ Deliver(rx)
  BY DEF StartHeader
<1>2. hdr_sent = 0 /\ cmd \in BOOLEAN
  BY <1>1, Stage DEF Choosing, SessionTypeOK
<1>3. rx \in Seq(Byte) /\ Len(rx) = 1
  <2>1. hdr_sent \in Nat /\ 1 \in Nat /\ hdr_sent + 1 <= HdrLen
    BY <1>2 DEF HdrLen
  <2>2. rx = PartOf(cmd, hdr_sent, 1)
    BY DEF HeaderPart, PartOf
  <2>3. PartOf(cmd, hdr_sent, 1) \in Seq(Byte)
    BY <1>2, <2>1, PartBytes
  <2>4. Len(PartOf(cmd, hdr_sent, 1)) = 1
    BY <1>2, <2>1, PartLen
  <2>5. QED
    BY <2>2, <2>3, <2>4
<1>4. rx = HeaderOf(cmd, 1) /\ rx[1] = HeaderByte(cmd, 1)
  BY <1>2 DEF HeaderPart, HeaderOf
<1>5. rx[1] # PPSS
  BY <1>2, <1>4, SessionAssumption DEF HdrLen
<1> HIDE DEF rx
<1>6. QED
  BY <1>1, <1>3, <1>4, <1>5

LEMMA HeaderStartStep ==
  ASSUME SessionInv, cont_state_rx = ContReady, UNCHANGED fresh, StartHeader
  PROVE  SessionInv'
<1>1. ifd' = "header" /\ hdr_sent' = 1 /\ UNCHANGED cmd
  BY DEF StartHeader
<1>2. PICK rx \in Seq(Byte) :
        /\ Len(rx) = 1 /\ rx[1] # PPSS /\ rx = HeaderOf(cmd, 1)
        /\ ifd = "protocol" /\ Deliver(rx)
  BY FirstHeaderByte
<1>3. SessionTypeOK /\ Choosing /\ cmd \in BOOLEAN
  BY <1>2, Stage DEF SessionTypeOK
<1>4. /\ fsm_state' = "CMD_WAIT" /\ tpdu_hdr' = rx /\ buf_rx_len' = 0
      /\ UNCHANGED <<tpdu_processed, procedure_count, data_len>>
  BY <1>2, FirstByte
<1>5. TypeOK' /\ cont_state_rx' = ContReady
  BY <1>2, Delivered
<1>6. SessionTypeOK'
  <2>1. cmd' \in BOOLEAN
    BY <1>1, <1>3, Zenon
  <2>2. hdr_sent' \in 0..HdrLen
    BY <1>1 DEF HdrLen
  <2>3. QED
    BY <1>1, <1>3, <1>5, <2>1, <2>2, SessionTypes
<1>7. HeaderDue'
  BY <1>1, <1>2, <1>3, <1>4 DEF HeaderDue, Choosing, Clean, HdrLen
<1>8. QED
  BY <1>1, <1>5, <1>6, <1>7 DEF SessionInv, Conversing

-----------------------------------------------------------------------------
(* The parameter exchange.                                                 *)

\* What a card that negotiates makes of a piece: it waits for more, refuses
\* the request, or answers it and perhaps agrees.
LEMMA PpsCall ==
  ASSUME SessionInv, cont_state_rx = ContReady, ifd = "pps",
         NEW n \in Pieces(buf_rx_len), Deliver(Repeat(PpsByte, n))
  PROVE  /\ fsm_state = "PPS_REQ"
         /\ UNCHANGED <<tpdu_hdr, procedure_count, data_len>>
         /\ \/ /\ fsm_state' = "PPS_REQ" /\ UNCHANGED tpdu_processed
               /\ buf_tx' = "none"
               /\ pps_exp' = 0 \/ pps_len' < pps_exp'
               /\ pps_len' + buf_rx_len' <=
                    IF pps_exp' = 0 THEN 2 ELSE pps_exp'
            \/ /\ pps_exp' # 0 /\ ~(pps_len' < pps_exp')
               /\ \/ /\ fsm_state' = "ATR_RES" /\ UNCHANGED tpdu_processed
                     /\ \/ buf_tx' = "none"
                        \/ buf_tx' = "pps" /\ buf_tx_len' # pps_len'
                  \/ /\ fsm_state' = "CMD_WAIT" /\ tpdu_processed' = FALSE
                     /\ buf_tx' = "pps" /\ buf_tx_len' = pps_len'
                     /\ buf_rx_len' = 0
<1> DEFINE rx == Repeat(PpsByte, n)
           len == pps_len + n
<1> USE DEF Goto, Quiet, Send, Ask, PpsLenMax
<1>1. /\ Negotiating /\ PpsTypeOK /\ buf_rx_len \in Nat /\ pps_len \in Nat
      /\ fsm_state = "PPS_REQ"
  BY Stage DEF TypeOK, IoTypeOK, PpsTypeOK, Negotiating
<1>2. n \in Nat /\ n <= buf_rx_len
  BY <1>1, PieceSizes
<1>3. rx \in Seq(Byte) /\ Len(rx) = n
  BY <1>2, Repeated, SessionAssumption
<1>4. /\ pps_exp \in {0} \cup 3..6 /\ len \in Nat
      /\ len <= IF pps_exp = 0 THEN 2 ELSE pps_exp
  BY <1>1, <1>2 DEF Negotiating, PpsTypeOK
<1> HIDE DEF rx
<1>5. PICK cap \in TxSizes : FsmPpsReq(ContReady, rx, cap)
  BY <1>1, OneCall DEF Deliver, rx
<1>6. Ready(ContReady) /\ cap \in Nat /\ cap >= 6
  BY DriverAssumption, CardAssumption DEF Ready
<1>7. PpsFits(len)
  BY <1>4 DEF PpsFits
<1>8. /\ UNCHANGED <<tpdu_hdr, procedure_count, data_len>>
      /\ \/ /\ len < 2 /\ pps_len' = len
            /\ Goto("PPS_REQ") /\ Quiet /\ Ask(2 - len)
            /\ UNCHANGED <<pps_exp, tp, tpdu_processed>>
         \/ /\ len >= 2 /\ pps_len' = len
            /\ \E exp \in PpsExpected :
                 /\ pps_exp' = exp
                 /\ \/ /\ len < exp
                       /\ Goto("PPS_REQ") /\ Quiet /\ Ask(exp - len)
                       /\ UNCHANGED <<tp, tpdu_processed>>
                    \/ len >= exp /\ PpsInvalid
                    \/ len >= exp /\ PpsValid(len, exp, cap)
  BY <1>3, <1>5, <1>6, <1>7, Zenon DEF FsmPpsReq
<1> HIDE DEF len
<1>9. CASE /\ len < 2 /\ pps_len' = len
           /\ Goto("PPS_REQ") /\ Quiet /\ Ask(2 - len)
           /\ UNCHANGED <<pps_exp, tp, tpdu_processed>>
  BY <1>1, <1>4, <1>8, <1>9
<1>10. ASSUME len >= 2, pps_len' = len, NEW exp \in PpsExpected,
              pps_exp' = exp,
              \/ /\ len < exp
                 /\ Goto("PPS_REQ") /\ Quiet /\ Ask(exp - len)
                 /\ UNCHANGED <<tp, tpdu_processed>>
              \/ len >= exp /\ PpsInvalid
              \/ len >= exp /\ PpsValid(len, exp, cap)
       PROVE  \/ /\ fsm_state' = "PPS_REQ" /\ UNCHANGED tpdu_processed
                 /\ buf_tx' = "none"
                 /\ pps_exp' = 0 \/ pps_len' < pps_exp'
                 /\ pps_len' + buf_rx_len' <=
                      IF pps_exp' = 0 THEN 2 ELSE pps_exp'
              \/ /\ pps_exp' # 0 /\ ~(pps_len' < pps_exp')
                 /\ \/ /\ fsm_state' = "ATR_RES" /\ UNCHANGED tpdu_processed
                       /\ \/ buf_tx' = "none"
                          \/ buf_tx' = "pps" /\ buf_tx_len' # pps_len'
                    \/ /\ fsm_state' = "CMD_WAIT" /\ tpdu_processed' = FALSE
                       /\ buf_tx' = "pps" /\ buf_tx_len' = pps_len'
                       /\ buf_rx_len' = 0
  <2>1. exp \in 3..6
    BY <1>4 DEF PpsExpected
  <2>2. CASE /\ len < exp
             /\ Goto("PPS_REQ") /\ Quiet /\ Ask(exp - len)
             /\ UNCHANGED <<tp, tpdu_processed>>
    BY <1>4, <1>10, <2>1, <2>2
  <2>3. CASE len >= exp /\ PpsInvalid
    BY <1>4, <1>10, <2>1, <2>3 DEF PpsInvalid
  <2>4. CASE len >= exp /\ PpsValid(len, exp, cap)
    <3>1. PICK res \in {exp - 1, exp} :
            \/ cap < res - 1
            \/ /\ res # len /\ Goto("ATR_RES") /\ Send("pps", res)
               /\ UNCHANGED tpdu_processed
            \/ /\ res = len /\ Goto("CMD_WAIT") /\ Send("pps", res) /\ Ask(0)
               /\ tpdu_processed' = FALSE
      BY <2>4 DEF PpsValid
    <3>2. ~(cap < res - 1)
      BY <1>6, <2>1
    <3>3. QED
      BY <1>4, <1>10, <2>1, <2>4, <3>1, <3>2
  <2>5. QED
    BY <1>10, <2>2, <2>3, <2>4
<1>11. QED
  BY <1>1, <1>8, <1>9, <1>10

LEMMA PpsStep ==
  ASSUME SessionInv, cont_state_rx = ContReady, UNCHANGED fresh, ContinuePps
  PROVE  SessionInv'
<1>1. PICK n \in Pieces(buf_rx_len) : Deliver(Repeat(PpsByte, n))
  BY DEF ContinuePps
<1>2. /\ ifd = "pps" /\ UNCHANGED <<cmd, hdr_sent>>
      /\ ifd' = CASE pps_exp' = 0 \/ pps_len' < pps_exp'       -> "pps"
                  [] buf_tx' = "pps" /\ buf_tx_len' = pps_len' -> "header"
                  [] OTHER                                     -> "protocol"
  BY DEF ContinuePps
<1>3. SessionTypeOK /\ Negotiating /\ buf_rx_len \in Nat
  BY <1>2, Stage DEF TypeOK, IoTypeOK
<1>4. Repeat(PpsByte, n) \in Seq(Byte)
  BY <1>3, PieceSizes, Repeated, SessionAssumption
<1>5. TypeOK' /\ cont_state_rx' = ContReady
  BY <1>1, <1>4, Delivered
<1>6. SessionTypeOK'
  <2>1. ifd' \in {"off", "protocol", "pps", "header", "procedure"}
    BY <1>2
  <2>2. QED
    BY <1>2, <1>3, <1>5, <2>1, SameCommand
<1>7. UNCHANGED <<tpdu_hdr, procedure_count, data_len>>
  BY <1>1, <1>2, PpsCall
<1>8. CASE /\ fsm_state' = "PPS_REQ" /\ UNCHANGED tpdu_processed
           /\ buf_tx' = "none" /\ (pps_exp' = 0 \/ pps_len' < pps_exp')
           /\ pps_len' + buf_rx_len' <= IF pps_exp' = 0 THEN 2 ELSE pps_exp'
  <2>1. ifd' = "pps"
    BY <1>2, <1>8
  <2>2. Negotiating'
    BY <1>2, <1>3, <1>7, <1>8 DEF Negotiating, Clean
  <2>3. QED
    BY <1>5, <1>6, <2>1, <2>2 DEF SessionInv, Conversing
<1>9. CASE /\ pps_exp' # 0 /\ ~(pps_len' < pps_exp')
           /\ fsm_state' = "ATR_RES" /\ UNCHANGED tpdu_processed
           /\ buf_tx' = "none" \/ (buf_tx' = "pps" /\ buf_tx_len' # pps_len')
  <2>1. ifd' = "protocol"
    BY <1>2, <1>9
  <2>2. Choosing'
    BY <1>2, <1>3, <1>7, <1>9 DEF Negotiating, Choosing, Clean
  <2>3. QED
    BY <1>5, <1>6, <2>1, <2>2 DEF SessionInv, Conversing
<1>10. CASE /\ pps_exp' # 0 /\ ~(pps_len' < pps_exp')
            /\ fsm_state' = "CMD_WAIT" /\ tpdu_processed' = FALSE
            /\ buf_tx' = "pps" /\ buf_tx_len' = pps_len' /\ buf_rx_len' = 0
  <2>1. ifd' = "header"
    BY <1>2, <1>10
  <2>2. HeaderDue'
    BY <1>2, <1>3, <1>7, <1>10, NoHeaderYet
       DEF Negotiating, HeaderDue, Clean, HdrLen
  <2>3. QED
    BY <1>5, <1>6, <2>1, <2>2 DEF SessionInv, Conversing
<1>11. QED
  BY <1>1, <1>2, <1>8, <1>9, <1>10, PpsCall

-----------------------------------------------------------------------------
(* Headers.                                                                *)

\* What the card holds of the command the interface is sending.
LEMMA HeldIsSent ==
  ASSUME HeaderDue, hdr_sent \in Nat
  PROVE  Held = HeaderOf(cmd, hdr_sent)
<1>1. CASE tpdu_processed
  BY <1>1, NoHeaderYet DEF HeaderDue, Held
<1>2. CASE ~tpdu_processed
  BY <1>2 DEF HeaderDue, Held
<1>3. QED
  BY <1>1, <1>2

LEMMA HeaderCall ==
  ASSUME SessionInv, cont_state_rx = ContReady, ifd = "header",
         NEW n \in Pieces(buf_rx_len), Deliver(HeaderPart(n))
  PROVE  /\ HeaderPart(n) \in Seq(Byte) /\ n \in Nat /\ hdr_sent + n <= HdrLen
         /\ fsm_state = "CMD_WAIT" /\ buf_tx' = "none"
         /\ tpdu_hdr' = HeaderOf(cmd, hdr_sent + n)
         /\ tpdu_processed' = FALSE /\ procedure_count' = 0 /\ data_len' = 0
         /\ \/ /\ hdr_sent + n < HdrLen /\ fsm_state' = "CMD_WAIT"
               /\ buf_rx_len' = HdrLen - (hdr_sent + n)
            \/ /\ hdr_sent + n = HdrLen /\ fsm_state' = "CMD_PROCEDURE"
               /\ buf_rx_len' = 0
<1> DEFINE rx == HeaderPart(n)
           hdr == Held \o rx
<1>1. /\ HeaderDue /\ buf_rx_len \in Nat /\ hdr_sent \in Nat
      /\ cmd \in BOOLEAN /\ tpdu_processed \in BOOLEAN
  BY Stage DEF TypeOK, IoTypeOK, CommandTypeOK, SessionTypeOK, HdrLen
<1>2. n \in Nat /\ n <= buf_rx_len
  BY <1>1, PieceSizes
<1>3. hdr_sent + n <= HdrLen
  BY <1>1, <1>2 DEF HeaderDue, HdrLen
<1>4. rx = PartOf(cmd, hdr_sent, n)
  BY DEF HeaderPart, PartOf
<1>5. rx \in Seq(Byte)
  BY <1>1, <1>2, <1>3, <1>4, PartBytes
<1>6. hdr = HeaderOf(cmd, hdr_sent + n)
  <2>1. Held = HeaderOf(cmd, hdr_sent)
    BY <1>1, HeldIsSent
  <2>2. HeaderOf(cmd, hdr_sent) \o PartOf(cmd, hdr_sent, n)
          = HeaderOf(cmd, hdr_sent + n)
    BY <1>1, <1>2, <1>3, PartJoins
  <2>3. QED
    BY <1>4, <2>1, <2>2
<1>7. Len(hdr) = hdr_sent + n
  <2>1. hdr_sent + n \in Nat
    BY <1>1, <1>2
  <2>2. QED
    BY <1>1, <1>3, <1>6, <2>1, HeaderLen
<1>8. FsmCmdWait(ContReady, rx) /\ fsm_state = "CMD_WAIT"
  BY <1>1, OneCall DEF Deliver, HeaderDue
<1>9. CountHeld = 0 /\ (IF tpdu_processed THEN 0 ELSE data_len) = 0
  BY <1>1 DEF HeaderDue, CountHeld
<1> HIDE DEF hdr
<1>10. /\ Quiet /\ procedure_count' = CountHeld
       /\ \/ /\ Len(hdr) < HdrLen
             /\ tpdu_hdr' = hdr /\ tpdu_processed' = FALSE
             /\ data_len' = IF tpdu_processed THEN 0 ELSE data_len
             /\ Goto("CMD_WAIT") /\ Ask(Missing(hdr))
          \/ /\ HeaderComplete(hdr)
             /\ tpdu_hdr' = hdr /\ tpdu_processed' = FALSE
             /\ data_len' = 0
             /\ Goto("CMD_PROCEDURE") /\ Ask(0)
          \/ Len(hdr) > HdrLen
  BY <1>8 DEF FsmCmdWait, Ready, hdr
<1>11. ~(Len(hdr) > HdrLen)
  BY <1>1, <1>2, <1>3, <1>7 DEF HdrLen
<1> HIDE DEF rx
<1>12. QED
  BY <1>2, <1>3, <1>5, <1>6, <1>7, <1>8, <1>9, <1>10, <1>11
     DEF Quiet, Send, Goto, Ask, Missing, HeaderComplete, rx

LEMMA HeaderStep ==
  ASSUME SessionInv, cont_state_rx = ContReady, UNCHANGED fresh, SendHeader
  PROVE  SessionInv'
<1>1. PICK n \in Pieces(buf_rx_len) :
        /\ Deliver(HeaderPart(n))
        /\ hdr_sent' = hdr_sent + n
        /\ ifd' = IF hdr_sent + n = HdrLen THEN "procedure" ELSE "header"
  BY DEF SendHeader
<1>2. ifd = "header" /\ UNCHANGED cmd /\ SessionTypeOK
  BY Stage DEF SendHeader
<1>3. /\ HeaderPart(n) \in Seq(Byte) /\ n \in Nat /\ hdr_sent + n <= HdrLen
      /\ tpdu_hdr' = HeaderOf(cmd, hdr_sent + n)
      /\ tpdu_processed' = FALSE /\ procedure_count' = 0 /\ data_len' = 0
      /\ \/ /\ hdr_sent + n < HdrLen /\ fsm_state' = "CMD_WAIT"
            /\ buf_rx_len' = HdrLen - (hdr_sent + n)
         \/ /\ hdr_sent + n = HdrLen /\ fsm_state' = "CMD_PROCEDURE"
            /\ buf_rx_len' = 0
  BY <1>1, <1>2, HeaderCall
<1>4. TypeOK' /\ cont_state_rx' = ContReady
  BY <1>1, <1>3, Delivered
<1>5. hdr_sent \in Nat /\ cmd' = cmd
  BY <1>2 DEF SessionTypeOK, HdrLen
<1>6. SessionTypeOK'
  <2>1. cmd' \in BOOLEAN
    BY <1>2, Zenon DEF SessionTypeOK
  <2>2. hdr_sent' \in 0..HdrLen
    BY <1>1, <1>3, <1>5 DEF HdrLen
  <2>3. ifd' \in {"off", "protocol", "pps", "header", "procedure"}
    BY <1>1
  <2>4. QED
    BY <1>2, <1>4, <2>1, <2>2, <2>3, SessionTypes
<1>7. tpdu_hdr' = HeaderOf(cmd', hdr_sent')
  BY <1>1, <1>3, <1>5
<1>8. CASE /\ hdr_sent + n < HdrLen /\ fsm_state' = "CMD_WAIT"
           /\ buf_rx_len' = HdrLen - (hdr_sent + n)
  <2>1. ifd' = "header"
    BY <1>1, <1>3, <1>5, <1>8 DEF HdrLen
  <2>2. /\ hdr_sent' < HdrLen /\ hdr_sent' + buf_rx_len' <= HdrLen
    BY <1>1, <1>3, <1>5, <1>8 DEF HdrLen
  <2>3. HeaderDue'
    BY <1>3, <1>7, <1>8, <2>2 DEF HeaderDue
  <2>4. QED
    BY <1>4, <1>6, <2>1, <2>3 DEF SessionInv, Conversing
<1>9. CASE /\ hdr_sent + n = HdrLen /\ fsm_state' = "CMD_PROCEDURE"
           /\ buf_rx_len' = 0
  <2>1. ifd' = "procedure" /\ tpdu_hdr' = HeaderOf(cmd', HdrLen)
    BY <1>1, <1>7, <1>9
  <2>2. Executing'
    BY <1>3, <1>9 DEF Executing
  <2>3. (tpdu_hdr = HeaderOf(cmd, HdrLen))'
    BY <2>1 DEF HeaderOf, HdrLen
  <2>4. QED
    BY <1>4, <1>6, <2>1, <2>2, <2>3 DEF SessionInv, Conversing
<1>10. QED
  BY <1>3, <1>8, <1>9

-----------------------------------------------------------------------------
(* Procedure bytes and data.                                               *)

\* A whole header has room when none of it was sent.
LEMMA RoomForHeader ==
  ASSUME NEW sent \in Nat, NEW wanted \in Nat, sent = 0, wanted <= HdrLen
  PROVE  sent < HdrLen /\ sent + wanted <= HdrLen
  BY DEF HdrLen

\* After a status the header of the next command is due.
LEMMA NextHeaderDue ==
  ASSUME fsm_state' = "CMD_WAIT", tpdu_processed' = TRUE, hdr_sent' = 0,
         buf_rx_len' \in Nat, buf_rx_len' <= HdrLen
  PROVE  HeaderDue'
<1>1. hdr_sent' \in Nat
  OBVIOUS
<1>2. hdr_sent' < HdrLen /\ hdr_sent' + buf_rx_len' <= HdrLen
  BY <1>1, RoomForHeader
<1>3. QED
  BY <1>2 DEF HeaderDue

\* A handler runs: it asks for data that fit, or the command is over.
LEMMA ExecuteCall ==
  ASSUME SessionInv, cont_state_rx = ContReady, ifd = "procedure", Executing,
         NEW n \in Pieces(buf_rx_len), Deliver(Repeat(DataByte, n))
  PROVE  /\ UNCHANGED <<tpdu_hdr, data_len>>
         /\ \/ /\ fsm_state' = "CMD_DATA" /\ buf_tx' = "ack"
               /\ procedure_count < MaxAcks
               /\ procedure_count' = procedure_count + 1
               /\ data_len + buf_rx_len' <= DataMax
            \/ /\ fsm_state' = "CMD_WAIT" /\ buf_tx' = "status"
               /\ tpdu_processed' = TRUE /\ buf_rx_len' <= HdrLen
<1> DEFINE rx == Repeat(DataByte, n)
<1>1. /\ procedure_count \in Nat /\ data_len \in Nat
      /\ DataMax \in Nat /\ MaxAcks \in Nat /\ HandlerAcks \in Nat
      /\ HandlerAcks <= MaxAcks
  BY Stage, CardAssumption, SessionAssumption, DriverAssumption
     DEF TypeOK, CommandTypeOK
<1>2. n = 0 /\ fsm_state = "CMD_PROCEDURE"
  BY DEF Executing, Pieces
<1>3. rx \in Seq(Byte) /\ Len(rx) = 0
  BY <1>2, Repeated, SessionAssumption
<1>4. PICK cap \in TxSizes, res \in HandlerMay :
        FsmCmdProcedure(ContReady, rx, cap, res)
  BY <1>2, OneCall DEF Deliver
<1> HIDE DEF rx
<1>5. /\ res.sw1 # "NULL" /\ res.len \in Nat
      /\ res.sw1 = "ACK" =>
           res.len <= DataMax - data_len /\ procedure_count < HandlerAcks
  BY CardAssumption, DriverAssumption DEF HandlerMay, Result
<1>6. res.sw1 = "ACK" => AckAllowed /\ data_len + res.len <= DataMax
  BY <1>1, <1>5 DEF AckAllowed
<1>7. UNCHANGED <<tpdu_hdr, data_len>>
  BY <1>4 DEF FsmCmdProcedure
<1>8. \/ /\ res.sw1 = "ACK" /\ CountAck
         /\ Goto("CMD_DATA") /\ Send("ack", 1) /\ Ask(res.len)
      \/ /\ Finish /\ Send("status", res.len + 2) /\ Ask(HdrLen)
      \/ /\ Finish /\ Send("status", 2) /\ Ask(Len(rx))
  BY <1>4, <1>5, <1>6, Zenon DEF FsmCmdProcedure, Ready
<1>9. QED
  BY <1>1, <1>3, <1>5, <1>6, <1>7, <1>8
     DEF CountAck, Goto, Send, Ask, Finish, HdrLen

\* Data are taken, and the handler is called again.
LEMMA ReceiveCall ==
  ASSUME SessionInv, cont_state_rx = ContReady, ifd = "procedure", Receiving,
         NEW n \in Pieces(buf_rx_len), Deliver(Repeat(DataByte, n))
  PROVE  /\ UNCHANGED <<tpdu_hdr, procedure_count>>
         /\ fsm_state' = "CMD_PROCEDURE" /\ buf_tx' = "none"
         /\ tpdu_processed' = TRUE /\ buf_rx_len' = 0
<1> DEFINE rx == Repeat(DataByte, n)
<1>1. /\ buf_rx_len \in Nat /\ data_len \in Nat /\ DataMax \in Nat
      /\ data_len + buf_rx_len <= DataMax /\ fsm_state = "CMD_DATA"
  BY Stage, CardAssumption DEF TypeOK, IoTypeOK, CommandTypeOK, Receiving
<1>2. n \in Nat /\ n <= buf_rx_len
  BY <1>1, PieceSizes
<1>3. rx \in Seq(Byte) /\ Len(rx) = n
  BY <1>2, Repeated, SessionAssumption
<1>4. FsmCmdData(ContReady, rx)
  BY <1>1, OneCall DEF Deliver
<1> HIDE DEF rx
<1>5. DataFits(Len(rx))
  BY <1>1, <1>2, <1>3 DEF DataFits
<1>6. QED
  BY <1>4, <1>5 DEF FsmCmdData, Ready, Goto, Quiet, Send, Ask

LEMMA ProcedureStep ==
  ASSUME SessionInv, cont_state_rx = ContReady, UNCHANGED fresh,
         ServeProcedure
  PROVE  SessionInv'
<1>1. PICK n \in Pieces(buf_rx_len) : Deliver(Repeat(DataByte, n))
  BY DEF ServeProcedure
<1>2. /\ ifd = "procedure"
      /\ buf_tx' = "status" => ifd' = "header" /\ cmd' = ~cmd /\ hdr_sent' = 0
      /\ buf_tx' # "status" => UNCHANGED <<ifd, cmd, hdr_sent>>
  BY DEF ServeProcedure
<1>3. /\ SessionTypeOK /\ TypeOK /\ tpdu_hdr = HeaderOf(cmd, HdrLen)
      /\ Executing \/ Receiving
  BY <1>2, Stage
<1>4. Repeat(DataByte, n) \in Seq(Byte)
  <2>1. buf_rx_len \in Nat
    BY <1>3 DEF TypeOK, IoTypeOK
  <2>2. QED
    BY <2>1, PieceSizes, Repeated, SessionAssumption
<1>5. TypeOK' /\ cont_state_rx' = ContReady
  BY <1>1, <1>4, Delivered
<1>6. procedure_count \in Nat
  BY <1>3 DEF TypeOK, CommandTypeOK
<1>7. ASSUME UNCHANGED <<ifd, cmd, hdr_sent, tpdu_hdr>>,
             Executing' \/ Receiving'
      PROVE  SessionInv'
  <2>1. SessionTypeOK'
    BY <1>2, <1>3, <1>5, <1>7, SameCommand
  <2>2. (tpdu_hdr = HeaderOf(cmd, HdrLen))'
    BY <1>3, <1>7 DEF HeaderOf, HdrLen
  <2>3. QED
    BY <1>2, <1>5, <1>7, <2>1, <2>2 DEF SessionInv, Conversing
<1>8. CASE Executing
  <2>1. UNCHANGED <<tpdu_hdr, data_len>>
    BY <1>1, <1>2, <1>8, ExecuteCall
  <2>2. CASE /\ fsm_state' = "CMD_DATA" /\ buf_tx' = "ack"
             /\ procedure_count' = procedure_count + 1
             /\ data_len + buf_rx_len' <= DataMax
    <3>1. Receiving'
      BY <1>6, <2>1, <2>2 DEF Receiving
    <3>2. UNCHANGED <<ifd, cmd, hdr_sent, tpdu_hdr>>
      BY <1>2, <2>1, <2>2
    <3>3. QED
      BY <1>7, <3>1, <3>2
  <2>3. CASE /\ fsm_state' = "CMD_WAIT" /\ buf_tx' = "status"
             /\ tpdu_processed' = TRUE /\ buf_rx_len' <= HdrLen
    <3>1. ifd' = "header" /\ cmd' = ~cmd /\ hdr_sent' = 0
      BY <1>2, <2>3
    <3>2. SessionTypeOK'
      <4>1. cmd' \in BOOLEAN
        BY <3>1, Zenon
      <4>2. hdr_sent' \in 0..HdrLen
        BY <3>1 DEF HdrLen
      <4>3. QED
        BY <1>3, <1>5, <3>1, <4>1, <4>2, SessionTypes
    <3>3. buf_rx_len' \in Nat
      BY <1>5 DEF TypeOK, IoTypeOK
    <3>4. HeaderDue'
      <4>1. /\ fsm_state' = "CMD_WAIT" /\ hdr_sent' = 0
            /\ tpdu_processed' = TRUE /\ buf_rx_len' <= HdrLen
        BY <2>3, <3>1, Zenon
      <4>2. QED
        BY <3>3, <4>1, NextHeaderDue
    <3>5. QED
      BY <1>5, <3>1, <3>2, <3>4 DEF SessionInv, Conversing
  <2>4. QED
    BY <1>1, <1>2, <1>8, <2>2, <2>3, ExecuteCall
<1>9. CASE Receiving
  <2>1. /\ UNCHANGED <<tpdu_hdr, procedure_count>>
        /\ fsm_state' = "CMD_PROCEDURE" /\ buf_tx' = "none"
        /\ tpdu_processed' = TRUE /\ buf_rx_len' = 0
    BY <1>1, <1>2, <1>9, ReceiveCall
  <2>2. Executing'
    BY <1>6, <1>9, <2>1 DEF Executing, Receiving
  <2>3. UNCHANGED <<ifd, cmd, hdr_sent, tpdu_hdr>>
    BY <1>2, <2>1
  <2>4. QED
    BY <1>7, <2>2, <2>3
<1>10. QED
  BY <1>3, <1>8, <1>9

-----------------------------------------------------------------------------
(* The whole session.                                                      *)

LEMMA ExchangeStep ==
  ASSUME SessionInv, Exchange
  PROVE  SessionInv'
  BY AtrStep, PpsStartStep, HeaderStartStep, PpsStep, HeaderStep,
     ProcedureStep DEF Exchange

LEMMA SessionStutter ==
  ASSUME SessionInv, UNCHANGED svars
  PROVE  SessionInv'
<1> USE DEF svars, ifdVars, vars, ioVars, ppsVars, cmdVars
<1>1. IoTypeOK' = IoTypeOK
  BY DEF IoTypeOK
<1>2. PpsTypeOK' = PpsTypeOK
  BY DEF PpsTypeOK
<1>3. CommandTypeOK' = CommandTypeOK
  BY DEF CommandTypeOK
<1>4. SessionTypeOK' = SessionTypeOK
  BY <1>1, <1>2, <1>3 DEF SessionTypeOK, TypeOK
<1>5. Clean' = Clean
  BY DEF Clean
<1>6. Activating' = Activating
  BY <1>5 DEF Activating, Unpowered
<1>7. Executing' = Executing /\ Receiving' = Receiving
  BY DEF Executing, Receiving
<1>8. \A n : HeaderOf(cmd, n)' = HeaderOf(cmd, n)
  BY DEF HeaderOf
<1>9. HeaderDue' = HeaderDue
  BY DEF HeaderDue, HeaderOf
<1>10. /\ BeforeAtr' = BeforeAtr /\ Choosing' = Choosing
       /\ Negotiating' = Negotiating
  BY <1>5 DEF BeforeAtr, Choosing, Negotiating
<1>11. Conversing' = Conversing
  BY <1>7, <1>8, <1>9, <1>10 DEF Conversing, HdrLen
<1>12. QED
  BY <1>4, <1>6, <1>11 DEF SessionInv

LEMMA SessionStarts == SessionInit => SessionInv
<1> SUFFICES ASSUME SessionInit PROVE SessionInv
  OBVIOUS
<1>1. TypeOK
  BY InitType DEF SessionInit
<1>2. SessionTypeOK
  <2>1. cmd \in BOOLEAN /\ fresh \in BOOLEAN
    BY Zenon DEF SessionInit
  <2>2. hdr_sent \in 0..HdrLen
    BY DEF SessionInit, HdrLen
  <2>3. QED
    BY <1>1, <2>1, <2>2 DEF SessionInit, SessionTypeOK
<1>3. Activating
  BY DEF SessionInit, Init, Activating, Unpowered, Clean
<1>4. QED
  BY <1>2, <1>3 DEF SessionInv

LEMMA SessionInvariant ==
  ASSUME ResetBeforePower PROVE SessionSpec => []SessionInv
<1>1. SessionInit => SessionInv
  BY SessionStarts
<1>2. SessionInv /\ [SessionNext]_svars => SessionInv'
  <2> SUFFICES ASSUME SessionInv, [SessionNext]_svars PROVE SessionInv'
    OBVIOUS
  <2>1. CASE RaiseContacts
    BY <2>1, RaiseStep
  <2>2. CASE PowerOff
    BY <2>2, PowerOffStep
  <2>3. CASE ColdReset
    BY <2>3, ColdResetStep
  <2>4. CASE Exchange
    BY <2>4, ExchangeStep
  <2>5. CASE UNCHANGED svars
    BY <2>5, SessionStutter
  <2>6. QED
    BY <2>1, <2>2, <2>3, <2>4, <2>5 DEF SessionNext
<1>3. QED
  BY <1>1, <1>2, PTL DEF SessionSpec

(***************************************************************************)
(* Card and interface agree on whose turn it is, however the interface     *)
(* cuts its bytes and whenever it hangs up.                                *)
(***************************************************************************)
THEOREM TurnsAlwaysAgree ==
  ASSUME ResetBeforePower PROVE SessionSpec => []TurnsAgree
<1>1. SessionInv => TurnsAgree
  <2> SUFFICES ASSUME SessionInv, cont_state_rx = ContReady PROVE TurnsAgree
    BY DEF TurnsAgree
  <2>1. ifd \in {"off", "protocol", "pps", "header", "procedure"}
    BY Stage DEF SessionTypeOK
  <2>2. QED
    BY <2>1, Stage DEF TurnsAgree, BeforeAtr, Choosing, Negotiating,
       HeaderDue, Executing, Receiving
<1>2. QED
  BY <1>1, SessionInvariant, PTL

(***************************************************************************)
(* The header a handler is called with is that of one command, whole and   *)
(* in order, and a header under way is a prefix of it.                     *)
(***************************************************************************)
THEOREM HeaderStaysIntact ==
  ASSUME ResetBeforePower PROVE SessionSpec => []HeaderIntact
<1>1. SessionInv => HeaderIntact
  <2> SUFFICES ASSUME SessionInv PROVE HeaderIntact
    OBVIOUS
  <2>1. CASE Activating
    BY <2>1 DEF Activating, Unpowered, HeaderIntact
  <2>2. CASE Conversing
    <3>1. CASE ifd = "header" /\ HeaderDue
      BY <3>1 DEF HeaderDue, HeaderIntact, HeaderOf
    <3>2. CASE /\ ifd = "procedure" /\ tpdu_hdr = HeaderOf(cmd, HdrLen)
               /\ Executing \/ Receiving
      BY <3>2 DEF Executing, Receiving, HeaderIntact, HeaderOf
    <3>3. CASE BeforeAtr \/ Choosing \/ Negotiating
      BY <3>3 DEF BeforeAtr, Choosing, Negotiating, HeaderIntact
    <3>4. QED
      BY <2>2, <3>1, <3>2, <3>3 DEF Conversing
  <2>3. QED
    BY <2>1, <2>2 DEF SessionInv
<1>2. QED
  BY <1>1, SessionInvariant, PTL

(***************************************************************************)
(* The bytes the card asks for always fit where it will put them.          *)
(***************************************************************************)
THEOREM RequestsAlwaysFit ==
  ASSUME ResetBeforePower PROVE SessionSpec => []RequestFits
<1>1. SessionInv => RequestFits
  <2> SUFFICES ASSUME SessionInv PROVE RequestFits
    OBVIOUS
  <2>1. CASE Activating
    BY <2>1 DEF Activating, Unpowered, RequestFits
  <2>2. CASE Conversing
    <3>1. CASE ifd = "header" /\ HeaderDue
      <4>1. /\ hdr_sent \in Nat /\ buf_rx_len \in Nat /\ hdr_sent <= HdrLen
            /\ cmd \in BOOLEAN
        BY DEF SessionInv, SessionTypeOK, TypeOK, IoTypeOK, HdrLen
      <4>2. ~tpdu_processed => Len(tpdu_hdr) = hdr_sent
        BY <3>1, <4>1, HeaderLen DEF HeaderDue
      <4>3. QED
        BY <3>1, <4>1, <4>2 DEF HeaderDue, RequestFits, HdrLen
    <3>2. CASE Executing \/ Receiving
      BY <3>2 DEF Executing, Receiving, RequestFits
    <3>3. CASE BeforeAtr \/ Choosing \/ Negotiating
      BY <3>3 DEF BeforeAtr, Choosing, Negotiating, RequestFits
    <3>4. QED
      BY <2>2, <3>1, <3>2, <3>3 DEF Conversing
  <2>3. QED
    BY <2>1, <2>2 DEF SessionInv
<1>2. QED
  BY <1>1, SessionInvariant, PTL

(***************************************************************************)
(* A handler called for the first time finds nothing of earlier commands,  *)
(* and procedure_count tells it that it is the first time.                 *)
(***************************************************************************)
THEOREM HandlersAlwaysStartClean ==
  ASSUME ResetBeforePower PROVE SessionSpec => []HandlerStartsClean
<1>1. SessionInv => HandlerStartsClean
  <2> SUFFICES ASSUME SessionInv, fsm_state = "CMD_PROCEDURE"
               PROVE  HandlerStartsClean
    BY DEF HandlerStartsClean
  <2>1. ~Activating
    BY DEF Activating, Unpowered
  <2>2. Executing
    BY <2>1 DEF SessionInv, Conversing, BeforeAtr, Choosing, Negotiating,
       HeaderDue, Receiving
  <2>3. QED
    BY <2>2 DEF Executing, HandlerStartsClean
<1>2. QED
  BY <1>1, SessionInvariant, PTL

-----------------------------------------------------------------------------
(* The promise of T0Card, step by step.                                    *)

LEMMA PhaseNow ==
  /\ fsm_state \in {"OFF", "ACTIVATION", "RESET_COLD", "ATR_REQ"} =>
       Phase = "inactive" /\ Acks = 0
  /\ fsm_state \in {"ATR_RES", "PPS_REQ"} => Phase = "protocol" /\ Acks = 0
  /\ fsm_state = "CMD_WAIT" => Phase = "idle" /\ Acks = 0
  /\ fsm_state = "CMD_PROCEDURE" =>
       Phase = "executing" /\ Acks = procedure_count
  /\ fsm_state = "CMD_DATA" => Phase = "receiving" /\ Acks = procedure_count
  BY DEF Phase, Acks

LEMMA PhaseNext ==
  /\ fsm_state' \in {"OFF", "ACTIVATION", "RESET_COLD", "ATR_REQ"} =>
       Phase' = "inactive" /\ Acks' = 0
  /\ fsm_state' \in {"ATR_RES", "PPS_REQ"} =>
       Phase' = "protocol" /\ Acks' = 0
  /\ fsm_state' = "CMD_WAIT" => Phase' = "idle" /\ Acks' = 0
  /\ fsm_state' = "CMD_PROCEDURE" =>
       Phase' = "executing" /\ Acks' = procedure_count'
  /\ fsm_state' = "CMD_DATA" =>
       Phase' = "receiving" /\ Acks' = procedure_count'
  BY DEF Phase, Acks

\* The moves of T0Card, by what they leave behind.
LEMMA StaysInactive ==
  ASSUME Phase' = "inactive", Acks' = 0, buf_tx' = "none"
  PROVE  Promise!Next
  BY Zenon DEF Promise!Next, Promise!PowerDown

LEMMA JustListens ==
  ASSUME Phase \in {"protocol", "idle"}, Phase' = Phase, Acks' = Acks,
         buf_tx' = "none"
  PROVE  Promise!Next
<1>1. Phase \in Promise!Phases \ {"executing"}
  BY DEF Promise!Phases
<1>2. Promise!Listen
  BY <1>1, Zenon DEF Promise!Listen
<1>3. QED
  BY <1>2, Zenon DEF Promise!Next

LEMMA MovesOn ==
  ASSUME Acks' = Acks,
         \/ /\ Phase = "inactive" /\ Phase' = "protocol" /\ buf_tx' = "atr"
         \/ /\ Phase = "protocol" /\ Phase' = "idle" /\ buf_tx' = "none"
         \/ /\ Phase = "idle" /\ Phase' = "executing" /\ buf_tx' = "none"
         \/ /\ Phase = "receiving" /\ Phase' = "executing"
            /\ buf_tx' = "none"
  PROVE  Promise!Next
  BY Zenon DEF Promise!Next, Promise!Move, Promise!AnswerReset,
     Promise!UseOffered, Promise!TakeHeader, Promise!TakeData

LEMMA AnswersPps ==
  ASSUME Acks' = Acks, Phase = "protocol", Phase' \in {"protocol", "idle"},
         buf_tx' = "pps"
  PROVE  Promise!Next
  BY Zenon DEF Promise!Next, Promise!Move, Promise!AnswerPps

LEMMA Answers ==
  ASSUME Phase = "executing",
         \/ /\ Phase' = "idle" /\ buf_tx' = "status" /\ Acks' = 0
         \/ /\ Phase' = "receiving" /\ buf_tx' = "ack"
            /\ Acks < MaxAcks /\ Acks' = Acks + 1
  PROVE  Promise!Next
  BY Zenon DEF Promise!Next, Promise!Move, Promise!Answer, Promise!Ack

LEMMA RaiseKeeps ==
  ASSUME SessionInv, RaiseContacts PROVE Promise!Next
<1>1. Activating
  BY DEF RaiseContacts, SessionInv, Conversing
<1>2. fsm_state \in {"OFF", "ACTIVATION", "RESET_COLD"}
  BY <1>1 DEF Activating, Unpowered
<1>3. PICK cont \in {cont_state_rx, Raised(cont_state_rx)} :
        Io(cont, {<< >>}, TxSizes, Results)
  BY DEF RaiseContacts
<1>4. /\ buf_tx' = "none"
      /\ fsm_state' \in {"OFF", "ACTIVATION", "RESET_COLD", "ATR_REQ"}
  BY <1>2, <1>3, ActivationCall
<1>5. QED
  BY <1>4, PhaseNext, StaysInactive

LEMMA HangingUpKeeps ==
  ASSUME SessionInv, PowerOff \/ ColdReset PROVE Promise!Next
<1>1. buf_tx' = "none" /\ fsm_state' \in {"OFF", "ACTIVATION"}
  <2>1. CASE PowerOff
    <3>1. fsm_state \in States
      BY DEF SessionInv, SessionTypeOK, TypeOK, IoTypeOK
    <3>2. Io(ValidAll, {<< >>}, TxSizes, Results)
      BY <2>1 DEF PowerOff
    <3>3. QED
      BY <3>1, <3>2, PowerLost
  <2>2. CASE ColdReset
    BY <2>2 DEF ColdReset, Reset, Quiet, Send, Goto
  <2>3. QED
    BY <2>1, <2>2
<1>2. QED
  BY <1>1, PhaseNext, StaysInactive

LEMMA ExchangeKeeps ==
  ASSUME SessionInv, Exchange PROVE Promise!Next
<1>1. cont_state_rx = ContReady
  BY DEF Exchange
<1>2. CASE AwaitAtr
  <2>1. fsm_state = "ATR_REQ" /\ fsm_state' = "ATR_RES" /\ buf_tx' = "atr"
    BY <1>1, <1>2, AtrCall
  <2>2. QED
    BY <2>1, PhaseNow, PhaseNext, MovesOn
<1>3. CASE StartPps
  <2>1. <<PPSS>> \in Seq(Byte) /\ Len(<<PPSS>>) = 1 /\ <<PPSS>>[1] = PPSS
    BY CardAssumption
  <2>2. fsm_state = "ATR_RES" /\ fsm_state' = "PPS_REQ" /\ buf_tx' = "none"
    BY <1>1, <1>3, <2>1, FirstByte DEF StartPps
  <2>3. QED
    BY <2>2, PhaseNow, PhaseNext, JustListens
<1>4. CASE StartHeader
  <2>1. PICK rx \in Seq(Byte) :
          Len(rx) = 1 /\ rx[1] # PPSS /\ Deliver(rx) /\ ifd = "protocol"
    BY <1>1, <1>4, FirstHeaderByte
  <2>2. /\ fsm_state = "ATR_RES" /\ fsm_state' = "CMD_WAIT"
        /\ buf_tx' = "none"
    BY <1>1, <2>1, FirstByte
  <2>3. QED
    BY <2>2, PhaseNow, PhaseNext, MovesOn
<1>5. CASE ContinuePps
  <2>1. PICK n \in Pieces(buf_rx_len) : Deliver(Repeat(PpsByte, n))
    BY <1>5 DEF ContinuePps
  <2>2. /\ fsm_state = "PPS_REQ"
        /\ \/ fsm_state' = "PPS_REQ" /\ buf_tx' = "none"
           \/ fsm_state' = "ATR_RES" /\ buf_tx' \in {"none", "pps"}
           \/ fsm_state' = "CMD_WAIT" /\ buf_tx' = "pps"
    BY <1>1, <1>5, <2>1, PpsCall DEF ContinuePps
  <2>3. QED
    BY <2>2, PhaseNow, PhaseNext, JustListens, AnswersPps
<1>6. CASE SendHeader
  <2>1. PICK n \in Pieces(buf_rx_len) : Deliver(HeaderPart(n))
    BY <1>6 DEF SendHeader
  <2>2. /\ fsm_state = "CMD_WAIT" /\ buf_tx' = "none"
        /\ fsm_state' \in {"CMD_WAIT", "CMD_PROCEDURE"}
        /\ procedure_count' = 0
    BY <1>1, <1>6, <2>1, HeaderCall DEF SendHeader
  <2>3. QED
    BY <2>2, PhaseNow, PhaseNext, JustListens, MovesOn
<1>7. CASE ServeProcedure
  <2>1. PICK n \in Pieces(buf_rx_len) : Deliver(Repeat(DataByte, n))
    BY <1>7 DEF ServeProcedure
  <2>2. ifd = "procedure" /\ (Executing \/ Receiving)
    BY <1>1, <1>7, Stage DEF ServeProcedure
  <2>3. CASE Executing
    <3>1. /\ fsm_state = "CMD_PROCEDURE"
          /\ \/ /\ fsm_state' = "CMD_DATA" /\ buf_tx' = "ack"
                /\ procedure_count < MaxAcks
                /\ procedure_count' = procedure_count + 1
             \/ fsm_state' = "CMD_WAIT" /\ buf_tx' = "status"
      BY <1>1, <1>7, <2>1, <2>3, ExecuteCall DEF ServeProcedure, Executing
    <3>2. QED
      BY <3>1, PhaseNow, PhaseNext, Answers
  <2>4. CASE Receiving
    <3>1. /\ fsm_state = "CMD_DATA" /\ fsm_state' = "CMD_PROCEDURE"
          /\ buf_tx' = "none" /\ procedure_count' = procedure_count
      BY <1>1, <1>7, <2>1, <2>4, ReceiveCall DEF ServeProcedure, Receiving
    <3>2. QED
      BY <3>1, PhaseNow, PhaseNext, MovesOn
  <2>5. QED
    BY <2>2, <2>3, <2>4
<1>8. QED
  BY <1>2, <1>3, <1>4, <1>5, <1>6, <1>7 DEF Exchange

(***************************************************************************)
(* The steps of the card are those T0Card allows: it answers the reset     *)
(* once, takes a header before it executes, sends at most MaxAcks ACKs and *)
(* ends a command with a status.  (What T0Card promises to do eventually   *)
(* is not part of this theorem.)                                           *)
(***************************************************************************)
THEOREM StepsKeepPromise ==
  ASSUME ResetBeforePower
  PROVE  SessionSpec => Promise!Init /\ [][Promise!Next]_(Promise!vars)
<1>1. SessionInit => Promise!Init
  <2> SUFFICES ASSUME SessionInit PROVE Promise!Init
    OBVIOUS
  <2>1. fsm_state = "OFF" /\ buf_tx = "none"
    BY DEF SessionInit, Init
  <2>2. QED
    BY <2>1, PhaseNow DEF Promise!Init
<1>2. SessionInv /\ [SessionNext]_svars => [Promise!Next]_(Promise!vars)
  <2> SUFFICES ASSUME SessionInv, [SessionNext]_svars
               PROVE  [Promise!Next]_(Promise!vars)
    OBVIOUS
  <2>1. CASE SessionNext
    BY <2>1, RaiseKeeps, HangingUpKeeps, ExchangeKeeps DEF SessionNext
  <2>2. CASE UNCHANGED svars
    BY <2>2 DEF svars, vars, ioVars, cmdVars, Promise!vars, Phase, Acks
  <2>3. QED
    BY <2>1, <2>2
<1>3. SessionSpec => []SessionInv
  BY SessionInvariant
<1>4. QED
  BY <1>1, <1>2, <1>3, PTL DEF SessionSpec
=============================================================================
