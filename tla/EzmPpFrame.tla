----------------------------- MODULE EzmPpFrame -----------------------------
(***************************************************************************)
(* One packet of libs/ezm_pp on its way through the layers of the sender,  *)
(* the line, and the layers of the receiver: the length the packet maker   *)
(* computes, the headers and the CRC the UART driver adds, the limits each *)
(* layer checks, and the length the packet processor expects.              *)
(* Only lengths are modelled: contents are what EzmPp abstracts to frames. *)
(***************************************************************************)
EXTENDS Integers

CONSTANT MaxPayload  \* EZM_PP_MAX_PAYLOAD_SIZE

\* sizeof of the packed structures of ezm_pp.h and ezm_pp_pkt.h.
TpHdr == 4
UartHdr == 4
Crc16 == 2
ReqSize ==
  [get_version |-> 4, get_capabilities |-> 4, set_capabilities |-> 11,
   get_storage_info |-> 4, get_img_info |-> 4, download |-> 12, get_block |-> 7,
   boot_img |-> 4, remove_img |-> 4, retransmit |-> 4]
CtrlRes == 4
ResSize ==
  [get_version |-> 7, get_capabilities |-> 12, set_capabilities |-> CtrlRes,
   get_storage_info |-> 12, get_img_info |-> 32, download |-> 12, get_block |-> 12,
   boot_img |-> CtrlRes, remove_img |-> CtrlRes, retransmit |-> CtrlRes]
Cmd == DOMAIN ReqSize

\* The longest structure (32 bytes, the image information) fits in ezm_pp_msg_u with
\* the CRC: with a payload size of 32 or 33 the driver would drop it without a word.
\* The largest frame has a pkt_len of 16 bits.
ASSUME PayloadAssumption == MaxPayload \in 34..(2^16 - 16)

\* Seeded bug: the room the CRC takes is forgotten.
MaxBlockNoCrc == MaxPayload - ResSize["get_block"]

MaxBlock == MaxPayload - ResSize["get_block"] - 2   \* EZM_PP_MAX_BLOCK_SIZE
MaxMessage == MaxPayload + TpHdr + UartHdr          \* EZM_PP_MAX_MESSAGE_SIZE
MaxPkt == MaxMessage - Crc16                        \* EZM_PP_UART_DRV_MAX_PKT_SIZE
MinPkt == UartHdr + 1                               \* EZM_PP_UART_DRV_MIN_PKT_SIZE

U16(n) == n % 2^16

VARIABLES
  pkt,      \* the packet: command, request or response, completion code, block size
  hdr,      \* pkt_len of the transport header
  bytes,    \* how many bytes the frame has, at the stage it is at
  crc,      \* the CRC over those bytes is 0
  stage,    \* how far the frame has come
  damaged   \* history: the line changed the frame

fvars == <<pkt, hdr, bytes, crc, stage, damaged>>

\* The packets the makers build: requests, error responses (a code stands for every
\* code but success), and responses, a block response with 1 to MaxBlock bytes.
Packet ==
  [cmd : Cmd, rq : {TRUE}, res : {"success"}, block : {0}]
    \cup [cmd : Cmd, rq : {FALSE}, res : {"error"}, block : {0}]
    \cup [cmd : Cmd \ {"get_block"}, rq : {FALSE}, res : {"success"}, block : {0}]
    \cup [cmd : {"get_block"}, rq : {FALSE}, res : {"success"}, block : 1..MaxBlock]

\* ezm_pp_pkt_maker_req_len and ezm_pp_pkt_maker_res_len.
PktLen(p) ==
  TpHdr + (IF p.rq THEN ReqSize[p.cmd]
           ELSE IF p.res # "success" THEN CtrlRes ELSE ResSize[p.cmd] + p.block)

\* Maker: the packet in its region of the tx buffer, and the UART header.
Make(p) ==
  /\ stage = "idle"
  /\ pkt' = p
  /\ bytes' = PktLen(p) + UartHdr
  /\ hdr' = U16(PktLen(p) + UartHdr)
  /\ stage' = "made"
  /\ UNCHANGED <<crc, damaged>>

\* ezm_pp_main_send_packet and ezm_pp_uart_drv_transmit: pkt_len counts the CRC; a
\* packet that is too long is dropped without a word.
Transmit ==
  /\ stage = "made"
  /\ IF bytes <= MaxMessage /\ bytes <= MaxPkt
       THEN /\ hdr' = U16(hdr + Crc16) /\ bytes' = bytes + Crc16
            /\ crc' = TRUE /\ stage' = "sent"
       ELSE stage' = "refused" /\ UNCHANGED <<hdr, bytes, crc>>
  /\ UNCHANGED <<pkt, damaged>>

Arrive == stage = "sent" /\ stage' = "arrived" /\ UNCHANGED <<pkt, hdr>>

Deliver == Arrive /\ UNCHANGED <<bytes, crc, damaged>>

\* The line changes a byte: CRC-16 notices.
Spoil == Arrive /\ crc' = FALSE /\ damaged' = TRUE /\ UNCHANGED bytes

\* Bytes at the end are missing when the receiver's window closes; what is left may
\* or may not have a CRC of 0.
Cut ==
  /\ Arrive /\ damaged' = TRUE /\ crc' \in BOOLEAN
  /\ \E n \in UartHdr..(bytes - 1) : bytes' = n

\* Another frame follows in the same window: the receiver takes the two for one.
Merge ==
  /\ Arrive /\ damaged' = TRUE /\ crc' \in BOOLEAN
  /\ \E p \in Packet : bytes' = bytes + PktLen(p) + UartHdr + Crc16

\* Seeded bug: a longer frame than the header says is taken.
ValidAtLeast == bytes >= MinPkt /\ hdr <= bytes /\ crc

\* ezm_pp_uart_validate_frame
Valid == bytes >= MinPkt /\ hdr = bytes /\ crc

\* ezm_pp_uart_drv_listen: the CRC is cut off and the driver mailbox is filled.
Listen ==
  /\ stage = "arrived"
  /\ Valid
  /\ bytes' = bytes - Crc16
  /\ stage' = "mailed"
  /\ UNCHANGED <<pkt, hdr, crc, damaged>>

Drop ==
  /\ stage = "arrived"
  /\ ~Valid
  /\ stage' = "dropped"
  /\ UNCHANGED <<pkt, hdr, bytes, crc, damaged>>

\* ezm_pp_main_process_message reads the frame; ezm_pp_pkt_processor_message wants
\* exactly the length the command, the code and the block size of the packet give.
Fits == bytes <= MaxMessage /\ bytes - UartHdr = PktLen(pkt)

\* Every request has a handler; pp_process_cmd_res ends before the retransmission.
HasHandler(p) == p.rq \/ p.cmd # "retransmit"

Process ==
  /\ stage = "mailed" /\ HasHandler(pkt)
  /\ stage' = IF Fits THEN "processed" ELSE "discarded"
  /\ UNCHANGED <<pkt, hdr, bytes, crc, damaged>>

\* What lies behind the table is taken for the handler: NULL discards the packet, and
\* for anything else its length is looked at, and the call goes astray.
ProcessPastTable ==
  /\ stage = "mailed" /\ ~HasHandler(pkt)
  /\ stage' \in IF Fits THEN {"discarded", "astray"} ELSE {"discarded"}
  /\ UNCHANGED <<pkt, hdr, bytes, crc, damaged>>

FInit ==
  /\ stage = "idle" /\ hdr = 0 /\ bytes = 0 /\ crc = FALSE /\ damaged = FALSE
  /\ pkt = [cmd |-> "get_version", rq |-> TRUE, res |-> "success", block |-> 0]

FNext ==
  \/ \E p \in Packet : Make(p)
  \/ Transmit
  \/ Deliver \/ Spoil \/ Cut \/ Merge
  \/ Listen \/ Drop \/ Process \/ ProcessPastTable

FSpec == FInit /\ [][FNext]_fvars

----------------------------------------------------------------------------
\* Whatever block size up to EZM_PP_MAX_BLOCK_SIZE the host serves, a packet that
\* the line leaves alone passes every limit and length check on its way.  (A response
\* to a retransmission, which nothing sends, arrives and then finds no handler.)
IntactIsProcessed ==
  ~damaged =>
    /\ stage \notin {"refused", "dropped"}
    /\ HasHandler(pkt) => stage \notin {"discarded", "astray"}

\* A frame that lost its tail, or that two frames merged into, is never handed to
\* the packet processor: a CRC of 0 alone would not tell.
DamagedIsDropped == damaged => stage \in {"arrived", "dropped"}

============================================================================
