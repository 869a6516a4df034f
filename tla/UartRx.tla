------------------------------- MODULE UartRx -------------------------------
(***************************************************************************)
(* The receive path of USART1: the circular DMA buffer, the idle-line      *)
(* interrupt that publishes q_front, the thread serial that copies the     *)
(* ring into process_buff byte by byte, and the thread at_process that     *)
(* scans process_buff and clears it.  A byte is its number in the stream   *)
(* the module sent; 0 is a byte that holds no data.                        *)
(***************************************************************************)
EXTENDS Integers, Sequences

CONSTANTS
    USART1_DMA_REC_SIZE,  (* 512: bytes of the DMA ring                       *)
    USART1_PRO_SIZE,      (* 196: bytes of process_buff                       *)
    MaxBytes,             (* bound: bytes the module sends                    *)
    Paced                 (* TRUE: the ring never holds REC_SIZE unread bytes *)

N == USART1_DMA_REC_SIZE
ASSUME SizeAssumption == /\ USART1_DMA_REC_SIZE \in Nat \ {0, 1}
                         /\ USART1_PRO_SIZE \in Nat \ {0}
ASSUME EnvAssumption == MaxBytes \in Nat /\ Paced \in BOOLEAN

VARIABLES
    DMARecBuffer, written,  (* the ring, and how many bytes the DMA put into it *)
    line,                   (* "busy": bytes came since the last idle line      *)
    idle,                   (* the IDLE flag: USART1_IRQHandler is pending      *)
    q_front, q_rear, process_buff, process_p, process_buff_p,
    rx1_event,              (* the bits REC and PROCESS of the event object     *)
    pc,                     (* serial                                           *)
    at,                     (* at_process                                       *)
    reached,                (* how far at_process's strstr or rt_memset has come *)
    published,              (* history: bytes below q_front                     *)
    taken,                  (* history: bytes serial read from the ring         *)
    got,                    (* history: the byte it read last                   *)
    seen,                   (* history: taken when at_process last began a scan *)
    again,                  (* history: it had begun one on these bytes before  *)
    text,                   (* history: the bytes that scan has read            *)
    spoilt                  (* history: rt_memset hit bytes no scan began on    *)

ringVars == <<DMARecBuffer, written, line, idle>>
serialVars == <<q_rear, process_p, process_buff_p, taken, got>>
frontVars == <<q_front, published>>
scanVars == <<seen, again, text>>
vars == <<ringVars, frontVars, serialVars, process_buff, rx1_event, pc, at, reached,
          scanVars, spoilt>>

Init ==
    /\ DMARecBuffer = [i \in 0..N-1 |-> 0] /\ written = 0
    /\ line = "quiet" /\ idle = FALSE
    /\ q_front = 0 /\ q_rear = 0
    /\ process_buff = [i \in 0..USART1_PRO_SIZE-1 |-> 0]
    /\ process_p = 0 /\ process_buff_p = 0
    /\ rx1_event = {} /\ pc = "recv" /\ at = "recv" /\ reached = 0
    /\ published = 0 /\ taken = 0 /\ got = 0
    /\ seen = 0 /\ again = FALSE /\ text = <<>> /\ spoilt = FALSE

-----------------------------------------------------------------------------
(* The module, the DMA controller and the interrupt                         *)

DmaByte ==
    /\ written < MaxBytes
    /\ Paced => written + 1 - taken < N
    /\ DMARecBuffer' = [DMARecBuffer EXCEPT ![written % N] = written + 1]
    /\ written' = written + 1
    /\ line' = "busy"
    /\ UNCHANGED <<idle, frontVars, serialVars, process_buff, rx1_event, pc, at,
                   reached, scanVars, spoilt>>

LineIdle ==
    /\ line = "busy"
    /\ line' = "quiet" /\ idle' = TRUE
    /\ UNCHANGED <<DMARecBuffer, written, frontVars, serialVars, process_buff,
                   rx1_event, pc, at, reached, scanVars, spoilt>>

(* The counter CNDTR of the circular DMA runs from N down to 1. *)
CNDTR == N - (written % N)

USART1_IRQHandlerEarly ==  (* mutant: q_front counts one byte too many *)
    /\ idle /\ idle' = FALSE
    /\ q_front' = (N - CNDTR + 1) % N
    /\ published' = written
    /\ IF pc = "wait" THEN pc' = "copy" /\ UNCHANGED rx1_event
                      ELSE rx1_event' = rx1_event \cup {"REC"} /\ UNCHANGED pc
    /\ UNCHANGED <<DMARecBuffer, written, line, serialVars, process_buff, at,
                   reached, scanVars, spoilt>>
USART1_IRQHandler ==
    /\ idle /\ idle' = FALSE
    /\ q_front' = N - CNDTR
    /\ published' = written
    /\ IF pc = "wait" THEN pc' = "copy" /\ UNCHANGED rx1_event
                      ELSE rx1_event' = rx1_event \cup {"REC"} /\ UNCHANGED pc
    /\ UNCHANGED <<DMARecBuffer, written, line, serialVars, process_buff, at,
                   reached, scanVars, spoilt>>

-----------------------------------------------------------------------------
(* serial_entry *)

SerialRecv ==
    /\ pc = "recv"
    /\ pc' = IF "REC" \in rx1_event THEN "copy" ELSE "wait"
    /\ rx1_event' = rx1_event \ {"REC"}
    /\ UNCHANGED <<ringVars, frontVars, serialVars, process_buff, at, reached, scanVars,
                   spoilt>>

CopyByteNoBreak ==  (* mutant: the loop does not stop at a full process_buff *)
    /\ pc = "copy" /\ q_front # q_rear
    /\ process_buff' = [process_buff EXCEPT ![process_p] = DMARecBuffer[q_rear]]
    /\ got' = DMARecBuffer[q_rear]
    /\ q_rear' = (q_rear + 1) % N
    /\ process_p' = process_p + 1
    /\ taken' = taken + 1
    /\ spoilt' = (spoilt /\ process_p # 0)
    /\ UNCHANGED <<ringVars, frontVars, process_buff_p, rx1_event, pc, at, reached,
                   scanVars>>

(* One round of the copy loop; a full process_buff ends the loop. *)
CopyByte ==
    /\ pc = "copy" /\ q_front # q_rear
    /\ process_buff' = [process_buff EXCEPT ![process_p] = DMARecBuffer[q_rear]]
    /\ got' = DMARecBuffer[q_rear]
    /\ q_rear' = (q_rear + 1) % N
    /\ process_p' = process_p + 1
    /\ pc' = IF process_p + 1 = USART1_PRO_SIZE THEN "full" ELSE "copy"
    /\ taken' = taken + 1
    /\ spoilt' = (spoilt /\ process_p # 0)
    /\ UNCHANGED <<ringVars, frontVars, process_buff_p, rx1_event, at, reached, scanVars>>

NotifyKeepsLength ==  (* mutant: the length of the packet is not handed over *)
    /\ pc = "full" \/ (pc = "copy" /\ q_front = q_rear)
    /\ process_p' = 0
    /\ process_buff_p' = IF process_buff_p = 0 THEN process_p ELSE process_buff_p
    /\ IF at = "wait" THEN at' = "scan" /\ UNCHANGED rx1_event
                      ELSE rx1_event' = rx1_event \cup {"PROCESS"} /\ UNCHANGED at
    /\ pc' = "echo"
    /\ UNCHANGED <<ringVars, frontVars, q_rear, process_buff, reached, taken, got,
                   scanVars, spoilt>>
Notify ==
    /\ pc = "full" \/ (pc = "copy" /\ q_front = q_rear)
    /\ process_buff_p' = process_p
    /\ process_p' = 0
    /\ IF at = "wait" THEN at' = "scan" /\ UNCHANGED rx1_event
                      ELSE rx1_event' = rx1_event \cup {"PROCESS"} /\ UNCHANGED at
    /\ pc' = "echo"
    /\ UNCHANGED <<ringVars, frontVars, q_rear, process_buff, reached, taken, got,
                   scanVars, spoilt>>

EchoDropsEvent ==  (* mutant: REC is cleared when the packet is done *)
    /\ pc = "echo" /\ pc' = "recv"
    /\ rx1_event' = rx1_event \ {"REC"}
    /\ UNCHANGED <<ringVars, frontVars, serialVars, process_buff, at, reached, scanVars,
                   spoilt>>

(* HAL_UART_Transmit of the packet to the console, polling: at_process does *)
(* not run, the module may send on.                                         *)
Echo ==
    /\ pc = "echo" /\ pc' = "recv"
    /\ UNCHANGED <<ringVars, frontVars, serialVars, process_buff, rx1_event, at,
                   reached, scanVars, spoilt>>

-----------------------------------------------------------------------------
(* at_process_entry: it runs only while serial, of higher priority, waits   *)

AtRecv ==
    /\ pc = "wait" /\ at = "recv"
    /\ at' = IF "PROCESS" \in rx1_event THEN "scan" ELSE "wait"
    /\ rx1_event' = rx1_event \ {"PROCESS"}
    /\ UNCHANGED <<ringVars, frontVars, serialVars, process_buff, pc, reached, scanVars,
                   spoilt>>

(* strstr, a byte at a time: serial may come in before each of them.  It ends *)
(* at the 0 behind the text, or at a match, which most commands answer with   *)
(* rt_memset(process_buff, 0, ...); what lies behind process_buff when there  *)
(* is no 0 in it is left out.  A byte that strstr looks at again is the same  *)
(* one unless serial has come in.                                             *)
Scan ==
    /\ pc = "wait" /\ at = "scan"
    /\ LET byte == process_buff[reached]
       IN  /\ \/ at' = "recv"
              \/ at' = "clear" /\ byte # 0
              \/ at' = "scan" /\ byte # 0 /\ reached + 1 < USART1_PRO_SIZE
           /\ text' = Append(IF reached = 0 THEN <<>> ELSE text, byte)
    /\ reached' = IF at' = "scan" THEN reached + 1 ELSE 0
    /\ seen' = IF reached = 0 THEN taken ELSE seen
    /\ again' = IF reached = 0 THEN seen = taken ELSE again
    /\ UNCHANGED <<ringVars, frontVars, serialVars, process_buff, rx1_event, pc,
                   spoilt>>

ClearByteDropsEvent ==  (* mutant: PROCESS is cleared when the text is done *)
    /\ pc = "wait" /\ at = "clear"
    /\ process_buff' = [process_buff EXCEPT ![reached] = 0]
    /\ at' = IF reached + 1 = USART1_PRO_SIZE THEN "recv" ELSE "clear"
    /\ reached' = IF at' = "clear" THEN reached + 1 ELSE 0
    /\ rx1_event' = IF at' = "recv" THEN {} ELSE rx1_event
    /\ spoilt' = (spoilt \/ seen # taken)
    /\ UNCHANGED <<ringVars, frontVars, serialVars, pc, scanVars>>
ClearByte ==
    /\ pc = "wait" /\ at = "clear"
    /\ process_buff' = [process_buff EXCEPT ![reached] = 0]
    /\ at' = IF reached + 1 = USART1_PRO_SIZE THEN "recv" ELSE "clear"
    /\ reached' = IF at' = "clear" THEN reached + 1 ELSE 0
    /\ spoilt' = (spoilt \/ seen # taken)
    /\ UNCHANGED <<ringVars, frontVars, serialVars, rx1_event, pc, scanVars>>

-----------------------------------------------------------------------------
Serial == SerialRecv \/ CopyByte \/ Notify \/ Echo
AtProcess == AtRecv \/ Scan \/ ClearByte
Next == DmaByte \/ LineIdle \/ USART1_IRQHandler \/ Serial \/ AtProcess
Spec == Init /\ [][Next]_vars

(* The line goes idle when the module stops, the interrupt is served and the *)
(* CPU runs whichever of the two threads can run.                            *)
FairSpec == Spec /\ WF_vars(LineIdle) /\ WF_vars(USART1_IRQHandler)
                 /\ WF_vars(Serial \/ AtProcess)
-----------------------------------------------------------------------------
(* Properties *)

(* The indices stay inside their arrays: serial never writes behind the end *)
(* of process_buff and never reads outside the ring.                        *)
TypeOK ==
    /\ DMARecBuffer \in [0..N-1 -> Nat] /\ written \in Nat
    /\ line \in {"quiet", "busy"} /\ idle \in BOOLEAN
    /\ q_front \in 0..N-1 /\ q_rear \in 0..N-1
    /\ process_buff \in [0..USART1_PRO_SIZE-1 -> Nat]
    /\ process_p \in 0..USART1_PRO_SIZE /\ process_buff_p \in 0..USART1_PRO_SIZE
    /\ pc \in {"recv", "wait", "copy", "full", "echo"}
    /\ pc # "full" => process_p < USART1_PRO_SIZE
    /\ at \in {"recv", "wait", "scan", "clear"}
    /\ reached \in 0..USART1_PRO_SIZE-1
    /\ at \in {"recv", "wait"} => reached = 0
    /\ rx1_event \in SUBSET {"REC", "PROCESS"}
    /\ published \in Nat /\ taken \in Nat /\ got \in Nat /\ seen \in Nat
    /\ again \in BOOLEAN /\ text \in Seq(Nat) /\ spoilt \in BOOLEAN

(* While the ring is not overrun, the reader gets the bytes of the module,    *)
(* each once and in order, through q_front, q_rear and their wrap.            *)
Stream == INSTANCE ByteStream WITH sent <- written, read <- taken, got <- got
ImplementsStream == Stream!Spec

(* serial never sleeps on published bytes, except on the rest of a packet     *)
(* longer than process_buff, which then waits for the next idle line.         *)
TailOnlyWhenFull ==
    pc = "wait" => q_front = q_rear \/ process_buff_p = USART1_PRO_SIZE

(* Packets that come in quick succession overwrite each other unseen, but     *)
(* at_process begins a scan behind the last one before both threads sleep.     *)
LastPacketSeen == pc = "wait" /\ at = "wait" => seen = taken

(* A scan that serial does not preempt (until then seen = taken) reads the    *)
(* packet as serial copied it, or nothing, because the packet was erased after *)
(* an earlier scan: unless rt_memset, preempted or following on a preempted    *)
(* scan, has hit the packet first.  A preempted scan may read torn text, the   *)
(* front of one packet and the rest of the next; then seen # taken, and by     *)
(* LastPacketSeen another scan follows.                                        *)
ReadsPacket == \A i \in 1..Len(text) :
    i <= process_buff_p => text[i] = taken - process_buff_p + i
ScanNotTorn == seen = taken /\ ~spoilt => ReadsPacket \/ (text = <<0>> /\ again)

(* When the module falls silent, its last byte has been read or serial has    *)
(* stopped at a full process_buff, for good.                                  *)
Drained == <>[](taken = written \/ process_buff_p = USART1_PRO_SIZE)
=============================================================================
