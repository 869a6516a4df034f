---------------------------- MODULE UartRxProofs ----------------------------
(***************************************************************************)
(* Proofs about UartRx for every ring size, every size of process_buff and *)
(* every number of bytes: its types, and that it implements ByteStream     *)
(* while the ring is not overrun.                                          *)
(***************************************************************************)
EXTENDS UartRx, TLAPS

-----------------------------------------------------------------------------
(* Arithmetic modulo n *)

LEMMA SmallMultiple ==
    ASSUME NEW n \in Nat \ {0}, NEW k \in Int, -n < n * k, n * k < n
    PROVE  k = 0
<1>1. CASE k >= 1
  <2>1. n * k >= n
    BY <1>1, SMT
  <2> QED BY <2>1, SMT
<1>2. CASE k <= -1
  <2>1. n * k <= -n
    BY <1>2, SMT
  <2> QED BY <2>1, SMT
<1> QED BY <1>1, <1>2, SMT

LEMMA Quotient ==
    ASSUME NEW n \in Nat \ {0}, NEW a \in Int
    PROVE  a \div n \in Int /\ a % n \in 0..n-1 /\ a = n * (a \div n) + (a % n)
BY SMT

LEMMA ModUnique ==
    ASSUME NEW n \in Nat \ {0}, NEW q \in Int, NEW r \in 0..n-1
    PROVE  (n * q + r) % n = r
<1> DEFINE a == n * q + r
           d == a \div n
<1>1. d \in Int /\ a % n \in 0..n-1 /\ a = n * d + (a % n)
  BY Quotient
<1>2. n * (d - q) = r - (a % n)
  BY <1>1, SMT
<1>3. d - q = 0
  BY <1>1, <1>2, SmallMultiple, SMT
<1> QED BY <1>1, <1>2, <1>3, SMT

(* The next index of a ring is the index of the next number. *)
LEMMA ModSucc ==
    ASSUME NEW n \in Nat \ {0}, NEW a \in Nat
    PROVE  ((a % n) + 1) % n = (a + 1) % n
<1> DEFINE q == a \div n
           r == a % n
<1>1. q \in Int /\ r \in 0..n-1 /\ a = n * q + r
  BY Quotient
<1>2. CASE r + 1 < n
  <2>1. r + 1 \in 0..n-1 /\ a + 1 = n * q + (r + 1)
    BY <1>1, <1>2, SMT
  <2>2. (n * q + (r + 1)) % n = r + 1
    BY <1>1, <2>1, ModUnique
  <2>3. (r + 1) % n = r + 1
    BY <2>1, SMT
  <2> QED BY <2>1, <2>2, <2>3
<1>3. CASE r + 1 = n
  <2>1. 0 \in 0..n-1 /\ q + 1 \in Int /\ 1 \in Int
    BY <1>1, SMT
  <2>2. a + 1 = n * (q + 1) + 0 /\ r + 1 = n * 1 + 0
    BY <1>1, <1>3, SMT
  <2>3. (n * (q + 1) + 0) % n = 0 /\ (n * 1 + 0) % n = 0
    BY <2>1, ModUnique
  <2> QED BY <2>2, <2>3
<1> QED BY <1>1, <1>2, <1>3, SMT

(* Two numbers less than n apart have the same index only if they are equal. *)
LEMMA ModDistinct ==
    ASSUME NEW n \in Nat \ {0}, NEW a \in Nat, NEW b \in Nat,
           a <= b, b - a < n, a % n = b % n
    PROVE  a = b
<1>1. a \div n \in Int /\ a = n * (a \div n) + (a % n)
  BY Quotient
<1>2. b \div n \in Int /\ b = n * (b \div n) + (b % n)
  BY Quotient
<1> DEFINE k == (b \div n) - (a \div n)
<1>3. k \in Int /\ b - a = n * k
  BY <1>1, <1>2, SMT
<1>4. k = 0
  BY <1>3, SmallMultiple, SMT
<1> QED BY <1>3, <1>4, SMT

(* The sizes under which all proofs run. *)
LEMMA Sizes == N \in Nat \ {0} /\ USART1_PRO_SIZE \in Nat \ {0} /\ N > 1
BY SizeAssumption DEF N

-----------------------------------------------------------------------------
(* Types *)

LEMMA TypeInit == Init => TypeOK
<1> SUFFICES ASSUME Init PROVE TypeOK
  OBVIOUS
<1>1. idle \in BOOLEAN /\ again \in BOOLEAN /\ spoilt \in BOOLEAN
  BY Zenon DEF Init
<1>2. DMARecBuffer \in [0..N-1 -> Nat] /\ process_buff \in [0..USART1_PRO_SIZE-1 -> Nat]
  BY SMT DEF Init
<1> QED BY <1>1, <1>2, Sizes, SMT DEF Init, TypeOK

LEMMA WrittenIndex == TypeOK => written % N \in 0..N-1 /\ written \in Int /\ N \in Int
<1>1. TypeOK => written \in Int
  BY SMT DEF TypeOK
<1>2. TypeOK => written % N \in 0..N-1
  BY <1>1, Sizes, Quotient
<1> QED BY <1>1, <1>2, Sizes, SMT

LEMMA TypeStep == TypeOK /\ [Next]_vars => TypeOK'
<1> SUFFICES ASSUME TypeOK, [Next]_vars PROVE TypeOK'
  OBVIOUS
<1> USE Sizes DEF TypeOK, ringVars, frontVars, serialVars, scanVars
<1>1. CASE DmaByte
  <2>1. written % N \in 0..N-1
    BY WrittenIndex
  <2> QED BY <1>1, <2>1, SMT DEF DmaByte
<1>2. CASE LineIdle
  <2>1. idle' \in BOOLEAN
    BY <1>2, Zenon DEF LineIdle
  <2> QED BY <1>2, <2>1, SMT DEF LineIdle
<1>3. CASE USART1_IRQHandler
  <2>1. N - CNDTR \in 0..N-1
    BY WrittenIndex, SMT DEF CNDTR
  <2>2. idle' \in BOOLEAN
    BY <1>3, Zenon DEF USART1_IRQHandler
  <2>3. pc' \in {"copy", pc} /\ (pc' = "copy" => pc = "wait" \/ pc = "copy")
    BY <1>3, Zenon DEF USART1_IRQHandler
  <2>4. rx1_event' \in SUBSET {"REC", "PROCESS"}
    BY <1>3, Zenon DEF USART1_IRQHandler
  <2> QED BY <1>3, <2>1, <2>2, <2>3, <2>4, SMT DEF USART1_IRQHandler
<1>4. CASE SerialRecv
  <2>1. pc' \in {"copy", "wait"} /\ pc = "recv"
    BY <1>4, Zenon DEF SerialRecv
  <2>2. rx1_event' \in SUBSET {"REC", "PROCESS"}
    BY <1>4, Zenon DEF SerialRecv
  <2> QED BY <1>4, <2>1, <2>2, SMT DEF SerialRecv
<1>5. CASE CopyByte
  <2>1. (q_rear + 1) % N \in 0..N-1
    <3>1. q_rear + 1 \in Int
      BY SMT
    <3> QED BY <3>1, Quotient
  <2>2. process_p \in 0..USART1_PRO_SIZE-1 /\ DMARecBuffer[q_rear] \in Nat
    BY <1>5, SMT DEF CopyByte
  <2>3. process_buff' \in [0..USART1_PRO_SIZE-1 -> Nat]
    BY <1>5, <2>2, SMT DEF CopyByte
  <2>4. spoilt' \in BOOLEAN
    BY <1>5, Zenon DEF CopyByte
  <2> QED BY <1>5, <2>1, <2>2, <2>3, <2>4, SMT DEF CopyByte
<1>6. CASE Notify
  <2>1. at' \in {"scan", at} /\ (at' = at \/ at = "wait") /\ pc' = "echo"
    BY <1>6, Zenon DEF Notify
  <2>2. rx1_event' \in SUBSET {"REC", "PROCESS"}
    BY <1>6, Zenon DEF Notify
  <2> QED BY <1>6, <2>1, <2>2, SMT DEF Notify
<1>7. CASE Echo
  BY <1>7, SMT DEF Echo
<1>8. CASE AtRecv
  <2>1. at' \in {"scan", "wait"}
    BY <1>8, Zenon DEF AtRecv
  <2>2. rx1_event' \in SUBSET {"REC", "PROCESS"}
    BY <1>8, Zenon DEF AtRecv
  <2> QED BY <1>8, <2>1, <2>2, SMT DEF AtRecv
<1>9. CASE Scan
  <2>1. again' \in BOOLEAN
    BY <1>9, Zenon DEF Scan
  <2>2. text' \in Seq(Nat) /\ seen' \in Nat
    BY <1>9, SMT DEF Scan
  <2>3. at' \in {"recv", "scan", "clear"} /\ reached' \in 0..USART1_PRO_SIZE-1
        /\ (at' = "recv" => reached' = 0)
    BY <1>9, SMT DEF Scan
  <2> QED BY <1>9, <2>1, <2>2, <2>3, SMT DEF Scan
<1>10. CASE ClearByte
  <2>1. spoilt' \in BOOLEAN
    BY <1>10, Zenon DEF ClearByte
  <2> QED BY <1>10, <2>1, SMT DEF ClearByte
<1>11. CASE UNCHANGED vars
  BY <1>11, SMT DEF vars
<1> QED
  BY <1>1, <1>2, <1>3, <1>4, <1>5, <1>6, <1>7, <1>8, <1>9, <1>10, <1>11
  DEF Next, Serial, AtProcess

(* Whatever the module sends, serial and at_process stay inside the ring and  *)
(* inside process_buff.                                                       *)
THEOREM TypeCorrect == Spec => []TypeOK
<1>1. Init => TypeOK
  BY TypeInit
<1>2. TypeOK /\ [Next]_vars => TypeOK'
  BY TypeStep
<1> QED BY <1>1, <1>2, PTL DEF Spec

-----------------------------------------------------------------------------
(* The stream: as long as the ring is not overrun, q_rear and q_front are the *)
(* numbers of the bytes read and published modulo N, and every slot between   *)
(* them holds the byte of its number.                                         *)

RingOK ==
    /\ taken <= published /\ published <= written /\ written - taken < N
    /\ q_rear = taken % N /\ q_front = published % N
    /\ \A i \in 0..written-1 : taken <= i => DMARecBuffer[i % N] = i + 1

LEMMA RingInit == Init => RingOK
<1> SUFFICES ASSUME Init PROVE RingOK
  OBVIOUS
<1>1. 0 % N = 0
  BY Sizes, SMT
<1> QED BY <1>1, Sizes, SMT DEF Init, RingOK

(* DmaByte writes the slot of no unread byte. *)
LEMMA RingDma ==
    ASSUME Paced, TypeOK, RingOK, DmaByte
    PROVE  RingOK'
<1>1. /\ written \in Nat /\ taken \in Nat /\ published \in Nat /\ written' = written + 1
      /\ DMARecBuffer \in [0..N-1 -> Nat] /\ written' - taken < N
      /\ taken' = taken /\ published' = published
      /\ q_rear' = q_rear /\ q_front' = q_front
  BY Sizes, SMT DEF TypeOK, DmaByte, serialVars, frontVars
<1>2. written % N \in 0..N-1 /\ DMARecBuffer' = [DMARecBuffer EXCEPT ![written % N] = written + 1]
  BY WrittenIndex DEF DmaByte
<1>3. ASSUME NEW i \in 0..written, taken <= i
      PROVE  DMARecBuffer'[i % N] = i + 1
  <2>1. CASE i = written
    BY <1>1, <1>2, <2>1, SMT
  <2>2. CASE i # written
    <3>1. i \in 0..written-1 /\ i \in Nat /\ i <= written /\ written - i < N
      BY <1>1, <1>3, <2>2, Sizes, SMT
    <3>2. i % N # written % N
      BY <1>1, <3>1, <2>2, Sizes, ModDistinct
    <3>3. i % N \in 0..N-1
      BY <3>1, Sizes, Quotient, SMT
    <3>4. DMARecBuffer[i % N] = i + 1
      BY <1>3, <3>1 DEF RingOK
    <3> QED BY <1>1, <1>2, <3>2, <3>3, <3>4, SMT
  <2> QED BY <2>1, <2>2
<1>4. \A i \in 0..written'-1 : taken' <= i => DMARecBuffer'[i % N] = i + 1
  BY <1>1, <1>3, SMT
<1> QED BY <1>1, <1>4, SMT DEF RingOK

(* The byte serial reads is the next one of the stream. *)
LEMMA CopiesNext ==
    ASSUME TypeOK, RingOK, CopyByte
    PROVE  taken < published /\ DMARecBuffer[q_rear] = taken + 1
<1>1. /\ taken \in Nat /\ published \in Nat /\ written \in Nat /\ N \in Nat \ {0}
      /\ taken <= published /\ published <= written /\ written - taken < N
      /\ q_rear = taken % N /\ q_front = published % N /\ q_front # q_rear
  BY Sizes DEF TypeOK, RingOK, CopyByte
<1>2. taken # published
  BY <1>1
<1>3. taken < published /\ taken \in 0..written-1
  BY <1>1, <1>2, SMT
<1>4. DMARecBuffer[taken % N] = taken + 1
  <2>1. \A i \in 0..written-1 : taken <= i => DMARecBuffer[i % N] = i + 1
    BY DEF RingOK
  <2>2. taken <= taken
    BY <1>1, SMT
  <2> QED BY <1>3, <2>1, <2>2, Zenon
<1> QED BY <1>1, <1>3, <1>4

LEMMA RingStep == Paced /\ TypeOK /\ RingOK /\ [Next]_vars => RingOK'
<1> SUFFICES ASSUME Paced, TypeOK, RingOK, [Next]_vars PROVE RingOK'
  OBVIOUS
<1>1. CASE DmaByte
  BY <1>1, RingDma
<1>2. CASE USART1_IRQHandler
  <2>1. /\ q_front' = written % N /\ published' = written
        /\ UNCHANGED <<DMARecBuffer, written, q_rear, taken>>
    BY <1>2, WrittenIndex, SMT DEF USART1_IRQHandler, CNDTR, serialVars
  <2> QED BY <2>1, Sizes, SMT DEF RingOK, TypeOK
<1>3. CASE CopyByte
  <2>1. taken < published /\ taken \in Nat /\ published \in Nat /\ written \in Nat
    BY <1>3, CopiesNext DEF TypeOK
  <2>2. q_rear' = (q_rear + 1) % N /\ taken' = taken + 1
        /\ UNCHANGED <<DMARecBuffer, written, q_front, published>>
    BY <1>3 DEF CopyByte, ringVars, frontVars
  <2>3. q_rear' = taken' % N
    BY <2>1, <2>2, Sizes, ModSucc DEF RingOK
  <2>4. \A i \in 0..written'-1 : taken' <= i => DMARecBuffer'[i % N] = i + 1
    BY <2>1, <2>2, SMT DEF RingOK
  <2> QED BY <2>1, <2>2, <2>3, <2>4, Sizes, SMT DEF RingOK
<1>4. CASE LineIdle \/ SerialRecv \/ Notify \/ Echo \/ AtProcess \/ UNCHANGED vars
  <2>1. UNCHANGED <<DMARecBuffer, written, q_front, published, q_rear, taken>>
    BY <1>4 DEF LineIdle, SerialRecv, Notify, Echo, AtProcess, AtRecv, Scan,
                ClearByte, vars, ringVars, frontVars, serialVars
  <2> QED BY <2>1 DEF RingOK
<1> QED BY <1>1, <1>2, <1>3, <1>4 DEF Next, Serial

(* Every step of the receive path is a step of ByteStream or none of it. *)
LEMMA StreamStep ==
    ASSUME TypeOK, RingOK, [Next]_vars
    PROVE  [Stream!Send \/ Stream!Read]_<<written, taken, got>>
<1>1. CASE DmaByte
  BY <1>1 DEF DmaByte, serialVars, Stream!Send
<1>2. CASE CopyByte
  <2>1. taken < published /\ DMARecBuffer[q_rear] = taken + 1
    BY <1>2, CopiesNext
  <2>2. taken < written
    BY <2>1, SMT DEF TypeOK, RingOK
  <2> QED BY <1>2, <2>1, <2>2 DEF CopyByte, ringVars, Stream!Read
<1>3. CASE \/ LineIdle \/ USART1_IRQHandler \/ SerialRecv \/ Notify \/ Echo
           \/ AtProcess \/ UNCHANGED vars
  BY <1>3 DEF LineIdle, USART1_IRQHandler, SerialRecv, Notify, Echo, AtProcess,
              AtRecv, Scan, ClearByte, vars, ringVars, serialVars
<1> QED BY <1>1, <1>2, <1>3 DEF Next, Serial

(* While the ring is not overrun, serial reads the bytes the module sent, each *)
(* once and in order, whatever the sizes of the ring and of process_buff.      *)
THEOREM StreamCorrect ==
    ASSUME Paced
    PROVE  Spec => ImplementsStream
<1>1. Init => Stream!Init
  BY DEF Init, Stream!Init
<1>2. Init => TypeOK /\ RingOK
  BY TypeInit, RingInit
<1>3. TypeOK /\ RingOK /\ [Next]_vars => TypeOK' /\ RingOK'
  BY TypeStep, RingStep
<1>4. TypeOK /\ RingOK /\ [Next]_vars
        => [Stream!Send \/ Stream!Read]_<<written, taken, got>>
  BY StreamStep
<1> QED
  BY <1>1, <1>2, <1>3, <1>4, PTL DEF Spec, ImplementsStream, Stream!Spec

-----------------------------------------------------------------------------
(* The hand-over of bytes and packets through rx1_event *)

(* Published bytes that serial has not read are announced by REC, unless they *)
(* are the rest behind a full process_buff.                                   *)
Announced ==
    /\ pc \in {"recv", "echo", "wait"} =>
           \/ q_front = q_rear \/ process_buff_p = USART1_PRO_SIZE
           \/ "REC" \in rx1_event
    /\ pc = "wait" => "REC" \notin rx1_event
    /\ pc = "full" => process_p = USART1_PRO_SIZE

LEMMA AnnouncedStep == TypeOK /\ Announced /\ [Next]_vars => Announced'
<1> SUFFICES ASSUME TypeOK, Announced, [Next]_vars PROVE Announced'
  OBVIOUS
<1> USE DEF Announced, ringVars, frontVars, serialVars
<1>1. CASE USART1_IRQHandler
  BY <1>1, Zenon DEF USART1_IRQHandler, TypeOK
<1>2. CASE SerialRecv
  BY <1>2, Zenon DEF SerialRecv
<1>3. CASE CopyByte
  BY <1>3, Zenon DEF CopyByte
<1>4. CASE Notify
  BY <1>4, Zenon DEF Notify
<1>5. CASE Echo
  BY <1>5, Zenon DEF Echo
<1>6. CASE AtRecv
  <2>1. "REC" \in rx1_event' <=> "REC" \in rx1_event
    BY <1>6, SMT DEF AtRecv
  <2> QED BY <1>6, <2>1, Zenon DEF AtRecv
<1>7. CASE DmaByte \/ LineIdle \/ Scan \/ ClearByte \/ UNCHANGED vars
  <2>1. UNCHANGED <<pc, q_front, q_rear, process_p, process_buff_p, rx1_event>>
    BY <1>7 DEF DmaByte, LineIdle, Scan, ClearByte, vars
  <2> QED BY <2>1
<1> QED BY <1>1, <1>2, <1>3, <1>4, <1>5, <1>6, <1>7 DEF Next, Serial, AtProcess

(* serial never sleeps on published bytes, except on the rest of a packet      *)
(* longer than process_buff.                                                   *)
THEOREM NoBytesForgotten == Spec => []TailOnlyWhenFull
<1>1. Init => Announced
  BY DEF Init, Announced
<1>2. Init => TypeOK
  BY TypeInit
<1>3. TypeOK /\ [Next]_vars => TypeOK'
  BY TypeStep
<1>4. TypeOK /\ Announced /\ [Next]_vars => Announced'
  BY AnnouncedStep
<1>5. Announced => TailOnlyWhenFull
  BY DEF Announced, TailOnlyWhenFull
<1> QED BY <1>1, <1>2, <1>3, <1>4, <1>5, PTL DEF Spec

(* Bytes behind which at_process has begun no scan are announced to it by      *)
(* PROCESS, or it is about to begin one.                                       *)
Handed ==
    /\ pc \in {"recv", "echo", "wait"} =>
           seen = taken \/ "PROCESS" \in rx1_event \/ (at = "scan" /\ reached = 0)
    /\ at = "wait" => "PROCESS" \notin rx1_event
    /\ at \in {"recv", "wait"} => reached = 0

LEMMA HandedStep == Handed /\ [Next]_vars => Handed'
<1> SUFFICES ASSUME Handed, [Next]_vars PROVE Handed'
  OBVIOUS
<1> USE DEF Handed, ringVars, frontVars, serialVars, scanVars
<1>1. CASE USART1_IRQHandler
  <2>1. "PROCESS" \in rx1_event' <=> "PROCESS" \in rx1_event
    BY <1>1, SMT DEF USART1_IRQHandler
  <2>2. pc' = pc \/ pc' = "copy"
    BY <1>1, Zenon DEF USART1_IRQHandler
  <2> QED BY <1>1, <2>1, <2>2, Zenon DEF USART1_IRQHandler
<1>2. CASE SerialRecv
  <2>1. "PROCESS" \in rx1_event' <=> "PROCESS" \in rx1_event
    BY <1>2, SMT DEF SerialRecv
  <2> QED BY <1>2, <2>1, Zenon DEF SerialRecv
<1>3. CASE CopyByte
  BY <1>3, Zenon DEF CopyByte
<1>4. CASE Notify
  BY <1>4, Zenon DEF Notify
<1>5. CASE Echo
  BY <1>5, Zenon DEF Echo
<1>6. CASE AtRecv
  BY <1>6, Zenon DEF AtRecv
<1>7. CASE Scan
  BY <1>7, Zenon DEF Scan
<1>8. CASE ClearByte
  BY <1>8, Zenon DEF ClearByte
<1>9. CASE DmaByte \/ LineIdle \/ UNCHANGED vars
  <2>1. UNCHANGED <<pc, at, reached, rx1_event, seen, taken>>
    BY <1>9 DEF DmaByte, LineIdle, vars, scanVars
  <2> QED BY <2>1
<1> QED BY <1>1, <1>2, <1>3, <1>4, <1>5, <1>6, <1>7, <1>8, <1>9
        DEF Next, Serial, AtProcess

(* Packets may overwrite each other unseen, but at_process begins a scan behind *)
(* the last one before both threads sleep.                                      *)
THEOREM LastPacketIsSeen == Spec => []LastPacketSeen
<1>1. Init => Handed
  BY DEF Init, Handed
<1>2. Handed /\ [Next]_vars => Handed'
  BY HandedStep
<1>3. Handed => LastPacketSeen
  BY DEF Handed, LastPacketSeen
<1> QED BY <1>1, <1>2, <1>3, PTL DEF Spec

-----------------------------------------------------------------------------
(* The packet in process_buff.  While serial copies, the front of process_buff *)
(* holds the last process_p bytes of the stream.  Once handed over the packet   *)
(* is whole until at_process, which has begun a scan on it, erases it from the  *)
(* front; a scan that goes on has found the packet whole.                       *)
Copied == \A i \in 0..process_p-1 : process_buff[i] = taken - process_p + 1 + i
Whole == \A i \in 0..process_buff_p-1 : process_buff[i] = taken - process_buff_p + 1 + i
Erased(n) == \A i \in 0..process_buff_p-1 : i < n => process_buff[i] = 0
PacketOK ==
    /\ seen <= taken
    /\ pc \in {"recv", "echo", "wait"} => process_p = 0
    /\ pc \in {"copy", "full"} => Copied
    /\ process_p # 0 => seen < taken
    /\ process_p = 0 /\ ~spoilt =>
           IF at = "clear" /\ seen = taken THEN Erased(reached)
           ELSE Whole \/ (seen = taken /\ Erased(USART1_PRO_SIZE))
ScanOK ==
    /\ at = "scan" /\ reached # 0 =>
           /\ Len(text) = reached
           /\ seen = taken /\ ~spoilt => Whole /\ ReadsPacket
    /\ ScanNotTorn

LEMMA PacketCopy ==
    ASSUME TypeOK, RingOK, PacketOK, ScanOK, CopyByte
    PROVE  PacketOK' /\ ScanOK'
<1>1. /\ DMARecBuffer[q_rear] = taken + 1 /\ pc = "copy" /\ pc' \in {"copy", "full"}
      /\ process_buff' = [process_buff EXCEPT ![process_p] = DMARecBuffer[q_rear]]
      /\ process_p' = process_p + 1 /\ taken' = taken + 1 /\ seen' = seen
  BY CopiesNext, Zenon DEF CopyByte, scanVars
<1>2. /\ process_p \in 0..USART1_PRO_SIZE-1 /\ taken \in Nat /\ USART1_PRO_SIZE \in Nat
      /\ process_buff \in [0..USART1_PRO_SIZE-1 -> Nat] /\ seen \in Nat /\ seen <= taken
  BY <1>1, Sizes DEF TypeOK, PacketOK
<1>3. Copied'
  <2>1. \A i \in 0..process_p-1 : process_buff[i] = taken - process_p + 1 + i
    BY <1>1 DEF PacketOK, Copied
  <2>2. \A i \in 0..process_p : process_buff'[i] = (taken + 1) - (process_p + 1) + 1 + i
    BY <1>1, <1>2, <2>1
  <2>. QED  BY <1>1, <1>2, <2>2 DEF Copied
<1>4. seen' < taken' /\ seen' # taken' /\ process_p' # 0 /\ seen' <= taken'
  BY <1>1, <1>2
<1>5. PacketOK'
  BY <1>1, <1>3, <1>4 DEF PacketOK
<1>6. UNCHANGED <<at, reached, text>>
  BY DEF CopyByte, scanVars
<1>. QED  BY <1>4, <1>5, <1>6, Zenon DEF ScanOK, ScanNotTorn

LEMMA PacketNotify ==
    ASSUME TypeOK, PacketOK, ScanOK, Notify
    PROVE  PacketOK' /\ ScanOK'
<1>1. /\ process_p' = 0 /\ process_buff_p' = process_p /\ pc' = "echo"
      /\ UNCHANGED <<taken, process_buff, seen, text, reached, spoilt, again>>
      /\ Copied /\ (process_p # 0 => seen < taken) /\ seen <= taken
  BY DEF Notify, PacketOK, scanVars
<1>2. /\ process_p \in 0..USART1_PRO_SIZE /\ taken \in Nat /\ seen \in Nat
      /\ text \in Seq(Nat) /\ Len(text) \in Nat
  BY DEF TypeOK
<1>3. Whole'
  BY <1>1 DEF Whole, Copied
<1>4. ASSUME seen' = taken' PROVE Erased(reached)' /\ ReadsPacket'
  <2>1. process_buff_p' = 0
    BY <1>1, <1>2, <1>4
  <2>. QED  BY <1>1, <1>2, <2>1 DEF Erased, ReadsPacket
<1>5. PacketOK'
  BY <1>1, <1>3, <1>4 DEF PacketOK
<1>6. at' = "scan" /\ reached' # 0 => at = "scan"
  BY <1>1 DEF Notify, TypeOK
<1>. QED  BY <1>1, <1>3, <1>4, <1>5, <1>6 DEF ScanOK, ScanNotTorn

LEMMA PacketScan ==
    ASSUME TypeOK, PacketOK, ScanOK, Scan
    PROVE  PacketOK' /\ ScanOK'
<1> DEFINE byte == process_buff[reached]
<1>1. /\ pc = "wait" /\ at = "scan"
      /\ UNCHANGED <<taken, process_buff, process_buff_p, process_p, spoilt, pc>>
      /\ at' = "scan" => byte # 0
      /\ at' = "clear" => byte # 0
      /\ at' = "scan" => reached' = reached + 1
      /\ at' # "scan" => reached' = 0
  BY DEF Scan, serialVars
<1>2. /\ taken \in Nat /\ seen \in Nat /\ reached \in 0..USART1_PRO_SIZE-1 /\ byte \in Nat
      /\ process_buff_p \in 0..USART1_PRO_SIZE /\ process_p = 0 /\ seen <= taken
      /\ text \in Seq(Nat) /\ Len(text) \in Nat
      /\ USART1_PRO_SIZE \in Nat
  BY <1>1, Sizes DEF TypeOK, PacketOK
<1>3. seen' = taken' <=> reached = 0 \/ seen = taken
  BY <1>1 DEF Scan
<1>4. seen' <= taken'
  BY <1>1, <1>2 DEF Scan
<1>5. ~spoilt => Whole \/ (seen = taken /\ Erased(USART1_PRO_SIZE))
  BY <1>1, <1>2 DEF PacketOK
<1>6. Whole' = Whole /\ Erased(USART1_PRO_SIZE)' = Erased(USART1_PRO_SIZE)
  BY <1>1 DEF Whole, Erased
<1>7. PacketOK'
  <2>1. at' = "clear" => Erased(reached)'
    BY <1>1, <1>2 DEF Erased
  <2>2. seen = taken => seen' = taken'
    BY <1>3
  <2>. QED  BY <1>1, <1>2, <1>4, <1>5, <1>6, <2>1, <2>2, Zenon DEF PacketOK
<1>8. CASE reached = 0
  <2>1. text' = <<byte>> /\ again' = (seen = taken)
    BY <1>8, <1>2 DEF Scan
  <2>2. Len(text') = 1 /\ text'[1] = byte
    BY <2>1
  <2>3. ASSUME ~spoilt, process_buff_p = 0 \/ Whole
        PROVE  Whole' /\ ReadsPacket'
    <3>1. CASE process_buff_p = 0
      BY <1>1, <1>2, <2>2, <3>1 DEF Whole, ReadsPacket
    <3>2. CASE process_buff_p # 0 /\ Whole
      <4>1. byte = taken - process_buff_p + 1
        BY <1>2, <1>8, <3>2 DEF Whole
      <4>. QED  BY <1>1, <1>2, <1>6, <2>2, <3>2, <4>1 DEF ReadsPacket
    <3>. QED  BY <2>3, <3>1, <3>2
  <2>4. ASSUME ~spoilt, process_buff_p # 0, ~Whole
        PROVE  byte = 0 /\ again'
    <3>1. seen = taken /\ Erased(USART1_PRO_SIZE)
      BY <1>5, <2>4, Zenon
    <3>2. byte = 0
      BY <1>2, <1>8, <2>4, <3>1 DEF Erased
    <3>. QED  BY <2>1, <3>1, <3>2, Zenon
  <2>5. at' = "scan" => reached' = 1
    BY <1>1, <1>8
  <2>. QED  BY <1>1, <1>7, <2>1, <2>2, <2>3, <2>4, <2>5 DEF ScanOK, ScanNotTorn
<1>9. CASE reached # 0
  <2>1. /\ text' = Append(text, byte) /\ Len(text) = reached
        /\ seen = taken /\ ~spoilt => Whole /\ ReadsPacket
    BY <1>1, <1>9 DEF Scan, ScanOK
  <2>2. /\ Len(text') = reached + 1 /\ text'[reached + 1] = byte
        /\ \A i \in 1..reached : text'[i] = text[i]
    BY <1>2, <2>1
  <2>3. ASSUME seen = taken, ~spoilt PROVE Whole' /\ ReadsPacket'
    <3>1. reached < process_buff_p => byte = taken - process_buff_p + (reached + 1)
      BY <1>2, <2>1, <2>3 DEF Whole
    <3>2. \A i \in 1..reached : i <= process_buff_p => text[i] = taken - process_buff_p + i
      BY <2>1, <2>3 DEF ReadsPacket
    <3>3. \A i \in 1..reached+1 : i <= process_buff_p => text'[i] = taken - process_buff_p + i
      <4>1. ASSUME NEW i \in 1..reached+1, i <= process_buff_p
            PROVE  text'[i] = taken - process_buff_p + i
        <5>1. CASE i = reached + 1
          BY <1>2, <2>2, <3>1, <4>1, <5>1
        <5>2. CASE i # reached + 1
          <6>1. i \in 1..reached
            BY <1>2, <5>2
          <6>. QED  BY <2>2, <3>2, <4>1, <6>1
        <5>. QED  BY <5>1, <5>2
      <4>. QED  BY <4>1
    <3>. QED  BY <1>1, <1>6, <2>1, <2>2, <2>3, <3>3 DEF ReadsPacket
  <2>. QED  BY <1>1, <1>3, <1>7, <1>9, <2>2, <2>3 DEF ScanOK, ScanNotTorn
<1>. QED  BY <1>8, <1>9

LEMMA PacketClear ==
    ASSUME TypeOK, PacketOK, ScanOK, ClearByte
    PROVE  PacketOK' /\ ScanOK'
<1>1. /\ UNCHANGED <<process_p, process_buff_p, taken, pc, seen, text, again>>
      /\ pc = "wait" /\ at = "clear" /\ at' # "scan"
      /\ process_buff' = [process_buff EXCEPT ![reached] = 0]
      /\ at' = IF reached + 1 = USART1_PRO_SIZE THEN "recv" ELSE "clear"
      /\ at' = "clear" => reached' = reached + 1
  BY DEF ClearByte, serialVars, scanVars
<1>2. spoilt' = (spoilt \/ seen # taken)
  BY DEF ClearByte
<1>3. /\ process_buff_p \in 0..USART1_PRO_SIZE /\ USART1_PRO_SIZE \in Nat /\ process_p = 0
      /\ reached \in 0..USART1_PRO_SIZE-1
      /\ process_buff \in [0..USART1_PRO_SIZE-1 -> Nat]
  BY <1>1, Sizes DEF TypeOK, PacketOK
<1>4. ASSUME ~spoilt'
      PROVE  IF at' = "clear" THEN Erased(reached)' ELSE Erased(USART1_PRO_SIZE)'
  <2>1. seen = taken /\ Erased(reached)
    BY <1>1, <1>2, <1>3, <1>4, Zenon DEF PacketOK
  <2>2. \A i \in 0..process_buff_p-1 : i < reached + 1 => process_buff'[i] = 0
    BY <1>1, <1>3, <2>1 DEF Erased
  <2>. QED  BY <1>1, <1>3, <2>2 DEF Erased
<1>5. ~spoilt' => seen' = taken' /\ seen = taken /\ ~spoilt
  BY <1>1, <1>2, Zenon
<1>6. PacketOK'
  BY <1>1, <1>3, <1>4, <1>5, Zenon DEF PacketOK
<1>7. ReadsPacket' = ReadsPacket
  BY <1>1 DEF ReadsPacket
<1>. QED  BY <1>1, <1>5, <1>6, <1>7, Zenon DEF ScanOK, ScanNotTorn

LEMMA PacketStep ==
    Paced /\ TypeOK /\ RingOK /\ PacketOK /\ ScanOK /\ [Next]_vars => PacketOK' /\ ScanOK'
<1> SUFFICES ASSUME TypeOK, RingOK, PacketOK, ScanOK, [Next]_vars
             PROVE  PacketOK' /\ ScanOK'
  OBVIOUS
<1> USE DEF ringVars, frontVars, serialVars, scanVars
<1>1. CASE CopyByte
  BY <1>1, PacketCopy
<1>2. CASE Notify
  BY <1>2, PacketNotify
<1>3. CASE Scan
  BY <1>3, PacketScan
<1>4. CASE ClearByte
  BY <1>4, PacketClear
<1>5. CASE \/ DmaByte \/ LineIdle \/ USART1_IRQHandler \/ SerialRecv \/ Echo
           \/ AtRecv \/ UNCHANGED vars
  <2>1. /\ UNCHANGED <<process_p, process_buff, process_buff_p, taken, reached, spoilt>>
        /\ UNCHANGED <<seen, again, text>>
    BY <1>5, Zenon DEF DmaByte, LineIdle, USART1_IRQHandler, SerialRecv, Echo, AtRecv, vars
  <2>2. \/ pc' = pc
        \/ pc \in {"recv", "wait"} /\ pc' = "copy"
        \/ pc \in {"recv", "echo"} /\ pc' \in {"recv", "wait"}
    BY <1>5, Zenon DEF DmaByte, LineIdle, USART1_IRQHandler, SerialRecv, Echo, AtRecv, vars
  <2>3. at' = at \/ (at = "recv" /\ at' \in {"scan", "wait"})
    BY <1>5, Zenon DEF DmaByte, LineIdle, USART1_IRQHandler, SerialRecv, Echo, AtRecv, vars
  <2>4. /\ Whole' = Whole /\ ReadsPacket' = ReadsPacket /\ ScanNotTorn' = ScanNotTorn
        /\ Erased(reached)' = Erased(reached)
        /\ Erased(USART1_PRO_SIZE)' = Erased(USART1_PRO_SIZE)
    BY <2>1 DEF Whole, ReadsPacket, ScanNotTorn, Erased
  <2>5. Copied' = Copied /\ (process_p = 0 => Copied)
    BY <2>1, SMT DEF Copied, TypeOK
  <2>6. PacketOK'
    BY <2>1, <2>2, <2>3, <2>4, <2>5 DEF PacketOK
  <2>7. at' = "scan" /\ reached' # 0 => at = "scan"
    BY <2>1, <2>3 DEF TypeOK
  <2>. QED  BY <2>1, <2>4, <2>6, <2>7 DEF ScanOK
<1>. QED  BY <1>1, <1>2, <1>3, <1>4, <1>5 DEF Next, Serial, AtProcess

(* While the ring is not overrun, a scan that serial does not preempt reads the *)
(* packet as it was sent, whatever the sizes, or nothing when the packet was     *)
(* erased after an earlier scan; unless rt_memset hit it before.  It says        *)
(* nothing of a scan that is preempted.                                          *)
THEOREM ScansAreWhole == ASSUME Paced PROVE Spec => []ScanNotTorn
<1>1. Init => TypeOK /\ RingOK /\ PacketOK /\ ScanOK
  <2>1. Init => PacketOK
    BY SMT DEF Init, PacketOK, Whole
  <2>2. Init => ScanOK
    BY SMT DEF Init, ScanOK, ScanNotTorn, ReadsPacket
  <2>. QED  BY <2>1, <2>2, TypeInit, RingInit
<1>2. TypeOK /\ RingOK /\ PacketOK /\ ScanOK /\ [Next]_vars
        => TypeOK' /\ RingOK' /\ PacketOK' /\ ScanOK'
  BY TypeStep, RingStep, PacketStep
<1>3. ScanOK => ScanNotTorn
  BY DEF ScanOK
<1>. QED  BY <1>1, <1>2, <1>3, PTL DEF Spec
=============================================================================
