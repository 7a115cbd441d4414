------------------------------ MODULE SerialWE2 ------------------------------
(***************************************************************************)
(* The serial ports of the Himax board: SerialWE2, and Serial2WE2, which   *)
(* repeats it for the second UART.  The interrupt of every byte received   *)
(* fills a ring the listener reads lines from; a send fills another ring   *)
(* and starts a transfer of a chunk of it when none runs, and the          *)
(* interrupt at the end of a transfer starts the next.                     *)
(***************************************************************************)
EXTENDS RingBuffer

CONSTANTS
  SerialRing, Chunk, SerialLineSize,   \* cells of a ring, bytes of _buf_tx, of a line
  SendSizes,                           \* the lengths of what is sent
  SerialLoads                          \* bounds: how much is sent and received at most

VARIABLES
  serialLoad,       \* the load of this behaviour
  zeroEnds,         \* a transfer of no bytes calls back when it ends (the vendor's driver)
  serialRx,         \* the received bytes
  serialFound, serialLine,  \* what find returned, the line returned
  listening,        \* the listener is between find and the copy
  serialTx,         \* the bytes to send
  busy,             \* _tx_busy
  running,          \* a transfer is under way
  chunk,            \* what it sends: _buf_tx
  wire,             \* the last byte that went out; bytes are numbered as they are accepted
  serialAt, left,   \* where the task that holds _mutex_tx is, and what it has left to send
  serialSaid,       \* bytes accepted by the ring
  sends, received,  \* counts
  overflowed,       \* a received byte pushed out an older one
  timedOut          \* a send gave up while a transfer was running

receiveVars == <<serialRx, serialFound, serialLine, listening, received, overflowed>>
sendVars == <<serialTx, busy, running, chunk, wire, serialAt, left, serialSaid,
              sends, timedOut>>
serialVars == <<serialLoad, zeroEnds, receiveVars, sendVars>>

Text == "text"
Delim == "delim"

SerialInit ==
  /\ serialLoad \in SerialLoads /\ zeroEnds \in BOOLEAN
  /\ serialRx = Ring(SerialRing, Text) /\ serialFound = 0 /\ serialLine = <<>>
  /\ listening = FALSE
  /\ serialTx = Ring(SerialRing, 0) /\ busy = FALSE /\ running = FALSE /\ chunk = <<>>
  /\ wire = 0 /\ serialAt = "idle" /\ left = 0 /\ serialSaid = 0
  /\ sends = 0 /\ received = 0 /\ overflowed = FALSE /\ timedOut = FALSE

-----------------------------------------------------------------------------
(* Receiving *)

\* _uart_dma_recv: one byte, over the oldest one if need be.
UartRecv ==
  /\ received < serialLoad.received /\ received' = received + 1
  /\ \E c \in {Text, Delim} : serialRx' = PutChar(serialRx, c)
  /\ overflowed' = (overflowed \/ IsFull(serialRx))
  /\ UNCHANGED <<serialLoad, zeroEnds, serialFound, serialLine, listening, sendVars>>

\* get_line: extract finds the delimiter, and then copies from where head is by then.
SerialFindLine ==
  /\ ~listening /\ ~IsEmpty(serialRx)
  /\ serialFound' = Find(serialRx, {Delim}) /\ listening' = TRUE
  /\ UNCHANGED <<serialLoad, zeroEnds, serialRx, serialLine, received, overflowed, sendVars>>

SerialTakeLine ==
  /\ listening /\ listening' = FALSE
  /\ serialLine' = Extracted(serialRx, serialFound, SerialLineSize)
  /\ serialRx' = Extract(serialRx, serialFound)
  /\ UNCHANGED <<serialLoad, zeroEnds, serialFound, received, overflowed, sendVars>>

-----------------------------------------------------------------------------
(* Sending *)

\* uart_write_udma, on a buffer that a transfer under way is still reading.
StartTransfer ==
  LET n == IF Size(serialTx) < Chunk THEN Size(serialTx) ELSE Chunk
  IN /\ serialTx' = Get(serialTx, n) /\ chunk' = Got(serialTx, n)
     /\ running' = TRUE

\* send_bytes takes _mutex_tx.
SerialSendBegin ==
  /\ serialAt = "idle" /\ sends < serialLoad.sends /\ sends' = sends + 1
  /\ left' \in SendSizes /\ serialAt' = "put"
  /\ UNCHANGED <<serialLoad, zeroEnds, receiveVars, serialTx, busy, running, chunk, wire,
                 serialSaid, timedOut>>

FillRing ==
  /\ serialAt = "put" /\ serialAt' = "start"
  /\ LET s == [j \in 1..left |-> serialSaid + j]
     IN /\ serialTx' = Put(serialTx, s)
        /\ left' = left - Accepted(serialTx, s)
        /\ serialSaid' = serialSaid + Accepted(serialTx, s)
  /\ UNCHANGED <<serialLoad, zeroEnds, receiveVars, busy, running, chunk, wire, sends,
                 timedOut>>

\* Mutant of StartIfIdle: it looks at the ring, not at _tx_busy.
StartIfAny ==
  /\ serialAt = "start" /\ serialAt' = "check"
  /\ IF ~IsEmpty(serialTx) THEN busy' = TRUE /\ StartTransfer
                           ELSE UNCHANGED <<serialTx, busy, running, chunk>>
  /\ UNCHANGED <<serialLoad, zeroEnds, receiveVars, wire, left, serialSaid, sends, timedOut>>

\* The ring may have been drained since it was filled: then the transfer is empty.
StartIfIdle ==
  /\ serialAt = "start" /\ serialAt' = "check"
  /\ IF busy THEN UNCHANGED <<serialTx, busy, running, chunk>>
             ELSE busy' = TRUE /\ StartTransfer
  /\ UNCHANGED <<serialLoad, zeroEnds, receiveVars, wire, left, serialSaid, sends, timedOut>>

\* Three seconds are over, or all is in the ring, or it goes on.
CheckTime ==
  /\ serialAt = "check"
  /\ \/ serialAt' = "idle" /\ busy' = FALSE /\ timedOut' = (timedOut \/ running)
     \/ serialAt' = (IF left = 0 THEN "idle" ELSE "put") /\ UNCHANGED <<busy, timedOut>>
  /\ UNCHANGED <<serialLoad, zeroEnds, receiveVars, serialTx, running, chunk, wire, left,
                 serialSaid, sends>>

\* Mutant of TransferEnd: _tx_busy is lowered when a chunk ends, and raised by the
\* next send only.
TransferEndStops ==
  /\ running /\ (chunk # <<>> \/ zeroEnds)
  /\ wire' = IF chunk = <<>> THEN wire ELSE chunk[Len(chunk)]
  /\ busy' = FALSE /\ running' = FALSE /\ chunk' = <<>>
  /\ UNCHANGED <<serialLoad, zeroEnds, receiveVars, serialTx, serialAt, left, serialSaid, sends,
                 timedOut>>

\* _uart_dma_send: the next chunk, or rest.
TransferEnd ==
  /\ running /\ (chunk # <<>> \/ zeroEnds)
  /\ wire' = IF chunk = <<>> THEN wire ELSE chunk[Len(chunk)]
  /\ busy' = ~IsEmpty(serialTx)
  /\ running' = ~IsEmpty(serialTx)
  /\ serialTx' = Get(serialTx, Chunk) /\ chunk' = Got(serialTx, Chunk)
  /\ UNCHANGED <<serialLoad, zeroEnds, receiveVars, serialAt, left, serialSaid, sends,
                 timedOut>>

SerialNext ==
  \/ UartRecv \/ SerialFindLine \/ SerialTakeLine
  \/ SerialSendBegin \/ FillRing \/ StartIfIdle \/ CheckTime \/ TransferEnd

\* The transfers under way end, and a task in send_bytes goes on.
SerialFairness ==
  /\ WF_serialVars(TransferEnd) /\ WF_serialVars(FillRing)
  /\ WF_serialVars(StartIfIdle) /\ WF_serialVars(CheckTime)

SerialSpec == SerialInit /\ [][SerialNext]_serialVars /\ SerialFairness

-----------------------------------------------------------------------------
\* What the sizes are assumed to be.
SerialSizes ==
  /\ SerialRing \in Nat \ {0} /\ Chunk \in Nat /\ SerialLineSize \in Nat
  /\ SendSizes \subseteq Nat

SerialTypeOK ==
  /\ serialRx \in Rings(SerialRing, {Text, Delim}) /\ serialTx \in Rings(SerialRing, Nat)
  /\ serialFound \in 0..SerialRing /\ listening \in BOOLEAN /\ overflowed \in BOOLEAN
  /\ busy \in BOOLEAN /\ running \in BOOLEAN /\ timedOut \in BOOLEAN
  /\ chunk \in Seq(Nat) /\ Len(chunk) <= Chunk
  /\ serialAt \in {"idle", "put", "start", "check"}
  /\ wire \in Nat /\ left \in Nat /\ serialSaid \in Nat

\* Bytes go out in the order they were accepted, each once: what went out, the chunk
\* under way and the ring are consecutive.  Only a send that times out while a
\* transfer runs breaks this: it lowers _tx_busy, and the next send starts a second
\* transfer on the buffer.  And get_line returns one whole line, unless the ring
\* overflowed: a byte that pushes out the oldest one between find and the copy moves
\* the line by one.
InOrder ==
  /\ ~timedOut =>
       /\ \A j \in 1..Len(chunk) : chunk[j] = wire + j
       /\ \A j \in 1..Size(serialTx) : At(serialTx, j - 1) = wire + Len(chunk) + j
       /\ wire + Len(chunk) + Size(serialTx) = serialSaid
  /\ ~overflowed =>
       \A j \in 1..Len(serialLine) : (serialLine[j] = Delim) <=> (j = Len(serialLine))

\* Whatever was accepted goes out, though the sender has long returned, unless the
\* ring was drained just before a send started a transfer and empty ones never end.
AllSent == (zeroEnds /\ ~timedOut) ~> (IsEmpty(serialTx) \/ timedOut)

-----------------------------------------------------------------------------
(* Why bytes and lines are in order: an invariant that every step keeps.   *)

\* Between find and the copy, the line is still at the head of the ring.
SerialLineInv ==
  listening /\ ~overflowed =>
    \/ serialFound = SerialRing
    \/ /\ serialFound < Size(serialRx) /\ At(serialRx, serialFound) = Delim
       /\ \A j \in 0..serialFound - 1 : At(serialRx, j) # Delim

\* _tx_busy says whether a transfer runs, and only then is there a chunk.
BusyInv == ~timedOut => (busy <=> running) /\ (~running => chunk = <<>>)

SerialInv == SerialTypeOK /\ SerialLineInv /\ BusyInv /\ InOrder
=============================================================================
