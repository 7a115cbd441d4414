------------------------------ MODULE SlavePort ------------------------------
(***************************************************************************)
(* The two slave ports of the Himax board, sspiWE2 and WireWE2: a host     *)
(* writes commands, asks how much there is to read, reads, and resets.     *)
(* Its transfers complete in interrupts that run between any two steps of  *)
(* the tasks.  The listener reads lines; it and the executor's worker send *)
(* replies, and nothing keeps the two apart.  On SPI a pin tells the host  *)
(* that there is something to read; on I2C a timer restarts the device     *)
(* when the host leaves a reply unread.                                    *)
(***************************************************************************)
EXTENDS RingBuffer

CONSTANTS
  PortRing,      \* cells of each ring
  PortLineSize,  \* the buffer size the listener passes to get_line
  ReplySizes,    \* the lengths of replies
  PortLoads      \* bounds: how many replies are sent and frames written at most
                 \* (every load also allows one reset)

VARIABLES
  bus,                     \* "spi" or "i2c"
  portLoad,                \* the load of this behaviour
  portRx, portTx,          \* the rings
  portArmed,               \* the transfer the slave waits for: "read" a frame or "write" a reply
  pin,                     \* the control pin is high (SPI)
  timer,                   \* the one-second timer runs (I2C)
  portAt,                  \* where a task is
  portFound,               \* what find returned to the listener
  portLine,                \* the line get_line returned last
  size,                    \* the size of the reply a task is sending
  portSaid,                \* bytes of replies given to the port
  replies, writes, epoch,  \* counts: replies begun, frames written, resets
  raced,                   \* a reset fell between the two halves of an extract
  overlapped,              \* two tasks were sending at once
  cut,                     \* a reply did not fit and was cut (I2C)
  failed                   \* the bus reported an error while a reply was pending (I2C)

driverVars == <<bus, portLoad, portRx, portTx, portArmed, pin, timer>>
portTaskVars == <<portAt, portFound, portLine, size>>
portHistory  == <<portSaid, replies, writes, epoch, raced, overlapped, cut, failed>>
portVars == <<driverVars, portTaskVars, portHistory>>

Tasks == {"listener", "worker"}
Byte(e, eol) == [epoch |-> e, eol |-> eol]
Blank == Byte(0, FALSE)

PortInit ==
  /\ bus \in {"spi", "i2c"} /\ portLoad \in PortLoads
  /\ portRx = Ring(PortRing, Blank) /\ portTx = Ring(PortRing, 0)
  /\ portArmed = "read" /\ pin = FALSE /\ timer = FALSE
  /\ portAt = [t \in Tasks |-> "idle"] /\ portFound = 0 /\ portLine = <<>>
  /\ size = [t \in Tasks |-> 0]
  /\ portSaid = 0 /\ replies = 0 /\ writes = 0 /\ epoch = 0
  /\ raced = FALSE /\ overlapped = FALSE /\ cut = FALSE /\ failed = FALSE

-----------------------------------------------------------------------------
(* Interrupts: a frame of the host, sspi_rxcb and i2c_s_callback_fun_rx. *)

\* write_enable; on I2C it starts the timer.
WriteEnable == portArmed' = "write" /\ timer' = (bus = "i2c")
ReadEnable  == portArmed' = "read" /\ UNCHANGED timer

\* WRITE: bytes of a line, its end, or both.
FrameWrite ==
  /\ portArmed = "read" /\ writes < portLoad.writes /\ writes' = writes + 1
  /\ \E s \in {<<Byte(epoch, FALSE)>>, <<Byte(epoch, TRUE)>>,
               <<Byte(epoch, FALSE), Byte(epoch, TRUE)>>} : portRx' = Put(portRx, s)
  /\ ReadEnable
  /\ UNCHANGED <<bus, portLoad, portTx, pin, portTaskVars, portSaid, replies, epoch, raced,
                 overlapped, cut, failed>>

FrameRead ==
  /\ portArmed = "read"
  /\ \E n \in 1..PortRing : portTx' = Get(portTx, n)
  /\ WriteEnable
  /\ UNCHANGED <<bus, portLoad, portRx, pin, portTaskVars, portHistory>>

FrameAvailable ==
  /\ portArmed = "read"
  /\ WriteEnable
  /\ UNCHANGED <<bus, portLoad, portRx, portTx, pin, portTaskVars, portHistory>>

\* Mutant of ClearRx: only the replies are dropped.
KeepRx == portRx' = portRx

ClearRx == portRx' = Clear(portRx)

FrameReset ==
  /\ portArmed = "read" /\ epoch < 1 /\ epoch' = epoch + 1
  /\ ClearRx /\ portTx' = Clear(portTx)
  /\ pin' = FALSE
  /\ raced' = (raced \/ portAt["listener"] = "found")
  /\ ReadEnable
  /\ UNCHANGED <<bus, portLoad, portTaskVars, portSaid, replies, writes, overlapped, cut,
                 failed>>

\* The reply has gone out: sspi_txcb.
SpiSent ==
  /\ bus = "spi" /\ portArmed = "write"
  /\ pin' = (pin /\ ~IsEmpty(portTx))
  /\ ReadEnable
  /\ UNCHANGED <<bus, portLoad, portRx, portTx, portTaskVars, portHistory>>

\* i2c_s_callback_fun_tx
I2cSent ==
  /\ bus = "i2c" /\ portArmed = "write"
  /\ portArmed' = "read" /\ timer' = FALSE
  /\ UNCHANGED <<bus, portLoad, portRx, portTx, pin, portTaskVars, portHistory>>

\* i2c_s_callback_fun_err: the slave listens again, the timer is left running.
I2cError ==
  /\ bus = "i2c"
  /\ ReadEnable
  /\ failed' = (failed \/ timer)
  /\ UNCHANGED <<bus, portLoad, portRx, portTx, pin, portTaskVars, portSaid, replies, writes,
                 epoch, raced, overlapped, cut>>

\* i2cs_tx_timeout_cb: el_reset.
TimerExpires ==
  /\ timer
  /\ portRx' = Ring(PortRing, Blank) /\ portTx' = Ring(PortRing, 0)
  /\ portArmed' = "read" /\ pin' = FALSE /\ timer' = FALSE
  /\ portAt' = [t \in Tasks |-> "idle"] /\ portFound' = 0 /\ portLine' = <<>>
  /\ size' = [t \in Tasks |-> 0]
  /\ raced' = FALSE /\ overlapped' = FALSE /\ cut' = FALSE /\ failed' = FALSE
  /\ UNCHANGED <<bus, portLoad, portSaid, replies, writes, epoch>>

PortInterrupt == FrameWrite \/ FrameRead \/ FrameAvailable \/ FrameReset \/ SpiSent \/ I2cSent
                 \/ I2cError

-----------------------------------------------------------------------------
(* Tasks *)

\* get_line: extract looks for the delimiter, then copies and moves head.
PortFindLine ==
  /\ portAt["listener"] = "idle" /\ ~IsEmpty(portRx)
  /\ portFound' = Find(portRx, {Byte(e, TRUE) : e \in 0..1})
  /\ portAt' = [portAt EXCEPT !["listener"] = "found"]
  /\ UNCHANGED <<driverVars, portLine, size, portHistory>>

\* Mutant of TakeLine: the line is copied whatever its length.
PortTakeLineUnchecked ==
  /\ portAt["listener"] = "found"
  /\ portLine' = Extracted(portRx, portFound, PortRing)
  /\ portRx' = Extract(portRx, portFound)
  /\ portAt' = [portAt EXCEPT !["listener"] = "idle"]
  /\ UNCHANGED <<bus, portLoad, portTx, portArmed, pin, timer, portFound, size, portHistory>>

PortTakeLine ==
  /\ portAt["listener"] = "found"
  /\ portLine' = Extracted(portRx, portFound, PortLineSize)
  /\ portRx' = Extract(portRx, portFound)
  /\ portAt' = [portAt EXCEPT !["listener"] = "idle"]
  /\ UNCHANGED <<bus, portLoad, portTx, portArmed, pin, timer, portFound, size, portHistory>>

Sending(t) == portAt[t] \in {"wait", "copy", "commit", "raise", "lower"}
Other(t)   == CHOOSE u \in Tasks : u # t

\* A task enters send_bytes: SPI waits for room, I2C sends what there is room for.
PortSendBegin(t) ==
  /\ portAt[t] = "idle" /\ replies < portLoad.replies /\ replies' = replies + 1
  /\ size' \in {[size EXCEPT ![t] = n] : n \in ReplySizes}
  /\ portAt' = [portAt EXCEPT ![t] = IF bus = "spi" THEN "wait" ELSE "copy"]
  /\ overlapped' = (overlapped \/ Sending(Other(t)))
  /\ UNCHANGED <<driverVars, portFound, portLine, portSaid, writes, epoch, raced, cut, failed>>

SpiRoom(t) ==
  /\ portAt[t] = "wait" /\ Free(portTx) >= size[t]
  /\ portAt' = [portAt EXCEPT ![t] = "copy"]
  /\ UNCHANGED <<driverVars, portFound, portLine, size, portHistory>>

\* No room for a second: everything that waits to be read is dropped.
SpiGiveUp(t) ==
  /\ portAt[t] = "wait" /\ Free(portTx) < size[t]
  /\ portTx' = Clear(portTx)
  /\ portAt' = [portAt EXCEPT ![t] = "lower"]
  /\ UNCHANGED <<bus, portLoad, portRx, portArmed, pin, timer, portFound, portLine, size,
                 portHistory>>

SpiLower(t) ==
  /\ portAt[t] = "lower"
  /\ pin' = FALSE
  /\ portAt' = [portAt EXCEPT ![t] = "idle"]
  /\ UNCHANGED <<bus, portLoad, portRx, portTx, portArmed, timer, portFound, portLine, size,
                 portHistory>>

\* put computes what fits and copies it; then it moves tail.
Reply(t) == [j \in 1..size[t] |-> portSaid + j]
CopyReply(t) ==
  /\ portAt[t] = "copy"
  /\ LET n == Accepted(portTx, Reply(t))
     IN /\ portTx' = Copied(portTx, Reply(t), n)
        /\ portSaid' = portSaid + size[t]
        /\ size' = [size EXCEPT ![t] = n]
        /\ cut' = (cut \/ (bus = "i2c" /\ n < size[t]))
  /\ portAt' = [portAt EXCEPT ![t] = "commit"]
  /\ UNCHANGED <<bus, portLoad, portRx, portArmed, pin, timer, portFound, portLine, replies,
                 writes, epoch, raced,
                 overlapped, failed>>

CommitReply(t) ==
  /\ portAt[t] = "commit"
  /\ portTx' = Committed(portTx, size[t])
  /\ portAt' = [portAt EXCEPT ![t] = IF bus = "spi" THEN "raise" ELSE "idle"]
  /\ UNCHANGED <<bus, portLoad, portRx, portArmed, pin, timer, portFound, portLine, size,
                 portHistory>>

\* Mutant of RaisePin: the pin is raised only for a ring that was empty.
RaisePinIfFirst(t) ==
  /\ portAt[t] = "raise"
  /\ pin' = (pin \/ Size(portTx) = size[t])
  /\ portAt' = [portAt EXCEPT ![t] = "idle"]
  /\ UNCHANGED <<bus, portLoad, portRx, portTx, portArmed, timer, portFound, portLine, size,
                 portHistory>>

RaisePin(t) ==
  /\ portAt[t] = "raise"
  /\ pin' = TRUE
  /\ portAt' = [portAt EXCEPT ![t] = "idle"]
  /\ UNCHANGED <<bus, portLoad, portRx, portTx, portArmed, timer, portFound, portLine, size,
                 portHistory>>

Send(t) == PortSendBegin(t) \/ SpiRoom(t) \/ SpiGiveUp(t) \/ SpiLower(t) \/ CopyReply(t)
           \/ CommitReply(t) \/ RaisePin(t)
PortNext == PortInterrupt \/ TimerExpires \/ PortFindLine \/ PortTakeLine
            \/ \E t \in Tasks : Send(t)

PortSpec == PortInit /\ [][PortNext]_portVars

-----------------------------------------------------------------------------
\* What the sizes are assumed to be.
PortSizes == PortRing \in Nat \ {0} /\ PortLineSize \in Nat /\ ReplySizes \subseteq Nat

Places == {"idle", "found", "wait", "lower", "copy", "commit", "raise"}
Bytes  == [epoch : 0..1, eol : BOOLEAN]

PortTypeOK ==
  /\ bus \in {"spi", "i2c"} /\ portArmed \in {"read", "write"}
  /\ pin \in BOOLEAN /\ timer \in BOOLEAN
  /\ portRx \in Rings(PortRing, Bytes) /\ portTx \in Rings(PortRing, Nat)
  /\ portAt \in [Tasks -> Places] /\ portFound \in 0..PortRing /\ size \in [Tasks -> Nat]
  /\ portSaid \in Nat /\ epoch \in 0..1
  /\ raced \in BOOLEAN /\ overlapped \in BOOLEAN /\ cut \in BOOLEAN /\ failed \in BOOLEAN

\* get_line returns one line: it ends at the first delimiter, it has room in the
\* listener's buffer (the size passed and one byte), and the host wrote all of it
\* after its last reset, unless that reset fell inside the call: then head passes
\* tail, and what was read long ago is read again.
OneLine ==
  ~raced =>
    /\ \A j \in 1..Len(portLine) : /\ Len(portLine) <= PortLineSize + 1
                                   /\ portLine[j].eol <=> j = Len(portLine)
    /\ \A i \in 1..Size(portRx) : At(portRx, i - 1).epoch = epoch

\* What the host can read is what was sent last, in order and without a gap, and on
\* SPI the pin tells it so as soon as no send is under way.  Two tasks that send at
\* once break either half: nothing excludes them.  And the timer that restarts the
\* device runs only while a reply is pending, unless the bus reported an error: that
\* ends the reply and not the timer.
HostServed ==
  /\ timer => portArmed = "write" \/ failed
  /\ (~overlapped /\ ~cut /\ \A t \in Tasks : portAt[t] # "commit") =>
       /\ \A j \in 1..Size(portTx) : At(portTx, j - 1) = portSaid - Size(portTx) + j
       /\ (bus = "spi" /\ ~IsEmpty(portTx) /\ \A t \in Tasks : ~Sending(t)) => pin

-----------------------------------------------------------------------------
(* Why lines and replies are right: an invariant that every step keeps.    *)

\* Between find and the copy, the line is still at the head of the ring.
PortLineInv ==
  ~raced /\ portAt["listener"] = "found" =>
    \/ portFound = PortRing
    \/ /\ portFound < Size(portRx) /\ At(portRx, portFound).eol
       /\ \A j \in 0..portFound - 1 : ~At(portRx, j).eol

TimerInv == timer => bus = "i2c"

\* The last k bytes of what was said are behind the tail, and the others in the ring.
Ready(k) ==
  /\ Size(portTx) + k <= PortRing - 1
  /\ \A i \in 0..Size(portTx) + k - 1 : At(portTx, i) = portSaid - (Size(portTx) + k) + i + 1

\* While one task at most sends, a reply has room when it is copied (SPI), nothing is
\* added to a ring that was dropped, and the pin is high while there is something to read.
RepliesInv ==
  ~overlapped =>
    /\ \A t, u \in Tasks : (Sending(t) /\ Sending(u)) => t = u
    /\ \A t \in Tasks : /\ (bus = "spi" /\ portAt[t] = "copy") => size[t] <= Free(portTx)
                        /\ portAt[t] = "lower" => IsEmpty(portTx)
                        /\ (~cut /\ portAt[t] = "commit") => Ready(size[t])
    /\ (~cut /\ \A t \in Tasks : portAt[t] # "commit") => Ready(0)
    /\ (bus = "spi" /\ ~IsEmpty(portTx) /\ \A t \in Tasks : ~Sending(t)) => pin

PortInv == PortTypeOK /\ OneLine /\ PortLineInv /\ HostServed /\ TimerInv /\ RepliesInv
=============================================================================
