----------------------------- MODULE MqttBuffer -----------------------------
(***************************************************************************)
(* The input buffer of the MQTT transport: the client's task pushes the    *)
(* messages of the subscribed topic, the listener takes lines out.  Each   *)
(* loads both indices once, works on its copies and stores its own index.  *)
(* _size is a power of two and no cell stays free, so a full buffer looks  *)
(* like an empty one.                                                      *)
(***************************************************************************)
EXTENDS Naturals, Sequences

CONSTANTS
  RingSize,      \* _size: SSCMA_CMD_MAX_LENGTH << 1
  MessageSizes,  \* lengths of messages; the last byte of each is the delimiter
  MaxMessages    \* bound on the messages that arrive

VARIABLES
  buffer, head, tail,  \* _buffer, _head, _tail
  pusher,    \* the client's task: "idle", or its copies of the indices and its message
  reader,    \* the listener: "idle", or its copies
  mqttLine,  \* what get_line returned last
  messages,  \* counts what arrived
  torn       \* a push filled the buffer, or cut its message, and the listener was
             \* in get_line at that time or has been since the push began

mqttVars == <<buffer, head, tail, pusher, reader, mqttLine, messages, torn>>

MqttIdle == [at |-> "idle"]
MqttLineSize == RingSize \div 2

\* A byte: its message, its place, and whether it is the delimiter.
MqttByte(m, k, n) == [message |-> m, place |-> k, last |-> k = n]

MqttInit ==
  /\ buffer = [i \in 0..RingSize - 1 |-> MqttByte(0, 1, 0)] /\ head = 0 /\ tail = 0
  /\ pusher = MqttIdle /\ reader = MqttIdle /\ mqttLine = <<>> /\ messages = 0 /\ torn = FALSE

\* mqtt_subscribe_callback: other topics, and messages of a byte, are ignored.
Arrive ==
  /\ pusher = MqttIdle /\ messages < MaxMessages /\ messages' = messages + 1
  /\ \E n \in MessageSizes :
       /\ n > 1
       /\ pusher' = [at |-> "copy", head |-> head, tail |-> tail, size |-> n]
  /\ UNCHANGED <<buffer, head, tail, reader, mqttLine, torn>>

Remain(h, t) == IF h < t THEN t - h ELSE RingSize - (h - t)

\* Mutant of Pushed: the loop counts from one.
PushedTooMany(p) == (IF p.size < Remain(p.head, p.tail) THEN p.size ELSE Remain(p.head, p.tail)) + 1

Pushed(p) == IF p.size < Remain(p.head, p.tail) THEN p.size ELSE Remain(p.head, p.tail)

\* push_to_buffer: what does not fit is cut, and reported as done.
Push ==
  /\ pusher.at = "copy"
  /\ buffer' = [i \in DOMAIN buffer |->
                  LET j == (i + RingSize - pusher.head) % RingSize
                  IN IF j < Pushed(pusher) THEN MqttByte(messages, j + 1, pusher.size)
                                           ELSE buffer[i]]
  /\ pusher' = [pusher EXCEPT !.at = "store"]
  /\ UNCHANGED <<head, tail, reader, mqttLine, messages, torn>>

StoreHead ==
  /\ pusher.at = "store"
  /\ head' = (pusher.head + Pushed(pusher)) % RingSize
  /\ pusher' = MqttIdle
  /\ torn' = \/ torn
             \/ /\ pusher.size >= Remain(pusher.head, pusher.tail)
                /\ reader # MqttIdle \/ tail # pusher.tail
  /\ UNCHANGED <<buffer, tail, reader, mqttLine, messages>>

LoadIndices ==
  /\ reader = MqttIdle /\ head # tail
  /\ reader' = [at |-> "scan", head |-> head, tail |-> tail, len |-> 0]
  /\ UNCHANGED <<buffer, head, tail, pusher, mqttLine, messages, torn>>

\* get_line: the first delimiter among LineSize bytes; without one, nothing is taken.
Ends(h, t) ==
  {n \in 1..MqttLineSize : /\ n <= (h + RingSize - t) % RingSize
                           /\ buffer[(t + n - 1) % RingSize].last}

Scan ==
  /\ reader.at = "scan"
  /\ LET ends == Ends(reader.head, reader.tail)
     IN IF ends = {} THEN reader' = MqttIdle /\ mqttLine' = <<>>
        ELSE LET n == CHOOSE n \in ends : \A m \in ends : n <= m
             IN /\ mqttLine' = [i \in 1..n |-> buffer[(reader.tail + i - 1) % RingSize]]
                /\ reader' = [reader EXCEPT !.at = "store", !.len = n]
  /\ UNCHANGED <<buffer, head, tail, pusher, messages, torn>>

StoreTail ==
  /\ reader.at = "store"
  /\ tail' = (reader.tail + reader.len) % RingSize
  /\ reader' = MqttIdle
  /\ UNCHANGED <<buffer, head, pusher, mqttLine, messages, torn>>

MqttNext == Arrive \/ Push \/ StoreHead \/ LoadIndices \/ Scan \/ StoreTail

MqttSpec == MqttInit /\ [][MqttNext]_mqttVars

-----------------------------------------------------------------------------
\* What the buffer's size and the messages are assumed to be.
MqttSizes == RingSize \in Nat \ {0} /\ MessageSizes \subseteq Nat /\ MaxMessages \in Nat

MqttBytes   == [message : Nat, place : Nat, last : BOOLEAN]
Indices == 0..RingSize - 1

MqttTypeOK ==
  /\ buffer \in [Indices -> MqttBytes] /\ head \in Indices /\ tail \in Indices
  /\ \/ pusher = MqttIdle
     \/ pusher \in [at : {"copy", "store"}, head : Indices, tail : Indices, size : Nat \ {0}]
  /\ \/ reader = MqttIdle
     \/ reader \in [at : {"scan", "store"}, head : Indices, tail : Indices,
                    len : 0..MqttLineSize]
  /\ messages \in 0..MaxMessages /\ torn \in BOOLEAN
  /\ \E n \in 0..MqttLineSize : mqttLine \in [1..n -> MqttBytes]

\* A line the listener takes is one message, whole: a buffer that fills up forgets
\* all it holds, the message that is cut included, and glues no two messages, unless
\* the listener takes a line while the push that fills it is under way.
LineIsMessage ==
  ~torn => \A i \in 1..Len(mqttLine) :
    /\ mqttLine[i].message = mqttLine[1].message
    /\ mqttLine[i].place = i
    /\ mqttLine[i].last <=> i = Len(mqttLine)

-----------------------------------------------------------------------------
(* Why it holds: an invariant that every step keeps.                       *)

Held(t, h) == (h + RingSize - t) % RingSize
Cell(t, i) == (t + i) % RingSize

\* From the index t to h, messages lie one behind the other, each whole: a byte has
\* the bytes of its message before it, none of them the last, and before those the
\* last byte of another.
WholeMessages(t, h) ==
  \A i \in 0..Held(t, h) - 1 :
    LET b == buffer[Cell(t, i)]
    IN /\ b.place \in 1..i + 1
       /\ \A j \in 1..b.place - 1 :
            LET c == buffer[Cell(t, i - j)]
            IN c.message = b.message /\ c.place = b.place - j /\ ~c.last
       /\ b.place <= i => buffer[Cell(t, i - b.place)].last
       /\ i = Held(t, h) - 1 => b.last

\* The task's copy of tail may be old: the listener has moved on, to its head at most.
PusherInv ==
  pusher # MqttIdle =>
    /\ pusher.head = head
    /\ Held(pusher.tail, tail) <= Held(pusher.tail, head)
    /\ pusher.at = "store" => \A j \in 0..Pushed(pusher) - 1 :
         buffer[Cell(head, j)] = MqttByte(messages, j + 1, pusher.size)

ReaderInv ==
  reader # MqttIdle =>
    /\ reader.tail = tail /\ reader.head # tail
    /\ Held(tail, reader.head) <= Held(tail, head)
    /\ reader.at = "store" =>
         /\ reader.len \in 1..Held(tail, reader.head)
         /\ buffer[Cell(tail, reader.len - 1)].last

BufferInv ==
  /\ MqttTypeOK
  /\ ~torn => WholeMessages(tail, head) /\ PusherInv /\ ReaderInv
  /\ LineIsMessage
=============================================================================
