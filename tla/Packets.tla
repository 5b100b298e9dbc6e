------------------------------- MODULE Packets -------------------------------
(***************************************************************************)
(* The packets of SummerBreeze/SharedLib byte by byte: a message is packed *)
(* by PackPacket with the header of protocol_binary_t, goes through a      *)
(* stream that is cut anywhere, is collected in another PackPacket, taken  *)
(* off it by the length in its header and unpacked by UnpackPacket.        *)
(*                                                                         *)
(* ZmqEngine follows the same stream as positions; here are the bytes, and  *)
(* what the messages that mount opcodes do to the routes.                  *)
(***************************************************************************)
EXTENDS Integers, Sequences, SequencesExt

CONSTANTS Messages,     \* what is sent: opcode, options and data; the data of
                        \* opcode 1 is a text, that of opcode 2 opcodes to mount
          InitialSize,  \* 512: first size of a PackPacket
          Slack,        \* 2^14
          Limit,        \* 2^28
          ReadSize,     \* 1024: bytes that one read() can return
          Cuts,         \* numbers of bytes that it does return, besides all
          MaxMessages   \* bound on the messages

Byte == 0..255

(* What a byte counts for at its place in a number, and the numbers of so  *)
(* many bytes.                                                             *)
Place == <<1, 256, 256 * 256, 256 * 256 * 256>>
Number(width) == {n \in Nat : n \div Place[width] \in Byte}

Option == [opcode : Number(2), values : Seq(Byte)]

(* The text of protocol_test_t or the opcodes of protocol_mount_t; sizes   *)
(* are of 32 bits.                                                         *)
PacketsAssumption ==
    /\ Messages \subseteq [opcode : {1}, options : Seq(Option), data : Seq(Byte)]
                              \cup [opcode : {2}, options : Seq(Option), data : Seq(Number(4))]
    /\ InitialSize \in Nat /\ Slack \in Nat /\ ReadSize \in Nat /\ MaxMessages \in Nat
    /\ Limit \in Number(4) /\ InitialSize <= Limit
    /\ Cuts \subseteq Nat

VARIABLES sent,       \* the messages that have been packed
          stream,     \* their bytes that have not been read
          buffer,     \* pack_packet of the receiver: the bytes it holds ...
          size,       \* ... and the size of its memory
          engine,     \* the receiver: "open", "forwarding", or closed by an
                      \* exception of Grow(), "full", or otherwise, "closed"
          registered, \* the opcodes of s_register_opcode
          got,        \* the messages given to the logical thread
          ran,        \* how many of those it has run
          mounting,   \* the opcodes that handle_mount() has still to mount
          routes,     \* s_route_map
          forwarded   \* the message that is being forwarded, and to where

vars == <<sent, stream, buffer, size, engine, registered, got, ran, mounting, routes, forwarded>>
-----------------------------------------------------------------------------
(* Slips in this code that the properties below must notice.               *)

(* leaves the lengths in the header 0                                      *)
PatchNothing(bytes, at, with) == bytes

(* forwards whatever find_route() knows, registered or not                 *)
DispatchToAll(m) ==
    IF m.opcode \in DOMAIN routes /\ routes[m.opcode] # {}
    THEN /\ forwarded' = [message |-> m, to |-> routes[m.opcode]]
         /\ engine' = "forwarding"
         /\ UNCHANGED got
    ELSE /\ got' = IF m.opcode \in registered THEN Append(got, m) ELSE got
         /\ UNCHANGED <<engine, forwarded>>
-----------------------------------------------------------------------------
(* PackPacket: numbers as they lie in memory, least byte first.            *)
WriteNumber(v, width) == [i \in 1..width |-> (v \div Place[i]) % 256]

(* A string goes without its length, and a 0 ends it.                      *)
WriteText(text) == text \o <<0>>

(* A vector: the number of its items and they.  Here of bytes, ...         *)
WriteBytes(values) == WriteNumber(Len(values), 4) \o values

WriteOption(o) == WriteNumber(o.opcode, 2) \o WriteNumber(0, 2) \o WriteBytes(o.values)

(* ... and of options or of numbers.                                       *)
WriteItem(options, item) == IF options THEN WriteOption(item) ELSE WriteNumber(item, 4)

WriteVector(options, items) ==
    WriteNumber(Len(items), 4) \o FlattenSeq([i \in 1..Len(items) |-> WriteItem(options, items[i])])

(* version, head_length, type_of_service, total_length, identification,    *)
(* opcode, origin_session, session and the options.                        *)
WriteHeader(m) ==
    WriteNumber(0, 1) \o WriteNumber(0, 2) \o WriteNumber(0, 1) \o WriteNumber(0, 4)
       \o WriteNumber(0, 4) \o WriteNumber(m.opcode, 4) \o WriteNumber(0, 4)
       \o WriteNumber(0, 4) \o WriteVector(TRUE, m.options)

(* Overwrites what lies at an offset.                                      *)
Patch(bytes, at, with) ==
    [i \in 1..Len(bytes) |-> IF i - at \in 1..Len(with) THEN with[i - at] ELSE bytes[i]]

Save(m) == IF m.opcode = 1 THEN WriteText(m.data) ELSE WriteVector(FALSE, m.data)

(* protocol_binary_t::pack(): the two lengths are put into the header when *)
(* they are known.                                                         *)
Pack(m) == LET head == WriteHeader(m)
               whole == Patch(head, 1, WriteNumber(Len(head), 2)) \o Save(m)
           IN  Patch(whole, 4, WriteNumber(Len(whole), 4))
-----------------------------------------------------------------------------
(* UnpackPacket: the bytes that it has not read, what it has read last and *)
(* whether it can go on.                                                   *)
Reader(rest, value) == [rest |-> rest, value |-> value, ok |-> TRUE]

Broken == [rest |-> <<>>, value |-> 0, ok |-> FALSE]

From(data, at) == SubSeq(data, at, Len(data))

NumberAt(data, at, width) ==
    LET Digit(i) == IF i <= width THEN data[at + i] * Place[i] ELSE 0
    IN  Digit(1) + Digit(2) + Digit(3) + Digit(4)

Skip(r, count) ==
    IF ~r.ok \/ Len(r.rest) < count THEN Broken ELSE Reader(From(r.rest, count + 1), r.value)

ReadNumber(r, width) ==
    IF ~r.ok \/ Len(r.rest) < width THEN Broken
    ELSE Reader(From(r.rest, width + 1), NumberAt(r.rest, 0, width))

(* Looks for the 0 and goes past it.                                       *)
Zeros(data) == {i \in 1..Len(data) : data[i] = 0}
FirstZero(data) == CHOOSE i \in Zeros(data) : \A j \in Zeros(data) : i <= j

ReadText(r) ==
    IF ~r.ok \/ Zeros(r.rest) = {} THEN Broken
    ELSE Reader(From(r.rest, FirstZero(r.rest) + 1), SubSeq(r.rest, 1, FirstZero(r.rest) - 1))

(* operator >> for a vector of bytes, when their number has been read, ... *)
ReadBytes(count) ==
    IF ~count.ok \/ Len(count.rest) < count.value THEN Broken
    ELSE Reader(From(count.rest, count.value + 1), SubSeq(count.rest, 1, count.value))

Labelled(opcode, values) ==
    IF values.ok THEN Reader(values.rest, [opcode |-> opcode, values |-> values.value]) ELSE Broken

ReadOption(r) ==
    LET opcode == ReadNumber(r, 2)
    IN  Labelled(opcode.value, ReadBytes(ReadNumber(ReadNumber(opcode, 2), 4)))

(* ... and for one of options or numbers, each of which is read in turn.   *)
ReadItem(options, r) == IF options THEN ReadOption(r) ELSE ReadNumber(r, 4)

AddItem(values, item) == IF item.ok THEN Reader(item.rest, Append(values, item.value)) ELSE Broken

ReadItems(options, count) ==
    LET taken[n \in 0..count.value] ==
            IF n = 0 THEN Reader(count.rest, <<>>)
            ELSE AddItem(taken[n - 1].value, ReadItem(options, taken[n - 1]))
    IN  IF count.ok THEN taken[count.value] ELSE Broken

ReadVector(options, r) == ReadItems(options, ReadNumber(r, 4))

(* protocol_binary_t::unpack(): the header, field by field, and load().    *)
Load(opcode, options) == IF opcode = 1 THEN ReadText(options) ELSE ReadVector(FALSE, options)

Message(opcode, options, payload) ==
    IF ~payload.ok THEN [ok |-> FALSE]
    ELSE [ok |-> TRUE, message |-> [opcode |-> opcode, options |-> options, data |-> payload.value]]

Unpack(data) ==
    LET opcode == ReadNumber(Skip(Reader(data, 0), 12), 4)
        options == ReadVector(TRUE, Skip(opcode, 8))
    IN  Message(opcode.value, options.value, Load(opcode.value, options))
-----------------------------------------------------------------------------
(* PackPacket::Grow(): the memory that it takes to hold length bytes.      *)
GrownSize(old, length) ==
    IF length <= old THEN old
    ELSE LET double == IF old = 0 THEN InitialSize ELSE 2 * old
         IN  IF length > double THEN length + Slack ELSE double

Throws(old, length) == GrownSize(old, length) > Limit

Init == /\ sent = <<>> /\ stream = <<>>
        /\ buffer = <<>> /\ size = InitialSize /\ engine = "open"
        /\ registered \in SUBSET {1, 2}
        /\ got = <<>> /\ ran = 0
        /\ mounting = <<>> /\ routes = <<>> /\ forwarded = <<>>

(* A message is packed and sent.                                           *)
Send(m) == /\ Len(sent) < MaxMessages
           /\ ~Throws(InitialSize, Len(Pack(m)))
           /\ sent' = Append(sent, m)
           /\ stream' = stream \o Pack(m)
           /\ UNCHANGED <<buffer, size, engine, registered, got, ran, mounting, routes, forwarded>>

(* A registered message is for the logical thread; another one goes to the *)
(* first descriptor of its route, in a loop that only an error ends.       *)
Dispatch(m) ==
    \/ /\ m.opcode \in registered
       /\ got' = Append(got, m)
       /\ UNCHANGED <<engine, forwarded>>
    \/ /\ m.opcode \notin registered
       /\ UNCHANGED got
       /\ IF m.opcode \in DOMAIN routes /\ routes[m.opcode] # {}
          THEN /\ forwarded' = [message |-> m, to |-> routes[m.opcode]]
               /\ engine' = "forwarding"
          ELSE UNCHANGED <<engine, forwarded>>

Close(state) == engine' = state /\ UNCHANGED <<got, forwarded>>

(* zmq_engine_t::in_event() reads n bytes into pack_packet and takes the   *)
(* packet at its front, if it is complete, by the length in its header.    *)
(* What Grow() or unpack() throws closes the connection.                   *)
Read(n) ==
    LET bytes == buffer \o SubSeq(stream, 1, n)
        length == NumberAt(bytes, 4, 4)
        packet == Unpack(SubSeq(bytes, 1, length))
    IN  /\ engine = "open" /\ n <= Len(stream)
        /\ stream' = SubSeq(stream, n + 1, Len(stream))
        /\ UNCHANGED <<sent, registered, ran, mounting, routes>>
        /\ IF Throws(size, Len(bytes)) THEN Close("full") /\ UNCHANGED <<buffer, size>>
           ELSE /\ size' = GrownSize(size, Len(bytes))
                /\ IF Len(bytes) >= 20 /\ Len(bytes) >= length
                   THEN /\ buffer' = SubSeq(bytes, length + 1, Len(bytes))
                        /\ IF packet.ok THEN Dispatch(packet.message) ELSE Close("closed")
                   ELSE buffer' = bytes /\ UNCHANGED <<engine, got, forwarded>>

(* ::send() to the descriptor returns SOCKET_ERROR.                        *)
ForwardError ==
    /\ engine = "forwarding"
    /\ engine' = "closed"
    /\ UNCHANGED <<sent, stream, buffer, size, registered, got, ran, mounting, routes, forwarded>>

(* The logical thread runs the next message; a mount is a loop.            *)
RunMessage ==
    /\ ran < Len(got) /\ mounting = <<>>
    /\ ran' = ran + 1
    /\ mounting' = IF got[ran'].opcode = 2 THEN got[ran'].data ELSE <<>>
    /\ UNCHANGED <<sent, stream, buffer, size, engine, registered, got, routes, forwarded>>

(* A turn of handle_mount().  The map is not locked: an opcode that is new *)
(* to it has an empty set for a moment.  What is put into the set is not   *)
(* the descriptor but the opcode.                                          *)
HandleMount ==
    /\ mounting # <<>>
    /\ LET opcode == Head(mounting)
       IN  IF opcode \in DOMAIN routes
           THEN /\ routes' = [routes EXCEPT ![opcode] = @ \cup {opcode}]
                /\ mounting' = Tail(mounting)
           ELSE /\ routes' = [o \in DOMAIN routes \cup {opcode} |->
                                 IF o = opcode THEN {} ELSE routes[o]]
                /\ UNCHANGED mounting
    /\ UNCHANGED <<sent, stream, buffer, size, engine, registered, got, ran, forwarded>>

Next == \/ \E m \in Messages : Send(m)
        \/ \E n \in Cuts \cup {Len(stream)} : n \in 1..ReadSize /\ Read(n)
        \/ ForwardError
        \/ RunMessage
        \/ HandleMount

Spec == Init /\ [][Next]_vars
-----------------------------------------------------------------------------
(* A 0 in a text ends it.                                                  *)
UpToZero(m) ==
    IF m.opcode = 1 /\ Zeros(m.data) # {}
    THEN [opcode |-> 1, options |-> m.options, data |-> SubSeq(m.data, 1, FirstZero(m.data) - 1)]
    ELSE m

(* Those that the logical thread has asked for.                            *)
Due(messages) ==
    FlattenSeq([i \in 1..Len(messages) |->
                  IF messages[i].opcode \in registered THEN <<messages[i]>> ELSE <<>>])

TypeOK == /\ sent \in Seq(Messages)
          /\ stream \in Seq(Byte) /\ buffer \in Seq(Byte)
          /\ size \in Nat
          /\ engine \in {"open", "forwarding", "full", "closed"}
          /\ registered \subseteq {1, 2}
          /\ \A i \in DOMAIN got : \E m \in Messages : got[i] = UpToZero(m)
          /\ ran \in 0..Len(got)
          /\ mounting \in Seq(Number(4))
          /\ \A o \in DOMAIN routes : o \in Number(4) /\ routes[o] \subseteq {o}
          /\ \/ forwarded = <<>>
             \/ /\ forwarded.message.opcode \in DOMAIN routes
                /\ forwarded.to = {forwarded.message.opcode}

(* Wherever the stream is cut, what the receiver passes on are messages    *)
(* that were packed, in order and with their options and data, but for a   *)
(* text with a 0 in it, which ends there; while nothing waits in buffer or *)
(* stream it has passed on every registered one.  What it keeps fits its   *)
(* memory, and it gives up only when that would get too big or when        *)
(* forwarding fails.                                                       *)
ReceivedAsPacked ==
    LET due == Due(sent)
    IN  /\ Len(got) <= Len(due)
        /\ \A i \in DOMAIN got : got[i] = UpToZero(due[i])
        /\ engine = "open" /\ buffer = <<>> /\ stream = <<>> => Len(got) = Len(due)
        /\ Len(buffer) <= size /\ size <= Limit
        /\ engine = "closed" => forwarded # <<>>
        /\ engine = "full" => \E n \in 1..ReadSize : Throws(size, Len(buffer) + n)

(* A message is forwarded only if the logical thread does not handle its   *)
(* opcode itself and has begun to run a message that mounts it; the map    *)
(* knows no opcode that was not mounted.                                   *)
RoutedByMount ==
    LET mounted == UNION {ToSet(got[i].data) : i \in {j \in 1..ran : got[j].opcode = 2}}
    IN  /\ DOMAIN routes \subseteq mounted
        /\ forwarded # <<>> => /\ forwarded.message.opcode \notin registered
                               /\ forwarded.message.opcode \in mounted
=============================================================================
