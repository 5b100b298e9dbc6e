------------------------------ MODULE MCBuffers ------------------------------
(***************************************************************************)
(* ByteBuffer, ResultSet, the packets and the values of JsonCpp, which     *)
(* share no state: the part of MCSerializers that proofs are about.        *)
(***************************************************************************)
EXTENDS ByteBuffer

CONSTANTS Table, Columns, NoField, Half, MaxReads,
          Messages, PacketSize, PacketSlack, PacketLimit, ReadSize, Cuts, MaxMessages,
          MaxInt, Samples, Names, MaxSize, Comments, MaxSteps

VARIABLES row, index, reads, last, died,
          sent, stream, buffer, size, engine, registered, got, ran, mounting, routes, forwarded,
          root, steps, aborted

resultVars == <<row, index, reads, last, died>>
packetVars == <<sent, stream, buffer, size, engine, registered, got, ran, mounting, routes, forwarded>>

R == INSTANCE ResultSet

P == INSTANCE Packets WITH InitialSize <- PacketSize, Slack <- PacketSlack, Limit <- PacketLimit

E == INSTANCE JsonEdit

ASSUME BuffersAssumption ==
    R!ResultSetAssumption /\ P!PacketsAssumption /\ E!JsonEditAssumption

ReadsColumnByColumn == R!ReadsColumnByColumn
ReceivedAsPacked == P!ReceivedAsPacked
RoutedByMount == P!RoutedByMount
ConvertibleConverts == E!ConvertibleConverts
ArrayIsAList == E!ArrayIsAList
=============================================================================
