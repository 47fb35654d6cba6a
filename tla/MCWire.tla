------------------------------- MODULE MCWire -------------------------------
EXTENDS Wire

\* The numbers keep their order on both sides of GameServerMsgIDBegin.
MCCode == [heart_beat_req |-> 0, heart_beat_ack |-> 1, user_login_req |-> 10,
           user_login_succeed_ack |-> 11, get_seed_req |-> 16, get_seed_ack |-> 17,
           proto_ping_req |-> 21, proto_ping_ack |-> 22,
           test |-> 25, full |-> 26, long |-> 27, none |-> 28]

Udid(n) == [i \in 1 .. n |-> i]
MCLogin == <<0, Udid(2), Udid(3), 1, Udid(1), <<>>, Udid(1), <<>>, Udid(1), 1, <<7>> >>

\* What main of FKTools_Simulate sends; RAND.Int31 draws the largest number, then 6.
MCScript == << [name |-> "get_seed_req"],
               [name |-> "user_login_req", table |-> "S_user_login_info", tbls |-> {MCLogin}],
               [name |-> "heart_beat_req", table |-> "S_auto_id", tbls |-> {<<Base ^ 4 \div 2 - 1>>}],
               [name |-> "proto_ping_req", table |-> "S_auto_id", tbls |-> {<<6>>}] >>

V(k, v) == [k |-> k, v |-> v]
Tbl(v) == [k |-> "Struct", v |-> v, pack |-> <<>>]
Sub(h, i) == V("Struct", <<V("S16", h), V("U16", i)>>)

\* The table of Pack_test.go, and pointers; F32 of value 7 * Base^3 is infinite.
MCTest == Tbl(<<V("Bool", TRUE), V("S32", -16), V("String", <<1>>), V("F32", 7 * Base ^ 3),
                V("U32", 100), V("F64", 3), V("Bytes", <<1, 2>>), V("Slice", <<Sub(-3, 4), Sub(5, 63)>>),
                V("Struct", <<V("Slice", <<>>)>>), V("Ptr", <<V("S64", -1)>>), V("Ptr", <<>>)>>)

\* With number and length, the longest frame and one byte more.
Filled(n) == Tbl(<<V("Bytes", [i \in 1 .. n - 4 |-> i % Base])>>)
MCPushes == [test |-> MCTest, full |-> Filled(PACKET_LIMIT), long |-> Filled(PACKET_LIMIT + 1),
             none |-> NoTable]
=============================================================================
