------------------------------- MODULE Packet -------------------------------
(***************************************************************************)
(* FKLib_Common/Packet: the binary form of the messages.  A byte has Base  *)
(* values and a packet is a sequence of bytes; the integer types keep      *)
(* their number of bytes.  A reader is its position in the data with what  *)
(* the last read returned and whether it failed.                           *)
(*                                                                         *)
(* A value is a tree [k |-> <kind>, v |-> <value>], as reflection sees it: *)
(* kinds are named after the methods of Packet (U8 for a byte).  A table   *)
(* is a structure with one more field, pack.                               *)
(***************************************************************************)
EXTENDS Integers, SequencesExt

CONSTANT Base       \* 256, the values of a byte

ASSUME BaseAssumption == Base \in Nat /\ Base % 2 = 0 /\ Base >= 4

Bytes == [U8 |-> 1, U16 |-> 2, U24 |-> 3, U32 |-> 4, U64 |-> 8,
          S8 |-> 1, S16 |-> 2, S24 |-> 3, S32 |-> 4, S64 |-> 8, F32 |-> 4, F64 |-> 8]

PACKET_LIMIT == Base ^ 2 - 1

\* A float is the pattern of its bits; without a finite value when the bits of
\* its exponent, here those of the first byte but the sign, are all set.
NonFinite(bits, n) == (bits \div Base ^ (n - 1)) % (Base \div 2) = Base \div 2 - 1

\* What a reader gets for a value: a float that is not finite becomes 0.
Finite(kind, v) ==
    IF kind \in {"F32", "F64"} /\ NonFinite(v, Bytes[kind]) THEN 0 ELSE v

-----------------------------------------------------------------------------
(* Writers: the bytes that are appended. *)

\* The n bytes of an integer, the highest first; a negative one in two's
\* complement, and one that is too large without its higher bytes.
WriteUint(v, n) == [i \in 1 .. n |-> (v \div Base ^ (n - i)) % Base]

WriteInt(v, n) == WriteUint(v, n)

WriteBool(v) == <<IF v THEN 1 ELSE 0>>

WriteBytes(v) == WriteUint(Len(v), 2) \o v

WriteString(v) == WriteUint(Len(v), 2) \o v

WriteFloat(bits, n) == WriteUint(bits, n)

-----------------------------------------------------------------------------
(* Readers: each returns the reader after the read. *)

Reader(data) == [data |-> data, pos |-> 0, ret |-> 0, err |-> FALSE]

Zero(kind) == CASE kind = "Bool" -> FALSE [] kind \in {"String", "Bytes"} -> <<>>
                [] OTHER -> 0

\* A read that fails returns the zero value and leaves the position.
Fail(p, kind) == [p EXCEPT !.ret = Zero(kind), !.err = TRUE]
Got(p, n, v)  == [p EXCEPT !.pos = @ + n, !.ret = v, !.err = FALSE]

Next_n(p, n) == SubSeq(p.data, p.pos + 1, p.pos + n)
Number(s) == FoldLeft(LAMBDA u, b : u * Base + b, 0, s)

ReadUint(p, kind) ==
    LET n == Bytes[kind]
    IN  IF p.pos + n > Len(p.data) THEN Fail(p, kind) ELSE Got(p, n, Number(Next_n(p, n)))

\* The conversion to the signed type of the same width; the 24 bits that
\* ReadS24 converts to 32 have no sign.
ReadInt(p, kind) ==
    LET r == ReadUint(p, kind)
        n == Bytes[kind]
    IN  IF kind # "S24" /\ r.ret >= Base ^ n \div 2
        THEN [r EXCEPT !.ret = @ - Base ^ n] ELSE r

ReadBool(p) == LET r == ReadUint(p, "U8") IN [r EXCEPT !.ret = @ = 1]

\* When the data is too short the length has been read: it stays read.
ReadBytes(p) ==
    LET size == ReadUint(p, "U16")
    IN  IF size.err THEN Fail(p, "Bytes")
        ELSE IF size.pos + size.ret > Len(p.data) THEN Fail(size, "Bytes")
        ELSE Got(size, size.ret, Next_n(size, size.ret))

ReadString(p) == ReadBytes(p)

ReadFloat(p, kind) ==
    LET r == ReadUint(p, kind) IN [r EXCEPT !.ret = Finite(kind, @)]

Read(kind, p) == CASE kind \in {"U8", "U16", "U24", "U32", "U64"} -> ReadUint(p, kind)
                   [] kind \in {"S8", "S16", "S24", "S32", "S64"} -> ReadInt(p, kind)
                   [] kind \in {"F32", "F64"} -> ReadFloat(p, kind)
                   [] kind = "Bool" -> ReadBool(p)
                   [] kind = "Bytes" -> ReadBytes(p)
                   [] kind = "String" -> ReadString(p)

-----------------------------------------------------------------------------
(* Func_Pack: the number of the message, then its table. *)

Concat(ss) == FlattenSeq(ss)

\* By reflection: a nil pointer and an unknown kind leave nothing, an array is
\* its length and its elements, a structure the sequence of its fields.
RECURSIVE pack(_)
pack(t) == CASE t.k = "Bool" -> WriteBool(t.v)
             [] t.k \in {"U8", "U16", "U32", "U64"} -> WriteUint(t.v, Bytes[t.k])
             [] t.k \in {"S16", "S32", "S64"} -> WriteInt(t.v, Bytes[t.k])
             [] t.k \in {"F32", "F64"} -> WriteFloat(t.v, Bytes[t.k])
             [] t.k = "String" -> WriteString(t.v)
             [] t.k = "Bytes" -> WriteBytes(t.v)
             [] t.k = "Ptr" -> Concat([i \in DOMAIN t.v |-> pack(t.v[i])])
             [] t.k = "Slice" -> WriteUint(Len(t.v), 2) \o Concat([i \in DOMAIN t.v |-> pack(t.v[i])])
             [] t.k = "Struct" -> Concat([i \in DOMAIN t.v |-> pack(t.v[i])])
             [] OTHER -> <<>>

Write(kind, v) == pack([k |-> kind, v |-> v])

\* A type with a Pack of its own names the writers it calls, field by field.
FastPack(t) == Concat([i \in DOMAIN t.pack |-> Write(t.pack[i], t.v[i].v)])

NoTable == [k |-> "nil", pack |-> <<>>]

Func_Pack(tos, tbl) ==
    WriteInt(tos, 2) \o (IF tbl = NoTable THEN <<>>
                         ELSE IF tbl.pack # <<>> THEN FastPack(tbl) ELSE pack(tbl))
=============================================================================
