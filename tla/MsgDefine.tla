----------------------------- MODULE MsgDefine -----------------------------
(* FKLib_Common/MsgDefine: the messages of the gateway, and                 *)
(* FKLib_Common/DH: the key exchange.                                       *)
EXTENDS Packet

CONSTANTS
    Code,       \* the number of each message
    DH1BASE, DH1PRIME

\* The fields of each table, in the order in which its Pack writes them and
\* its PKT_ function reads them.
Fields == [S_auto_id       |-> <<"S32">>,
           S_error_info    |-> <<"S32", "String">>,
           S_user_login_info |-> <<"S32", "String", "String", "S32", "String", "String",
                                   "String", "String", "String", "S32", "String">>,
           S_seed_info     |-> <<"S32", "S32">>,
           S_user_snapshot |-> <<"S32">>]

Table(name, values) ==
    [k |-> "Struct", pack |-> Fields[name],
     v |-> [i \in DOMAIN Fields[name] |-> [k |-> Fields[name][i], v |-> values[i]]]]

\* One field after another; ok is FALSE once func_CheckErr has panicked.
PKT(name, reader) ==
    FoldLeft(LAMBDA a, kind : LET r == Read(kind, a.reader)
                              IN  IF ~a.ok \/ r.err THEN [a EXCEPT !.ok = FALSE]
                                  ELSE [a EXCEPT !.reader = r, !.tbl = Append(@, r.ret)],
             [reader |-> reader, tbl |-> <<>>, ok |-> TRUE], Fields[name])

RCode(b) == {name \in DOMAIN Code : Code[name] = b}

-----------------------------------------------------------------------------
Exp(x, n) == FoldLeft(LAMBDA m, i : (m * x) % DH1PRIME, 1, [i \in 1 .. n |-> i])

DHExchange(secret) == Exp(DH1BASE, secret)
DHKey(secret, modpower) == Exp(modpower, secret)
=============================================================================
