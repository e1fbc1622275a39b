------------------------- MODULE HevSocks5Handshake -------------------------
(***************************************************************************)
(* The SOCKS5 handshake: hev-socks5-client.c at one end of a connection    *)
(* and hev-socks5-server.c, of the same library, at the other.             *)
(*                                                                         *)
(* up and down are the two directions of the connection, as the messages   *)
(* sent and not yet read.  A message of the handshake is far smaller than  *)
(* a socket buffer, so a send takes it whole, and MSG_WAITALL reads it     *)
(* whole: a read waits, reads its message, or fails because the peer has   *)
(* closed (upEnd, downEnd) or the reader's timeout is over.  Reading       *)
(* another kind of message than the one awaited is left without an action  *)
(* (the bytes would be taken apart at the wrong places): Aligned says that *)
(* it does not happen.                                                     *)
(*                                                                         *)
(* conf is what is fixed before the first message: the type of the         *)
(* client, its pipeline flag, its credentials (none, or ones the server's  *)
(* authenticator accepts or not) and whether the server has an             *)
(* authenticator.                                                          *)
(***************************************************************************)
EXTENDS Integers, Sequences

CONSTANT Configs   \* the configurations to consider

Types == {"TCP", "UDP_IN_TCP", "UDP_IN_UDP"}
Methods == {"NONE", "USER", "UNACCEPTABLE"}

ConfigSet == [type : Types, pipeline : BOOLEAN,
              creds : {"none", "good", "bad"}, auth : BOOLEAN]

ASSUME ConfigsAssumption == Configs \subseteq ConfigSet

VARIABLES
    conf,
    cpc,       \* what the client does next, "ok" or "fail"
    spc,       \* what the server does next, "service", "fail" or "closed"
    sval,      \* the value the server is about to send
    stype,     \* HevSocks5.type of the server
    obj,       \* what the server's union obj/user/auth holds
    up, down, upEnd, downEnd

client == <<cpc>>
server == <<spc, sval, stype, obj>>
hvars == <<conf, client, server, up, down, upEnd, downEnd>>

Msg(kind, val) == [kind |-> kind, val |-> val]

HInit ==
    /\ conf \in Configs
    /\ cpc = "wMethods" /\ spc = "rMethods" /\ sval = "-" /\ stype = "NONE"
    /\ obj = IF conf.auth THEN "auth" ELSE "null"
    /\ up = <<>> /\ down = <<>> /\ upEnd = FALSE /\ downEnd = FALSE

----------------------------------------------------------------------------
(* The client.                                                             *)

\* A send fails once the peer has closed.
ClientSends(msgs, next) ==
    \/ cpc' = next /\ up' = up \o msgs
    \/ downEnd /\ cpc' = "fail" /\ UNCHANGED up

write_auth_methods ==
    /\ cpc = "wMethods"
    /\ LET method == IF conf.creds = "none" THEN "NONE" ELSE "USER"
       IN  ClientSends(<<Msg("methods", method)>>,
                       IF conf.pipeline THEN "wCreds" ELSE "rMethod")
    /\ UNCHANGED <<conf, server, down, upEnd, downEnd>>

\* Mutant: credentials are sent although there are none.
write_auth_creds_Always ==
    /\ cpc = "wCreds"
    /\ ClientSends(<<Msg("creds", conf.creds)>>,
                   IF conf.pipeline THEN "wRequest" ELSE "rCreds")
    /\ UNCHANGED <<conf, server, down, upEnd, downEnd>>

\* Mutant: only the pipelined client sends its credentials.
write_auth_creds_Pipelined ==
    /\ cpc = "wCreds"
    /\ ClientSends(IF conf.creds = "none" \/ ~conf.pipeline THEN <<>>
                   ELSE <<Msg("creds", conf.creds)>>,
                   IF conf.pipeline THEN "wRequest" ELSE "rCreds")
    /\ UNCHANGED <<conf, server, down, upEnd, downEnd>>

write_auth_creds ==
    /\ cpc = "wCreds"
    /\ ClientSends(IF conf.creds = "none" THEN <<>>
                   ELSE <<Msg("creds", conf.creds)>>,
                   IF conf.pipeline THEN "wRequest" ELSE "rCreds")
    /\ UNCHANGED <<conf, server, down, upEnd, downEnd>>

Cmd(type) == CASE type = "TCP" -> "CONNECT"
               [] type = "UDP_IN_TCP" -> "FWD_UDP"
               [] type = "UDP_IN_UDP" -> "UDP_ASC"

write_request ==
    /\ cpc = "wRequest"
    /\ ClientSends(<<Msg("request", Cmd(conf.type))>>,
                   IF conf.pipeline THEN "rMethod" ELSE "rResponse")
    /\ UNCHANGED <<conf, server, down, upEnd, downEnd>>

\* The message each read of the client is for.
ClientAwaits(pc) == CASE pc = "rMethod" -> "method"
                      [] pc = "rCreds" -> "authres"
                      [] pc = "rResponse" -> "response"

ClientReading == cpc \in {"rMethod", "rCreds", "rResponse"}

\* The client reads the message it awaits.
ClientReads(at) ==
    /\ cpc = at /\ down # <<>> /\ Head(down).kind = ClientAwaits(at)
    /\ down' = Tail(down)
    /\ UNCHANGED <<conf, server, up, upEnd, downEnd>>

read_auth_method ==
    /\ ClientReads("rMethod")
    /\ cpc' = CASE Head(down).val = "USER" ->
                    IF conf.pipeline THEN "rCreds" ELSE "wCreds"
                [] Head(down).val = "NONE" ->
                    IF conf.pipeline THEN "rResponse" ELSE "wRequest"
                [] OTHER -> "fail"

read_auth_creds ==
    /\ ClientReads("rCreds")
    /\ cpc' = IF Head(down).val # "SUCC" THEN "fail"
              ELSE IF conf.pipeline THEN "rResponse" ELSE "wRequest"

\* set_upstream_addr opens and connects the datagram socket of UDP_IN_UDP,
\* which may fail; the other types have nothing to open.
read_response ==
    /\ ClientReads("rResponse")
    /\ \/ cpc' = IF Head(down).val = "SUCC" THEN "ok" ELSE "fail"
       \/ conf.type = "UDP_IN_UDP" /\ cpc' = "fail"

\* The awaited message can no longer come.
client_read_eof ==
    /\ ClientReading /\ down = <<>> /\ downEnd
    /\ cpc' = "fail"
    /\ UNCHANGED <<conf, server, up, down, upEnd, downEnd>>

ClientBlocked == ClientReading /\ down = <<>> /\ ~downEnd

\* The sleep of the yielder is over; the message may have come meanwhile.
client_read_timeout ==
    /\ ClientReading
    /\ cpc' = "fail"
    /\ UNCHANGED <<conf, server, up, down, upEnd, downEnd>>

ClientIO ==
    \/ write_auth_methods \/ write_auth_creds \/ write_request
    \/ read_auth_method \/ read_auth_creds \/ read_response
    \/ client_read_eof

\* hev_socks5_destruct, after run has returned, closes the connection, which
\* is reset when something is left unread: what the kernel had not sent yet
\* is lost then.
client_close ==
    /\ cpc \in {"ok", "fail"} /\ ~upEnd /\ upEnd' = TRUE
    /\ \/ up' = up
       \/ down # <<>> /\ \E n \in 0 .. Len(up) : up' = SubSeq(up, 1, n)
    /\ UNCHANGED <<conf, client, server, down, downEnd>>

----------------------------------------------------------------------------
(* The server.                                                             *)

ServerSends(m, next) ==
    \/ spc' = next /\ down' = Append(down, m)
    \/ upEnd /\ spc' = "fail" /\ UNCHANGED down

\* The server reads the message it awaits.
ServerReads(at, kind) ==
    /\ spc = at /\ up # <<>> /\ Head(up).kind = kind
    /\ up' = Tail(up)
    /\ UNCHANGED <<conf, client, down, upEnd, downEnd>>

\* The peer has closed, or the sleep of the yielder is over.
ServerReadFails(at) ==
    /\ spc = at
    /\ UNCHANGED <<conf, client, up, down, upEnd, downEnd>>

server_read_auth_method ==
    /\ ServerReads("rMethods", "methods")
    /\ LET method == IF obj = "null" THEN "NONE" ELSE "USER"
       IN  sval' = IF Head(up).val = method THEN method ELSE "UNACCEPTABLE"
    /\ spc' = "wMethod"
    /\ UNCHANGED <<stype, obj>>

\* The method -1 of a failed read is written all the same.
server_read_auth_method_fails ==
    /\ ServerReadFails("rMethods")
    /\ sval' = "UNACCEPTABLE" /\ spc' = "wMethod"
    /\ UNCHANGED <<stype, obj>>

server_write_auth_method ==
    /\ spc = "wMethod"
    /\ ServerSends(Msg("method", sval),
                   CASE sval = "USER" -> "rCreds"
                     [] sval = "NONE" -> "rRequest"
                     [] OTHER -> "fail")
    /\ UNCHANGED <<conf, client, sval, stype, obj, up, upEnd, downEnd>>

\* The user replaces the authenticator in the union.
server_read_auth_user ==
    /\ ServerReads("rCreds", "creds")
    /\ spc' = "wAuth"
    /\ IF Head(up).val = "good"
       THEN sval' = "SUCC" /\ obj' = "user"
       ELSE sval' = "FAIL" /\ obj' = obj
    /\ UNCHANGED stype

server_read_auth_user_fails ==
    /\ ServerReadFails("rCreds")
    /\ sval' = "FAIL" /\ spc' = "wAuth"
    /\ UNCHANGED <<stype, obj>>

server_write_auth_user ==
    /\ spc = "wAuth"
    /\ ServerSends(Msg("authres", sval),
                   IF sval = "SUCC" THEN "rRequest" ELSE "fail")
    /\ UNCHANGED <<conf, client, sval, stype, obj, up, upEnd, downEnd>>

\* The address may not resolve: the server answers that.
server_read_request ==
    /\ ServerReads("rRequest", "request")
    /\ \/ sval' = Head(up).val /\ spc' = "serve"
       \/ sval' = "ADDR" /\ spc' = "wResponse"
    /\ UNCHANGED <<stype, obj>>

server_read_request_fails ==
    /\ ServerReadFails("rRequest")
    /\ spc' = "fail"
    /\ UNCHANGED <<sval, stype, obj>>

\* The type a command stands for.
Served(cmd) == CASE cmd = "CONNECT" -> "TCP"
                 [] cmd = "FWD_UDP" -> "UDP_IN_TCP"
                 [] cmd = "UDP_ASC" -> "UDP_IN_UDP"

\* Mutant: both ways of carrying UDP are taken for one.
server_serve_OneUDP ==
    /\ spc = "serve" /\ spc' = "wResponse"
    /\ stype' = IF sval = "CONNECT" THEN "TCP" ELSE "UDP_IN_UDP"
    /\ sval' \in {"SUCC", IF sval = "CONNECT" THEN "HOST" ELSE "FAIL"}
    /\ UNCHANGED <<conf, client, obj, up, down, upEnd, downEnd>>

\* hev_socks5_server_connect, hev_socks5_server_bind.
server_serve ==
    /\ spc = "serve" /\ spc' = "wResponse"
    /\ stype' = Served(sval)
    /\ sval' \in {"SUCC", IF sval = "CONNECT" THEN "HOST" ELSE "FAIL"}
    /\ UNCHANGED <<conf, client, obj, up, down, upEnd, downEnd>>

server_write_response ==
    /\ spc = "wResponse"
    /\ ServerSends(Msg("response", sval),
                   IF sval = "SUCC" THEN "service" ELSE "fail")
    /\ UNCHANGED <<conf, client, sval, stype, obj, up, upEnd, downEnd>>

\* hev_socks5_server_destruct, after run has returned.
server_close ==
    /\ spc \in {"fail", "service"}
    /\ spc' = "closed" /\ downEnd' = TRUE
    /\ obj' = "null"
    /\ \/ down' = down
       \/ up # <<>> /\ \E n \in 0 .. Len(down) : down' = SubSeq(down, 1, n)
    /\ UNCHANGED <<conf, client, sval, stype, up, upEnd>>

ServerIO ==
    \/ server_read_auth_method \/ server_write_auth_method
    \/ server_read_auth_user \/ server_write_auth_user
    \/ server_read_request \/ server_serve \/ server_write_response

ServerReadFailure ==
    \/ server_read_auth_method_fails \/ server_read_auth_user_fails
    \/ server_read_request_fails

HNext == ClientIO \/ client_read_timeout \/ client_close
            \/ ServerIO \/ ServerReadFailure \/ server_close

HSpec == HInit /\ [][HNext]_hvars

----------------------------------------------------------------------------
HTypeOK ==
    /\ conf \in Configs
    /\ cpc \in {"wMethods", "wCreds", "wRequest", "rMethod", "rCreds",
                "rResponse", "ok", "fail"}
    /\ spc \in {"rMethods", "wMethod", "rCreds", "wAuth", "rRequest", "serve",
                "wResponse", "service", "fail", "closed"}
    /\ obj \in {"null", "auth", "user"}
    /\ stype \in Types \cup {"NONE"}
    /\ upEnd \in BOOLEAN /\ downEnd \in BOOLEAN

\* Both ends take the stream apart at the same places: whatever order the
\* pipelined or the standard client sends and reads in, with credentials or
\* without, the next message is the one each end waits for.
Aligned ==
    /\ ClientReading /\ down # <<>> => Head(down).kind = ClientAwaits(cpc)
    /\ up # <<>> =>
        /\ spc = "rMethods" => Head(up).kind = "methods"
        /\ spc = "rCreds" => Head(up).kind = "creds"
        /\ spc = "rRequest" => Head(up).kind = "request"

\* A client whose handshake succeeds has a server that serves the same type,
\* has checked its credentials if it has an authenticator, and has read the
\* whole handshake: what follows in either direction is relayed data.
Agreement ==
    cpc = "ok" =>
        /\ stype = conf.type
        /\ conf.auth => conf.creds = "good"
        /\ spc \in {"service", "closed"}
        /\ down = <<>> /\ up = <<>>

\* The two ends never wait for each other: while the client waits for a
\* message the server has one to read or is busy with its answer, so the
\* handshake ends without the help of a timeout, pipelined or not.
NoMutualWait ==
    ClientBlocked =>
        /\ spc \notin {"service", "closed"}
        /\ spc \in {"rMethods", "rCreds", "rRequest"} => up # <<>>
============================================================================
