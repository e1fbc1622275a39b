---------------------- MODULE HevSocks5Handshake_proofs ---------------------
(***************************************************************************)
(* Proofs about HevSocks5Handshake, for every configuration of the two     *)
(* ends: Aligned, Agreement and NoMutualWait.  The invariant HandInv       *)
(* counts the messages each end has written and taken and says what they   *)
(* are.                                                                    *)
(***************************************************************************)
EXTENDS HevSocks5Handshake, TLAPS

\* Each end sends Whole messages: the methods, the credentials if there are
\* any, and the request; the method, the result of the check if there was
\* one, and the response.
Whole == IF conf.creds = "none" THEN 2 ELSE 3
Offered == IF conf.creds = "none" THEN "NONE" ELSE "USER"

UpMsg(i) == IF i = 1 THEN Msg("methods", Offered)
            ELSE IF i = Whole THEN Msg("request", Cmd(conf.type))
            ELSE Msg("creds", conf.creds)
DownKind(i) == IF i = 1 THEN "method"
               ELSE IF i = Whole THEN "response" ELSE "authres"

\* What the client has sent and read, while it has not failed.
Wrote == CASE cpc = "wMethods" -> 0
           [] cpc = "wCreds" -> 1
           [] cpc = "wRequest" -> Whole - 1
           [] cpc = "rMethod" -> IF conf.pipeline THEN Whole ELSE 1
           [] cpc = "rCreds" -> IF conf.pipeline THEN Whole ELSE 2
           [] OTHER -> Whole
Heard == CASE cpc = "wMethods" -> 0
           [] cpc = "wCreds" -> IF conf.pipeline THEN 0 ELSE 1
           [] cpc = "wRequest" -> IF conf.pipeline THEN 0 ELSE Whole - 1
           [] cpc = "rMethod" -> 0
           [] cpc = "rCreds" -> 1
           [] cpc = "rResponse" -> Whole - 1
           [] OTHER -> Whole

\* What the server has read and sent, while it has not failed.
Accepts ==
    \/ spc \in {"rMethods", "rCreds", "rRequest", "serve", "wResponse", "service"}
    \/ spc = "wMethod" /\ sval # "UNACCEPTABLE"
    \/ spc = "wAuth" /\ sval = "SUCC"
Answers == spc \notin {"fail", "closed"}
Took == CASE spc = "rMethods" -> 0
          [] spc = "wMethod" -> 1
          [] spc = "rCreds" -> 1
          [] spc = "wAuth" -> 2
          [] spc = "rRequest" -> Whole - 1
          [] OTHER -> Whole
Gave == CASE spc \in {"rMethods", "wMethod"} -> 0
          [] spc \in {"rCreds", "wAuth"} -> 1
          [] spc = "service" -> Whole
          [] OTHER -> Whole - 1

Kinds == {"methods", "creds", "request", "method", "authres", "response"}
Values == {"-", "NONE", "USER", "UNACCEPTABLE", "none", "good", "bad", "SUCC",
           "FAIL", "ADDR", "HOST", "CONNECT", "FWD_UDP", "UDP_ASC"}
Message == [kind : Kinds, val : Values]

HandType ==
    /\ HTypeOK /\ up \in Seq(Message) /\ down \in Seq(Message)
    /\ sval \in Values /\ downEnd = (spc = "closed")

\* up holds what the client has sent and the server has not read, and down
\* what the server has sent and the client has not read, unless the reader
\* has failed; nothing is missing unless the sender has.
UpSync ==
    Accepts =>
        /\ \A i \in 1 .. Len(up) : up[i] = UpMsg(Took + i)
        /\ Took + Len(up) <= Whole
        /\ cpc # "fail" => Took + Len(up) = Wrote

DownSync ==
    cpc # "fail" =>
        /\ \A i \in 1 .. Len(down) : down[i].kind = DownKind(Heard + i)
        /\ Heard + Len(down) <= Whole
        /\ Answers => Heard + Len(down) = Gave

\* What the server knows at each of its steps, and the client at its own.
ServerKnows ==
    /\ spc = "rMethods" => obj = IF conf.auth THEN "auth" ELSE "null"
    /\ spc = "wMethod" => \/ sval = "UNACCEPTABLE"
                          \/ sval = Offered /\ (conf.auth <=> Offered = "USER")
    /\ spc \in {"rCreds", "wAuth"} => conf.auth /\ conf.creds # "none"
    /\ spc = "wAuth" => sval = "FAIL" \/ (sval = "SUCC" /\ conf.creds = "good")
    /\ spc \in {"rRequest", "serve", "wResponse", "service"} =>
            (conf.auth => conf.creds = "good")
    /\ spc = "serve" => sval = Cmd(conf.type)
    /\ spc = "wResponse" /\ sval = "SUCC" => stype = conf.type
    /\ spc = "service" => stype = conf.type

ClientKnows ==
    /\ cpc = "wCreds" /\ ~conf.pipeline => conf.creds # "none"
    /\ cpc = "rCreds" => conf.creds # "none"

\* The server has served the client, which has nothing more to say.
Granted ==
    /\ stype = conf.type /\ (conf.auth => conf.creds = "good")
    /\ spc \in {"service", "closed"} /\ up = <<>>
    /\ cpc # "fail" => Wrote = Whole

DownTrue ==
    /\ \A i \in 1 .. Len(down) :
        /\ down[i].kind = "method" => down[i].val \in {Offered, "UNACCEPTABLE"}
        /\ down[i].kind = "response" /\ down[i].val = "SUCC" => Granted
    /\ cpc = "ok" => Granted

HandInv ==
    /\ HandType /\ UpSync /\ DownSync /\ ServerKnows /\ ClientKnows /\ DownTrue

\* The numbers that count messages.
LEMMA Counts ==
    ASSUME HandType
    PROVE  /\ Whole \in {2, 3} /\ Took \in 0 .. 3 /\ Gave \in 0 .. 3
           /\ Wrote \in 0 .. 3 /\ Heard \in 0 .. 3
           /\ conf \in ConfigSet
           /\ Offered \in Values /\ conf.creds \in Values
           /\ \A i : UpMsg(i) \in Message
<1>1. conf \in ConfigSet
  BY ConfigsAssumption DEF HandType, HTypeOK
<1>2. Whole \in {2, 3}
  BY DEF Whole
<1>3. conf.creds \in Values /\ Offered \in Values /\ Cmd(conf.type) \in Values
  <2>1. /\ conf.creds \in {"none", "good", "bad"}
        /\ conf.type \in {"TCP", "UDP_IN_TCP", "UDP_IN_UDP"}
    BY <1>1 DEF ConfigSet, Types
  <2>2. conf.creds \in Values
    BY <2>1 DEF Values
  <2>3. Offered \in Values
    BY DEF Offered, Values
  <2>4. Cmd(conf.type) \in Values
    BY <2>1 DEF Cmd, Values
  <2> QED BY <2>2, <2>3, <2>4
<1>4. \A i : UpMsg(i) \in Message
  <2>1. ASSUME NEW k \in Kinds, NEW v \in Values PROVE Msg(k, v) \in Message
    BY DEF Msg, Message
  <2>2. /\ Msg("methods", Offered) \in Message
        /\ Msg("request", Cmd(conf.type)) \in Message
        /\ Msg("creds", conf.creds) \in Message
    BY <1>3, <2>1 DEF Kinds
  <2> QED BY <2>2 DEF UpMsg
<1>5. Took \in 0 .. 3 /\ Gave \in 0 .. 3
  BY <1>2 DEF Took, Gave
<1>6. Wrote \in 0 .. 3 /\ Heard \in 0 .. 3
  BY <1>2 DEF Wrote, Heard
<1> QED BY <1>1, <1>2, <1>3, <1>4, <1>5, <1>6

\* What depends on the configuration, the client and the server only.
LEMMA SameConf ==
    ASSUME conf' = conf
    PROVE  /\ Whole' = Whole /\ Offered' = Offered
           /\ \A i : UpMsg(i)' = UpMsg(i) /\ DownKind(i)' = DownKind(i)
  BY DEF Whole, Offered, UpMsg, DownKind

\* What the client has written and heard is where it is.
LEMMA SameClient ==
    ASSUME conf' = conf, cpc' = cpc
    PROVE  Wrote' = Wrote /\ Heard' = Heard
  BY SameConf DEF Wrote, Heard

\* What the server has taken and given is where it is.
LEMMA SameServer ==
    ASSUME conf' = conf, UNCHANGED server
    PROVE  /\ Took' = Took /\ Gave' = Gave
           /\ Accepts' = Accepts /\ Answers' = Answers
           /\ ServerKnows' = ServerKnows
  BY SameConf DEF server, Took, Gave, Accepts, Answers, ServerKnows

\* The client fails, before or behind a read.
LEMMA ClientFails ==
    ASSUME HandInv, conf' = conf, cpc' = "fail",
           UNCHANGED <<server, up, upEnd, downEnd>>,
           down' = down \/ (down # <<>> /\ down' = Tail(down))
    PROVE  HandInv'
<1>1. /\ up \in Seq(Message) /\ down \in Seq(Message) /\ HandType
      /\ UNCHANGED <<spc, sval, stype, obj>>
  BY DEF HandInv, HandType, server
<1>2. /\ down' \in Seq(Message)
      /\ \A i \in 1 .. Len(down') : \E j \in 1 .. Len(down) : down'[i] = down[j]
  <2>1. CASE down' = down
    BY <1>1, <2>1
  <2>2. CASE down # <<>> /\ down' = Tail(down)
    <3>1. /\ Tail(down) \in Seq(Message) /\ Len(Tail(down)) = Len(down) - 1
          /\ \A i \in 1 .. Len(Tail(down)) :
                i + 1 \in 1 .. Len(down) /\ Tail(down)[i] = down[i + 1]
      BY <1>1, <2>2
    <3> QED BY <2>2, <3>1
  <2> QED BY <2>1, <2>2
<1>3. HandType'
  BY <1>1, <1>2 DEF HandType, HTypeOK
<1>4. UpSync'
  BY <1>1, SameConf, SameServer DEF HandInv, UpSync
<1>5. DownSync' /\ ClientKnows'
  BY DEF DownSync, ClientKnows
<1>6. ServerKnows'
  BY SameServer DEF HandInv
<1>7. Granted => Granted'
  BY <1>1 DEF Granted
<1>8. DownTrue'
  BY <1>2, <1>7, SameConf DEF HandInv, DownTrue
<1> QED BY <1>3, <1>4, <1>5, <1>6, <1>8 DEF HandInv

\* The client writes its next message, if there is one.
LEMMA ClientWrites ==
    ASSUME HandInv, conf' = conf, UNCHANGED <<server, down, upEnd, downEnd>>,
           cpc \in {"wMethods", "wCreds", "wRequest"},
           cpc' \in {"wCreds", "wRequest", "rMethod", "rCreds", "rResponse"},
           Wrote < Whole, Heard' = Heard, ClientKnows',
           \/ up' = up /\ Wrote' = Wrote
           \/ up' = Append(up, UpMsg(Wrote + 1)) /\ Wrote' = Wrote + 1
    PROVE  HandInv'
<1>1. /\ up \in Seq(Message) /\ down \in Seq(Message) /\ HandType
      /\ UNCHANGED <<spc, sval, stype, obj>> /\ cpc # "fail" /\ cpc' # "fail"
  BY DEF HandInv, HandType, server
<1>2. /\ Whole \in {2, 3} /\ Took \in 0 .. 3 /\ Wrote \in 0 .. 3
      /\ UpMsg(Wrote + 1) \in Message
  BY <1>1, Counts
<1>3. up' \in Seq(Message)
  BY <1>1, <1>2
<1>4. HandType'
  BY <1>1, <1>3 DEF HandType, HTypeOK
<1>5. UpSync'
  <2> SUFFICES ASSUME Accepts
               PROVE  /\ \A i \in 1 .. Len(up') : up'[i] = UpMsg(Took + i)
                      /\ Took + Len(up') <= Whole
                      /\ Took + Len(up') = Wrote'
    BY <1>1, SameConf, SameServer DEF UpSync
  <2>1. /\ \A i \in 1 .. Len(up) : up[i] = UpMsg(Took + i)
        /\ Took + Len(up) = Wrote
    BY <1>1 DEF HandInv, UpSync
  <2>2. CASE up' = up /\ Wrote' = Wrote
    BY <1>1, <1>2, <2>1, <2>2
  <2>3. CASE up' = Append(up, UpMsg(Wrote + 1)) /\ Wrote' = Wrote + 1
    <3> DEFINE L == Len(up)
    <3>1. /\ L \in Nat /\ Len(up') = L + 1 /\ up'[L + 1] = UpMsg(Wrote + 1)
          /\ \A i \in 1 .. L : up'[i] = up[i]
      BY <1>1, <1>2, <2>3
    <3>2. ASSUME NEW i \in 1 .. L + 1 PROVE up'[i] = UpMsg(Took + i)
      <4>1. CASE i \in 1 .. L
        BY <2>1, <3>1, <4>1
      <4>2. CASE i = L + 1
        <5>1. Took + i = Wrote + 1
          BY <1>2, <2>1, <3>1, <4>2
        <5> QED BY <3>1, <4>2, <5>1
      <4> QED BY <3>1, <4>1, <4>2
    <3> HIDE DEF L
    <3>3. Took + (L + 1) = Wrote' /\ Wrote' <= Whole
      BY <1>2, <2>1, <2>3, <3>1 DEF L
    <3> QED BY <3>1, <3>2, <3>3
  <2> QED BY <2>2, <2>3
<1>6. DownSync'
  BY <1>1, SameConf, SameServer DEF HandInv, DownSync
<1>7. ServerKnows'
  BY SameServer DEF HandInv
<1>8. ~Granted
  BY <1>1, <1>2 DEF Granted
<1>9. DownTrue'
  BY <1>1, <1>8, SameConf DEF HandInv, DownTrue
<1> QED BY <1>4, <1>5, <1>6, <1>7, <1>9 DEF HandInv

\* The client reads the next message.
LEMMA ClientTakes ==
    ASSUME HandInv, conf' = conf, UNCHANGED <<server, up, upEnd, downEnd>>,
           cpc \in {"rMethod", "rCreds", "rResponse"}, down # <<>>,
           down' = Tail(down),
           cpc' \in {"wCreds", "wRequest", "rCreds", "rResponse", "ok"},
           Heard' = Heard + 1, Wrote' = Wrote, ClientKnows',
           cpc' = "ok" => Granted
    PROVE  HandInv'
<1>1. /\ up \in Seq(Message) /\ down \in Seq(Message) /\ HandType
      /\ UNCHANGED <<spc, sval, stype, obj>> /\ cpc # "fail" /\ cpc' # "fail"
  BY DEF HandInv, HandType, server
<1>2. Whole \in {2, 3} /\ Heard \in 0 .. 3 /\ Gave \in 0 .. 3
  BY <1>1, Counts
<1>3. /\ down' \in Seq(Message) /\ Len(down') = Len(down) - 1
      /\ Len(down) \in Nat \ {0}
      /\ \A i \in 1 .. Len(down') :
            i + 1 \in 1 .. Len(down) /\ down'[i] = down[i + 1]
  BY <1>1
<1>4. HandType'
  BY <1>1, <1>3 DEF HandType, HTypeOK
<1>5. UpSync'
  BY <1>1, SameConf, SameServer DEF HandInv, UpSync
<1>6. DownSync'
  <2>1. /\ \A i \in 1 .. Len(down) : down[i].kind = DownKind(Heard + i)
        /\ Heard + Len(down) <= Whole
        /\ Answers => Heard + Len(down) = Gave
    BY <1>1 DEF HandInv, DownSync
  <2>2. ASSUME NEW i \in 1 .. Len(down')
        PROVE  down'[i].kind = DownKind((Heard + 1) + i)
    <3>1. Heard + (i + 1) = (Heard + 1) + i
      BY <1>2
    <3> QED BY <1>3, <2>1, <3>1
  <2>3. (Heard + 1) + Len(down') = Heard + Len(down)
    BY <1>2, <1>3
  <2> QED BY <2>1, <2>2, <2>3, SameConf, SameServer DEF DownSync
<1>7. ServerKnows'
  BY SameServer DEF HandInv
<1>8. Granted => Granted'
  BY <1>1, SameConf DEF Granted
<1>9. DownTrue'
  BY <1>3, <1>8, SameConf DEF HandInv, DownTrue
<1> QED BY <1>4, <1>5, <1>6, <1>7, <1>9 DEF HandInv

\* The end of the client.
LEMMA ClientCloses == ASSUME HandInv, client_close PROVE HandInv'
<1>1. /\ up \in Seq(Message) /\ down \in Seq(Message) /\ HandType
      /\ UNCHANGED <<conf, cpc, spc, sval, stype, obj, down, downEnd>>
      /\ cpc \in {"ok", "fail"} /\ upEnd' = TRUE
  BY DEF HandInv, HandType, server, client, client_close
<1>2. UNCHANGED server
  BY <1>1 DEF server
<1>3. /\ up' \in Seq(Message) /\ Len(up') \in 0 .. Len(up)
      /\ \A i \in 1 .. Len(up') : up'[i] = up[i]
  <2>1. CASE up' = up
    BY <1>1, <2>1
  <2>2. CASE \E n \in 0 .. Len(up) : up' = SubSeq(up, 1, n)
    <3>1. PICK n \in 0 .. Len(up) : up' = SubSeq(up, 1, n)
      BY <2>2
    <3>2. /\ SubSeq(up, 1, n) \in Seq(Message) /\ Len(SubSeq(up, 1, n)) = n
          /\ \A i \in 1 .. n : SubSeq(up, 1, n)[i] = up[i]
      BY <1>1
    <3> QED BY <1>1, <3>1, <3>2
  <2> QED BY <2>1, <2>2 DEF client_close
<1>4. up = <<>> => up' = <<>>
  BY <1>1, <1>3
<1>5. HandType'
  BY <1>1, <1>3 DEF HandType, HTypeOK
<1>6. Granted => Granted'
  BY <1>1, <1>4, SameConf, SameClient DEF Granted
<1>7. UpSync'
  <2> SUFFICES ASSUME Accepts
               PROVE  /\ \A i \in 1 .. Len(up') : up'[i] = UpMsg(Took + i)
                      /\ Took + Len(up') <= Whole
                      /\ cpc # "fail" => Took + Len(up') = Wrote
    BY <1>1, <1>2, SameConf, SameServer, SameClient DEF UpSync
  <2>1. /\ \A i \in 1 .. Len(up) : up[i] = UpMsg(Took + i)
        /\ Took + Len(up) <= Whole
        /\ cpc # "fail" => Took + Len(up) = Wrote
    BY DEF HandInv, UpSync
  <2>2. cpc # "fail" => up' = up
    BY <1>1, <1>4 DEF HandInv, DownTrue, Granted
  <2>3. Took \in 0 .. 3 /\ Whole \in {2, 3}
    BY <1>1, Counts
  <2>4. Took + Len(up') <= Whole
    BY <1>1, <1>3, <2>1, <2>3
  <2> QED BY <1>1, <1>3, <2>1, <2>2, <2>4
<1>8. DownSync' /\ ClientKnows'
  BY <1>1, <1>2, SameConf, SameServer, SameClient
     DEF HandInv, DownSync, ClientKnows
<1>9. ServerKnows'
  BY <1>1, <1>2, SameServer DEF HandInv
<1>10. DownTrue'
  BY <1>1, <1>6, SameConf DEF HandInv, DownTrue
<1> QED BY <1>5, <1>7, <1>8, <1>9, <1>10 DEF HandInv

\* The server reads the next message.
LEMMA ServerTakes ==
    ASSUME HandInv, UNCHANGED <<conf, cpc, down, upEnd, downEnd, stype>>,
           spc \in {"rMethods", "rCreds", "rRequest"}, up # <<>>, up' = Tail(up),
           spc' \in {"wMethod", "wAuth", "serve", "wResponse"},
           sval' \in Values, obj' \in {"null", "auth", "user"},
           Took' = Took + 1, Gave' = Gave, ServerKnows'
    PROVE  HandInv'
<1>1. /\ up \in Seq(Message) /\ down \in Seq(Message) /\ HandType
      /\ spc # "closed" /\ Accepts /\ Answers /\ Answers'
  BY DEF HandInv, HandType, Accepts, Answers
<1>2. Whole \in {2, 3} /\ Took \in 0 .. 3 /\ Wrote \in 0 .. 3
  BY <1>1, Counts
<1>3. /\ up' \in Seq(Message) /\ Len(up') = Len(up) - 1 /\ Len(up) \in Nat \ {0}
      /\ \A i \in 1 .. Len(up') : i + 1 \in 1 .. Len(up) /\ up'[i] = up[i + 1]
  BY <1>1
<1>4. HandType'
  BY <1>1, <1>3 DEF HandType, HTypeOK
<1>5. UpSync'
  <2>1. /\ \A i \in 1 .. Len(up) : up[i] = UpMsg(Took + i)
        /\ Took + Len(up) <= Whole
        /\ cpc # "fail" => Took + Len(up) = Wrote
    BY <1>1 DEF HandInv, UpSync
  <2>2. ASSUME NEW i \in 1 .. Len(up') PROVE up'[i] = UpMsg((Took + 1) + i)
    <3>1. Took + (i + 1) = (Took + 1) + i
      BY <1>2
    <3> QED BY <1>3, <2>1, <3>1
  <2>3. (Took + 1) + Len(up') = Took + Len(up)
    BY <1>2, <1>3
  <2> QED BY <2>1, <2>2, <2>3, SameConf, SameClient DEF UpSync
<1>6. DownSync' /\ ClientKnows'
  BY <1>1, SameConf, SameClient DEF HandInv, DownSync, ClientKnows
<1>7. ~Granted
  BY DEF Granted
<1>8. DownTrue'
  BY <1>7, SameConf DEF HandInv, DownTrue
<1> QED BY <1>4, <1>5, <1>6, <1>8 DEF HandInv

\* The server goes on without a message, or fails.
LEMMA ServerTurns ==
    ASSUME HandInv, UNCHANGED <<conf, cpc, up, down, upEnd, downEnd>>,
           spc \in {"rMethods", "wMethod", "rCreds", "wAuth", "rRequest",
                    "serve", "wResponse"},
           spc' \in {"wMethod", "wAuth", "wResponse", "fail"},
           sval' \in Values, obj' = obj, stype' \in Types \cup {"NONE"},
           Accepts' => Accepts /\ Took' = Took,
           Answers' => Gave' = Gave, ServerKnows'
    PROVE  HandInv'
<1>1. HandType /\ spc # "closed" /\ Answers
  BY DEF HandInv, Answers
<1>2. HandType'
  BY <1>1 DEF HandType, HTypeOK
<1>3. UpSync'
  BY SameConf, SameClient DEF HandInv, UpSync
<1>4. DownSync' /\ ClientKnows'
  BY <1>1, SameConf, SameClient DEF HandInv, DownSync, ClientKnows
<1>5. ~Granted
  BY DEF Granted
<1>6. DownTrue'
  BY <1>5, SameConf DEF HandInv, DownTrue
<1> QED BY <1>2, <1>3, <1>4, <1>6 DEF HandInv

\* The server writes its next message.
LEMMA ServerGives ==
    ASSUME HandInv, UNCHANGED <<conf, cpc, sval, stype, obj, up, upEnd, downEnd>>,
           spc \in {"wMethod", "wAuth", "wResponse"},
           spc' \in {"rCreds", "rRequest", "service", "fail"},
           NEW k \in Kinds, k = DownKind(Gave + 1), Gave < Whole,
           down' = Append(down, Msg(k, sval)),
           Accepts' => Accepts /\ Took' = Took,
           Answers' => Gave' = Gave + 1, ServerKnows',
           k = "method" => sval \in {Offered, "UNACCEPTABLE"},
           k = "response" /\ sval = "SUCC" =>
                spc = "wResponse" /\ spc' = "service"
    PROVE  HandInv'
<1> DEFINE L == Len(down)
           m == Msg(k, sval)
<1>1. /\ up \in Seq(Message) /\ down \in Seq(Message) /\ HandType
      /\ spc # "closed" /\ Answers /\ sval \in Values
  BY DEF HandInv, HandType, Answers
<1>2. /\ Whole \in {2, 3} /\ Heard \in 0 .. 3 /\ Gave \in 0 .. 3
      /\ Took \in 0 .. 3 /\ Wrote \in 0 .. 3
  BY <1>1, Counts
<1>3. m \in Message /\ m.kind = k /\ m.val = sval
  BY <1>1 DEF Msg, Message
<1> HIDE DEF m
<1>4. /\ down' \in Seq(Message) /\ L \in Nat /\ Len(down') = L + 1
      /\ down'[L + 1] = m /\ \A i \in 1 .. L : down'[i] = down[i]
  BY <1>1, <1>3 DEF m
<1>5. \A i \in 1 .. L + 1 : i \in 1 .. L \/ i = L + 1
  BY <1>4
<1>6. HandType'
  BY <1>1, <1>4 DEF HandType, HTypeOK
<1>7. UpSync'
  BY SameConf, SameClient DEF HandInv, UpSync
<1>8. DownSync' /\ ClientKnows'
  <2>1. ClientKnows'
    BY SameConf DEF HandInv, ClientKnows
  <2>2. ASSUME cpc # "fail"
        PROVE  /\ \A i \in 1 .. L + 1 : down'[i].kind = DownKind(Heard + i)
               /\ Heard + (L + 1) = Gave + 1 /\ Gave + 1 <= Whole
    <3>1. /\ \A i \in 1 .. L : down[i].kind = DownKind(Heard + i)
          /\ Heard + L = Gave
      BY <1>1, <2>2 DEF HandInv, DownSync
    <3>2. Heard + (L + 1) = Gave + 1 /\ Gave + 1 <= Whole
      BY <1>2, <1>4, <3>1
    <3> QED BY <1>3, <1>4, <1>5, <3>1, <3>2
  <2> HIDE DEF L
  <2> QED BY <1>4, <2>1, <2>2, SameConf, SameClient DEF DownSync
<1>9. ~Granted
  BY DEF Granted
<1>10. k = "response" /\ sval = "SUCC" => Granted'
  <2> SUFFICES ASSUME spc = "wResponse", spc' = "service" PROVE Granted'
    OBVIOUS
  <2>1. Accepts /\ Took = Whole
    BY DEF Accepts, Took
  <2>2. Took + Len(up) <= Whole /\ (cpc # "fail" => Took + Len(up) = Wrote)
    BY <2>1 DEF HandInv, UpSync
  <2>3. Len(up) = 0 /\ up = <<>>
    BY <1>1, <1>2, <2>1, <2>2
  <2>4. cpc # "fail" => Wrote = Whole
    BY <1>2, <2>1, <2>2, <2>3
  <2>5. stype' = conf' .type /\ (conf.auth => conf.creds = "good")
    BY DEF ServerKnows
  <2> QED BY <2>3, <2>4, <2>5, SameConf, SameClient DEF Granted
<1>11. DownTrue'
  <2>1. cpc # "ok" \/ Granted
    BY DEF HandInv, DownTrue
  <2>2. ASSUME NEW i \in 1 .. L
        PROVE  /\ down'[i].kind = "method" =>
                        down'[i].val \in {Offered, "UNACCEPTABLE"}
               /\ ~(down'[i].kind = "response" /\ down'[i].val = "SUCC")
    BY <1>4, <1>9 DEF HandInv, DownTrue
  <2> HIDE DEF L
  <2> QED BY <1>3, <1>4, <1>5, <1>9, <1>10, <2>1, <2>2, SameConf DEF DownTrue
<1> QED BY <1>6, <1>7, <1>8, <1>11 DEF HandInv

\* The end of the server.
LEMMA ServerCloses == ASSUME HandInv, server_close PROVE HandInv'
<1>1. /\ up \in Seq(Message) /\ down \in Seq(Message) /\ HandType
      /\ UNCHANGED <<conf, cpc, sval, stype, up, upEnd>>
      /\ spc \in {"fail", "service"} /\ spc' = "closed" /\ downEnd' = TRUE
      /\ obj' = "null"
  BY DEF HandInv, HandType, client, server_close
<1>2. /\ down' \in Seq(Message) /\ Len(down') \in 0 .. Len(down)
      /\ \A i \in 1 .. Len(down') : i \in 1 .. Len(down) /\ down'[i] = down[i]
  <2>1. CASE down' = down
    BY <1>1, <2>1
  <2>2. CASE \E n \in 0 .. Len(down) : down' = SubSeq(down, 1, n)
    <3>1. PICK n \in 0 .. Len(down) : down' = SubSeq(down, 1, n)
      BY <2>2
    <3>2. /\ SubSeq(down, 1, n) \in Seq(Message) /\ Len(SubSeq(down, 1, n)) = n
          /\ \A i \in 1 .. n : SubSeq(down, 1, n)[i] = down[i]
      BY <1>1
    <3> QED BY <1>1, <3>1, <3>2
  <2> QED BY <2>1, <2>2 DEF server_close
<1>3. HandType'
  BY <1>1, <1>2 DEF HandType, HTypeOK
<1>4. UpSync' /\ ServerKnows'
  BY <1>1 DEF UpSync, Accepts, ServerKnows
<1>5. DownSync'
  <2>1. ~Answers'
    BY <1>1 DEF Answers
  <2>2. Heard \in 0 .. 3 /\ Whole \in {2, 3}
    BY <1>1, Counts
  <2>3. Heard + Len(down) <= Whole => Heard + Len(down') <= Whole
    BY <1>1, <1>2, <2>2
  <2> QED BY <1>1, <1>2, <2>1, <2>3, SameConf, SameClient DEF HandInv, DownSync
<1>6. ClientKnows'
  BY <1>1, SameConf DEF HandInv, ClientKnows
<1>7. Granted => Granted'
  BY <1>1, SameConf, SameClient DEF Granted
<1>8. DownTrue'
  BY <1>1, <1>2, <1>7, SameConf DEF HandInv, DownTrue
<1> QED BY <1>3, <1>4, <1>5, <1>6, <1>8 DEF HandInv

\* A write of the client succeeds, or its peer has closed.
LEMMA ClientSendCases ==
    ASSUME HandInv, NEW msgs, NEW to, ClientSends(msgs, to),
           UNCHANGED <<conf, server, down, upEnd, downEnd>>,
           \/ msgs = <<>>
           \/ \E m \in Message : msgs = <<m>>
    PROVE  \/ HandInv'
           \/ cpc' = to /\ msgs = <<>> /\ up' = up
           \/ cpc' = to /\ \E m \in Message : msgs = <<m>> /\ up' = Append(up, m)
<1>1. up \in Seq(Message)
  BY DEF HandInv, HandType
<1>2. up \o <<>> = up /\ \A m \in Message : up \o <<m>> = Append(up, m)
  BY <1>1
<1>3. CASE cpc' = to /\ up' = up \o msgs
  BY <1>2, <1>3
<1>4. CASE cpc' = "fail" /\ UNCHANGED up
  BY <1>4, ClientFails
<1> QED BY <1>3, <1>4 DEF ClientSends

\* The client offers its method.
LEMMA WriteMethods == ASSUME HandInv, write_auth_methods PROVE HandInv'
<1> DEFINE to == IF conf.pipeline THEN "wCreds" ELSE "rMethod"
<1>1. /\ cpc = "wMethods" /\ UNCHANGED <<conf, server, down, upEnd, downEnd>>
      /\ ClientSends(<<Msg("methods", Offered)>>, to)
  BY DEF write_auth_methods, Offered
<1>2. HandType /\ Whole \in {2, 3} /\ Wrote = 0 /\ UpMsg(0 + 1) \in Message
      /\ UpMsg(0 + 1) = Msg("methods", Offered)
  BY <1>1, Counts DEF HandInv, Wrote, UpMsg
<1>3. CASE cpc' = to /\ \E m \in Message : <<Msg("methods", Offered)>> = <<m>> /\ up' = Append(up, m)
  <2>1. up' = Append(up, UpMsg(Wrote + 1)) /\ cpc' \in {"wCreds", "rMethod"}
    BY <1>2, <1>3
  <2>2. Heard' = Heard /\ Wrote' = Wrote + 1
    BY <1>1, <1>2, <1>3, SameConf DEF Heard, Wrote
  <2>3. ClientKnows'
    BY <1>1, <1>3 DEF ClientKnows
  <2> QED BY <1>1, <1>2, <2>1, <2>2, <2>3, ClientWrites
<1>4. <<Msg("methods", Offered)>> # <<>>
  OBVIOUS
<1> HIDE DEF to
<1> QED BY <1>1, <1>2, <1>3, <1>4, ClientSendCases

\* The client sends its credentials.
LEMMA WriteCreds == ASSUME HandInv, write_auth_creds PROVE HandInv'
<1> DEFINE to == IF conf.pipeline THEN "wRequest" ELSE "rCreds"
           msgs == IF conf.creds = "none" THEN <<>> ELSE <<Msg("creds", conf.creds)>>
<1>1. /\ cpc = "wCreds" /\ UNCHANGED <<conf, server, down, upEnd, downEnd>>
      /\ ClientSends(msgs, to)
  BY DEF write_auth_creds
<1>2. /\ HandType /\ Whole \in {2, 3} /\ Wrote = 1 /\ UpMsg(1 + 1) \in Message
      /\ conf.creds # "none" => UpMsg(1 + 1) = Msg("creds", conf.creds) /\ Whole = 3
      /\ conf.creds = "none" => Whole = 2 /\ conf.pipeline
  <2>1. HandType /\ Whole \in {2, 3} /\ UpMsg(1 + 1) \in Message
    BY Counts DEF HandInv
  <2>2. Wrote = 1
    BY <1>1 DEF Wrote
  <2>3. conf.creds # "none" => Whole = 3
    BY DEF Whole
  <2>4. conf.creds # "none" => UpMsg(1 + 1) = Msg("creds", conf.creds)
    BY <2>3 DEF UpMsg
  <2>5. conf.creds = "none" => Whole = 2 /\ conf.pipeline
    BY <1>1 DEF Whole, HandInv, ClientKnows
  <2> QED BY <2>1, <2>2, <2>3, <2>4, <2>5
<1>3. msgs = <<>> \/ msgs = <<UpMsg(1 + 1)>>
  BY <1>2
<1>4. ASSUME cpc' = to
      PROVE  /\ cpc' \in {"wRequest", "rCreds"} /\ Heard' = Heard /\ ClientKnows'
             /\ conf.creds = "none" => Wrote' = Wrote
             /\ conf.creds # "none" => Wrote' = Wrote + 1
  BY <1>1, <1>2, <1>4, SameConf DEF Heard, Wrote, ClientKnows
<1>5. CASE cpc' = to /\ msgs = <<>> /\ up' = up
  <2>1. conf.creds = "none"
    BY <1>5
  <2> QED BY <1>1, <1>2, <1>4, <1>5, <2>1, ClientWrites
<1>6. CASE cpc' = to /\ \E m \in Message : msgs = <<m>> /\ up' = Append(up, m)
  <2>1. conf.creds # "none" /\ up' = Append(up, UpMsg(Wrote + 1))
    BY <1>2, <1>6
  <2> QED BY <1>1, <1>2, <1>4, <1>6, <2>1, ClientWrites
<1> HIDE DEF to, msgs
<1> QED BY <1>1, <1>2, <1>3, <1>5, <1>6, ClientSendCases

\* The client sends its request.
LEMMA WriteRequest == ASSUME HandInv, write_request PROVE HandInv'
<1> DEFINE to == IF conf.pipeline THEN "rMethod" ELSE "rResponse"
           m0 == Msg("request", Cmd(conf.type))
<1>1. /\ cpc = "wRequest" /\ UNCHANGED <<conf, server, down, upEnd, downEnd>>
      /\ ClientSends(<<m0>>, to)
  BY DEF write_request
<1>2. HandType /\ Whole \in {2, 3} /\ Wrote = Whole - 1 /\ UpMsg(Whole) \in Message
      /\ UpMsg(Whole) = m0 /\ (Whole - 1) + 1 = Whole
  BY <1>1, Counts DEF HandInv, Wrote, UpMsg
<1>3. CASE cpc' = to /\ \E m \in Message : <<m0>> = <<m>> /\ up' = Append(up, m)
  <2>1. up' = Append(up, UpMsg(Wrote + 1)) /\ cpc' \in {"rMethod", "rResponse"}
    BY <1>2, <1>3
  <2>2. Heard' = Heard /\ Wrote' = Wrote + 1
    BY <1>1, <1>2, <1>3, SameConf DEF Heard, Wrote
  <2>3. ClientKnows'
    BY <1>1, <1>3 DEF ClientKnows
  <2> QED BY <1>1, <1>2, <2>1, <2>2, <2>3, ClientWrites
<1>4. <<m0>> # <<>>
  OBVIOUS
<1> HIDE DEF to, m0
<1> QED BY <1>1, <1>2, <1>3, <1>4, ClientSendCases

\* What the client finds when it reads.
LEMMA ClientFinds ==
    ASSUME HandInv, ClientReading, down # <<>>
    PROVE  /\ Head(down).kind = ClientAwaits(cpc)
           /\ Head(down).kind = "method" => Head(down).val \in {Offered, "UNACCEPTABLE"}
           /\ Head(down).kind = "response" /\ Head(down).val = "SUCC" => Granted
<1>1. /\ HandType /\ cpc \in {"rMethod", "rCreds", "rResponse"} /\ down \in Seq(Message)
  BY DEF HandInv, HandType, ClientReading
<1>2. Len(down) \in Nat /\ 1 \in 1 .. Len(down) /\ Head(down) = down[1]
  BY <1>1
<1>3. Head(down).kind = DownKind(Heard + 1)
  BY <1>1, <1>2 DEF HandInv, DownSync
<1>4. DownKind(Heard + 1) = ClientAwaits(cpc)
  <2>1. Whole \in {2, 3} /\ (cpc = "rCreds" => Whole = 3)
    BY <1>1 DEF Whole, HandInv, ClientKnows
  <2>2. CASE cpc = "rMethod"
    BY <2>2 DEF Heard, DownKind, ClientAwaits
  <2>3. CASE cpc = "rCreds"
    BY <2>1, <2>3 DEF Heard, DownKind, ClientAwaits
  <2>4. CASE cpc = "rResponse"
    BY <2>1, <2>4 DEF Heard, DownKind, ClientAwaits
  <2> QED BY <1>1, <2>2, <2>3, <2>4
<1> QED BY <1>2, <1>3, <1>4 DEF HandInv, DownTrue

\* The client reads the method chosen.
LEMMA ReadMethod == ASSUME HandInv, read_auth_method PROVE HandInv'
<1>1. /\ cpc = "rMethod" /\ down # <<>> /\ down' = Tail(down)
      /\ UNCHANGED <<conf, server, up, upEnd, downEnd>> /\ ClientReading
  BY DEF read_auth_method, ClientReads, ClientReading
<1>2. Head(down).val \in {Offered, "UNACCEPTABLE"}
  BY <1>1, ClientFinds DEF ClientAwaits
<1>3. HandType /\ Whole \in {2, 3} /\ conf \in ConfigSet
  BY Counts DEF HandInv
<1>4. \/ cpc' = "fail"
      \/ Offered = "USER" /\ cpc' = IF conf.pipeline THEN "rCreds" ELSE "wCreds"
      \/ Offered = "NONE" /\ cpc' = IF conf.pipeline THEN "rResponse" ELSE "wRequest"
  BY <1>2 DEF read_auth_method
<1>5. CASE cpc' = "fail"
  BY <1>1, <1>5, ClientFails
<1>6. CASE cpc' # "fail"
  <2>1. Heard = 0 /\ Heard' = 1 /\ ClientKnows' /\ Wrote' = Wrote
    BY <1>1, <1>3, <1>4, <1>6, SameConf DEF Heard, Wrote, ClientKnows, Offered, Whole
  <2> QED BY <1>1, <1>4, <1>6, <2>1, ClientTakes
<1> QED BY <1>5, <1>6

\* The client reads the answer to its credentials.
LEMMA ReadCreds == ASSUME HandInv, read_auth_creds PROVE HandInv'
<1>1. /\ cpc = "rCreds" /\ down # <<>> /\ down' = Tail(down)
      /\ UNCHANGED <<conf, server, up, upEnd, downEnd>>
  BY DEF read_auth_creds, ClientReads
<1>2. \/ cpc' = "fail"
      \/ cpc' = IF conf.pipeline THEN "rResponse" ELSE "wRequest"
  BY DEF read_auth_creds
<1>3. Whole = 3
  BY <1>1 DEF Whole, HandInv, ClientKnows
<1>4. CASE cpc' = "fail"
  BY <1>1, <1>4, ClientFails
<1>5. CASE cpc' # "fail"
  <2>1. Heard = 1 /\ Heard' = 2 /\ ClientKnows' /\ Wrote' = Wrote
    BY <1>1, <1>2, <1>3, <1>5, SameConf DEF Heard, Wrote, ClientKnows
  <2> QED BY <1>1, <1>2, <1>5, <2>1, ClientTakes
<1> QED BY <1>4, <1>5

\* The client reads the response.
LEMMA ReadResponse == ASSUME HandInv, read_response PROVE HandInv'
<1>1. /\ cpc = "rResponse" /\ down # <<>> /\ down' = Tail(down) /\ ClientReading
      /\ UNCHANGED <<conf, server, up, upEnd, downEnd>>
      /\ cpc' = "fail" \/ (cpc' = "ok" /\ Head(down).val = "SUCC")
  BY DEF read_response, ClientReads, ClientReading
<1>2. Whole \in {2, 3}
  BY DEF Whole
<1>3. CASE cpc' = "fail"
  BY <1>1, <1>3, ClientFails
<1>4. CASE cpc' = "ok" /\ Head(down).val = "SUCC"
  <2>1. Heard = Whole - 1 /\ Heard' = Whole /\ ClientKnows' /\ Wrote' = Wrote
    BY <1>1, <1>2, <1>4, SameConf DEF Heard, Wrote, ClientKnows
  <2>2. Granted
    BY <1>1, <1>4, ClientFinds DEF ClientAwaits
  <2>3. Heard' = Heard + 1
    BY <1>2, <2>1
  <2> QED BY <1>1, <1>4, <2>1, <2>2, <2>3, ClientTakes
<1> QED BY <1>1, <1>3, <1>4

\* What the server finds when it reads.
LEMMA ServerFinds ==
    ASSUME HandInv, spc \in {"rMethods", "rCreds", "rRequest"}, up # <<>>
    PROVE  Head(up) = UpMsg(Took + 1)
<1>1. up \in Seq(Message) /\ Accepts
  BY DEF HandInv, HandType, Accepts
<1>2. Len(up) \in Nat /\ 1 \in 1 .. Len(up) /\ Head(up) = up[1]
  BY <1>1
<1> QED BY <1>1, <1>2 DEF HandInv, UpSync

\* The server reads the methods.
LEMMA ServerReadsMethods ==
    ASSUME HandInv, server_read_auth_method PROVE HandInv'
<1>1. /\ spc = "rMethods" /\ up # <<>> /\ up' = Tail(up) /\ spc' = "wMethod"
      /\ UNCHANGED <<conf, cpc, down, upEnd, downEnd, stype, obj>>
  BY DEF server_read_auth_method, ServerReads, client
<1>2. Took = 0 /\ Took' = 1 /\ Gave = 0 /\ Gave' = 0
  BY <1>1 DEF Took, Gave
<1>3. Head(up) = Msg("methods", Offered)
  BY <1>1, <1>2, ServerFinds DEF UpMsg
<1>4. Head(up).val = Offered
  BY <1>3 DEF Msg
<1>5. HandType /\ conf \in ConfigSet /\ Offered \in {"NONE", "USER"}
  BY Counts DEF HandInv, Offered
<1>6. obj = (IF conf.auth THEN "auth" ELSE "null") /\ obj \in {"null", "auth", "user"}
  BY <1>1, <1>5 DEF HandInv, ServerKnows, HandType, HTypeOK
<1>7. /\ sval' \in {"NONE", "USER", "UNACCEPTABLE"}
      /\ \/ sval' = "UNACCEPTABLE"
         \/ sval' = Offered /\ (conf.auth <=> Offered = "USER")
  BY <1>4, <1>5, <1>6 DEF server_read_auth_method, ConfigSet
<1>8. ServerKnows'
  BY <1>1, <1>7, SameConf DEF ServerKnows
<1>9. sval' \in Values
  BY <1>7 DEF Values
<1> QED BY <1>1, <1>2, <1>6, <1>8, <1>9, ServerTakes

\* The server reads the credentials.
LEMMA ServerReadsCreds ==
    ASSUME HandInv, server_read_auth_user PROVE HandInv'
<1>1. /\ spc = "rCreds" /\ up # <<>> /\ up' = Tail(up) /\ spc' = "wAuth"
      /\ UNCHANGED <<conf, cpc, down, upEnd, downEnd, stype>>
  BY DEF server_read_auth_user, ServerReads, client
<1>2. Took = 1 /\ Took' = 2 /\ Gave = 1 /\ Gave' = 1
  BY <1>1 DEF Took, Gave
<1>3. conf.auth /\ conf.creds # "none" /\ Whole = 3
  BY <1>1 DEF HandInv, ServerKnows, Whole
<1>4. UpMsg(1 + 1) = Msg("creds", conf.creds)
  BY <1>3 DEF UpMsg
<1>5. Head(up).val = conf.creds
  BY <1>1, <1>2, <1>4, ServerFinds DEF Msg
<1>6. sval' = "FAIL" \/ (sval' = "SUCC" /\ conf.creds = "good")
  BY <1>5 DEF server_read_auth_user
<1>7. obj' \in {"null", "auth", "user"}
  BY DEF server_read_auth_user, HandInv, HandType, HTypeOK
<1>8. ServerKnows'
  BY <1>1, <1>3, <1>6, SameConf DEF ServerKnows
<1>9. sval' \in Values
  BY <1>6 DEF Values
<1> QED BY <1>1, <1>2, <1>7, <1>8, <1>9, ServerTakes

\* The server reads the request.
LEMMA ServerReadsRequest ==
    ASSUME HandInv, server_read_request PROVE HandInv'
<1>1. /\ spc = "rRequest" /\ up # <<>> /\ up' = Tail(up)
      /\ UNCHANGED <<conf, cpc, down, upEnd, downEnd, stype, obj>>
      /\ \/ sval' = Head(up).val /\ spc' = "serve"
         \/ sval' = "ADDR" /\ spc' = "wResponse"
  BY DEF server_read_request, ServerReads, client
<1>2. HandType /\ Whole \in {2, 3} /\ UpMsg(Whole) \in Message
  BY Counts DEF HandInv
<1>3. Took = Whole - 1 /\ Took' = Whole /\ Gave = Whole - 1 /\ Gave' = Whole - 1
  BY <1>1, SameConf DEF Took, Gave
<1>4. UpMsg(Whole) = Msg("request", Cmd(conf.type)) /\ Took + 1 = Whole
  BY <1>2, <1>3 DEF UpMsg
<1>5. Head(up).val = Cmd(conf.type) /\ Cmd(conf.type) \in Values
  BY <1>1, <1>2, <1>4, ServerFinds DEF Msg, Message
<1>6. conf.auth => conf.creds = "good"
  BY <1>1 DEF HandInv, ServerKnows
<1>7. ServerKnows'
  BY <1>1, <1>5, <1>6, SameConf DEF ServerKnows
<1>8. sval' \in Values /\ obj' \in {"null", "auth", "user"}
  BY <1>1, <1>2, <1>5 DEF Values, HandType, HTypeOK
<1>9. Took' = Took + 1 /\ Gave' = Gave
  BY <1>2, <1>3
<1> QED BY <1>1, <1>7, <1>8, <1>9, ServerTakes

\* A read of the server fails.
LEMMA ServerLoses == ASSUME HandInv, ServerReadFailure PROVE HandInv'
<1>1. /\ UNCHANGED <<conf, cpc, up, down, upEnd, downEnd, stype, obj>>
      /\ \/ spc = "rMethods" /\ sval' = "UNACCEPTABLE" /\ spc' = "wMethod"
         \/ spc = "rCreds" /\ sval' = "FAIL" /\ spc' = "wAuth"
         \/ spc = "rRequest" /\ sval' = sval /\ spc' = "fail"
  BY DEF ServerReadFailure, server_read_auth_method_fails,
         server_read_auth_user_fails, server_read_request_fails,
         ServerReadFails, client
<1>2. ~Accepts' /\ (Answers' => Gave' = Gave)
  BY <1>1 DEF Accepts, Answers, Gave
<1>3. ServerKnows'
  BY <1>1 DEF HandInv, ServerKnows
<1>4. sval' \in Values /\ stype' \in Types \cup {"NONE"}
  BY <1>1 DEF Values, HandInv, HandType, HTypeOK
<1> QED BY <1>1, <1>2, <1>3, <1>4, ServerTurns

\* The server serves the request.
LEMMA ServerServes == ASSUME HandInv, server_serve PROVE HandInv'
<1>1. /\ spc = "serve" /\ spc' = "wResponse"
      /\ UNCHANGED <<conf, cpc, up, down, upEnd, downEnd, obj>>
      /\ stype' = Served(sval) /\ sval' \in {"SUCC", "HOST", "FAIL"}
  BY DEF server_serve, client
<1>2. HandType /\ conf.type \in Types
  BY Counts DEF HandInv, ConfigSet
<1>3. sval = Cmd(conf.type) /\ (conf.auth => conf.creds = "good")
  BY <1>1 DEF HandInv, ServerKnows
<1>4. Served(Cmd(conf.type)) = conf.type
  BY <1>2 DEF Served, Cmd, Types
<1>5. Accepts /\ Took' = Took /\ Gave' = Gave
  BY <1>1, SameConf DEF Accepts, Took, Gave
<1>6. ServerKnows'
  BY <1>1, <1>3, <1>4, SameConf DEF ServerKnows
<1>7. sval' \in Values
  BY <1>1 DEF Values
<1> QED BY <1>1, <1>2, <1>3, <1>4, <1>5, <1>6, <1>7, ServerTurns

\* A write of the server fails.
LEMMA ServerStops ==
    ASSUME HandInv, spc \in {"wMethod", "wAuth", "wResponse"}, spc' = "fail",
           UNCHANGED <<conf, client, sval, stype, obj, up, down, upEnd, downEnd>>
    PROVE  HandInv'
<1>1. ~Accepts' /\ ~Answers' /\ ServerKnows' /\ cpc' = cpc
  BY DEF Accepts, Answers, ServerKnows, client
<1>2. sval' \in Values /\ stype' \in Types \cup {"NONE"}
  BY DEF HandInv, HandType, HTypeOK
<1> QED BY <1>1, <1>2, ServerTurns

\* The server answers with a method.
LEMMA ServerWritesMethod ==
    ASSUME HandInv, server_write_auth_method PROVE HandInv'
<1>1. /\ spc = "wMethod" /\ cpc' = cpc
      /\ UNCHANGED <<conf, client, sval, stype, obj, up, upEnd, downEnd>>
      /\ \/ /\ spc' = CASE sval = "USER" -> "rCreds"
                        [] sval = "NONE" -> "rRequest"
                        [] OTHER -> "fail"
            /\ down' = Append(down, Msg("method", sval))
         \/ spc' = "fail" /\ UNCHANGED down
  BY DEF server_write_auth_method, ServerSends, client
<1>2. \/ sval = "UNACCEPTABLE"
      \/ sval = Offered /\ (conf.auth <=> Offered = "USER")
  BY <1>1 DEF HandInv, ServerKnows
<1>3. HandType /\ Whole \in {2, 3} /\ conf \in ConfigSet
  BY Counts DEF HandInv
<1>4. CASE spc' = "fail" /\ UNCHANGED down
  BY <1>1, <1>4, ServerStops
<1>5. CASE down' = Append(down, Msg("method", sval))
           /\ spc' = CASE sval = "USER" -> "rCreds"
                       [] sval = "NONE" -> "rRequest"
                       [] OTHER -> "fail"
  <2>1. /\ Offered = "USER" => conf.creds # "none" /\ Whole = 3
        /\ Offered = "NONE" => conf.creds = "none" /\ Whole = 2
        /\ Offered \in {"USER", "NONE"}
    BY DEF Offered, Whole
  <2>2. \/ spc' = "fail"
        \/ spc' = "rCreds" /\ sval = "USER" /\ Offered = "USER" /\ conf.auth
        \/ spc' = "rRequest" /\ sval = "NONE" /\ Offered = "NONE" /\ ~conf.auth
    BY <1>2, <1>5, <2>1
  <2>3. Gave = 0 /\ Took = 1 /\ (Answers' => Gave' = 1)
    BY <1>1, <2>1, <2>2, SameConf DEF Gave, Took, Answers
  <2>4. Accepts' => Accepts /\ Took' = 1
    BY <1>1, <2>1, <2>2, SameConf DEF Accepts, Took
  <2>5. ServerKnows'
    BY <1>1, <2>1, <2>2, SameConf DEF ServerKnows
  <2>6. DownKind(0 + 1) = "method" /\ "method" \in Kinds
    BY DEF DownKind, Kinds
  <2> QED BY <1>1, <1>2, <1>3, <1>5, <2>2, <2>3, <2>4, <2>5, <2>6, ServerGives
<1> QED BY <1>1, <1>4, <1>5

\* The server answers the credentials.
LEMMA ServerWritesAuth ==
    ASSUME HandInv, server_write_auth_user PROVE HandInv'
<1>1. /\ spc = "wAuth" /\ cpc' = cpc
      /\ UNCHANGED <<conf, client, sval, stype, obj, up, upEnd, downEnd>>
      /\ \/ /\ spc' = IF sval = "SUCC" THEN "rRequest" ELSE "fail"
            /\ down' = Append(down, Msg("authres", sval))
         \/ spc' = "fail" /\ UNCHANGED down
  BY DEF server_write_auth_user, ServerSends, client
<1>2. /\ conf.auth /\ conf.creds # "none" /\ Whole = 3
      /\ sval = "FAIL" \/ (sval = "SUCC" /\ conf.creds = "good")
  BY <1>1 DEF HandInv, ServerKnows, Whole
<1>4. CASE spc' = "fail" /\ UNCHANGED down
  BY <1>1, <1>4, ServerStops
<1>5. CASE down' = Append(down, Msg("authres", sval))
           /\ spc' = IF sval = "SUCC" THEN "rRequest" ELSE "fail"
  <2>3. Gave = 1 /\ Took = 2 /\ (Answers' => Gave' = 2)
    BY <1>1, <1>2, <1>5, SameConf DEF Gave, Took, Answers
  <2>4. Accepts' => Accepts /\ Took' = 2
    BY <1>1, <1>2, <1>5, SameConf DEF Accepts, Took
  <2>5. ServerKnows'
    BY <1>1, <1>2, <1>5, SameConf DEF ServerKnows
  <2>6. DownKind(1 + 1) = "authres" /\ "authres" \in Kinds
    BY <1>2 DEF DownKind, Kinds
  <2> QED BY <1>1, <1>2, <1>5, <2>3, <2>4, <2>5, <2>6, ServerGives
<1> QED BY <1>1, <1>4, <1>5

\* The server answers the request.
LEMMA ServerWritesResponse ==
    ASSUME HandInv, server_write_response PROVE HandInv'
<1>1. /\ spc = "wResponse" /\ cpc' = cpc
      /\ UNCHANGED <<conf, client, sval, stype, obj, up, upEnd, downEnd>>
      /\ \/ /\ spc' = IF sval = "SUCC" THEN "service" ELSE "fail"
            /\ down' = Append(down, Msg("response", sval))
         \/ spc' = "fail" /\ UNCHANGED down
  BY DEF server_write_response, ServerSends, client
<1>2. /\ conf.auth => conf.creds = "good"
      /\ sval = "SUCC" => stype = conf.type
  BY <1>1 DEF HandInv, ServerKnows
<1>3. Whole \in {2, 3}
  BY DEF Whole
<1>4. CASE spc' = "fail" /\ UNCHANGED down
  BY <1>1, <1>4, ServerStops
<1>5. CASE down' = Append(down, Msg("response", sval))
           /\ spc' = IF sval = "SUCC" THEN "service" ELSE "fail"
  <2>3. Gave = Whole - 1 /\ Took = Whole /\ (Answers' => Gave' = Whole)
    BY <1>1, <1>5, SameConf DEF Gave, Took, Answers
  <2>4. Accepts' => Accepts /\ Took' = Whole
    BY <1>1, <1>5, SameConf DEF Accepts, Took
  <2>5. ServerKnows'
    BY <1>1, <1>2, <1>5, SameConf DEF ServerKnows
  <2>6. DownKind(Whole) = "response" /\ "response" \in Kinds
    BY <1>3 DEF DownKind, Kinds
  <2>7. (Whole - 1) + 1 = Whole /\ Whole - 1 < Whole
    BY <1>3
  <2> QED BY <1>1, <1>5, <2>3, <2>4, <2>5, <2>6, <2>7, ServerGives
<1> QED BY <1>1, <1>4, <1>5

\* One step per action.
LEMMA HandStep == ASSUME HandInv, [HNext]_hvars PROVE HandInv'
<1>1. CASE UNCHANGED hvars
  <2>1. /\ UNCHANGED <<conf, cpc, spc, sval, stype, obj, up, down, upEnd, downEnd>>
        /\ UNCHANGED server
    BY <1>1 DEF hvars, client, server
  <2>2. HandType' /\ UpSync' /\ DownSync'
    <3>1. HandType'
      BY <2>1 DEF HandInv, HandType, HTypeOK
    <3>2. UpSync'
      BY <2>1, SameConf, SameClient, SameServer DEF HandInv, UpSync
    <3>3. DownSync'
      BY <2>1, SameConf, SameClient, SameServer DEF HandInv, DownSync
    <3> QED BY <3>1, <3>2, <3>3
  <2>3. ServerKnows' /\ ClientKnows'
    BY <2>1, SameServer DEF HandInv, ClientKnows
  <2>4. Granted' = Granted
    BY <2>1, SameConf, SameClient DEF Granted
  <2>5. DownTrue'
    BY <2>1, <2>4, SameConf DEF HandInv, DownTrue
  <2> QED BY <2>2, <2>3, <2>5 DEF HandInv
<1>2. CASE ClientIO
  <2>1. CASE client_read_eof
    BY <2>1, ClientFails DEF client_read_eof
  <2> QED BY <1>2, <2>1, WriteMethods, WriteCreds, WriteRequest, ReadMethod,
             ReadCreds, ReadResponse DEF ClientIO
<1>3. CASE client_read_timeout
  BY <1>3, ClientFails DEF client_read_timeout
<1>4. CASE client_close
  BY <1>4, ClientCloses
<1>5. CASE ServerIO
  BY <1>5, ServerReadsMethods, ServerWritesMethod, ServerReadsCreds,
     ServerWritesAuth, ServerReadsRequest, ServerServes, ServerWritesResponse
  DEF ServerIO
<1>6. CASE ServerReadFailure
  BY <1>6, ServerLoses
<1>7. CASE server_close
  BY <1>7, ServerCloses
<1> QED BY <1>1, <1>2, <1>3, <1>4, <1>5, <1>6, <1>7 DEF HNext

\* The two ends at the start.
LEMMA HandInit == HInit => HandInv
<1> SUFFICES ASSUME HInit PROVE HandInv
  OBVIOUS
<1>1. /\ conf \in Configs /\ cpc = "wMethods" /\ spc = "rMethods" /\ sval = "-"
      /\ stype = "NONE" /\ up = <<>> /\ down = <<>> /\ upEnd = FALSE
      /\ downEnd = FALSE /\ obj = IF conf.auth THEN "auth" ELSE "null"
  BY DEF HInit
<1>2. <<>> \in Seq(Message) /\ Len(<<>>) = 0
  OBVIOUS
<1>3. HandType
  BY <1>1, <1>2 DEF HandType, HTypeOK, Values
<1>4. Took = 0 /\ Wrote = 0 /\ Heard = 0 /\ Gave = 0 /\ Whole \in {2, 3}
  BY <1>1 DEF Took, Wrote, Heard, Gave, Whole
<1>5. Len(up) = 0 /\ Len(down) = 0 /\ \A i : i \notin 1 .. 0
  BY <1>1, <1>2
<1>6. UpSync /\ DownSync
  BY <1>4, <1>5 DEF UpSync, DownSync
<1>7. ServerKnows /\ ClientKnows
  BY <1>1 DEF ServerKnows, ClientKnows
<1>8. DownTrue
  BY <1>1, <1>5 DEF DownTrue
<1> QED BY <1>3, <1>6, <1>7, <1>8 DEF HandInv

\* The inductive invariant of the handshake.
LEMMA HandInvHolds == HSpec => []HandInv
  BY HandInit, HandStep, PTL DEF HSpec

\* Client and server take the stream apart at the same places, pipelined or
\* not, with credentials or without, through failures, timeouts and resets:
\* the next message is the one that the read of hev-socks5-client.c or
\* hev-socks5-server.c awaits.
THEOREM HandshakeAligned == HSpec => []Aligned
<1>1. HandInv => Aligned
  <2> SUFFICES ASSUME HandInv PROVE Aligned
    OBVIOUS
  <2>1. ClientReading /\ down # <<>> => Head(down).kind = ClientAwaits(cpc)
    BY ClientFinds
  <2>2. ASSUME up # <<>>, spc = "rMethods" PROVE Head(up).kind = "methods"
    <3>1. Took + 1 = 1
      BY <2>2 DEF Took
    <3>2. Head(up) = UpMsg(1)
      BY <2>2, <3>1, ServerFinds
    <3>3. UpMsg(1) = Msg("methods", Offered)
      BY DEF UpMsg
    <3> QED BY <3>2, <3>3 DEF Msg
  <2>3. ASSUME up # <<>>, spc = "rCreds" PROVE Head(up).kind = "creds"
    <3>1. Took + 1 = 2 /\ Whole = 3
      BY <2>3 DEF Took, Whole, HandInv, ServerKnows
    <3>2. Head(up) = UpMsg(2)
      BY <2>3, <3>1, ServerFinds
    <3>3. UpMsg(2) = Msg("creds", conf.creds)
      BY <3>1 DEF UpMsg
    <3> QED BY <3>2, <3>3 DEF Msg
  <2>4. ASSUME up # <<>>, spc = "rRequest" PROVE Head(up).kind = "request"
    <3>1. Whole \in {2, 3}
      BY DEF Whole
    <3>2. Took + 1 = Whole
      BY <2>4, <3>1 DEF Took
    <3>3. Head(up) = UpMsg(Whole)
      BY <2>4, <3>2, ServerFinds
    <3> QED BY <3>1, <3>3 DEF UpMsg, Msg
  <2> QED BY <2>1, <2>2, <2>3, <2>4 DEF Aligned
<1> QED BY <1>1, HandInvHolds, PTL

\* A client whose hev_socks5_client_handshake succeeds has a server of the
\* same type, which has checked the credentials if it has an authenticator
\* and has read the whole handshake.
THEOREM HandshakeAgrees == HSpec => []Agreement
<1>1. HandInv => Agreement
  <2> SUFFICES ASSUME HandInv, cpc = "ok" PROVE Agreement
    BY DEF Agreement
  <2>1. Granted
    BY DEF HandInv, DownTrue
  <2>2. Heard = Whole /\ Whole \in {2, 3} /\ Heard + Len(down) <= Whole
    BY DEF HandInv, DownSync, Heard, Whole
  <2>3. down \in Seq(Message)
    BY DEF HandInv, HandType
  <2>4. down = <<>>
    BY <2>2, <2>3
  <2> QED BY <2>1, <2>4 DEF Agreement, Granted
<1> QED BY <1>1, HandInvHolds, PTL

\* The two ends never wait for each other in the handshake, in any
\* configuration: while hev-socks5-client.c waits for a message the server
\* has one to read or is busy with its answer.
THEOREM HandshakeNeverWaits == HSpec => []NoMutualWait
<1>1. HandInv => NoMutualWait
  <2> SUFFICES ASSUME HandInv, ClientBlocked PROVE NoMutualWait
    BY DEF NoMutualWait
  <2>1. /\ cpc \in {"rMethod", "rCreds", "rResponse"} /\ down = <<>> /\ ~downEnd
        /\ cpc # "fail" /\ Len(<<>>) = 0
    BY DEF ClientBlocked, ClientReading
  <2>2. /\ Whole \in {2, 3} /\ Took \in 0 .. 3 /\ Gave \in 0 .. 3
        /\ Wrote \in 0 .. 3 /\ Heard \in 0 .. 3
        /\ downEnd = (spc = "closed")
    BY Counts DEF HandInv, HandType
  <2>3. cpc = "rCreds" => Whole = 3
    BY DEF Whole, HandInv, ClientKnows
  <2>4. spc = "rCreds" => Whole = 3
    BY DEF Whole, HandInv, ServerKnows
  <2>5. Heard < Whole
    BY <2>1, <2>2, <2>3 DEF Heard
  <2>6. Answers => Heard = Gave
    <3>1. Answers => Heard + Len(down) = Gave
      BY <2>1 DEF HandInv, DownSync
    <3> QED BY <2>1, <2>2, <3>1
  <2>7. Answers \/ spc = "fail"
    BY <2>1, <2>2 DEF Answers
  <2>8. spc # "service"
    BY <2>2, <2>5, <2>6, <2>7 DEF Gave
  <2>9. ASSUME spc \in {"rMethods", "rCreds", "rRequest"}, up = <<>> PROVE FALSE
    <3>1. Accepts /\ Answers
      BY <2>9 DEF Accepts, Answers
    <3>2. Took + Len(up) = Wrote
      BY <2>1, <3>1 DEF HandInv, UpSync
    <3>3. Took = Wrote /\ Heard = Gave
      BY <2>1, <2>2, <2>6, <2>9, <3>1, <3>2
    <3>4. CASE spc = "rMethods"
      BY <2>1, <2>2, <3>3, <3>4 DEF Took, Wrote
    <3>5. CASE spc = "rCreds"
      <4>1. Took = 1 /\ Gave = 1 /\ Whole = 3
        BY <2>4, <3>5 DEF Took, Gave
      <4>2. cpc = "rCreds"
        BY <2>1, <3>3, <4>1 DEF Heard
      <4> QED BY <3>3, <4>1, <4>2 DEF Wrote
    <3>6. CASE spc = "rRequest"
      <4>1. Took = Whole - 1 /\ Gave = Whole - 1
        BY <3>6 DEF Took, Gave
      <4>2. cpc = "rResponse"
        BY <2>1, <2>2, <2>3, <3>3, <4>1 DEF Heard
      <4> QED BY <2>2, <3>3, <4>1, <4>2 DEF Wrote
    <3> QED BY <2>9, <3>4, <3>5, <3>6
  <2> QED BY <2>1, <2>2, <2>8, <2>9 DEF NoMutualWait
<1> QED BY <1>1, HandInvHolds, PTL
=============================================================================
