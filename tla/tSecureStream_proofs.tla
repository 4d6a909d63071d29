------------------------- MODULE tSecureStream_proofs -------------------------
(***************************************************************************)
(* For buffers and calls of any size: when a side of a tSecureStream has   *)
(* set up its keys, both have computed them from the same vectors; and     *)
(* what goes through the AES streams from there on is what a Conduit       *)
(* promises.                                                               *)
(*                                                                         *)
(* For the first, the invariant says which messages may be on their way    *)
(* where the two sides are, and what each side's place tells it of the     *)
(* other. For the second, it follows the wire block by block: behind each  *)
(* vector and each chunk comes what a writer sends that has counted as     *)
(* these say, up to where the writer is; and the first of it is what a     *)
(* reader expects that has counted as this one has.                        *)
(***************************************************************************)
EXTENDS tSecureStream, SequenceTheorems, WellFoundedInduction, TLAPS

Client == pc["client"]
Server == pc["server"]
ToServer == wire["client"]
ToClient == wire["server"]
ClientV == vectors["client"]
ServerV == vectors["server"]

Placed(f) == f = [side \in Side |-> f[side]]

Types ==
    /\ Placed(pc) /\ Placed(wire) /\ Placed(keys) /\ Placed(vectors)
    /\ Client \in {"hello", "greeting", "rand", "proof", "done", "failed"}
    /\ Server \in {"greeting", "app", "rand", "secret", "proof", "done", "failed"}
    /\ ClientV \in Vectors /\ ServerV \in Vectors
    /\ app["server"] = "app" /\ key["server"] = "key"

(* What the client says at once, and what of it is left for a server in    *)
(* some place. Each message may be damaged, or come without an end.        *)
Hello == <<<<"librho">>, <<"app", app["client"]>>, <<"rand", "c">>, <<"enc", key["client"], "pre">>>>
Left(at) ==
    CASE at = "greeting" -> Hello
      [] at = "app"      -> <<Hello[2], Hello[3], Hello[4]>>
      [] at = "rand"     -> <<Hello[3], Hello[4]>>
      [] at = "secret"   -> <<Hello[4]>>
      [] OTHER           -> <<>>

Sayings == {Hello[n] : n \in 1..4} \cup {Noise, Endless}
Follows(w, h) ==
    /\ w \in Seq(Sayings) /\ Len(w) <= Len(h)
    /\ \A n \in 1..Len(w) : w[n] \in {h[n], Noise, Endless}

(* Until the client has set up its keys, nothing else goes to the server,  *)
(* which is given no proof.                                                *)
Said ==
    /\ Client = "hello" => ToServer = <<>> /\ Server \in {"greeting", "failed"}
    /\ Client # "done" /\ Server # "failed"
          => Server # "done" /\ Follows(ToServer, Left(Server))

(* What a client that is still in its handshake can hear.                  *)
Replied == ServerV.rand_s = "s"
Answers ==
    {<<"failed">>, <<"ok">>, <<"rand", "s">>, Noise, Endless}
    \cup IF Replied THEN {H2(ServerV)} ELSE {}
Answered == Client \notin {"done", "failed"} => ToClient \in Seq(Answers)

(* A server that has replied has checked the application; if it has the    *)
(* client's pre-secret, that was encrypted for it.                         *)
Checked ==
    /\ Server \in {"greeting", "app", "rand", "secret"} => ~Replied
    /\ Server \in {"rand", "secret"} \/ Replied => app["client"] = app["server"]
    /\ Replied /\ ServerV.pre_secret = "pre" => key["client"] = key["server"]

(* A side that has set up its keys took them from vectors that both have.  *)
Agreed ==
    /\ Client \in {"greeting", "rand", "proof", "done"} => ClientV.pre_secret = "pre"
    /\ Client = "done" =>
          /\ Replied /\ ClientV = ServerV
          /\ keys["client"] = [reads |-> ksw(ClientV), writes |-> kcw(ClientV)]
    /\ Server = "done" =>
          /\ Client = "done"
          /\ keys["server"] = [reads |-> kcw(ServerV), writes |-> ksw(ServerV)]

SecureInv == Types /\ Said /\ Answered /\ Checked /\ Agreed
-----------------------------------------------------------------------------
(* Places, vectors and keys of the two sides.                              *)
LEMMA SideGoes ==
  ASSUME Placed(pc), NEW side \in Side, NEW to, pc' = [pc EXCEPT ![side] = to]
  PROVE  /\ Placed(pc)'
         /\ Client' = IF side = "client" THEN to ELSE Client
         /\ Server' = IF side = "server" THEN to ELSE Server
BY DEF Placed, Side, Client, Server

LEMMA SideHas ==
  ASSUME NEW f, Placed(f), NEW side \in Side, NEW v
  PROVE  LET g == [f EXCEPT ![side] = v]
         IN  /\ Placed(g) /\ g[side] = v
             /\ g[Other(side)] = f[Other(side)]
BY DEF Placed, Side, Other

LEMMA Still ==
  ASSUME UNCHANGED <<pc, vectors, app, key>>
  PROVE  UNCHANGED <<Client, Server, ClientV, ServerV, Replied, Hello, Sayings, Answers>>
BY DEF Client, Server, ClientV, ServerV, Replied, Hello, Sayings, Answers

LEMMA LeftStays ==
  ASSUME UNCHANGED <<app, key>>
  PROVE  \A at : Left(at)' = Left(at)
<1>1. Hello' = Hello BY DEF Hello
<1> QED BY <1>1 DEF Left

LEMMA SayingsStay == UNCHANGED <<app, key>> => UNCHANGED Sayings
BY DEF Sayings, Hello

(* The messages that are left, one by one.                                 *)
LEMMA LeftIs ==
  /\ Left("greeting") = <<<<"librho">>, <<"app", app["client"]>>, <<"rand", "c">>,
                          <<"enc", key["client"], "pre">>>>
  /\ Left("app") = <<<<"app", app["client"]>>, <<"rand", "c">>, <<"enc", key["client"], "pre">>>>
  /\ Left("rand") = <<<<"rand", "c">>, <<"enc", key["client"], "pre">>>>
  /\ Left("secret") = <<<<"enc", key["client"], "pre">>>>
  /\ Left("proof") = <<>>
<1>1. /\ Hello[1] = <<"librho">> /\ Hello[2] = <<"app", app["client"]>>
      /\ Hello[3] = <<"rand", "c">> /\ Hello[4] = <<"enc", key["client"], "pre">>
  BY DEF Hello
<1>2. Left("greeting") = Hello BY DEF Left
<1>3. Left("app") = <<Hello[2], Hello[3], Hello[4]>> BY DEF Left
<1>4. Left("rand") = <<Hello[3], Hello[4]>> BY DEF Left
<1>5. Left("secret") = <<Hello[4]>> BY DEF Left
<1>6. Left("proof") = <<>> BY DEF Left
<1> QED BY <1>1, <1>2, <1>3, <1>4, <1>5, <1>6 DEF Hello

LEMMA SayingsAre ==
  Sayings = {<<"librho">>, <<"app", app["client"]>>, <<"rand", "c">>,
             <<"enc", key["client"], "pre">>, Noise, Endless}
<1>1. {Hello[n] : n \in 1..4} = {Hello[1], Hello[2], Hello[3], Hello[4]}
  OBVIOUS
<1>2. /\ Hello[1] = <<"librho">> /\ Hello[2] = <<"app", app["client"]>>
      /\ Hello[3] = <<"rand", "c">> /\ Hello[4] = <<"enc", key["client"], "pre">>
  BY DEF Hello
<1> QED BY <1>1, <1>2 DEF Sayings
-----------------------------------------------------------------------------
(* Sequences of messages.                                                  *)
LEMMA NextFollows ==
  ASSUME NEW w, NEW h, NEW g, Follows(w, h), w # <<>>,
         Len(h) \in Nat, Len(g) = Len(h) - 1, \A n \in 1..Len(g) : g[n] = h[n + 1]
  PROVE  /\ Head(w) \in {h[1], Noise, Endless} /\ Head(w) \in Sayings
         /\ Follows(Tail(w), g)
<1>1. w \in Seq(Sayings) BY DEF Follows
<1>2. /\ Head(w) = w[1] /\ Head(w) \in Sayings
      /\ Tail(w) \in Seq(Sayings) /\ Len(w) \in Nat \ {0} /\ Len(Tail(w)) = Len(w) - 1
      /\ \A n \in 1..Len(Tail(w)) : Tail(w)[n] = w[n + 1]
  BY <1>1, HeadTailProperties
<1>3. Head(w) \in {h[1], Noise, Endless} BY <1>2 DEF Follows
<1>4. \A n \in 1..Len(Tail(w)) : Tail(w)[n] \in {g[n], Noise, Endless}
  <2> TAKE n \in 1..Len(Tail(w))
  <2>1. n + 1 \in 1..Len(w) /\ n \in 1..Len(g) BY <1>2 DEF Follows
  <2>2. w[n + 1] \in {h[n + 1], Noise, Endless} BY <2>1 DEF Follows
  <2> QED BY <2>1, <2>2, <1>2
<1>5. Len(Tail(w)) <= Len(g) BY <1>2 DEF Follows
<1> QED BY <1>2, <1>3, <1>4, <1>5 DEF Follows

LEMMA ChangedFollows ==
  ASSUME NEW w, NEW h, Follows(w, h), NEW i \in DOMAIN w, NEW m \in {Noise, Endless}
  PROVE  Follows([w EXCEPT ![i] = m], h)
<1>1. w \in Seq(Sayings) /\ m \in Sayings BY DEF Follows, Sayings
<1>2. i \in 1..Len(w) BY <1>1
<1>3. /\ [w EXCEPT ![i] = m] \in Seq(Sayings) /\ Len([w EXCEPT ![i] = m]) = Len(w)
      /\ \A j \in 1..Len(w) : [w EXCEPT ![i] = m][j] = IF j = i THEN m ELSE w[j]
  BY <1>1, <1>2, ExceptSeq
<1> QED BY <1>3 DEF Follows

LEMMA CutFollows ==
  ASSUME NEW w, NEW h, Follows(w, h), NEW n \in 0..Len(w)
  PROVE  Len(h) \in Nat => Follows(SubSeq(w, 1, n), h)
<1>1. w \in Seq(Sayings) BY DEF Follows
<1>2. Len(w) \in Nat /\ \A i \in 1..n : w[i] \in Sayings BY <1>1
<1>3. /\ SubSeq(w, 1, n) \in Seq(Sayings)
      /\ Len(SubSeq(w, 1, n)) = n
      /\ \A i \in 1..n : SubSeq(w, 1, n)[i] = w[i]
  <2>1. 1 \in Int /\ n \in Int BY <1>2
  <2> QED BY <2>1, <1>1, <1>2, SubSeqProperties
<1>4. /\ Len(w) <= Len(h)
      /\ \A i \in 1..n : w[i] \in {h[i], Noise, Endless}
  BY <1>2 DEF Follows
<1>5. Len(h) \in Nat => n <= Len(h) BY <1>2, <1>4
<1> QED BY <1>3, <1>4, <1>5 DEF Follows

LEMMA CutSequence ==
  ASSUME NEW S, NEW w \in Seq(S), NEW n \in 0..Len(w)
  PROVE  SubSeq(w, 1, n) \in Seq(S)
OBVIOUS

LEMMA ChangedSequence ==
  ASSUME NEW S, NEW w \in Seq(S), NEW i \in DOMAIN w, NEW m \in S
  PROVE  [w EXCEPT ![i] = m] \in Seq(S)
BY ExceptSeq
-----------------------------------------------------------------------------
LEMMA InitSecureInv == Init => SecureInv
<1> SUFFICES ASSUME Init PROVE SecureInv OBVIOUS
<1>1. Placed(pc) /\ Client = "hello" /\ Server = "greeting"
  BY DEF Init, Placed, Side, Client, Server
<1>2. Placed(wire) /\ Placed(keys) /\ Placed(vectors)
  BY DEF Init, Placed
<1>3. ToServer = <<>> /\ ToClient = <<>> /\ ClientV = Unset /\ ServerV = Unset
  BY DEF Init, Side, ToServer, ToClient, ClientV, ServerV
<1>4. Unset \in Vectors /\ Unset.rand_s # "s" /\ Unset.pre_secret # "pre"
  BY DEF Unset, Vectors, Words
<1>5. Types BY <1>1, <1>2, <1>3, <1>4 DEF Types, Init
<1>6. Said
  <2>1. Len(Left("greeting")) = 4 BY LeftIs
  <2>2. Follows(<<>>, Left("greeting")) BY <2>1 DEF Follows
  <2> QED BY <2>2, <1>1, <1>3 DEF Said
<1>7. Answered
  <2>1. <<>> \in Seq(Answers) OBVIOUS
  <2> QED BY <2>1, <1>3 DEF Answered
<1>8. Checked /\ Agreed
  BY <1>1, <1>3, <1>4 DEF Checked, Agreed, Replied
<1> QED BY <1>5, <1>6, <1>7, <1>8 DEF SecureInv

(* A handshake that fails leaves the vectors and the keys, and the side    *)
(* neither sends what the other waits for nor hears anything more.         *)
LEMMA ClientFails ==
  ASSUME SecureInv, Client # "done", Fails("client"),
         UNCHANGED <<app, key>>, Placed(wire)', ToServer' = ToServer
  PROVE  SecureInv'
<1>1. Placed(pc)' /\ Client' = "failed" /\ UNCHANGED <<Server, vectors, keys>>
  BY SideGoes DEF Fails, Side, SecureInv, Types
<1>2. UNCHANGED <<ClientV, ServerV, Replied>> BY <1>1 DEF ClientV, ServerV, Replied
<1>3. Types' BY <1>1, <1>2 DEF SecureInv, Types, Placed
<1>4. Said'
  <2>1. Server # "failed" => Server # "done" /\ Follows(ToServer, Left(Server))
    BY DEF SecureInv, Said
  <2>2. Left(Server)' = Left(Server) BY <1>1, LeftStays
  <2>3. Server # "failed" => Follows(ToServer, Left(Server))'
    BY <2>1, <2>2, SayingsStay DEF Follows
  <2> QED BY <2>1, <2>3, <1>1 DEF Said
<1>5. Answered' BY <1>1 DEF Answered
<1>6. Checked' BY <1>1, <1>2 DEF SecureInv, Checked
<1>7. Agreed' BY <1>1, <1>2 DEF SecureInv, Agreed
<1> QED BY <1>3, <1>4, <1>5, <1>6, <1>7 DEF SecureInv

LEMMA ServerFails ==
  ASSUME SecureInv, Server # "done", Fails("server"),
         UNCHANGED <<app, key>>, Placed(wire)',
         Client # "done" /\ ToServer = <<>> => ToServer' = <<>>,
         Client \notin {"done", "failed"} => ToClient' \in Seq(Answers)
  PROVE  SecureInv'
<1>1. Placed(pc)' /\ Server' = "failed" /\ UNCHANGED <<Client, vectors, keys>>
  BY SideGoes DEF Fails, Side, SecureInv, Types
<1>2. UNCHANGED <<ClientV, ServerV, Replied, Answers>>
  BY <1>1 DEF ClientV, ServerV, Replied, Answers
<1>3. Types' BY <1>1, <1>2 DEF SecureInv, Types, Placed
<1>4. Said' BY <1>1 DEF SecureInv, Said
<1>5. Answered' BY <1>1, <1>2 DEF SecureInv, Answered
<1>6. Checked' BY <1>1, <1>2 DEF SecureInv, Checked
<1>7. Agreed' BY <1>1, <1>2 DEF SecureInv, Agreed
<1> QED BY <1>3, <1>4, <1>5, <1>6, <1>7 DEF SecureInv

(* What a side has heard is taken from the wire.                           *)
LEMMA UnpackedIs ==
  ASSUME Placed(wire), NEW w
  PROVE  /\ w = Unpacked("client") =>
               Placed(w) /\ w["server"] = Tail(ToClient) /\ w["client"] = ToServer
         /\ w = Unpacked("server") =>
               Placed(w) /\ w["client"] = Tail(ToServer) /\ w["server"] = ToClient
BY DEF Unpacked, Placed, Side, Other, ToServer, ToClient

LEMMA AnswersAfterOne ==
  ASSUME Answered, Client \notin {"done", "failed"}, ToClient # <<>>
  PROVE  Tail(ToClient) \in Seq(Answers) /\ Head(ToClient) \in Answers
BY HeadTailProperties DEF Answered

LEMMA LastAnswer ==
  ASSUME NEW s \in Seq(Answers)
  PROVE  s \o <<<<"failed">>>> \in Seq(Answers)
<1>1. <<<<"failed">>>> \in Seq(Answers) BY DEF Answers
<1> QED BY <1>1, ConcatProperties

LEMMA ConnectionFails ==
  ASSUME SecureInv, Server # "done", UNCHANGED <<app, key>>,
         NEW w, w \in {wire, Unpacked("server")}, s_failConnection(w),
         w = wire \/ ToServer # <<>>
  PROVE  SecureInv'
<1>1. /\ Placed(w) /\ w["server"] = ToClient
      /\ Client # "done" /\ ToServer = <<>> => w["client"] = <<>>
  BY UnpackedIs DEF SecureInv, Types, ToServer, ToClient
<1>2. Fails("server") BY DEF s_failConnection
<1>3. \/ wire' = w
      \/ wire' = [w EXCEPT !["server"] = @ \o <<<<"failed">>>>]
  BY DEF s_failConnection, Packs
<1>4. CASE wire' = w
  <2>1. Placed(wire)' /\ UNCHANGED ToClient /\ ToServer' = w["client"]
    BY <1>1, <1>4 DEF ToServer, ToClient, Placed
  <2> QED BY <1>1, <1>2, <2>1, ServerFails DEF SecureInv, Answered
<1>5. CASE wire' = [w EXCEPT !["server"] = @ \o <<<<"failed">>>>]
  <2>1. Placed(wire)' /\ ToClient' = ToClient \o <<<<"failed">>>> /\ ToServer' = w["client"]
    BY <1>1, <1>5 DEF ToServer, ToClient, Placed, Side
  <2>2. Client \notin {"done", "failed"} => ToClient' \in Seq(Answers)
    BY <2>1, LastAnswer DEF SecureInv, Answered
  <2> QED BY <1>1, <1>2, <2>1, <2>2, ServerFails
<1> QED BY <1>3, <1>4, <1>5
-----------------------------------------------------------------------------
(* unpack throws, or waits for what does not come.                         *)
LEMMA UnpackFailsKeeps ==
  ASSUME SecureInv, NEW side \in Side, UnpackFails(side), UNCHANGED <<app, key>>
  PROVE  SecureInv'
<1> USE DEF SecureInv
<1>1. CASE side = "client" /\ Throws("client", wire)
  <2>1. Placed(wire)' /\ UNCHANGED ToServer /\ Fails("client")
    BY <1>1 DEF Throws, Types, Placed, ToServer
  <2>2. Client # "done" BY <1>1 DEF UnpackFails, Client
  <2> QED BY <2>1, <2>2, ClientFails
<1>2. CASE side = "client" /\ Throws("client", Unpacked("client"))
  <2>1. Placed(wire)' /\ UNCHANGED ToServer /\ Fails("client")
    BY <1>2, UnpackedIs DEF Throws, Types, Placed, ToServer
  <2>2. Client # "done" BY <1>2 DEF UnpackFails, Client
  <2> QED BY <2>1, <2>2, ClientFails
<1>3. CASE side = "server" /\ Throws("server", wire)
  <2>1. Placed(wire)' /\ UNCHANGED <<ToServer, ToClient>> /\ Fails("server")
    BY <1>3 DEF Throws, Types, Placed, ToServer, ToClient
  <2>2. Server # "done" BY <1>3 DEF UnpackFails, Server
  <2> QED BY <2>1, <2>2, ServerFails DEF Answered
<1>4. CASE side = "server" /\ Throws("server", Unpacked("server")) /\ ToServer # <<>>
  <2>1. Placed(wire)' /\ UNCHANGED ToClient /\ Fails("server")
    BY <1>4, UnpackedIs DEF Throws, Types, Placed, ToClient
  <2>2. Server # "done" BY <1>4 DEF UnpackFails, Server
  <2> QED BY <2>1, <2>2, <1>4, ServerFails DEF Answered
<1>5. CASE side = "server" /\ \E w \in {wire, Unpacked("server")} :
              s_failConnection(w) /\ (w = wire \/ ToServer # <<>>)
  <2>1. Server # "done" BY <1>5 DEF UnpackFails, Server
  <2> QED BY <2>1, <1>5, ConnectionFails
<1>6. CASE /\ ~Waits(side) /\ Message(side) = Noise
           /\ wire' = [wire EXCEPT ![Other(side)][1] = Endless]
           /\ UNCHANGED <<pc, closed, vectors, keys>>
  <2>1. Heard(side) # <<>> BY <1>6 DEF Waits
  <2>2. UNCHANGED <<Client, Server, ClientV, ServerV, Replied, Sayings, Answers>>
    BY <1>6, Still
  <2>3. Types'
    <3>1. Placed(wire)' BY <1>6 DEF Types, Placed
    <3> QED BY <3>1, <1>6, <2>2 DEF Types, Placed
  <2>4. CASE side = "client"
    <3>1. ToClient # <<>> /\ UNCHANGED ToServer /\ ToClient' = [ToClient EXCEPT ![1] = Endless]
      BY <1>6, <2>1, <2>4 DEF Types, Placed, Side, Other, Heard, ToServer, ToClient
    <3>2. Answered'
      <4> SUFFICES ASSUME Client \notin {"done", "failed"} PROVE ToClient' \in Seq(Answers)
        BY <2>2 DEF Answered
      <4>1. ToClient \in Seq(Answers) /\ Endless \in Answers BY DEF Answered, Answers
      <4>2. 1 \in DOMAIN ToClient BY <4>1, <3>1
      <4> QED BY <3>1, <4>1, <4>2, ChangedSequence
    <3>3. Said' 
      <4>1. Left(Server)' = Left(Server) BY <2>2, LeftStays
      <4> QED BY <4>1, <3>1, <2>2 DEF Said, Follows
    <3> QED BY <2>2, <2>3, <3>2, <3>3, <1>6 DEF Checked, Agreed
  <2>5. CASE side = "server"
    <3>1. ToServer # <<>> /\ UNCHANGED ToClient /\ ToServer' = [ToServer EXCEPT ![1] = Endless]
      BY <1>6, <2>1, <2>5 DEF Types, Placed, Side, Other, Heard, ToServer, ToClient
    <3>2. Answered' BY <3>1, <2>2 DEF Answered
    <3>3. Said'
      <4> SUFFICES ASSUME Client # "done", Server # "failed"
                   PROVE  Client # "hello" /\ Server # "done" /\ Follows(ToServer, Left(Server))'
        BY <2>2, <3>1 DEF Said
      <4>1. Client # "hello" /\ Server # "done" /\ Follows(ToServer, Left(Server))
        BY <3>1 DEF Said
      <4>2. 1 \in DOMAIN ToServer BY <4>1, <3>1 DEF Follows
      <4>3. Follows([ToServer EXCEPT ![1] = Endless], Left(Server))
        BY <4>1, <4>2, ChangedFollows
      <4>4. Left(Server)' = Left(Server) BY <2>2, LeftStays
      <4> QED BY <4>1, <4>3, <4>4, <3>1, <2>2 DEF Follows
    <3> QED BY <2>2, <2>3, <3>2, <3>3, <1>6 DEF Checked, Agreed
  <2> QED BY <2>4, <2>5 DEF Side
<1> QED
  <2>1. ~Waits("server") => ToServer # <<>>
    BY DEF Waits, Heard, Other, ToServer
  <2>2. \/ Gives(side, wire)
        \/ ~Waits(side) /\ Gives(side, Unpacked(side))
        \/ /\ ~Waits(side) /\ Message(side) = Noise
           /\ wire' = [wire EXCEPT ![Other(side)][1] = Endless]
           /\ UNCHANGED <<pc, closed, vectors, keys>>
    BY DEF UnpackFails
  <2>3. CASE side = "client"
    BY <2>2, <2>3, <1>1, <1>2, <1>6 DEF Gives
  <2>4. CASE side = "server"
    BY <2>1, <2>2, <2>4, <1>3, <1>4, <1>5, <1>6 DEF Gives
  <2> QED BY <2>3, <2>4 DEF Side
-----------------------------------------------------------------------------
(* The client's handshake.                                                 *)
LEMMA FourOf ==
  ASSUME NEW S, NEW a \in S, NEW b \in S, NEW c \in S, NEW d \in S
  PROVE  <<a, b, c, d>> \in Seq(S)
OBVIOUS

LEMMA HelloFollows == Follows(Hello, Left("greeting"))
<1>1. Hello[1] \in Sayings /\ Hello[2] \in Sayings /\ Hello[3] \in Sayings /\ Hello[4] \in Sayings
  BY DEF Sayings
<1>2. Hello = <<Hello[1], Hello[2], Hello[3], Hello[4]>> BY DEF Hello
<1>3. Hello \in Seq(Sayings) BY <1>1, <1>2, FourOf
<1> QED BY <1>3 DEF Follows, Left

LEMMA ClientHelloKeeps ==
  ASSUME SecureInv, ClientHello, UNCHANGED <<app, key>>
  PROVE  SecureInv'
<1> USE DEF SecureInv
<1>1. Client = "hello" BY DEF ClientHello, Client
<1>2. CASE PackThrows("client", wire)
  <2>1. Placed(wire)' /\ UNCHANGED ToServer /\ Fails("client")
    BY <1>2 DEF PackThrows, Types, Placed, ToServer
  <2> QED BY <1>1, <2>1, ClientFails
<1>3. CASE /\ Packs("client", wire, Hello)
           /\ vectors' = [vectors EXCEPT !["client"].pre_secret = "pre", !["client"].rand_c = "c"]
           /\ Goes("client", "greeting") /\ UNCHANGED keys
  <2>1. Placed(pc)' /\ Client' = "greeting" /\ UNCHANGED Server
    BY <1>3, SideGoes DEF Goes, Side, Types
  <2>2. /\ Placed(vectors)' /\ UNCHANGED ServerV
        /\ ClientV' = [ClientV EXCEPT !.pre_secret = "pre", !.rand_c = "c"]
    BY <1>3 DEF Types, Placed, Side, ClientV, ServerV
  <2>3. ClientV' \in Vectors /\ ClientV'.pre_secret = "pre"
    BY <2>2 DEF Types, Vectors, Words
  <2>4. UNCHANGED <<Replied, Answers>> BY <2>2 DEF Replied, Answers
  <2>5. Placed(wire)' /\ UNCHANGED ToClient /\ ToServer' = ToServer \o Hello
    BY <1>3 DEF Packs, Types, Placed, Side, ToServer, ToClient
  <2>6. Types' BY <2>1, <2>2, <2>3, <2>5, <1>3 DEF Types, Placed
  <2>7. Said'
    <3>1. ToServer = <<>> /\ Server \in {"greeting", "failed"} BY <1>1 DEF Said
    <3>2. ToServer' = Hello
      <4>1. Hello \in Seq(Sayings) BY HelloFollows DEF Follows
      <4> QED BY <2>5, <3>1, <4>1, ConcatEmptySeq
    <3>3. Left("greeting")' = Left("greeting") /\ UNCHANGED Sayings
      BY LeftStays, SayingsStay
    <3> QED BY <3>1, <3>2, <3>3, <2>1, HelloFollows DEF Said, Follows
  <2>8. Answered' BY <2>1, <2>4, <2>5, <1>1 DEF Answered
  <2>9. Checked' BY <2>1, <2>2, <2>4 DEF Checked
  <2>10. Agreed' BY <2>1, <2>2, <2>3, <1>1 DEF Agreed
  <2> QED BY <2>6, <2>7, <2>8, <2>9, <2>10
<1> QED BY <1>2, <1>3 DEF ClientHello, Hello

(* A client that hears what it expects and has nothing to say.             *)
LEMMA ClientHears ==
  ASSUME SecureInv, NEW to \in {"rand", "proof"}, Client \in {"greeting", "rand"},
         ToClient # <<>>, wire' = Unpacked("client"), Goes("client", to),
         Placed(vectors)', UNCHANGED <<ServerV, keys, app, key>>,
         ClientV' \in Vectors, ClientV'.pre_secret = ClientV.pre_secret
  PROVE  SecureInv'
<1> USE DEF SecureInv
<1>1. Placed(pc)' /\ Client' = to /\ UNCHANGED Server
  BY SideGoes DEF Goes, Side, Types
<1>2. Placed(wire)' /\ UNCHANGED ToServer /\ ToClient' = Tail(ToClient)
  BY UnpackedIs DEF Types, ToServer, ToClient
<1>3. UNCHANGED <<Replied, Answers>> BY DEF Replied, Answers
<1>4. Types' BY <1>1, <1>2 DEF Types, Placed
<1>5. Said'
  <2>1. Left(Server)' = Left(Server) /\ UNCHANGED Sayings
    BY <1>1, LeftStays, SayingsStay
  <2> QED BY <2>1, <1>1, <1>2 DEF Said, Follows
<1>6. Answered' BY <1>1, <1>2, <1>3, AnswersAfterOne DEF Answered
<1>7. Checked' BY <1>1, <1>3 DEF Checked
<1>8. Agreed' BY <1>1 DEF Agreed
<1> QED BY <1>4, <1>5, <1>6, <1>7, <1>8

LEMMA ClientThrows ==
  ASSUME SecureInv, Client # "done", Throws("client", Unpacked("client")),
         UNCHANGED <<app, key>>
  PROVE  SecureInv'
<1>1. Placed(wire)' /\ UNCHANGED ToServer /\ Fails("client")
  BY UnpackedIs DEF Throws, SecureInv, Types, Placed, ToServer
<1> QED BY <1>1, ClientFails

LEMMA ClientHas ==
  ASSUME SecureInv, NEW at, Hears("client", at)
  PROVE  Client = at /\ ToClient # <<>> /\ Message("client") = Head(ToClient)
BY DEF Hears, Waits, Heard, Message, Other, Client, ToClient

LEMMA ClientGetsGreetingKeeps ==
  ASSUME SecureInv, ClientGetsGreeting, UNCHANGED <<app, key>>
  PROVE  SecureInv'
<1>1. Client = "greeting" /\ ToClient # <<>>
  BY ClientHas DEF ClientGetsGreeting
<1>2. CASE Throws("client", Unpacked("client"))
  BY <1>1, <1>2, ClientThrows
<1>3. CASE wire' = Unpacked("client") /\ Goes("client", "rand") /\ UNCHANGED <<vectors, keys>>
  <2>1. Placed(vectors)' /\ UNCHANGED <<ClientV, ServerV>> /\ ClientV \in Vectors
    BY <1>3 DEF SecureInv, Types, Placed, ClientV, ServerV
  <2> QED BY <1>1, <1>3, <2>1, ClientHears
<1> QED BY <1>2, <1>3 DEF ClientGetsGreeting

LEMMA AnswersSay ==
  ASSUME ServerV \in Vectors, NEW msg \in Answers, msg # Endless
  PROVE  Content(msg) \in Words
<1>1. CASE msg = Noise BY <1>1 DEF Content, Words
<1>2. CASE msg # Noise /\ msg = H2(ServerV)
  BY <1>2 DEF Content, H2, Vectors
<1>3. CASE msg # Noise /\ msg \in {<<"failed">>, <<"ok">>, <<"rand", "s">>}
  <2>1. Content(msg) = msg[Len(msg)] BY <1>3 DEF Content
  <2>2. msg = <<"failed">> => msg[Len(msg)] = "failed" OBVIOUS
  <2>3. msg = <<"ok">> => msg[Len(msg)] = "ok" OBVIOUS
  <2>4. msg = <<"rand", "s">> => msg[Len(msg)] = "s" OBVIOUS
  <2> QED BY <1>3, <2>1, <2>2, <2>3, <2>4 DEF Words
<1> QED BY <1>1, <1>2, <1>3 DEF Answers

LEMMA ClientGetsRandKeeps ==
  ASSUME SecureInv, ClientGetsRand, UNCHANGED <<app, key>>
  PROVE  SecureInv'
<1>1. /\ Client = "rand" /\ ToClient # <<>> /\ Message("client") = Head(ToClient)
      /\ Message("client") # Endless
  BY ClientHas DEF ClientGetsRand, Hears, Waits
<1>2. Content(Message("client")) \in Words
  BY <1>1, AnswersAfterOne, AnswersSay DEF SecureInv, Types
<1>3. /\ vectors' = [vectors EXCEPT !["client"].rand_s = Content(Message("client"))]
      /\ wire' = Unpacked("client") /\ Goes("client", "proof") /\ UNCHANGED keys
  BY DEF ClientGetsRand
<1>4. /\ Placed(vectors)' /\ UNCHANGED ServerV
      /\ ClientV' = [ClientV EXCEPT !.rand_s = Content(Message("client"))]
  BY <1>3 DEF SecureInv, Types, Placed, Side, ClientV, ServerV
<1>5. ClientV' \in Vectors /\ ClientV'.pre_secret = ClientV.pre_secret
  BY <1>2, <1>4 DEF SecureInv, Types, Vectors
<1> QED BY <1>1, <1>3, <1>4, <1>5, ClientHears

(* The proof is the server's, of the vectors that it has.                  *)
LEMMA H2Tells ==
  ASSUME NEW v \in Vectors, NEW u \in Vectors, H2(v) = H2(u)
  PROVE  v = u
<1>1. H1(v) = H1(u) /\ v.rand_c = u.rand_c /\ v.rand_s = u.rand_s
  BY DEF H2
<1>2. v.pre_secret = u.pre_secret BY <1>1 DEF H1
<1> QED BY <1>1, <1>2 DEF Vectors

LEMMA ProofIsOfServer ==
  ASSUME ServerV \in Vectors, NEW v \in Vectors, H2(v) \in Answers
  PROVE  Replied /\ v = ServerV
<1>1. H2(v) # Noise BY NoiseAssumption
<1>2. H2(v) \notin {<<"failed">>, <<"ok">>, <<"rand", "s">>, Endless}
  <2>1. Len(H2(v)) = 4 BY DEF H2
  <2>2. Len(<<"failed">>) = 1 /\ Len(<<"ok">>) = 1 /\ Len(<<"rand", "s">>) = 2 /\ Len(Endless) = 1
    BY DEF Endless
  <2> QED BY <2>1, <2>2
<1>3. H2(v) \in IF Replied THEN {H2(ServerV)} ELSE {}
  BY <1>1, <1>2 DEF Answers
<1>4. Replied /\ H2(v) = H2(ServerV) BY <1>3
<1> QED BY <1>4, H2Tells

LEMMA ClientGetsProofKeeps ==
  ASSUME SecureInv, ClientGetsProof, UNCHANGED <<app, key>>
  PROVE  SecureInv'
<1> USE DEF SecureInv
<1>1. Client = "proof" /\ ToClient # <<>> /\ Message("client") = Head(ToClient)
  BY ClientHas DEF ClientGetsProof
<1>2. CASE Throws("client", Unpacked("client"))
  BY <1>1, <1>2, ClientThrows
<1>3. CASE PackThrows("client", Unpacked("client"))
  <2>1. Throws("client", Unpacked("client")) BY <1>3 DEF PackThrows, Throws
  <2> QED BY <1>1, <2>1, ClientThrows
<1>4. CASE /\ ServerVerified(Message("client"), ClientV)
           /\ Packs("client", Unpacked("client"), <<H3(ClientV)>>)
           /\ SetsUp("client", ClientV) /\ Goes("client", "done") /\ UNCHANGED vectors
  <2>1. Placed(pc)' /\ Client' = "done" /\ UNCHANGED Server
    BY <1>4, SideGoes DEF Goes, Side, Types
  <2>2. UNCHANGED <<ClientV, ServerV, Replied>>
    BY <1>4 DEF ClientV, ServerV, Replied
  <2>3. Replied /\ ClientV = ServerV
    <3>1. H2(ClientV) \in Answers
      BY <1>1, <1>4, AnswersAfterOne DEF ServerVerified
    <3> QED BY <3>1, ProofIsOfServer DEF Types
  <2>4. /\ Placed(keys)' /\ keys'["server"] = keys["server"]
        /\ keys'["client"] = [reads |-> ksw(ClientV), writes |-> kcw(ClientV)]
    BY <1>4 DEF SetsUp, Types, Placed, Side
  <2>5. Placed(wire)'
    <3>1. Placed(Unpacked("client")) BY UnpackedIs DEF Types
    <3> QED BY <3>1, <1>4 DEF Packs, Placed
  <2>6. Types' BY <1>4, <2>1, <2>2, <2>4, <2>5 DEF Types, Placed
  <2>7. Said' /\ Answered' BY <2>1 DEF Said, Answered
  <2>8. Checked' BY <2>1, <2>2 DEF Checked
  <2>9. Agreed'
    <3>1. ClientV.pre_secret = "pre" BY <1>1 DEF Agreed
    <3>2. Server # "done" BY <1>1 DEF Agreed
    <3>3. Replied' /\ ClientV' = ServerV' BY <2>2, <2>3
    <3>4. ksw(ClientV)' = ksw(ClientV) /\ kcw(ClientV)' = kcw(ClientV)
      BY <2>2 DEF ksw, kcw, H1
    <3> QED BY <3>1, <3>2, <3>3, <3>4, <2>1, <2>2, <2>4 DEF Agreed
  <2> QED BY <2>6, <2>7, <2>8, <2>9
<1> QED BY <1>2, <1>3, <1>4 DEF ClientGetsProof, ClientV
-----------------------------------------------------------------------------
(* The server's handshake.                                                 *)
LEMMA ServerHas ==
  ASSUME SecureInv, NEW at, Hears("server", at)
  PROVE  /\ Server = at /\ ToServer # <<>>
         /\ Message("server") = Head(ToServer) /\ Message("server") # Endless
BY DEF Hears, Waits, Heard, Message, Other, Server, ToServer

LEMMA ServerThrows ==
  ASSUME SecureInv, Server # "done", ToServer # <<>>,
         Throws("server", Unpacked("server")), UNCHANGED <<app, key>>
  PROVE  SecureInv'
<1>1. Placed(wire)' /\ UNCHANGED ToClient /\ Fails("server")
  BY UnpackedIs DEF Throws, SecureInv, Types, Placed, ToClient
<1> QED BY <1>1, ServerFails DEF SecureInv, Answered

Shift(h, g) ==
    /\ Len(h) \in Nat /\ Len(g) = Len(h) - 1
    /\ \A n \in 1..Len(g) : g[n] = h[n + 1]

LEMMA TuplesShift ==
  ASSUME NEW a, NEW b, NEW c, NEW d
  PROVE  /\ Shift(<<a, b, c, d>>, <<b, c, d>>) /\ Shift(<<b, c, d>>, <<c, d>>)
         /\ Shift(<<c, d>>, <<d>>) /\ Shift(<<d>>, <<>>)
<1>1. Shift(<<a, b, c, d>>, <<b, c, d>>) BY DEF Shift
<1>2. Shift(<<b, c, d>>, <<c, d>>) BY DEF Shift
<1>3. Shift(<<c, d>>, <<d>>) BY DEF Shift
<1>4. Shift(<<d>>, <<>>) BY DEF Shift
<1> QED BY <1>1, <1>2, <1>3, <1>4

LEMMA LeftShifts ==
  /\ Shift(Left("greeting"), Left("app")) /\ Shift(Left("app"), Left("rand"))
  /\ Shift(Left("rand"), Left("secret")) /\ Shift(Left("secret"), Left("proof"))
BY LeftIs, TuplesShift

(* The message in some place is the one of the hello or is damaged, and    *)
(* the rest is left for the next place.                                    *)
LEMMA ServerTurn ==
  ASSUME SecureInv, NEW at, NEW to, ToServer # <<>>, Server = at,
         <<at, to>> \in {<<"greeting", "app">>, <<"app", "rand">>,
                         <<"rand", "secret">>, <<"secret", "proof">>}
  PROVE  /\ Client \notin {"hello", "done"}
         /\ Follows(Tail(ToServer), Left(to))
         /\ Head(ToServer) \in {Left(at)[1], Noise, Endless}
<1> USE DEF SecureInv
<1>1. at \in {"greeting", "app", "rand", "secret"} BY Zenon
<1>2. Client # "done" BY <1>1 DEF Checked, Agreed
<1>3. Client # "hello" BY DEF Said
<1>4. Follows(ToServer, Left(at)) BY <1>1, <1>2 DEF Said
<1>5. Shift(Left(at), Left(to)) BY LeftShifts, Zenon
<1>6. \A g : g = Left(to) =>
         /\ Head(ToServer) \in {Left(at)[1], Noise, Endless}
         /\ Follows(Tail(ToServer), g)
  BY <1>4, <1>5, NextFollows DEF Shift
<1> QED BY <1>2, <1>3, <1>6

(* The server hears one message of the hello, and stays quiet. What it has *)
(* checked by then is stated by the caller.                                *)
LEMMA ServerHears ==
  ASSUME SecureInv, NEW at, NEW to, ToServer # <<>>, Server = at, Goes("server", to),
         <<at, to>> \in {<<"greeting", "app">>, <<"app", "rand">>, <<"rand", "secret">>},
         wire' = Unpacked("server"), UNCHANGED <<ClientV, keys, app, key>>,
         Placed(vectors)', ServerV' \in Vectors, ServerV'.rand_s = ServerV.rand_s,
         to \in {"rand", "secret"} => app["client"] = app["server"]
  PROVE  SecureInv'
<1> USE DEF SecureInv
<1>1. /\ at \in {"greeting", "app", "rand"} /\ to \in {"app", "rand", "secret"}
  BY Zenon
<1>2. Placed(pc)' /\ Server' = to /\ UNCHANGED Client
  BY SideGoes DEF Goes, Side, Types
<1>3. Placed(wire)' /\ UNCHANGED ToClient /\ ToServer' = Tail(ToServer)
  BY UnpackedIs DEF Types, ToServer, ToClient
<1>4. ~Replied /\ ~Replied' BY <1>1 DEF Checked, Replied
<1>5. Answers' = Answers BY <1>4 DEF Answers
<1>6. Client \notin {"hello", "done"} /\ Follows(Tail(ToServer), Left(to))
  BY ServerTurn
<1>7. Types' BY <1>1, <1>2, <1>3 DEF Types, Placed
<1>8. Said'
  <2>1. Left(to)' = Left(to) /\ UNCHANGED Sayings BY LeftStays, SayingsStay
  <2> QED BY <2>1, <1>1, <1>2, <1>3, <1>6 DEF Said, Follows
<1>9. Answered' BY <1>2, <1>3, <1>5 DEF Answered
<1>10. Checked' BY <1>1, <1>2, <1>4 DEF Checked
<1>11. Agreed' BY <1>1, <1>2, <1>6 DEF Agreed
<1> QED BY <1>7, <1>8, <1>9, <1>10, <1>11

LEMMA ServerGetsGreetingKeeps ==
  ASSUME SecureInv, ServerGets("greeting", <<"librho">>, "app"), UNCHANGED <<app, key>>
  PROVE  SecureInv'
<1>1. Server = "greeting" /\ ToServer # <<>> BY ServerHas DEF ServerGets
<1>2. CASE s_failConnection(Unpacked("server")) BY <1>1, <1>2, ConnectionFails
<1>3. CASE wire' = Unpacked("server") /\ Goes("server", "app") /\ UNCHANGED <<vectors, keys>>
  <2>1. Placed(vectors)' /\ UNCHANGED <<ClientV, ServerV>> /\ ServerV \in Vectors
    BY <1>3 DEF SecureInv, Types, Placed, ClientV, ServerV
  <2> QED BY <1>1, <1>3, <2>1, ServerHears
<1> QED BY <1>2, <1>3 DEF ServerGets

LEMMA ServerGetsAppKeeps ==
  ASSUME SecureInv, ServerGets("app", <<"app", app["server"]>>, "rand"), UNCHANGED <<app, key>>
  PROVE  SecureInv'
<1>1. /\ Server = "app" /\ ToServer # <<>>
      /\ Message("server") = Head(ToServer) /\ Message("server") # Endless
  BY ServerHas DEF ServerGets
<1>2. CASE s_failConnection(Unpacked("server")) BY <1>1, <1>2, ConnectionFails
<1>3. CASE /\ Message("server") = <<"app", app["server"]>>
           /\ wire' = Unpacked("server") /\ Goes("server", "rand") /\ UNCHANGED <<vectors, keys>>
  <2>1. Placed(vectors)' /\ UNCHANGED <<ClientV, ServerV>> /\ ServerV \in Vectors
    BY <1>3 DEF SecureInv, Types, Placed, ClientV, ServerV
  <2>2. app["client"] = app["server"]
    <3>1. Message("server") # Noise BY <1>3, NoiseAssumption DEF SecureInv, Types
    <3>2. Message("server") = Left("app")[1] BY <1>1, <3>1, ServerTurn
    <3>3. Message("server") = <<"app", app["client"]>> BY <3>2, LeftIs
    <3> QED BY <3>3, <1>3
  <2> QED BY <1>1, <1>3, <2>1, <2>2, ServerHears
<1> QED BY <1>2, <1>3 DEF ServerGets

LEMMA ServerGetsRandKeeps ==
  ASSUME SecureInv, ServerGetsRand, UNCHANGED <<app, key>>
  PROVE  SecureInv'
<1>1. /\ Server = "rand" /\ ToServer # <<>>
      /\ Message("server") = Head(ToServer) /\ Message("server") # Endless
  BY ServerHas DEF ServerGetsRand
<1>2. Content(Message("server")) \in Words
  <2>1. Message("server") \in {<<"rand", "c">>, Noise} BY <1>1, ServerTurn, LeftIs
  <2>2. Content(Noise) = Noise BY DEF Content
  <2>3. <<"rand", "c">> # Noise => Content(<<"rand", "c">>) = "c" BY DEF Content
  <2> QED BY <2>1, <2>2, <2>3 DEF Words
<1>3. /\ vectors' = [vectors EXCEPT !["server"].rand_c = Content(Message("server"))]
      /\ wire' = Unpacked("server") /\ Goes("server", "secret") /\ UNCHANGED keys
  BY DEF ServerGetsRand
<1>4. /\ Placed(vectors)' /\ UNCHANGED ClientV
      /\ ServerV' = [ServerV EXCEPT !.rand_c = Content(Message("server"))]
  BY <1>3 DEF SecureInv, Types, Placed, Side, ClientV, ServerV
<1>5. ServerV' \in Vectors /\ ServerV'.rand_s = ServerV.rand_s
  BY <1>2, <1>4 DEF SecureInv, Types, Vectors
<1>6. app["client"] = app["server"] BY <1>1 DEF SecureInv, Checked
<1> QED BY <1>1, <1>3, <1>4, <1>5, <1>6, ServerHears

(* The server replies when it has made its own random vector. If it could  *)
(* read the pre-secret, the client has its key.                            *)
LEMMA ServerGetsSecretKeeps ==
  ASSUME SecureInv, ServerGetsSecret, UNCHANGED <<app, key>>
  PROVE  SecureInv'
<1> USE DEF SecureInv
<1> DEFINE msg == Message("server")
           readable == msg # Noise /\ msg[2] = key["server"]
           v == [ServerV EXCEPT !.pre_secret = IF readable THEN Content(msg) ELSE Noise,
                                !.rand_s = "s"]
<1> HIDE DEF v
<1>1. Server = "secret" /\ ToServer # <<>> /\ msg = Head(ToServer) /\ msg # Endless
  BY ServerHas DEF ServerGetsSecret
<1>2. CASE Throws("server", Unpacked("server"))
  BY <1>1, <1>2, ServerThrows
<1>3. CASE s_failConnection(Unpacked("server"))
  BY <1>1, <1>3, ConnectionFails
<1>4. CASE PackThrows("server", Unpacked("server"))
  <2>1. Throws("server", Unpacked("server")) BY <1>4 DEF PackThrows, Throws
  <2> QED BY <1>1, <2>1, ServerThrows
<1>5. CASE /\ Packs("server", Unpacked("server"), Reply(v))
           /\ vectors' = [vectors EXCEPT !["server"] = v]
           /\ Goes("server", "proof") /\ UNCHANGED keys
  <2>1. Placed(pc)' /\ Server' = "proof" /\ UNCHANGED Client
    BY <1>5, SideGoes DEF Goes, Side, Types
  <2>2. Placed(vectors)' /\ ServerV' = v /\ UNCHANGED ClientV
    BY <1>5 DEF Types, Placed, Side, ClientV, ServerV
  <2>3. Placed(wire)' /\ ToServer' = Tail(ToServer) /\ ToClient' = ToClient \o Reply(v)
    <3>1. /\ Placed(Unpacked("server")) /\ Unpacked("server")["client"] = Tail(ToServer)
          /\ Unpacked("server")["server"] = ToClient
      BY UnpackedIs DEF Types
    <3> QED BY <3>1, <1>5 DEF Packs, Placed, Side, ToServer, ToClient
  <2>4. /\ Client \notin {"hello", "done"} /\ Follows(Tail(ToServer), Left("proof"))
        /\ msg \in {<<"enc", key["client"], "pre">>, Noise}
    BY <1>1, ServerTurn, LeftIs
  <2>5. /\ v \in Vectors /\ v.rand_s = "s"
        /\ v.pre_secret = "pre" => key["client"] = key["server"]
    <3>1. CASE readable
      <4>1. msg = <<"enc", key["client"], "pre">> /\ msg # Noise BY <2>4, <3>1
      <4>2. msg[2] = key["client"] BY <4>1
      <4>3. Content(msg) = "pre"
        <5>1. Content(msg) = msg[Len(msg)] BY <4>1 DEF Content
        <5>2. \A a, b, c : <<a, b, c>>[Len(<<a, b, c>>)] = c OBVIOUS
        <5> QED BY <4>1, <5>1, <5>2
      <4>4. v = [ServerV EXCEPT !.pre_secret = "pre", !.rand_s = "s"]
        BY <3>1, <4>3 DEF v
      <4>5. key["client"] = key["server"] BY <3>1, <4>2
      <4> QED BY <4>4, <4>5 DEF Types, Vectors, Words
    <3>2. CASE ~readable
      <4>1. v = [ServerV EXCEPT !.pre_secret = Noise, !.rand_s = "s"]
        BY <3>2 DEF v
      <4> QED BY <4>1, NoiseAssumption DEF Types, Vectors, Words
    <3> QED BY <3>1, <3>2
  <2>6. ~Replied /\ Replied' BY <1>1, <2>2, <2>5 DEF Checked, Replied
  <2>7. Types' BY <1>5, <2>1, <2>2, <2>3, <2>5 DEF Types, Placed
  <2>8. Said'
    <3>1. Left("proof")' = Left("proof") /\ UNCHANGED Sayings BY LeftStays, SayingsStay
    <3> QED BY <3>1, <2>1, <2>3, <2>4 DEF Said, Follows
  <2>9. Answered'
    <3> SUFFICES ASSUME Client \notin {"done", "failed"} PROVE ToClient' \in Seq(Answers')
      BY <2>1 DEF Answered
    <3>1. ToClient \in Seq(Answers) BY DEF Answered
    <3>2. Answers \subseteq Answers' BY <2>6 DEF Answers
    <3>3. Reply(v) \in Seq(Answers')
      <4>1. H2(v) \in Answers'
        <5>1. H2(ServerV)' = H2(v) BY <2>2 DEF H2, H1
        <5> QED BY <5>1, <2>6 DEF Answers
      <4>2. <<"ok">> \in Answers' /\ <<"rand", v.rand_s>> \in Answers'
        BY <2>5 DEF Answers
      <4>3. \A S : \A a, b, c \in S : <<a, b, c>> \in Seq(S) OBVIOUS
      <4> QED BY <4>1, <4>2, <4>3 DEF Reply
    <3>4. ToClient \in Seq(Answers') BY <3>1, <3>2, SeqMonotonic
    <3> QED BY <2>3, <3>3, <3>4, ConcatProperties
  <2>10. Checked'
    <3>1. app["client"] = app["server"] BY <1>1 DEF Checked
    <3> QED BY <3>1, <2>1, <2>2, <2>5 DEF Checked
  <2>11. Agreed' BY <2>1, <2>2, <2>4 DEF Agreed
  <2> QED BY <2>7, <2>8, <2>9, <2>10, <2>11
<1> QED
  <2>1. v = [vectors["server"] EXCEPT !.pre_secret = IF readable THEN Content(msg) ELSE Noise,
                                      !.rand_s = "s"]
    BY DEF v, ServerV
  <2> QED BY <2>1, <1>2, <1>3, <1>4, <1>5 DEF ServerGetsSecret

LEMMA ServerGetsProofKeeps ==
  ASSUME SecureInv, ServerGetsProof, UNCHANGED <<app, key>>
  PROVE  SecureInv'
<1> USE DEF SecureInv
<1>1. Server = "proof" /\ ToServer # <<>> BY ServerHas DEF ServerGetsProof
<1>2. CASE Throws("server", Unpacked("server"))
  BY <1>1, <1>2, ServerThrows
<1>3. CASE /\ wire' = Unpacked("server") /\ SetsUp("server", ServerV)
           /\ Goes("server", "done") /\ UNCHANGED vectors
  <2>1. Placed(pc)' /\ Server' = "done" /\ UNCHANGED Client
    BY <1>3, SideGoes DEF Goes, Side, Types
  <2>2. UNCHANGED <<ClientV, ServerV, Replied, Answers>>
    BY <1>3 DEF ClientV, ServerV, Replied, Answers
  <2>3. Placed(wire)' /\ UNCHANGED ToClient
    BY <1>3, UnpackedIs DEF Types, ToClient
  <2>4. Client = "done"
    <3>1. SUFFICES ASSUME Client # "done" PROVE FALSE OBVIOUS
    <3>2. Follows(ToServer, <<>>) BY <1>1, <3>1, LeftIs DEF Said
    <3>3. ToServer \in Seq(Sayings) /\ Len(ToServer) <= 0 BY <3>2 DEF Follows
    <3> QED BY <1>1, <3>3, EmptySeq
  <2>5. /\ Placed(keys)' /\ keys'["client"] = keys["client"]
        /\ keys'["server"] = [reads |-> kcw(ServerV), writes |-> ksw(ServerV)]
    BY <1>3 DEF SetsUp, Types, Placed, Side
  <2>6. Types' BY <1>3, <2>1, <2>2, <2>3, <2>5 DEF Types, Placed
  <2>7. Said' /\ Answered' BY <2>1, <2>4 DEF Said, Answered
  <2>8. Checked' BY <2>1, <2>2 DEF Checked
  <2>9. Agreed'
    <3>1. /\ ksw(ServerV)' = ksw(ServerV) /\ kcw(ServerV)' = kcw(ServerV)
          /\ ksw(ClientV)' = ksw(ClientV) /\ kcw(ClientV)' = kcw(ClientV)
      BY <2>2 DEF ksw, kcw, H1
    <3> QED BY <3>1, <2>1, <2>2, <2>4, <2>5 DEF Agreed
  <2> QED BY <2>6, <2>7, <2>8, <2>9
<1> QED BY <1>2, <1>3 DEF ServerGetsProof, ServerV
-----------------------------------------------------------------------------
(* The AES streams move only when the client has set up its keys, and then *)
(* it does not matter to the handshake what they send.                     *)
LEMMA StreamsKeep ==
  ASSUME SecureInv, Client = "done", UNCHANGED <<setupVars, keys>>, Placed(wire)'
  PROVE  SecureInv'
<1>1. UNCHANGED <<Client, Server, ClientV, ServerV, Replied, pc, vectors, app, key>>
  BY Still DEF setupVars
<1>2. Types' BY <1>1 DEF SecureInv, Types, Placed
<1>3. Said' /\ Answered' BY <1>1 DEF Said, Answered
<1>4. Checked' /\ Agreed'
  <2>1. /\ ksw(ServerV)' = ksw(ServerV) /\ kcw(ServerV)' = kcw(ServerV)
        /\ ksw(ClientV)' = ksw(ClientV) /\ kcw(ClientV)' = kcw(ClientV)
    BY <1>1 DEF ksw, kcw, H1
  <2> QED BY <1>1, <2>1 DEF SecureInv, Checked, Agreed
<1> QED BY <1>2, <1>3, <1>4 DEF SecureInv

LEMMA WritesKeep ==
  ASSUME SecureInv, Writes
  PROVE  SecureInv'
<1>1. Client = "done" /\ UNCHANGED setupVars BY DEF Writes, Client
<1>2. UNCHANGED keys /\ Placed(wire)'
  <2>1. Placed(wire) BY DEF SecureInv, Types
  <2>2. ASSUME NEW len \in WriteLengths, Write(len) PROVE UNCHANGED <<wire, keys>>
    BY <2>2 DEF Write, innerVars
  <2>3. ASSUME Flush PROVE UNCHANGED keys /\ \E b : Send(b)
    BY <2>3 DEF Flush
  <2>4. ASSUME NEW n \in 0..BufBlocks, FlushFails(n) PROVE UNCHANGED keys /\ \E b : Send(b)
    BY <2>4 DEF FlushFails
  <2>5. ASSUME ResetWriter \/ Destroy PROVE UNCHANGED <<wire, keys>>
    BY <2>5 DEF ResetWriter, Destroy, innerVars
  <2>6. ASSUME NEW b, Send(b) PROVE Placed(wire)'
    BY <2>1, <2>6 DEF Send, Placed
  <2> QED BY <2>1, <2>2, <2>3, <2>4, <2>5, <2>6 DEF Writes, WriterCall, Placed
<1> QED BY <1>1, <1>2, StreamsKeep

LEMMA ReadsKeep ==
  ASSUME SecureInv, Reads
  PROVE  SecureInv'
<1>1. Server = "done" /\ UNCHANGED setupVars BY DEF Reads, Server
<1>2. Client = "done" BY <1>1 DEF SecureInv, Agreed
<1>3. UNCHANGED keys /\ Placed(wire)'
  <2>1. Placed(wire) BY DEF SecureInv, Types
  <2>2. ASSUME ReadInitVector PROVE UNCHANGED keys /\ \E n : Consume(n)
    BY <2>2 DEF ReadInitVector, Tell
  <2>3. ASSUME ReadHeader PROVE UNCHANGED keys /\ \E n : Consume(n)
    BY <2>3 DEF ReadHeader, Tell
  <2>4. ASSUME ReadRest PROVE UNCHANGED keys /\ \E n : Consume(n)
    BY <2>4 DEF ReadRest, Tell
  <2>5. ASSUME ResetReader PROVE UNCHANGED <<wire, keys>>
    BY <2>5 DEF ResetReader, innerVars
  <2>6. ASSUME NEW len \in ReadLengths, Read(len) PROVE UNCHANGED <<wire, keys>>
    BY <2>6 DEF Read, innerVars
  <2>7. ASSUME NEW n, Consume(n) PROVE Placed(wire)'
    BY <2>1, <2>7 DEF Consume, Placed
  <2> QED BY <2>1, <2>2, <2>3, <2>4, <2>5, <2>6, <2>7 DEF Reads, ReaderStep, Placed
<1> QED BY <1>1, <1>2, <1>3, StreamsKeep

(* A fault loses what comes last, or damages one message.                  *)
LEMMA FaultsKeep ==
  ASSUME SecureInv, Faults
  PROVE  SecureInv'
<1> USE DEF SecureInv
<1>1. UNCHANGED <<setupVars, keys, pc, vectors, app, key>>
  BY DEF Faults, Cut, Damage, setupVars
<1>2. UNCHANGED <<Client, Server, ClientV, ServerV, Replied, Hello, Sayings, Answers>>
  BY <1>1, Still
<1>3. Left(Server)' = Left(Server) BY <1>1, <1>2, LeftStays
<1>4. SUFFICES /\ Placed(wire)'
               /\ Client \notin {"done", "failed"} => ToClient' \in Seq(Answers)
               /\ Client = "hello" => ToServer' = <<>>
               /\ Client # "done" /\ Server # "failed" => Follows(ToServer', Left(Server))
  <2>1. Types' BY <1>1, <1>2, <1>4 DEF Types, Placed
  <2>2. Answered' BY <1>2, <1>4 DEF Answered
  <2>3. Said' BY <1>2, <1>3, <1>4 DEF Said, Follows
  <2>4. Checked' BY <1>1, <1>2 DEF Checked
  <2>5. Agreed'
    <3>1. /\ ksw(ServerV)' = ksw(ServerV) /\ kcw(ServerV)' = kcw(ServerV)
          /\ ksw(ClientV)' = ksw(ClientV) /\ kcw(ClientV)' = kcw(ClientV)
      BY <1>2 DEF ksw, kcw, H1
    <3> QED BY <3>1, <1>1, <1>2 DEF Agreed
  <2> QED BY <2>1, <2>2, <2>3, <2>4, <2>5
<1>5. Client # "done" /\ Server # "failed" => Follows(ToServer, Left(Server)) /\ Len(Left(Server)) \in Nat
  <2>1. Server \in {"greeting", "app", "rand", "secret", "proof"} => Len(Left(Server)) \in Nat
    BY LeftIs
  <2> QED BY <2>1 DEF Said, Types
<1>6. Client \notin {"done", "failed"} => ToClient \in Seq(Answers)
  BY DEF Answered
<1>7. Client = "hello" => ToServer = <<>> BY DEF Said
<1>8. CASE Cut
  <2>1. PICK m \in 0..Len(ToServer), n \in 0..Len(ToClient) :
           wire' = [client |-> SubSeq(ToServer, 1, m), server |-> SubSeq(ToClient, 1, n)]
    BY <1>8 DEF Cut, ToServer, ToClient
  <2>2. Placed(wire)' /\ ToServer' = SubSeq(ToServer, 1, m) /\ ToClient' = SubSeq(ToClient, 1, n)
    BY <2>1 DEF Placed, Side, ToServer, ToClient
  <2>3. Client = "hello" => ToServer' = <<>>
    <3>1. ASSUME Client = "hello" PROVE SubSeq(ToServer, 1, m) = <<>>
      <4>1. ToServer = <<>> /\ m = 0 BY <3>1, <1>7
      <4> QED BY <4>1, SubSeqEmpty
    <3> QED BY <3>1, <2>2
  <2> QED BY <2>2, <2>3, <1>5, <1>6, CutFollows, CutSequence
<1>9. ASSUME NEW side \in Side, NEW i \in DOMAIN wire[side], Damage(side, i)
      PROVE  /\ Placed(wire)'
             /\ Client \notin {"done", "failed"} => ToClient' \in Seq(Answers)
             /\ Client = "hello" => ToServer' = <<>>
             /\ Client # "done" /\ Server # "failed" => Follows(ToServer', Left(Server))
  <2>1. wire' = [wire EXCEPT ![side][i] = Noise] BY <1>9 DEF Damage
  <2>2. Placed(wire)' BY <2>1 DEF Types, Placed
  <2>3. CASE side = "client"
    <3>1. /\ i \in DOMAIN ToServer /\ ToServer' = [ToServer EXCEPT ![i] = Noise]
          /\ UNCHANGED ToClient
      BY <2>1, <2>3 DEF Types, Placed, Side, ToServer, ToClient
    <3>2. Client # "hello" BY <3>1, <1>7
    <3> QED BY <3>1, <3>2, <2>2, <1>5, <1>6, ChangedFollows
  <2>4. CASE side = "server"
    <3>1. /\ i \in DOMAIN ToClient /\ ToClient' = [ToClient EXCEPT ![i] = Noise]
          /\ UNCHANGED ToServer
      BY <2>1, <2>4 DEF Types, Placed, Side, ToServer, ToClient
    <3>2. Noise \in Answers BY DEF Answers
    <3> QED BY <3>1, <3>2, <2>2, <1>5, <1>6, <1>7, ChangedSequence
  <2> QED BY <2>3, <2>4 DEF Side
<1> QED BY <1>8, <1>9 DEF Faults
-----------------------------------------------------------------------------
LEMMA StepsKeep == SecureInv /\ [Next]_vars => SecureInv'
<1> SUFFICES ASSUME SecureInv, [Next]_vars PROVE SecureInv' OBVIOUS
<1>1. ASSUME NEW side \in Side, Setup(side) PROVE SecureInv'
  <2>1. UNCHANGED <<app, key>> BY <1>1 DEF Setup
  <2>2. CASE UnpackFails(side) BY <2>1, <2>2, UnpackFailsKeeps
  <2>3. CASE ClientStep
    BY <2>1, <2>3, ClientHelloKeeps, ClientGetsGreetingKeeps, ClientGetsRandKeeps,
       ClientGetsProofKeeps DEF ClientStep
  <2>4. CASE ServerStep
    BY <2>1, <2>4, ServerGetsGreetingKeeps, ServerGetsAppKeeps, ServerGetsRandKeeps,
       ServerGetsSecretKeeps, ServerGetsProofKeeps DEF ServerStep
  <2> QED BY <1>1, <2>2, <2>3, <2>4 DEF Setup
<1>2. CASE UNCHANGED vars
  <2>1. UNCHANGED <<pc, vectors, app, key, wire, keys>>
    BY <1>2 DEF vars, setupVars, innerVars
  <2>2. UNCHANGED <<Client, Server, ToServer, ToClient, ClientV, ServerV, Replied, Sayings, Answers>>
    BY <2>1, Still DEF ToServer, ToClient
  <2>3. Left(Server)' = Left(Server) BY <2>1, <2>2, LeftStays
  <2>4. Types' /\ Answered' /\ Checked'
    BY <2>1, <2>2 DEF SecureInv, Types, Placed, Answered, Checked
  <2>5. Said' BY <2>1, <2>2, <2>3 DEF SecureInv, Said, Follows
  <2>6. Agreed'
    <3>1. /\ ksw(ServerV)' = ksw(ServerV) /\ kcw(ServerV)' = kcw(ServerV)
          /\ ksw(ClientV)' = ksw(ClientV) /\ kcw(ClientV)' = kcw(ClientV)
      BY <2>2 DEF ksw, kcw, H1
    <3> QED BY <3>1, <2>1, <2>2 DEF SecureInv, Agreed
  <2> QED BY <2>4, <2>5, <2>6 DEF SecureInv
<1> QED BY <1>1, <1>2, WritesKeep, ReadsKeep, FaultsKeep DEF Next

(* What goes between the two, and what each knows of the other, is as the  *)
(* invariant says, in whatever order m_setupClient and m_setupServer of    *)
(* tSecureStream.cpp come to their messages.                               *)
THEOREM HandshakeInvariant == Spec => []SecureInv
<1>1. SecureInv /\ [Next]_vars => SecureInv' BY StepsKeep
<1> QED BY <1>1, InitSecureInv, PTL DEF Spec

LEMMA InvariantAgrees == SecureInv => KeysAgree
<1> SUFFICES ASSUME SecureInv PROVE KeysAgree OBVIOUS
<1> USE DEF SecureInv
<1>1. ASSUME Client = "done"
      PROVE  /\ ServerV = ClientV
             /\ app["client"] = app["server"] /\ key["client"] = key["server"]
  BY <1>1 DEF Agreed, Checked
<1>2. ASSUME Server = "done"
      PROVE  /\ Client = "done"
             /\ keys["server"].reads = keys["client"].writes
             /\ keys["server"].writes = keys["client"].reads
             /\ keys["server"].reads # keys["server"].writes
  <2>1. /\ Client = "done" /\ ClientV = ServerV
        /\ keys["server"] = [reads |-> kcw(ServerV), writes |-> ksw(ServerV)]
        /\ keys["client"] = [reads |-> ksw(ServerV), writes |-> kcw(ServerV)]
    BY <1>2 DEF Agreed
  <2>2. kcw(ServerV)[1] = "H5" /\ ksw(ServerV)[1] = "H4" BY DEF kcw, ksw
  <2> QED BY <2>1, <2>2
<1> QED BY <1>1, <1>2 DEF KeysAgree, Client, Server, ClientV, ServerV

(* A side that goes on to send or to read with the AES streams has made    *)
(* their keys from the same vectors as the other, and the keys cross.      *)
THEOREM SetupAgrees == Spec => []KeysAgree
BY HandshakeInvariant, InvariantAgrees, PTL
-----------------------------------------------------------------------------
(* What a writer sends after pos bytes, when its next sequence number is   *)
(* seq and the block before has the name last: a vector that is not        *)
(* chained, or the header of a chunk of len - BlockSize bytes, and then    *)
(* its data.                                                               *)
Sealed(k, plain, name, chain) ==
    <<"aes", [plain |-> plain, key |-> k, name |-> name, chain |-> chain]>>
Vector(k, last) == Sealed(k, <<"iv", last>>, -2, -1)
Hdr(pos, len, seq) ==
    [len |-> len, seq |-> seq,
     parity |-> Xor(pos + 1..pos + len - BlockSize, HeaderBytes(len, seq))]
Header(k, pos, len, seq, last) == Sealed(k, <<"head", Hdr(pos, len, seq)>>, last + 1, last)
Upto(len, n) == Least(n * BlockSize, len - BlockSize)
Bytes(pos, len, n) ==
    [j \in 1..Upto(len, n) - Upto(len, n - 1) |-> pos + Upto(len, n - 1) + j]
Data(k, pos, len, n, last) == Sealed(k, <<"data", Bytes(pos, len, n)>>, last + 1 + n, last + n)
Lens == {len \in Nat : len > BlockSize}

(* Where an end of the stream is. Once it is to reset, or has, a vector    *)
(* comes first, and the sequence numbers begin again.                      *)
Fresh(pos, seq, hasIV) == ~hasIV \/ (pos = ResetAt /\ seq # 0)
Cursor(pos, seq, hasIV, last) ==
    [pos |-> pos, seq |-> IF Fresh(pos, seq, hasIV) THEN 0 ELSE seq,
     fresh |-> Fresh(pos, seq, hasIV), last |-> last]
After(last) == IF last = 0 THEN 0 ELSE ResetAt

(* The i-th item on the wire is what comes at a cursor, or was damaged; at *)
(* the end of the wire the writer is there, or what follows is lost.       *)
Comes(k, w, i, at, end, lost) ==
    IF i > Len(w) THEN lost \/ (i = Len(w) + 1 /\ at = end)
    ELSE \/ w[i] = Noise
         \/ at.fresh /\ w[i] = Vector(k, at.last) /\ at.pos = After(at.last)
         \/ ~at.fresh /\ \E len \in Lens : w[i] = Header(k, at.pos, len, at.seq, at.last)

(* After a header at i come its data, and then what comes there.           *)
DataFrom(k, w, i, pos, len, last) ==
    \A n \in 1..Blocks(len) - 1 : i + n <= Len(w) => w[i + n] \in {Noise, Data(k, pos, len, n, last)}
Rest(k, w, i, pos, len, seq, last, end, lost, max) ==
    /\ pos + len - BlockSize <= max
    /\ DataFrom(k, w, i, pos, len, last)
    /\ Comes(k, w, i + Blocks(len),
             Cursor(pos + len - BlockSize, seq + len, TRUE, last + Blocks(len)), end, lost)
Linked(k, w, i, end, lost, max) ==
    w[i] # Noise =>
      /\ w[i][2].chain \in Int
      /\ \A last \in Nat : w[i] = Vector(k, last) =>
            Comes(k, w, i + 1, Cursor(After(last), 0, TRUE, last), end, lost)
      /\ \A pos, seq, last \in Nat, len \in Lens :
            w[i] = Header(k, pos, len, seq, last) =>
              Rest(k, w, i, pos, len, seq, last, end, lost, max)

(* All that is on the wire behind the first o items is linked so, and it   *)
(* is what the reader expects.                                             *)
Listed(w) == Len(w) \in Nat /\ w = [i \in 1..Len(w) |-> w[i]]
Carries(k, w, o, end, lost, max, clean) ==
    /\ Listed(w)
    /\ \A i \in o + 1..Len(w) : Linked(k, w, i, end, lost, max) /\ (clean => w[i] # Noise)
Expects(k, w, o, pos, seq, hasIV, last, h, end, lost, max) ==
    /\ h = None /\ last # Noise => Comes(k, w, o + 1, Cursor(pos, seq, hasIV, last), end, lost)
    /\ h # None =>
         /\ o = 0
         /\ \E len \in Lens, s \in Nat, l \in Nat :
              /\ h = Hdr(pos, len, s) /\ seq = s + len /\ last = l + 1
              /\ Rest(k, w, 0, pos, len, s, l, end, lost, max)
-----------------------------------------------------------------------------
(* Numbers of blocks.                                                      *)
LEMMA BlocksAre ==
  ASSUME NEW n \in Nat
  PROVE  /\ Blocks(n) \in Nat /\ Blocks(n) * BlockSize >= n /\ (Blocks(n) - 1) * BlockSize < n
         /\ Blocks(BlockSize + n) = 1 + Blocks(n)
BY AESAssumption, SMT DEF Blocks

LEMMA SomeBlocks ==
  ASSUME NEW len \in Lens
  PROVE  Blocks(len) \in Nat \ {0, 1}
<1>1. len \in Nat /\ len > BlockSize BY DEF Lens
<1>2. Blocks(len) \in Nat /\ Blocks(len) * BlockSize >= len BY <1>1, BlocksAre
<1>3. 0 * BlockSize = 0 /\ 1 * BlockSize = BlockSize BY AESAssumption, SMT
<1> QED BY <1>1, <1>2, <1>3, AESAssumption

LEMMA UptoIs ==
  ASSUME NEW len \in Lens, NEW n \in 1..Blocks(len) - 1
  PROVE  /\ Upto(len, n) \in Nat /\ Upto(len, n - 1) = (n - 1) * BlockSize
         /\ Upto(len, n - 1) \in Nat /\ Upto(len, n - 1) < Upto(len, n)
         /\ Upto(len, 0) = 0 /\ Upto(len, Blocks(len) - 1) = len - BlockSize
<1>1. len \in Nat /\ len > BlockSize /\ Blocks(len) \in Nat /\ BlockSize \in Nat \ {0}
  BY SomeBlocks, AESAssumption DEF Lens
<1> DEFINE m == Blocks(len) - 1
<1>2. m * BlockSize >= len - BlockSize /\ (m - 1) * BlockSize < len - BlockSize
  <2>1. Blocks(len) * BlockSize >= len /\ (Blocks(len) - 1) * BlockSize < len
    BY <1>1, BlocksAre
  <2>2. /\ m * BlockSize = Blocks(len) * BlockSize - BlockSize
        /\ (m - 1) * BlockSize = m * BlockSize - BlockSize
        /\ m * BlockSize \in Int
    BY <1>1, SMT
  <2> HIDE DEF m
  <2>3. m * BlockSize < len BY <2>1 DEF m
  <2> QED BY <1>1, <2>1, <2>2, <2>3
<1>3. (n - 1) * BlockSize <= (m - 1) * BlockSize
  BY <1>1, SMT
<1>4. (n - 1) * BlockSize < n * BlockSize /\ (n - 1) * BlockSize \in Nat /\ n * BlockSize \in Nat
      /\ (m - 1) * BlockSize \in Int /\ m * BlockSize \in Int
  BY <1>1, SMT
<1>5. 0 * BlockSize = 0 BY <1>1, SMT
<1> HIDE DEF m
<1>6. Upto(len, n - 1) = (n - 1) * BlockSize BY <1>1, <1>2, <1>3, <1>4 DEF Upto, Least
<1>7. Upto(len, m) = len - BlockSize BY <1>1, <1>2, <1>4 DEF Upto, Least
<1>8. Upto(len, 0) = 0 BY <1>1, <1>5 DEF Upto, Least
<1>9. Upto(len, n) \in Nat /\ (n - 1) * BlockSize < Upto(len, n)
  BY <1>1, <1>2, <1>3, <1>4 DEF Upto, Least
<1> QED BY <1>4, <1>6, <1>7, <1>8, <1>9 DEF m

(* A block tells what it is.                                               *)
LEMMA HeaderTells ==
  ASSUME NEW k, NEW pos \in Nat, NEW len \in Lens, NEW seq \in Nat, NEW last \in Nat,
         NEW pos2 \in Nat, NEW len2 \in Lens, NEW seq2 \in Nat, NEW last2 \in Nat,
         Header(k, pos, len, seq, last) = Header(k, pos2, len2, seq2, last2)
  PROVE  pos = pos2 /\ len = len2 /\ seq = seq2 /\ last = last2
<1>1. last = last2 /\ Hdr(pos, len, seq) = Hdr(pos2, len2, seq2)
  BY DEF Header, Sealed
<1>2. /\ len = len2 /\ seq = seq2
      /\ Xor(pos + 1..pos + len - BlockSize, HeaderBytes(len, seq))
           = Xor(pos2 + 1..pos2 + len - BlockSize, HeaderBytes(len, seq))
  BY <1>1 DEF Hdr
<1>3. \A x \in Nat \ {0} : x \notin HeaderBytes(len, seq) BY DEF HeaderBytes, Lens
<1>4. \A x \in Nat \ {0} : x \in pos + 1..pos + len - BlockSize <=> x \in pos2 + 1..pos2 + len - BlockSize
  BY <1>2, <1>3 DEF Xor
<1>5. len \in Nat /\ len > BlockSize /\ BlockSize \in Nat BY AESAssumption DEF Lens
<1>6. pos + 1 \in pos + 1..pos + len - BlockSize /\ pos2 + 1 \in pos2 + 1..pos2 + len - BlockSize
  BY <1>5
<1>7. pos + 1 >= pos2 + 1 /\ pos2 + 1 >= pos + 1
  BY <1>4, <1>5, <1>6
<1> QED BY <1>1, <1>2, <1>7

LEMMA VectorTells ==
  ASSUME NEW k, NEW last, NEW last2, Vector(k, last) = Vector(k, last2)
  PROVE  last = last2
BY DEF Vector, Sealed

LEMMA KindTells ==
  ASSUME NEW k, NEW last, NEW last2, NEW last3, NEW pos, NEW len, NEW seq, NEW n,
         NEW pos2, NEW len2
  PROVE  /\ Vector(k, last) # Header(k, pos, len, seq, last2)
         /\ Data(k, pos, len, n, last) # Header(k, pos2, len2, seq, last2)
         /\ Data(k, pos, len, n, last) # Vector(k, last2)
BY DEF Vector, Header, Data, Sealed
-----------------------------------------------------------------------------
(* What becomes of a wire w whose first n items are taken: v has the rest, *)
(* some of it damaged, or more when nothing is lost; and beyond the first  *)
(* o items what came then comes now.                                       *)
Becomes(k, n, o, w, end, lost, v, end2, lost2) ==
    /\ \A i \in o + 1..Len(v) : i + n <= Len(w) => v[i] \in {w[i + n], Noise}
    /\ Len(v) + n <= Len(w) \/ ~lost
    /\ \A i \in Nat \ {0} : \A at :
          i > o /\ Comes(k, w, i + n, at, end, lost) => Comes(k, v, i, at, end2, lost2)

LEMMA RestStays ==
  ASSUME NEW k, NEW n \in Nat, NEW o \in Nat, NEW w, Len(w) \in Nat, NEW v, Len(v) \in Nat,
         NEW end, NEW lost, NEW end2, NEW lost2, Becomes(k, n, o, w, end, lost, v, end2, lost2),
         NEW i \in Nat, i >= o, NEW pos, NEW len \in Lens, NEW seq, NEW last, NEW max,
         Rest(k, w, i + n, pos, len, seq, last, end, lost, max)
  PROVE  Rest(k, v, i, pos, len, seq, last, end2, lost2, max)
<1> DEFINE b == Blocks(len) at == Cursor(pos + len - BlockSize, seq + len, TRUE, last + Blocks(len))
<1>1. b \in Nat \ {0, 1} BY SomeBlocks
<1>2. /\ pos + len - BlockSize <= max /\ DataFrom(k, w, i + n, pos, len, last)
      /\ Comes(k, w, i + n + b, at, end, lost)
  BY DEF Rest
<1> HIDE DEF at
<1>3. Comes(k, v, i + b, at, end2, lost2)
  <2>1. i + b \in Nat \ {0} /\ i + b > o /\ i + n + b = (i + b) + n BY <1>1
  <2> QED BY <1>2, <2>1 DEF Becomes
<1>4. DataFrom(k, v, i, pos, len, last)
  <2>1. SUFFICES ASSUME NEW m \in 1..b - 1, i + m <= Len(v)
                 PROVE  v[i + m] \in {Noise, Data(k, pos, len, m, last)}
    BY DEF DataFrom
  <2>2. i + n + m <= Len(w)
    <3>1. CASE Len(v) + n <= Len(w) BY <2>1, <3>1, <1>1
    <3>2. CASE Len(v) + n > Len(w)
      <4>1. ~lost BY <3>2 DEF Becomes
      <4>2. i + n + b <= Len(w) + 1
        <5> HIDE DEF b
        <5> QED BY <1>1, <1>2, <4>1 DEF Comes
      <4> QED BY <4>2, <1>1
    <3> QED BY <3>1, <3>2
  <2>3. i + m \in o + 1..Len(v) /\ (i + m) + n <= Len(w) /\ (i + m) + n = i + n + m
    BY <2>1, <2>2, <1>1
  <2>4. v[i + m] \in {w[i + n + m], Noise} BY <2>3 DEF Becomes
  <2>5. w[i + n + m] \in {Noise, Data(k, pos, len, m, last)} BY <1>2, <2>2 DEF DataFrom
  <2> QED BY <2>4, <2>5
<1> QED BY <1>2, <1>3, <1>4 DEF Rest, at

LEMMA LinkedStays ==
  ASSUME NEW k, NEW n \in Nat, NEW o \in Nat, NEW w, Len(w) \in Nat, NEW v, Len(v) \in Nat,
         NEW end, NEW lost, NEW end2, NEW lost2, Becomes(k, n, o, w, end, lost, v, end2, lost2),
         NEW i \in o + 1..Len(v), i + n <= Len(w), NEW max, Linked(k, w, i + n, end, lost, max)
  PROVE  Linked(k, v, i, end2, lost2, max)
<1>1. /\ v[i] \in {w[i + n], Noise} /\ i \in Nat /\ i >= o
      /\ i + 1 \in Nat \ {0} /\ i + 1 > o /\ (i + 1) + n = (i + n) + 1
  BY DEF Becomes
<1>2. SUFFICES ASSUME w[i + n] # Noise
               PROVE  /\ w[i + n][2].chain \in Int
                      /\ \A last \in Nat : w[i + n] = Vector(k, last) =>
                            Comes(k, v, i + 1, Cursor(After(last), 0, TRUE, last), end2, lost2)
                      /\ \A pos, seq, last \in Nat, len \in Lens :
                            w[i + n] = Header(k, pos, len, seq, last) =>
                              Rest(k, v, i, pos, len, seq, last, end2, lost2, max)
  BY <1>1 DEF Linked
<1>3. w[i + n][2].chain \in Int BY <1>2 DEF Linked
<1>4. ASSUME NEW last \in Nat, w[i + n] = Vector(k, last)
      PROVE  Comes(k, v, i + 1, Cursor(After(last), 0, TRUE, last), end2, lost2)
  <2>1. Comes(k, w, (i + n) + 1, Cursor(After(last), 0, TRUE, last), end, lost)
    BY <1>2, <1>4 DEF Linked
  <2> QED BY <1>1, <2>1 DEF Becomes
<1>5. ASSUME NEW pos \in Nat, NEW seq \in Nat, NEW last \in Nat, NEW len \in Lens,
             w[i + n] = Header(k, pos, len, seq, last)
      PROVE  Rest(k, v, i, pos, len, seq, last, end2, lost2, max)
  <2>1. Rest(k, w, i + n, pos, len, seq, last, end, lost, max)
    BY <1>2, <1>5 DEF Linked
  <2> QED BY <1>1, <2>1, RestStays
<1> QED BY <1>3, <1>4, <1>5

(* The four things that happen to it.                                      *)
Longer(w, v) == Len(w) <= Len(v) /\ \A i \in 1..Len(w) : v[i] = w[i]
Noisier(o, w, v) == Len(v) = Len(w) /\ \A i \in o + 1..Len(w) : v[i] \in {w[i], Noise}
Taken(n, w, v) == Len(v) = Len(w) - n /\ \A i \in 1..Len(v) : v[i] = w[i + n]

LEMMA MoreComes ==
  ASSUME NEW k, NEW o \in Nat, NEW w, Len(w) \in Nat, NEW v, Len(v) \in Nat, Longer(w, v),
         NEW end, NEW end2, NEW lost, Comes(k, v, Len(w) + 1, end, end2, lost)
  PROVE  Becomes(k, 0, o, w, end, FALSE, v, end2, lost)
<1>1. ASSUME NEW i \in Nat \ {0}, NEW at, Comes(k, w, i, at, end, FALSE)
      PROVE  Comes(k, v, i, at, end2, lost)
  <2>1. CASE i > Len(w)
    <3>1. i = Len(w) + 1 /\ at = end BY <1>1, <2>1 DEF Comes
    <3> QED BY <3>1
  <2>2. CASE i <= Len(w)
    <3>1. ~(i > Len(w)) /\ ~(i > Len(v)) /\ v[i] = w[i] BY <2>2 DEF Longer
    <3> QED BY <1>1, <3>1 DEF Comes
  <2> QED BY <2>1, <2>2
<1>2. \A i \in o + 1..Len(v) : i + 0 <= Len(w) => v[i] = w[i + 0] BY DEF Longer
<1>3. \A i \in Nat : i + 0 = i OBVIOUS
<1> QED BY <1>1, <1>2, <1>3 DEF Becomes

LEMMA LostComes ==
  ASSUME NEW k, NEW o \in Nat, NEW w, Len(w) \in Nat, NEW v, Len(v) \in Nat, Longer(v, w),
         NEW end, NEW end2, NEW lost
  PROVE  Becomes(k, 0, o, w, end, lost, v, end2, TRUE)
<1>1. ASSUME NEW i \in Nat \ {0}, NEW at, Comes(k, w, i, at, end, lost)
      PROVE  Comes(k, v, i, at, end2, TRUE)
  <2>1. CASE i > Len(v) BY <2>1 DEF Comes
  <2>2. CASE i <= Len(v)
    <3>1. ~(i > Len(w)) /\ ~(i > Len(v)) /\ v[i] = w[i] BY <2>2 DEF Longer
    <3> QED BY <1>1, <3>1 DEF Comes
  <2>3. i > Len(v) \/ i <= Len(v) OBVIOUS
  <2> QED BY <2>1, <2>2, <2>3
<1>2. \A i \in o + 1..Len(v) : i + 0 <= Len(w) => v[i] = w[i + 0] BY DEF Longer
<1>3. \A i \in Nat : i + 0 = i OBVIOUS
<1>4. Len(v) + 0 <= Len(w) BY DEF Longer
<1> QED BY <1>1, <1>2, <1>3, <1>4 DEF Becomes

LEMMA NoiseComes ==
  ASSUME NEW k, NEW o \in Nat, NEW w, Len(w) \in Nat, NEW v, Noisier(o, w, v),
         NEW end, NEW lost
  PROVE  Becomes(k, 0, o, w, end, lost, v, end, lost)
<1>1. ASSUME NEW i \in Nat \ {0}, i > o, NEW at, Comes(k, w, i, at, end, lost)
      PROVE  Comes(k, v, i, at, end, lost)
  <2>1. Len(v) = Len(w) BY DEF Noisier
  <2>2. CASE i > Len(w) BY <1>1, <2>1, <2>2 DEF Comes
  <2>3. CASE i <= Len(w)
    <3>1. ~(i > Len(w)) /\ v[i] \in {w[i], Noise} BY <1>1, <2>3 DEF Noisier
    <3> QED BY <1>1, <2>1, <3>1 DEF Comes
  <2> QED BY <2>2, <2>3
<1>2. \A i \in o + 1..Len(v) : i + 0 <= Len(w) => v[i] \in {w[i + 0], Noise} BY DEF Noisier
<1>3. \A i \in Nat : i + 0 = i OBVIOUS
<1>4. Len(v) + 0 <= Len(w) BY DEF Noisier
<1> QED BY <1>1, <1>2, <1>3, <1>4 DEF Becomes

LEMMA NextComes ==
  ASSUME NEW k, NEW n \in Nat, NEW o \in Nat, NEW w, Len(w) \in Nat, NEW v, Taken(n, w, v),
         n <= Len(w), NEW end, NEW lost
  PROVE  Becomes(k, n, o, w, end, lost, v, end, lost)
<1>1. ASSUME NEW i \in Nat \ {0}, NEW at, Comes(k, w, i + n, at, end, lost)
      PROVE  Comes(k, v, i, at, end, lost)
  <2>1. Len(v) = Len(w) - n BY DEF Taken
  <2>2. CASE i > Len(v)
    <3>1. i + n > Len(w) /\ (i + n = Len(w) + 1 => i = Len(v) + 1) BY <2>1, <2>2
    <3> QED BY <1>1, <2>2, <3>1 DEF Comes
  <2>3. CASE i <= Len(v)
    <3>1. ~(i + n > Len(w)) /\ ~(i > Len(v)) /\ v[i] = w[i + n] BY <2>1, <2>3 DEF Taken
    <3> QED BY <1>1, <3>1 DEF Comes
  <2> QED BY <2>1, <2>2, <2>3
<1>2. \A i \in o + 1..Len(v) : i + n <= Len(w) => v[i] = w[i + n] BY DEF Taken
<1>3. Len(v) + n <= Len(w) BY DEF Taken
<1> QED BY <1>1, <1>2, <1>3 DEF Becomes

LEMMA CursorIs ==
  ASSUME NEW pos, NEW seq, NEW hasIV, NEW last
  PROVE  LET at == Cursor(pos, seq, hasIV, last)
         IN  /\ at.pos = pos /\ at.last = last /\ (at.fresh <=> Fresh(pos, seq, hasIV))
             /\ ~Fresh(pos, seq, hasIV) => at.seq = seq
BY DEF Cursor

(* What remains on the wire stays linked, and what the reader expects of   *)
(* it; the writer may meanwhile have been given more.                      *)
LEMMA CarriesStay ==
  ASSUME NEW k, NEW n \in Nat, NEW o \in Nat, NEW w, NEW v, Listed(v),
         NEW end, NEW lost, NEW end2, NEW lost2, Becomes(k, n, o, w, end, lost, v, end2, lost2),
         NEW max, NEW clean, NEW clean2, Carries(k, w, o + n, end, lost, max, clean),
         clean2 => clean /\ \A i \in o + 1..Len(v) : i + n <= Len(w) => v[i] = w[i + n],
         \A i \in o + 1..Len(v) : i + n > Len(w) =>
            Linked(k, v, i, end2, lost2, max) /\ (clean2 => v[i] # Noise)
  PROVE  Carries(k, v, o, end2, lost2, max, clean2)
<1>1. /\ Len(w) \in Nat /\ Len(v) \in Nat
      /\ \A i \in o + n + 1..Len(w) : Linked(k, w, i, end, lost, max) /\ (clean => w[i] # Noise)
  BY DEF Carries, Listed
<1>2. ASSUME NEW i \in o + 1..Len(v), i + n <= Len(w)
      PROVE  Linked(k, v, i, end2, lost2, max) /\ (clean2 => v[i] # Noise)
  <2>1. i + n \in o + n + 1..Len(w) BY <1>1, <1>2
  <2>2. Linked(k, w, i + n, end, lost, max) /\ (clean => w[i + n] # Noise) BY <1>1, <2>1
  <2>3. Linked(k, v, i, end2, lost2, max) BY <1>1, <1>2, <2>2, LinkedStays
  <2> QED BY <1>2, <2>2, <2>3
<1>3. \A i \in o + 1..Len(v) : i + n <= Len(w) \/ i + n > Len(w) BY <1>1
<1> QED BY <1>2, <1>3 DEF Carries

LEMMA ExpectsStays ==
  ASSUME NEW k, NEW o \in Nat, NEW w, Len(w) \in Nat, NEW v, Len(v) \in Nat,
         NEW end, NEW lost, NEW end2, NEW lost2, Becomes(k, 0, o, w, end, lost, v, end2, lost2),
         NEW pos, NEW seq, NEW hasIV, NEW last, NEW h, NEW max,
         Expects(k, w, o, pos, seq, hasIV, last, h, end, lost, max)
  PROVE  Expects(k, v, o, pos, seq, hasIV, last, h, end2, lost2, max)
<1>1. ASSUME h = None, last # Noise
      PROVE  Comes(k, v, o + 1, Cursor(pos, seq, hasIV, last), end2, lost2)
  <2>1. Comes(k, w, o + 1, Cursor(pos, seq, hasIV, last), end, lost) BY <1>1 DEF Expects
  <2>2. o + 1 \in Nat \ {0} /\ o + 1 > o /\ (o + 1) + 0 = o + 1 OBVIOUS
  <2> QED BY <2>1, <2>2 DEF Becomes
<1>2. ASSUME h # None
      PROVE  /\ o = 0
             /\ \E len \in Lens, s \in Nat, l \in Nat :
                  /\ h = Hdr(pos, len, s) /\ seq = s + len /\ last = l + 1
                  /\ Rest(k, v, 0, pos, len, s, l, end2, lost2, max)
  <2>1. PICK len \in Lens, s \in Nat, l \in Nat :
          /\ h = Hdr(pos, len, s) /\ seq = s + len /\ last = l + 1
          /\ Rest(k, w, 0, pos, len, s, l, end, lost, max)
    BY <1>2 DEF Expects
  <2>2. o = 0 BY <1>2 DEF Expects
  <2>3. Rest(k, w, 0 + 0, pos, len, s, l, end, lost, max) /\ 0 >= o BY <2>1, <2>2
  <2>4. Rest(k, v, 0, pos, len, s, l, end2, lost2, max)
    BY <2>2, <2>3, RestStays
  <2> QED BY <2>1, <2>2, <2>4
<1> QED BY <1>1, <1>2 DEF Expects

LEMMA MoreIsTaken ==
  ASSUME NEW k, NEW w, NEW o \in Nat, NEW end, NEW lost, NEW clean,
         NEW max \in Int, NEW max2 \in Int, max <= max2,
         NEW pos \in Nat, NEW seq, NEW hasIV, NEW last, NEW h,
         Carries(k, w, o, end, lost, max, clean),
         Expects(k, w, o, pos, seq, hasIV, last, h, end, lost, max)
  PROVE  /\ Carries(k, w, o, end, lost, max2, clean)
         /\ Expects(k, w, o, pos, seq, hasIV, last, h, end, lost, max2)
<1>1. ASSUME NEW i, NEW p \in Nat, NEW len \in Lens, NEW s, NEW l,
             Rest(k, w, i, p, len, s, l, end, lost, max)
      PROVE  Rest(k, w, i, p, len, s, l, end, lost, max2)
  <2>1. p + len - BlockSize \in Int BY AESAssumption DEF Lens
  <2>2. p + len - BlockSize <= max BY <1>1 DEF Rest
  <2>3. p + len - BlockSize <= max2 BY <2>1, <2>2
  <2> QED BY <1>1, <2>3 DEF Rest
<1>2. \A i : Linked(k, w, i, end, lost, max) => Linked(k, w, i, end, lost, max2)
  BY <1>1 DEF Linked
<1>3. Carries(k, w, o, end, lost, max2, clean) BY <1>2 DEF Carries
<1> QED BY <1>1, <1>3 DEF Expects
-----------------------------------------------------------------------------
(* What one flush sends.                                                   *)
Before(hasIV) == IF hasIV THEN 0 ELSE 1
Sending(k, pos, len, seq, hasIV, last) ==
    [i \in 1..Before(hasIV) + Blocks(len) |->
       IF i <= Before(hasIV) THEN Vector(k, last)
       ELSE IF i = Before(hasIV) + 1 THEN Header(k, pos, len, seq, last)
       ELSE Data(k, pos, len, i - Before(hasIV) - 1, last)]
Extended(w, s, n, v) ==
    /\ Len(v) = Len(w) + n
    /\ \A i \in 1..Len(w) : v[i] = w[i]
    /\ \A i \in 1..n : v[Len(w) + i] = s[i]

(* When the writer may send; and where it is after that, unless the rest   *)
(* is lost.                                                                *)
Ready(pos, seq, hasIV, last) ==
    IF hasIV THEN ~(pos = ResetAt /\ seq # 0) ELSE seq = 0 /\ pos = After(last)
EndsAt(n, pos, len, seq, hasIV, last, end2, lost) ==
    \/ lost
    \/ /\ n = Before(hasIV) + Blocks(len)
       /\ end2 = Cursor(pos + len - BlockSize, seq + len, TRUE, last + Blocks(len))

LEMMA BytesAre ==
  ASSUME NEW pos \in Nat, NEW len \in Lens, NEW n \in 1..Blocks(len) - 1
  PROVE  Bytes(pos, len, n) \in Seq(Nat)
<1>1. Upto(len, n) - Upto(len, n - 1) \in Nat /\ Upto(len, n - 1) \in Nat BY UptoIs
<1> QED BY <1>1 DEF Bytes

LEMMA BlocksAreCiphertexts ==
  ASSUME NEW k \in {kcw(v) : v \in Vectors}, NEW pos \in Nat, NEW len \in Lens,
         NEW seq \in Nat, NEW last \in Nat
  PROVE  /\ Noise # Vector(k, last) /\ Noise # Header(k, pos, len, seq, last)
         /\ \A n \in 1..Blocks(len) - 1 : Noise # Data(k, pos, len, n, last)
<1>1. ASSUME NEW plain \in Plains, NEW name \in Int, NEW chain \in Int
      PROVE  Noise # Sealed(k, plain, name, chain)
  <2>1. Sealed(k, plain, name, chain) \in Ciphertexts BY DEF Sealed, Ciphertexts
  <2> QED BY <2>1, NoiseAssumption
<1>2. <<"iv", last>> \in Plains BY DEF Plains
<1>3. <<"head", Hdr(pos, len, seq)>> \in Plains
  <2>1. Hdr(pos, len, seq) \in [len : Nat, seq : Nat, parity : SUBSET Int]
    BY AESAssumption DEF Hdr, HeaderBytes, Xor, Lens
  <2> QED BY <2>1 DEF Plains
<1>4. \A n \in 1..Blocks(len) - 1 : <<"data", Bytes(pos, len, n)>> \in Plains
  BY BytesAre DEF Plains
<1>5. \A n \in 1..Blocks(len) - 1 : n \in Int BY SomeBlocks
<1> QED BY <1>1, <1>2, <1>3, <1>4, <1>5 DEF Vector, Header, Data

LEMMA SentComes ==
  ASSUME NEW k, NEW w, Len(w) \in Nat, NEW v, NEW pos \in Nat, NEW len \in Lens,
         NEW seq \in Nat, NEW hasIV \in BOOLEAN, NEW last \in Nat,
         NEW n \in 0..Before(hasIV) + Blocks(len),
         Extended(w, Sending(k, pos, len, seq, hasIV, last), n, v),
         Ready(pos, seq, hasIV, last), NEW end2, NEW lost,
         EndsAt(n, pos, len, seq, hasIV, last, end2, lost)
  PROVE  /\ Comes(k, v, Len(w) + 1, Cursor(pos, seq, hasIV, last), end2, lost)
         /\ \A i \in Len(w) + 1..Len(v) : Linked(k, v, i, end2, lost, pos + len - BlockSize)
<1> DEFINE b == Before(hasIV) s == Sending(k, pos, len, seq, hasIV, last)
           max == pos + len - BlockSize
<1>1. b \in {0, 1} /\ Blocks(len) \in Nat \ {0, 1} BY SomeBlocks DEF Before
<1>2. /\ Len(v) = Len(w) + n /\ Len(v) \in Nat
      /\ \A i \in 1..n : v[Len(w) + i] = s[i]
  BY <1>1 DEF Extended
<1>3. /\ b = 1 => s[1] = Vector(k, last)
      /\ s[b + 1] = Header(k, pos, len, seq, last)
      /\ \A m \in 1..Blocks(len) - 1 : s[b + 1 + m] = Data(k, pos, len, m, last)
  <2>1. b = 1 => s[1] = Vector(k, last) BY <1>1 DEF Sending
  <2>2. s[b + 1] = Header(k, pos, len, seq, last) BY <1>1 DEF Sending
  <2>3. ASSUME NEW m \in 1..Blocks(len) - 1 PROVE s[b + 1 + m] = Data(k, pos, len, m, last)
    <3>1. /\ b + 1 + m \in 1..b + Blocks(len) /\ ~(b + 1 + m <= b)
          /\ b + 1 + m # b + 1 /\ (b + 1 + m) - b - 1 = m
      <4> HIDE DEF b
      <4> QED BY <1>1
    <3> QED BY <3>1 DEF Sending
  <2> QED BY <2>1, <2>2, <2>3
<1>4. n \in Nat /\ n <= b + Blocks(len) BY <1>1
<1>5. n < b + Blocks(len) => lost
  <2>1. ~lost => n = b + Blocks(len) BY DEF EndsAt
  <2> HIDE DEF b
  <2> QED BY <1>1, <1>4, <2>1
<1>9. Len(v) = Len(w) + n /\ Len(v) \in Nat BY <1>2
<1>10. IF hasIV THEN ~(pos = ResetAt /\ seq # 0) ELSE seq = 0 /\ pos = After(last) BY DEF Ready
<1>11. \/ lost
       \/ n = b + Blocks(len) /\ end2 = Cursor(max, seq + len, TRUE, last + Blocks(len))
  BY DEF EndsAt
<1> HIDE DEF s, b
<1>6. b = 1 <=> ~hasIV BY DEF b, Before
<1>7. Comes(k, v, Len(w) + 1, Cursor(pos, seq, hasIV, last), end2, lost)
  <2>1. CASE n = 0
    <3>1. Len(w) + 1 > Len(v) /\ lost BY <1>1, <1>2, <1>5, <2>1
    <3> QED BY <3>1 DEF Comes
  <2>2. CASE n # 0 /\ hasIV
    <3>1. v[Len(w) + 1] = Header(k, pos, len, seq, last) /\ ~(Len(w) + 1 > Len(v))
      BY <1>1, <1>2, <1>3, <1>4, <1>6, <2>2
    <3>2. ~Fresh(pos, seq, hasIV) BY <1>10, <2>2 DEF Fresh
    <3> QED BY <3>1, <3>2, CursorIs DEF Comes
  <2>3. CASE n # 0 /\ ~hasIV
    <3>1. v[Len(w) + 1] = Vector(k, last) /\ ~(Len(w) + 1 > Len(v))
      <4>1. 1 \in 1..n /\ b = 1 BY <1>1, <1>4, <1>6, <2>3
      <4>2. ~(Len(w) + 1 > Len(v)) BY <1>4, <1>9, <4>1
      <4> QED BY <1>2, <1>3, <4>1, <4>2
    <3>2. Fresh(pos, seq, hasIV) BY <2>3 DEF Fresh
    <3> QED BY <1>10, <3>1, <3>2, <2>3, CursorIs DEF Comes
  <2> QED BY <2>1, <2>2, <2>3
<1>8. ASSUME NEW i \in Len(w) + 1..Len(v)
      PROVE  Linked(k, v, i, end2, lost, max)
  <2>1. i - Len(w) \in 1..n /\ v[i] = s[i - Len(w)] BY <1>2
  <2>2. CASE i - Len(w) <= b
    <3>1. b = 1 /\ i = Len(w) + 1 /\ v[i] = Vector(k, last) BY <1>1, <1>3, <2>1, <2>2
    <3>2. Comes(k, v, i + 1, Cursor(After(last), 0, TRUE, last), end2, lost)
      <4>1. After(last) = pos /\ seq = 0 BY <1>6, <1>10, <3>1
      <4>2. ~Fresh(After(last), 0, TRUE) BY DEF Fresh
      <4>3. CASE n = 1
        <5>1. i + 1 > Len(v) /\ lost BY <1>1, <1>2, <1>5, <3>1, <4>3
        <5> QED BY <5>1 DEF Comes
      <4>4. CASE n # 1
        <5>1. v[i + 1] = Header(k, pos, len, seq, last) /\ ~(i + 1 > Len(v))
          <6>1. n \in Nat \ {0, 1} BY <1>4, <2>1, <3>1, <4>4
          <6>2. 2 \in 1..n /\ b + 1 = 2 /\ Len(w) + 2 = i + 1 /\ ~(i + 1 > Len(v))
            BY <1>9, <3>1, <6>1
          <6> QED BY <1>2, <1>3, <6>2
        <5> DEFINE at == Cursor(After(last), 0, TRUE, last)
        <5>2. ~at.fresh /\ at.pos = pos /\ at.seq = seq /\ at.last = last
          BY <4>1, <4>2 DEF Cursor
        <5> HIDE DEF at
        <5>3. Comes(k, v, i + 1, at, end2, lost) BY <5>1, <5>2 DEF Comes
        <5> QED BY <5>3 DEF at
      <4> QED BY <4>3, <4>4
    <3>3. v[i][2].chain \in Int BY <3>1 DEF Vector, Sealed
    <3>4. ASSUME NEW last2 \in Nat, v[i] = Vector(k, last2)
          PROVE  Comes(k, v, i + 1, Cursor(After(last2), 0, TRUE, last2), end2, lost)
      <4>1. last2 = last BY <3>1, <3>4, VectorTells
      <4> QED BY <3>2, <4>1
    <3>5. \A pos2, seq2, last2, len2 : v[i] # Header(k, pos2, len2, seq2, last2)
      BY <3>1, KindTells
    <3> QED BY <3>3, <3>4, <3>5 DEF Linked
  <2>3. CASE i - Len(w) = b + 1
    <3>1. v[i] = Header(k, pos, len, seq, last) BY <1>3, <2>1, <2>3
    <3>2. Rest(k, v, i, pos, len, seq, last, end2, lost, max)
      <4>1. DataFrom(k, v, i, pos, len, last)
        <5>1. SUFFICES ASSUME NEW m \in 1..Blocks(len) - 1, i + m <= Len(v)
                       PROVE  v[i + m] = Data(k, pos, len, m, last)
          BY DEF DataFrom
        <5>2. b + 1 + m \in 1..n /\ Len(w) + (b + 1 + m) = i + m
          BY <1>1, <1>4, <1>9, <2>3, <5>1
        <5> QED BY <1>2, <1>3, <5>2
      <4>2. /\ i + Blocks(len) > Len(v)
            /\ n = b + Blocks(len) => i + Blocks(len) = Len(v) + 1
        <5>1. i = Len(w) + b + 1 BY <1>1, <2>3
        <5>2. i + Blocks(len) = (Len(w) + (b + Blocks(len))) + 1 BY <1>1, <5>1
        <5>3. Len(v) <= Len(w) + (b + Blocks(len)) /\ Len(w) + (b + Blocks(len)) \in Nat
          BY <1>1, <1>4, <1>9
        <5> QED BY <1>9, <5>2, <5>3
      <4>3. Comes(k, v, i + Blocks(len), Cursor(max, seq + len, TRUE, last + Blocks(len)), end2, lost)
        BY <1>11, <4>2 DEF Comes
      <4>4. max <= max BY AESAssumption DEF Lens
      <4> QED BY <4>1, <4>3, <4>4 DEF Rest
    <3>3. v[i][2].chain \in Int BY <3>1 DEF Header, Sealed
    <3>4. ASSUME NEW pos2 \in Nat, NEW seq2 \in Nat, NEW last2 \in Nat, NEW len2 \in Lens,
                 v[i] = Header(k, pos2, len2, seq2, last2)
          PROVE  Rest(k, v, i, pos2, len2, seq2, last2, end2, lost, max)
      <4>1. Header(k, pos, len, seq, last) = Header(k, pos2, len2, seq2, last2)
        BY <3>1, <3>4
      <4>2. pos = pos2 /\ len = len2 /\ seq = seq2 /\ last = last2
        BY <4>1, HeaderTells
      <4> QED BY <3>2, <4>2
    <3> QED BY <3>1, <3>3, <3>4, KindTells DEF Linked
  <2>4. CASE i - Len(w) > b + 1
    <3>1. i - Len(w) - b - 1 \in 1..Blocks(len) - 1 /\ b + 1 + (i - Len(w) - b - 1) = i - Len(w)
      BY <1>1, <1>4, <1>9, <2>1, <2>4, SMTT(20)
    <3>2. PICK m \in 1..Blocks(len) - 1 : v[i] = Data(k, pos, len, m, last)
      <4>1. s[i - Len(w)] = Data(k, pos, len, i - Len(w) - b - 1, last) BY <1>3, <3>1
      <4> QED BY <2>1, <3>1, <4>1
    <3>3. v[i][2].chain \in Int BY <3>2, <1>1 DEF Data, Sealed
    <3> QED BY <3>2, <3>3, KindTells DEF Linked
  <2> QED BY <1>1, <2>1, <2>2, <2>3, <2>4
<1> QED BY <1>7, <1>8

LEMMA SentIsClean ==
  ASSUME NEW k \in {kcw(v) : v \in Vectors}, NEW w, Len(w) \in Nat, NEW v, NEW pos \in Nat,
         NEW len \in Lens, NEW seq \in Nat, NEW hasIV \in BOOLEAN, NEW last \in Nat,
         NEW n \in 0..Before(hasIV) + Blocks(len),
         Extended(w, Sending(k, pos, len, seq, hasIV, last), n, v)
  PROVE  \A i \in Len(w) + 1..Len(v) : v[i] # Noise
<1> DEFINE s == Sending(k, pos, len, seq, hasIV, last)
<1>1. Before(hasIV) \in {0, 1} /\ Blocks(len) \in Nat \ {0, 1} BY SomeBlocks DEF Before
<1>2. \A j \in 1..n : s[j] # Noise
  <2> TAKE j \in 1..n
  <2>1. j \in 1..Before(hasIV) + Blocks(len) BY <1>1
  <2>2. CASE j <= Before(hasIV) BY <2>1, <2>2, BlocksAreCiphertexts DEF Sending
  <2>3. CASE j = Before(hasIV) + 1
    <3>1. ~(j <= Before(hasIV)) BY <1>1, <2>3
    <3> QED BY <2>1, <2>3, <3>1, BlocksAreCiphertexts DEF Sending
  <2>4. CASE j > Before(hasIV) + 1
    <3>1. j - Before(hasIV) - 1 \in 1..Blocks(len) - 1 /\ ~(j <= Before(hasIV)) /\ j # Before(hasIV) + 1
      BY <1>1, <2>1, <2>4
    <3>2. s[j] = Data(k, pos, len, j - Before(hasIV) - 1, last) BY <2>1, <3>1 DEF Sending
    <3> QED BY <3>1, <3>2, BlocksAreCiphertexts
  <2> QED BY <1>1, <2>1, <2>2, <2>3, <2>4
<1> HIDE DEF s
<1>3. Len(v) = Len(w) + n /\ \A j \in 1..n : v[Len(w) + j] = s[j] BY DEF Extended, s
<1> TAKE i \in Len(w) + 1..Len(v)
<1>4. i - Len(w) \in 1..n /\ Len(w) + (i - Len(w)) = i BY <1>1, <1>3
<1> QED BY <1>2, <1>3, <1>4
-----------------------------------------------------------------------------
(* FlattenSeq is a recursive function; what holds of it is shown by        *)
(* induction, over a set of numbers.                                       *)
LEMMA NatSetInduction ==
  ASSUME NEW T, 0 \in T, \A n \in Nat : n \in T => n + 1 \in T
  PROVE  \A n \in Nat : n \in T
<1> DEFINE R == OpToRel(<, Nat)
<1>1. IsWellFoundedOn(R, Nat) BY NatLessThanWellFounded
<1>2. \A x, y \in Nat : x < y => <<x, y>> \in R BY DEF OpToRel
<1> DEFINE U == Nat \ T
<1> HIDE DEF R
<1>3. SUFFICES ASSUME U # {} PROVE FALSE OBVIOUS
<1>4. PICK x \in U : \A y \in U : ~(<<y, x>> \in R)
  <2>1. U \subseteq Nat OBVIOUS
  <2> HIDE DEF U
  <2> QED BY <1>1, <1>3, <2>1, WFMin
<1>5. x \in Nat /\ x \notin T /\ x # 0 BY <1>4
<1>6. x - 1 \in Nat /\ x - 1 < x /\ (x - 1) + 1 = x BY <1>5
<1>7. x - 1 \in U BY <1>5, <1>6
<1> QED BY <1>2, <1>4, <1>5, <1>6, <1>7

Flattening(n, seqs, g) ==
    /\ seqs = [i \in 1..n |-> seqs[i]]
    /\ g = [i \in 1..n |-> IF i = 1 THEN seqs[i] ELSE g[i - 1] \o seqs[i]]

LEMMA FlattenIs ==
  ASSUME NEW n \in Nat, n > 0, NEW seqs, NEW g, Flattening(n, seqs, g)
  PROVE  FlattenSeq(seqs) = g[n]
<1> USE DEF Flattening
<1>1. Len(seqs) = n OBVIOUS
<1>2. ASSUME NEW f, f = [i \in 1..Len(seqs) |-> IF i = 1 THEN seqs[i] ELSE f[i - 1] \o seqs[i]]
      PROVE  f = g
  <2> DEFINE T == {k \in Nat : k + 1 \in 1..n => f[k + 1] = g[k + 1]}
  <2>1. 0 \in T BY <1>1, <1>2
  <2>2. ASSUME NEW k \in Nat, k \in T PROVE k + 1 \in T
    <3>1. SUFFICES ASSUME k + 2 \in 1..n PROVE f[k + 2] = g[k + 2] OBVIOUS
    <3>2. k + 1 \in 1..n /\ (k + 2) - 1 = k + 1 /\ k + 2 # 1 BY <3>1
    <3>3. f[k + 1] = g[k + 1] BY <2>2, <3>2
    <3>4. f[k + 2] = f[k + 1] \o seqs[k + 2] BY <1>1, <1>2, <3>1, <3>2
    <3>5. g[k + 2] = g[k + 1] \o seqs[k + 2] BY <3>1, <3>2
    <3> QED BY <3>3, <3>4, <3>5
  <2> HIDE DEF T
  <2>3. \A k \in Nat : k \in T BY <2>1, <2>2, NatSetInduction
  <2>4. \A i \in 1..n : f[i] = g[i]
    <3> TAKE i \in 1..n
    <3>1. i - 1 \in Nat /\ (i - 1) + 1 = i OBVIOUS
    <3> QED BY <2>3, <3>1 DEF T
  <2>5. f = [i \in 1..n |-> f[i]] /\ g = [i \in 1..n |-> g[i]] BY <1>1, <1>2
  <2> QED BY <2>4, <2>5
<1> DEFINE F == CHOOSE f : f = [i \in 1..Len(seqs) |-> IF i = 1 THEN seqs[i]
                                                       ELSE f[i - 1] \o seqs[i]]
<1>3. \E f : f = [i \in 1..Len(seqs) |-> IF i = 1 THEN seqs[i] ELSE f[i - 1] \o seqs[i]]
  BY <1>1
<1>4. F = g BY <1>2, <1>3
<1>5. FlattenSeq(seqs) = F[Len(seqs)]
  <2>1. Len(seqs) # 0 BY <1>1
  <2> QED BY <2>1, Zenon DEF FlattenSeq
<1> QED BY <1>1, <1>4, <1>5

(* Pieces that follow each other make the whole.                           *)
LEMMA Counting ==
  ASSUME NEW p \in Nat, NEW a \in Nat
  PROVE  LET s == [j \in 1..a |-> p + j]
         IN  s \in Seq(Nat) /\ Len(s) = a /\ \A j \in 1..a : s[j] = p + j
OBVIOUS

LEMMA JoinPieces ==
  ASSUME NEW p \in Nat, NEW a \in Nat, NEW b \in Nat, a <= b
  PROVE  [j \in 1..a |-> p + j] \o [j \in 1..b - a |-> p + a + j] = [j \in 1..b |-> p + j]
<1> DEFINE x == [j \in 1..a |-> p + j] y == [j \in 1..b - a |-> p + a + j]
           z == [j \in 1..b |-> p + j]
<1>1. b - a \in Nat /\ p + a \in Nat /\ a + (b - a) = b OBVIOUS
<1>2. x \in Seq(Nat) /\ Len(x) = a /\ \A j \in 1..a : x[j] = p + j BY Counting
<1>3. y \in Seq(Nat) /\ Len(y) = b - a /\ \A j \in 1..b - a : y[j] = p + a + j
  BY <1>1, Counting
<1>4. z \in Seq(Nat) /\ Len(z) = b /\ \A j \in 1..b : z[j] = p + j BY Counting
<1> HIDE DEF x, y, z
<1>5. /\ x \o y \in Seq(Nat) /\ Len(x \o y) = Len(x) + Len(y)
      /\ \A j \in 1..Len(x) + Len(y) : (x \o y)[j] = IF j <= Len(x) THEN x[j] ELSE y[j - Len(x)]
  BY <1>2, <1>3, ConcatProperties
<1>6. ASSUME NEW j \in 1..b PROVE (x \o y)[j] = z[j]
  <2>1. (x \o y)[j] = IF j <= a THEN x[j] ELSE y[j - a] BY <1>1, <1>2, <1>3, <1>5
  <2>2. CASE j <= a
    <3>1. j \in 1..a BY <2>2
    <3> QED BY <1>2, <1>4, <2>1, <2>2, <3>1
  <2>3. CASE ~(j <= a)
    <3>1. j - a \in 1..b - a /\ p + a + (j - a) = p + j BY <2>3
    <3> QED BY <1>3, <1>4, <2>1, <2>3, <3>1
  <2> QED BY <2>2, <2>3
<1>7. Len(x \o y) = Len(z) BY <1>1, <1>2, <1>3, <1>4, <1>5
<1>8. \A j \in 1..Len(x \o y) : (x \o y)[j] = z[j] BY <1>4, <1>6, <1>7
<1>9. x \o y = z BY <1>4, <1>5, <1>7, <1>8, SeqEqual
<1> QED BY <1>9 DEF x, y, z

Pieces(n, u, pos, seqs) ==
    /\ u \in [0..n -> Nat] /\ u[0] = 0 /\ \A i \in 1..n : u[i - 1] <= u[i]
    /\ seqs = [i \in 1..n |-> [j \in 1..u[i] - u[i - 1] |-> pos + u[i - 1] + j]]

LEMMA FlattenPieces ==
  ASSUME NEW n \in Nat, n > 0, NEW u, NEW pos \in Nat, NEW seqs, Pieces(n, u, pos, seqs)
  PROVE  FlattenSeq(seqs) = [j \in 1..u[n] |-> pos + j]
<1> USE DEF Pieces
<1> DEFINE g == [i \in 1..n |-> [j \in 1..u[i] |-> pos + j]]
<1>1. ASSUME NEW i \in 1..n, i # 1 PROVE g[i] = g[i - 1] \o seqs[i]
  <2>1. i - 1 \in 1..n /\ i - 1 \in 0..n /\ i \in 0..n BY <1>1
  <2>2. u[i] \in Nat /\ u[i - 1] \in Nat /\ u[i - 1] <= u[i] BY <2>1
  <2>3. /\ g[i] = [j \in 1..u[i] |-> pos + j] /\ g[i - 1] = [j \in 1..u[i - 1] |-> pos + j]
        /\ seqs[i] = [j \in 1..u[i] - u[i - 1] |-> pos + u[i - 1] + j]
    BY <2>1
  <2> HIDE DEF g
  <2>4. [j \in 1..u[i - 1] |-> pos + j] \o [j \in 1..u[i] - u[i - 1] |-> pos + u[i - 1] + j]
          = [j \in 1..u[i] |-> pos + j]
    BY <2>2, JoinPieces
  <2> QED BY <2>3, <2>4
<1>2. g[1] = seqs[1]
  <2>1. 1 \in 1..n /\ 1 - 1 = 0 OBVIOUS
  <2>2. seqs[1] = [j \in 1..u[1] - u[0] |-> pos + u[0] + j] BY <2>1
  <2>3. u[1] \in Nat /\ u[1] - u[0] = u[1] BY <2>1
  <2>4. \A j \in 1..u[1] : pos + u[0] + j = pos + j BY <2>3
  <2>5. g[1] = [j \in 1..u[1] |-> pos + j] BY <2>1
  <2> QED BY <2>2, <2>3, <2>4, <2>5
<1>3. g = [i \in 1..n |-> g[i]] OBVIOUS
<1>4. g[n] = [j \in 1..u[n] |-> pos + j] OBVIOUS
<1>5. seqs = [i \in 1..n |-> seqs[i]] OBVIOUS
<1> HIDE DEF g
<1>6. Flattening(n, seqs, g) BY <1>1, <1>2, <1>3, <1>5 DEF Flattening
<1>7. FlattenSeq(seqs) = g[n] BY <1>6, FlattenIs
<1> QED BY <1>4, <1>7

(* One piece of noise is in the whole.                                     *)
HasNoise(s) == \E x \in 1..Len(s) : s[x] = Noise
NoisyFrom(i, S, m, g) == \A l \in 1..m : g[l] \in Seq(S) /\ (i <= l => HasNoise(g[l]))

LEMMA JoinNoise ==
  ASSUME NEW S, NEW s \in Seq(S), NEW t \in Seq(S)
  PROVE  s \o t \in Seq(S) /\ (HasNoise(s) \/ HasNoise(t) => HasNoise(s \o t))
<1>1. /\ s \o t \in Seq(S) /\ Len(s \o t) = Len(s) + Len(t)
      /\ \A x \in 1..Len(s) + Len(t) : (s \o t)[x] = IF x <= Len(s) THEN s[x] ELSE t[x - Len(s)]
  BY ConcatProperties
<1>2. Len(s) \in Nat /\ Len(t) \in Nat OBVIOUS
<1>3. ASSUME HasNoise(s) PROVE HasNoise(s \o t)
  <2>1. PICK x \in 1..Len(s) : s[x] = Noise BY <1>3 DEF HasNoise
  <2>2. x \in 1..Len(s) + Len(t) /\ x <= Len(s) BY <1>2
  <2>3. x \in 1..Len(s \o t) /\ (s \o t)[x] = Noise BY <1>1, <2>1, <2>2
  <2> QED BY <2>3 DEF HasNoise
<1>4. ASSUME HasNoise(t) PROVE HasNoise(s \o t)
  <2>1. PICK x \in 1..Len(t) : t[x] = Noise BY <1>4 DEF HasNoise
  <2>2. Len(s) + x \in 1..Len(s) + Len(t) /\ ~(Len(s) + x <= Len(s)) /\ Len(s) + x - Len(s) = x
    BY <1>2
  <2>3. Len(s) + x \in 1..Len(s \o t) /\ (s \o t)[Len(s) + x] = Noise BY <1>1, <2>1, <2>2
  <2> QED BY <2>3 DEF HasNoise
<1> QED BY <1>1, <1>3, <1>4

LEMMA FlattenNoise ==
  ASSUME NEW n \in Nat, n > 0, NEW S, NEW seqs, seqs \in [1..n -> Seq(S)],
         NEW i \in 1..n, seqs[i] = <<Noise>>
  PROVE  Noise \in ToSet(FlattenSeq(seqs))
<1> DEFINE Flat(m, g) == g = [l \in 1..m |-> IF l = 1 THEN seqs[l] ELSE g[l - 1] \o seqs[l]]
           T == {m \in Nat : m <= n => \E g : Flat(m, g) /\ NoisyFrom(i, S, m, g)}
<1>1. 0 \in T
  <2> DEFINE g == [l \in 1..0 |-> <<>>]
  <2>1. Flat(0, g) /\ NoisyFrom(i, S, 0, g) BY DEF NoisyFrom
  <2> HIDE DEF g
  <2>2. \E f : Flat(0, f) /\ NoisyFrom(i, S, 0, f) BY <2>1
  <2> QED BY <2>2
<1>2. ASSUME NEW m \in Nat, m \in T PROVE m + 1 \in T
  <2>1. SUFFICES ASSUME m + 1 <= n PROVE \E g : Flat(m + 1, g) /\ NoisyFrom(i, S, m + 1, g)
    <3> HIDE DEF Flat
    <3> QED OBVIOUS
  <2>2. PICK g : Flat(m, g) /\ NoisyFrom(i, S, m, g)
    <3> HIDE DEF Flat
    <3>1. m <= n BY <2>1
    <3> QED BY <1>2, <3>1
  <2>3. \A l \in 1..m : g[l] \in Seq(S) /\ (i <= l => HasNoise(g[l])) BY <2>2 DEF NoisyFrom
  <2> DEFINE last == IF m = 0 THEN seqs[1] ELSE g[m] \o seqs[m + 1]
             h == [l \in 1..m + 1 |-> IF l = m + 1 THEN last ELSE g[l]]
  <2>4. seqs[m + 1] \in Seq(S) /\ (i = m + 1 => HasNoise(seqs[m + 1]))
    <3>1. m + 1 \in 1..n BY <2>1
    <3>2. Len(seqs[i]) = 1 /\ seqs[i][1] = Noise OBVIOUS
    <3>3. HasNoise(seqs[i]) BY <3>2 DEF HasNoise
    <3> QED BY <3>1, <3>3
  <2>5. last \in Seq(S) /\ (i <= m + 1 => HasNoise(last))
    <3>1. i \in Nat /\ i >= 1 OBVIOUS
    <3>2. CASE m = 0
      <4>1. last = seqs[m + 1] /\ (i <= m + 1 => i = m + 1) BY <3>1, <3>2
      <4> HIDE DEF last
      <4> QED BY <2>4, <4>1
    <3>3. CASE m # 0
      <4>1. last = g[m] \o seqs[m + 1] BY <3>3
      <4> HIDE DEF last
      <4>2. g[m] \in Seq(S) /\ (i <= m => HasNoise(g[m]))
        <5>1. m \in 1..m BY <3>3
        <5> QED BY <2>3, <5>1
      <4>3. i <= m + 1 => i <= m \/ i = m + 1 BY <3>1
      <4> QED BY <2>4, <4>1, <4>2, <4>3, JoinNoise
    <3> QED BY <3>2, <3>3
  <2>6. ASSUME NEW l \in 1..m + 1
        PROVE  h[l] = IF l = 1 THEN seqs[l] ELSE h[l - 1] \o seqs[l]
    <3>1. CASE l = m + 1
      <4>1. h[l] = last BY <3>1
      <4>2. CASE m = 0 BY <3>1, <4>1, <4>2
      <4>3. CASE m # 0
        <5>1. l # 1 /\ l - 1 = m /\ m \in 1..m + 1 /\ m # m + 1 BY <3>1, <4>3
        <5>2. h[m] = g[m] BY <5>1
        <5> QED BY <3>1, <4>1, <4>3, <5>1, <5>2
      <4> QED BY <4>2, <4>3
    <3>2. CASE l # m + 1
      <4>1. l \in 1..m /\ h[l] = g[l] BY <3>2
      <4>2. g[l] = IF l = 1 THEN seqs[l] ELSE g[l - 1] \o seqs[l] BY <2>2, <4>1
      <4>3. l # 1 => h[l - 1] = g[l - 1] BY <4>1
      <4> QED BY <4>1, <4>2, <4>3
    <3> QED BY <3>1, <3>2
  <2>7. ASSUME NEW l \in 1..m + 1
        PROVE  h[l] \in Seq(S) /\ (i <= l => HasNoise(h[l]))
    <3>1. CASE l = m + 1
      <4>1. h[l] = last BY <3>1
      <4> HIDE DEF h, last
      <4> QED BY <2>5, <3>1, <4>1
    <3>2. CASE l # m + 1
      <4>1. l \in 1..m /\ h[l] = g[l] BY <3>2
      <4> HIDE DEF h
      <4> QED BY <2>3, <4>1
    <3> QED BY <3>1, <3>2
  <2>8. h = [l \in 1..m + 1 |-> h[l]] OBVIOUS
  <2> HIDE DEF h
  <2>9. Flat(m + 1, h) BY <2>6, <2>8
  <2>10. NoisyFrom(i, S, m + 1, h) BY <2>7 DEF NoisyFrom
  <2> HIDE DEF Flat
  <2> QED BY <2>9, <2>10
<1> HIDE DEF T
<1>3. n \in T BY <1>1, <1>2, NatSetInduction
<1>4. PICK g : Flat(n, g) /\ NoisyFrom(i, S, n, g)
  <2> HIDE DEF Flat
  <2>1. n <= n OBVIOUS
  <2> QED BY <1>3, <2>1 DEF T
<1>5. seqs = [l \in 1..n |-> seqs[l]] OBVIOUS
<1>6. Flattening(n, seqs, g) BY <1>4, <1>5 DEF Flattening
<1>7. FlattenSeq(seqs) = g[n] BY <1>6, FlattenIs
<1>8. g[n] \in Seq(S) /\ HasNoise(g[n])
  <2>1. n \in 1..n /\ i <= n OBVIOUS
  <2> QED BY <1>4, <2>1 DEF NoisyFrom
<1>9. \E x \in 1..Len(g[n]) : g[n][x] = Noise BY <1>8 DEF HasNoise
<1> QED BY <1>7, <1>8, <1>9 DEF ToSet

(* The parity of a chunk, with that of its header.                         *)
LEMMA ParityOfChunk ==
  ASSUME NEW pos \in Nat, NEW len \in Lens, NEW seq \in Nat
  PROVE  ParityHolds(Hdr(pos, len, seq), ToSet([j \in 1..len - BlockSize |-> pos + j]))
<1> DEFINE h == Hdr(pos, len, seq) bytes == ToSet([j \in 1..len - BlockSize |-> pos + j])
<1>1. len \in Nat /\ BlockSize \in Nat BY AESAssumption DEF Lens
<1>2. bytes = pos + 1..pos + len - BlockSize
  <2>1. bytes = {pos + j : j \in 1..len - BlockSize} BY DEF ToSet
  <2>2. ASSUME NEW x \in pos + 1..pos + len - BlockSize PROVE x \in bytes
    <3>1. x - pos \in 1..len - BlockSize /\ x = pos + (x - pos) BY <1>1
    <3> QED BY <2>1, <3>1
  <2>3. \A j \in 1..len - BlockSize : pos + j \in pos + 1..pos + len - BlockSize BY <1>1
  <2> QED BY <2>1, <2>2, <2>3
<1> HIDE DEF bytes
<1>3. Noise \notin bytes BY <1>1, <1>2, NoiseAssumption
<1>4. h.len = len /\ h.seq = seq /\ h.parity = Xor(bytes, HeaderBytes(len, seq))
  BY <1>2 DEF Hdr
<1> HIDE DEF h
<1>5. Xor(Xor(Xor(bytes, HeaderBytes(len, seq)), HeaderBytes(len, seq)), bytes) = {}
  BY DEF Xor
<1> QED BY <1>3, <1>4, <1>5 DEF ParityHolds, h, bytes
-----------------------------------------------------------------------------
(* The writer has given away the first Out bytes; of these the reader has  *)
(* RPos. While the server still waits for the client's proof, that comes   *)
(* before what the client writes.                                          *)
Out == sent - Len(m_buf)
RPos == Len(received) + Len(r_buf)
WriterCursor == Cursor(Out, w_seq, w_hasIV, w_last)
Ahead == IF Server = "done" THEN 0 ELSE 1

Numbers ==
    /\ sent \in Nat /\ m_buf \in Seq(Nat) /\ Len(m_buf) <= sent
    /\ w_seq \in Nat /\ w_last \in Nat /\ w_hasIV \in BOOLEAN
    /\ received \in Seq(Nat) /\ r_buf \in Seq(Nat) /\ r_seq \in Nat /\ r_hasIV \in BOOLEAN
    /\ cut \in BOOLEAN /\ damaged \in BOOLEAN /\ told \in BOOLEAN
    /\ Placed(closed) /\ closed["client"] \in BOOLEAN

(* A side whose handshake is not over has neither written nor read.        *)
Quiet ==
    /\ Client # "done" =>
          sent = 0 /\ m_buf = <<>> /\ w_seq = 0 /\ m_parity = {} /\ ~w_hasIV /\ w_last = 0
    /\ Server # "done" =>
          /\ r_buf = <<>> /\ r_seq = 0 /\ ~r_hasIV /\ r_last = 0 /\ header = None
          /\ received = <<>> /\ ~told

(* What the writer holds: the bytes after Out, and their parity.           *)
WriterInv == ~cut =>
    /\ m_buf = [j \in 1..Len(m_buf) |-> Out + j] /\ m_parity = Out + 1..sent
    /\ w_hasIV <=> w_seq # 0
    /\ w_seq # 0 => w_last # 0
    /\ ~w_hasIV => Out = After(w_last)
    /\ m_buf # <<>> /\ Out = ResetAt => w_seq = 0
    /\ closed["client"] => m_buf = <<>>

(* What the reader holds, and what it expects; after a damaged vector it   *)
(* finds nothing that decrypts.                                            *)
ReaderInv ==
    /\ r_buf = [j \in 1..Len(r_buf) |-> Len(received) + j] /\ RPos <= sent
    /\ ~r_hasIV => r_seq = 0
    /\ r_last \in Nat \/ (r_last = Noise /\ damaged)
    /\ r_last = Noise => r_hasIV /\ r_seq = 0 /\ r_buf = <<>> /\ header = None
    /\ header # None => r_buf = <<>> /\ r_hasIV
    /\ Expects(wkey, In, Ahead, RPos, r_seq, r_hasIV, r_last, header, WriterCursor, cut, sent)

Flowing == Client = "done" /\ Server \in {"proof", "done"} /\ ~told
Flow == Flowing =>
    /\ WriterInv /\ ReaderInv
    /\ Carries(wkey, In, Ahead, WriterCursor, cut, sent, ~damaged)
ConduitInv == Numbers /\ Quiet /\ Flow

(* What a flush sends.                                                     *)
LEMMA PrefixIs ==
  ASSUME NEW S, NEW s, NEW n \in Nat, \A i \in 1..n : s[i] \in S
  PROVE  LET t == SubSeq(s, 1, n)
         IN  t \in Seq(S) /\ Len(t) = n /\ \A i \in 1..n : t[i] = s[i]
<1>1. /\ SubSeq(s, 1, n) \in Seq(S) /\ Len(SubSeq(s, 1, n)) = IF 1 <= n THEN n - 1 + 1 ELSE 0
      /\ \A i \in 1..n - 1 + 1 : SubSeq(s, 1, n)[i] = s[1 + i - 1]
  BY SubSeqProperties
<1>2. n - 1 + 1 = n /\ \A i \in 1..n : 1 + i - 1 = i OBVIOUS
<1> QED BY <1>1, <1>2

LEMMA AppendIs ==
  ASSUME NEW w, Listed(w), NEW s, Listed(s), NEW n \in 0..Len(s)
  PROVE  LET v == w \o SubSeq(s, 1, n) IN Listed(v) /\ Extended(w, s, n, v)
<1> DEFINE t == SubSeq(s, 1, n) v == w \o t
           S == {w[i] : i \in 1..Len(w)} \cup {s[i] : i \in 1..Len(s)}
<1>0. n \in Nat /\ n <= Len(s) /\ Len(w) \in Nat BY DEF Listed
<1>1. w \in Seq(S)
  <2>1. w \in [1..Len(w) -> S] BY DEF Listed
  <2> HIDE DEF S
  <2> QED BY <1>0, <2>1
<1>2. t \in Seq(S) /\ Len(t) = n /\ \A i \in 1..n : t[i] = s[i]
  <2>1. \A i \in 1..n : s[i] \in S BY <1>0 DEF Listed
  <2> HIDE DEF S
  <2> QED BY <1>0, <2>1, PrefixIs
<1> HIDE DEF S, t
<1>3. /\ v \in Seq(S) /\ Len(v) = Len(w) + Len(t)
      /\ \A i \in 1..Len(w) + Len(t) : v[i] = IF i <= Len(w) THEN w[i] ELSE t[i - Len(w)]
  BY <1>1, <1>2, ConcatProperties
<1> HIDE DEF v
<1>4. \A i \in 1..Len(w) : v[i] = w[i] BY <1>2, <1>3
<1>5. ASSUME NEW i \in 1..n PROVE v[Len(w) + i] = s[i]
  <2>1. Len(w) + i \in 1..Len(w) + Len(t) /\ ~(Len(w) + i <= Len(w)) /\ Len(w) + i - Len(w) = i
    BY <1>0, <1>2
  <2>2. v[Len(w) + i] = t[i] BY <1>3, <2>1
  <2> QED BY <1>2, <2>2
<1>6. Listed(v) BY <1>3 DEF Listed
<1>7. Len(v) = Len(w) + n BY <1>2, <1>3
<1> QED BY <1>4, <1>5, <1>6, <1>7 DEF Extended, v, t

LEMMA ChunkIs ==
  ASSUME Numbers, WriterInv, ~cut, m_buf # <<>>
  PROVE  /\ BlockSize + Len(m_buf) \in Lens /\ Out \in Nat
         /\ Chunk = [i \in 1..Blocks(BlockSize + Len(m_buf)) |->
                       IF i = 1 THEN Header(wkey, Out, BlockSize + Len(m_buf), w_seq, w_last)
                       ELSE Data(wkey, Out, BlockSize + Len(m_buf), i - 1, w_last)]
<1> DEFINE len == BlockSize + Len(m_buf)
<1>1. /\ Len(m_buf) \in Nat \ {0} /\ BlockSize \in Nat \ {0} /\ sent \in Nat /\ Len(m_buf) <= sent
      /\ w_last \in Nat /\ w_seq \in Nat
  BY AESAssumption DEF Numbers
<1>2. len \in Lens /\ Out \in Nat /\ Out + len - BlockSize = sent /\ len - BlockSize = Len(m_buf)
  BY <1>1 DEF Lens, Out
<1>3. m_buf \in Seq(Nat) /\ m_parity = Out + 1..sent /\ m_buf = [j \in 1..Len(m_buf) |-> Out + j]
  BY DEF Numbers, WriterInv
<1>4. [len |-> len, seq |-> w_seq, parity |-> Xor(m_parity, HeaderBytes(len, w_seq))] = Hdr(Out, len, w_seq)
  BY <1>2, <1>3 DEF Hdr
<1> HIDE DEF len
<1>5. ASSUME NEW i \in 1..Blocks(len), i # 1
      PROVE  SubSeq(m_buf, ((i - 1) - 1) * BlockSize + 1, Least((i - 1) * BlockSize, Len(m_buf)))
               = Bytes(Out, len, i - 1)
  <2> DEFINE n == i - 1 a == Upto(len, n - 1) b == Upto(len, n)
  <2>1. n \in 1..Blocks(len) - 1 BY <1>2, <1>5, SomeBlocks
  <2>2. a \in Nat /\ b \in Nat /\ a < b /\ a = (n - 1) * BlockSize BY <1>2, <2>1, UptoIs
  <2>3. b = Least(n * BlockSize, Len(m_buf)) BY <1>2 DEF Upto
  <2>4. b <= Len(m_buf)
    <3>1. n * BlockSize \in Int BY <1>1, <2>1
    <3> QED BY <1>1, <2>3, <3>1 DEF Least
  <2>5. Bytes(Out, len, n) = [j \in 1..b - a |-> Out + a + j] BY DEF Bytes
  <2> HIDE DEF a, b
  <2> DEFINE s == SubSeq(m_buf, a + 1, b) t == [j \in 1..b - a |-> Out + a + j]
  <2>6. s \in Seq(Nat) /\ Len(s) = b - a /\ \A j \in 1..b - a : s[j] = Out + a + j
    <3>1. \A j \in a + 1..b : j \in 1..Len(m_buf) BY <1>1, <2>2, <2>4
    <3>2. \A j \in a + 1..b : m_buf[j] = Out + j BY <1>3, <3>1
    <3>3. \A j \in a + 1..b : m_buf[j] \in Nat BY <3>1, <1>3
    <3>4. /\ s \in Seq(Nat) /\ Len(s) = IF a + 1 <= b THEN b - (a + 1) + 1 ELSE 0
          /\ \A j \in 1..b - (a + 1) + 1 : s[j] = m_buf[a + 1 + j - 1]
      <4>1. a + 1 \in Int /\ b \in Int BY <2>2
      <4> QED BY <3>3, <4>1, SubSeqProperties
    <3> HIDE DEF s
    <3>5. Len(s) = b - a BY <2>2, <3>4
    <3>6. ASSUME NEW j \in 1..b - a PROVE s[j] = Out + a + j
      <4>1. j \in 1..b - (a + 1) + 1 /\ a + 1 + j - 1 \in a + 1..b BY <2>2
      <4>2. s[j] = m_buf[a + 1 + j - 1] BY <3>4, <4>1
      <4>3. m_buf[a + 1 + j - 1] = Out + (a + 1 + j - 1) BY <3>2, <4>1
      <4>4. Out + (a + 1 + j - 1) = Out + a + j BY <1>2, <2>2
      <4> QED BY <4>2, <4>3, <4>4
    <3> QED BY <3>4, <3>5, <3>6
  <2>7. t \in Seq(Nat) /\ Len(t) = b - a /\ \A j \in 1..b - a : t[j] = Out + a + j
    <3>1. Out + a \in Nat /\ b - a \in Nat BY <1>2, <2>2
    <3> QED BY <3>1, Counting
  <2> HIDE DEF s, t
  <2>8. s = t BY <2>6, <2>7, SeqEqual
  <2>9. SubSeq(m_buf, (n - 1) * BlockSize + 1, Least(n * BlockSize, Len(m_buf))) = s
    BY <2>2, <2>3 DEF s
  <2> QED BY <2>5, <2>8, <2>9 DEF t
<1>6. ASSUME NEW i \in 1..Blocks(len)
      PROVE  w_last + i - 1 = w_last + (i - 1) /\ w_last + 1 + (i - 1) = w_last + i
             /\ w_last + 1 - 1 = w_last
  BY <1>1, <1>2, SomeBlocks
<1>7. Chunk = [i \in 1..Blocks(len) |->
                 Enc(IF i = 1 THEN <<"head", Hdr(Out, len, w_seq)>>
                     ELSE <<"data", SubSeq(m_buf, ((i - 1) - 1) * BlockSize + 1,
                                           Least((i - 1) * BlockSize, Len(m_buf)))>>,
                     w_last + i, w_last + i - 1)]
  BY <1>4 DEF Chunk, len
<1>8. ASSUME NEW i \in 1..Blocks(len)
      PROVE  Enc(IF i = 1 THEN <<"head", Hdr(Out, len, w_seq)>>
                     ELSE <<"data", SubSeq(m_buf, ((i - 1) - 1) * BlockSize + 1,
                                           Least((i - 1) * BlockSize, Len(m_buf)))>>,
                     w_last + i, w_last + i - 1)
             = IF i = 1 THEN Header(wkey, Out, len, w_seq, w_last)
               ELSE Data(wkey, Out, len, i - 1, w_last)
  <2>1. CASE i = 1 BY <1>6, <2>1 DEF Enc, Header, Sealed
  <2>2. CASE i # 1 BY <1>5, <1>6, <2>2 DEF Enc, Data, Sealed
  <2> QED BY <2>1, <2>2
<1> QED BY <1>2, <1>7, <1>8 DEF len

LEMMA FlushSends ==
  ASSUME Numbers, WriterInv, ~cut, m_buf # <<>>
  PROVE  LET len == BlockSize + Len(m_buf)
             s == Sending(wkey, Out, len, w_seq, w_hasIV, w_last)
         IN  /\ len \in Lens /\ Out \in Nat /\ Out + len - BlockSize = sent
             /\ InitVector \o Chunk = s
             /\ Len(InitVector) = Before(w_hasIV) /\ Len(Chunk) = Blocks(len)
             /\ Len(s) = Before(w_hasIV) + Blocks(len) /\ Listed(s)
<1> DEFINE len == BlockSize + Len(m_buf) s == Sending(wkey, Out, len, w_seq, w_hasIV, w_last)
           b == Before(w_hasIV) c == Blocks(len)
           S == {Vector(wkey, w_last), Header(wkey, Out, len, w_seq, w_last)}
                  \cup {Data(wkey, Out, len, i, w_last) : i \in Int}
<1>1. len \in Lens /\ Out \in Nat BY ChunkIs
<1>2. Chunk = [i \in 1..c |-> IF i = 1 THEN Header(wkey, Out, len, w_seq, w_last)
                              ELSE Data(wkey, Out, len, i - 1, w_last)]
  BY ChunkIs
<1>3. Out + len - BlockSize = sent
  BY AESAssumption DEF Out, Numbers
<1>4. c \in Nat \ {0, 1} BY <1>1, SomeBlocks
<1>5. b \in {0, 1} /\ w_hasIV \in BOOLEAN BY DEF Before, Numbers
<1>6. s = [i \in 1..b + c |-> IF i <= b THEN Vector(wkey, w_last)
             ELSE IF i = b + 1 THEN Header(wkey, Out, len, w_seq, w_last)
             ELSE Data(wkey, Out, len, i - b - 1, w_last)]
  BY DEF Sending
<1> HIDE DEF s, c
<1>7. Chunk \in Seq(S) /\ Len(Chunk) = c
  <2>1. \A i \in 1..c : i - 1 \in Int BY <1>4
  <2>2. Chunk \in [1..c -> S] BY <1>2, <2>1
  <2> HIDE DEF S, len
  <2> QED BY <1>4, <2>2
<1>8. InitVector = [i \in 1..b |-> Vector(wkey, w_last)] /\ Len(InitVector) = b
  BY <1>5 DEF InitVector, Enc, Vector, Sealed, Before
<1>9. InitVector \in Seq(S)
  <2>1. InitVector \in [1..b -> S] BY <1>8
  <2> HIDE DEF S, len
  <2> QED BY <1>5, <2>1
<1>10. s \in Seq(S) /\ Len(s) = b + c
  <2>1. \A i \in 1..b + c : i - b - 1 \in Int BY <1>4, <1>5
  <2>2. s \in [1..b + c -> S] BY <1>6, <2>1
  <2>3. b + c \in Nat BY <1>4, <1>5
  <2> HIDE DEF S, len, b
  <2> QED BY <2>2, <2>3
<1> HIDE DEF S, b
<1>11. /\ InitVector \o Chunk \in Seq(S) /\ Len(InitVector \o Chunk) = b + c
       /\ \A i \in 1..b + c :
            (InitVector \o Chunk)[i] = IF i <= b THEN InitVector[i] ELSE Chunk[i - b]
  <2>1. /\ InitVector \o Chunk \in Seq(S)
        /\ Len(InitVector \o Chunk) = Len(InitVector) + Len(Chunk)
        /\ \A i \in 1..Len(InitVector) + Len(Chunk) :
             (InitVector \o Chunk)[i] =
                IF i <= Len(InitVector) THEN InitVector[i] ELSE Chunk[i - Len(InitVector)]
    BY <1>7, <1>9, ConcatProperties
  <2>2. Len(InitVector) = b /\ Len(Chunk) = c BY <1>7, <1>8
  <2> QED BY <2>1, <2>2
<1>12. ASSUME NEW i \in 1..b + c PROVE (InitVector \o Chunk)[i] = s[i]
  <2>1. CASE i <= b
    <3>1. i \in 1..b BY <1>5, <2>1
    <3> QED BY <1>6, <1>8, <1>11, <2>1, <3>1
  <2>2. CASE ~(i <= b)
    <3>1. i - b \in 1..c /\ (i - b = 1 <=> i = b + 1) BY <1>4, <1>5, <2>2
    <3>2. (InitVector \o Chunk)[i] = Chunk[i - b] BY <1>11, <2>2
    <3> HIDE DEF len
    <3>3. Chunk[i - b] = IF i - b = 1 THEN Header(wkey, Out, len, w_seq, w_last)
                         ELSE Data(wkey, Out, len, i - b - 1, w_last)
      BY <1>2, <3>1
    <3> QED BY <1>6, <2>2, <3>1, <3>2, <3>3
  <2> QED BY <2>1, <2>2
<1>13. InitVector \o Chunk = s BY <1>10, <1>11, <1>12, SeqEqual
<1>14. Listed(s) BY <1>10 DEF Listed
<1> QED BY <1>1, <1>3, <1>7, <1>8, <1>10, <1>13, <1>14 DEF s, b, c

(* What ReadRest makes of the data behind a header.                        *)
Plain(n) == [i \in 1..n |-> Dec(In[i], IF i = 1 THEN r_last ELSE Name(In[i - 1]))]
RestBytes(n) ==
    FlattenSeq([i \in 1..n |-> IF Plain(n)[i] = Garbage THEN <<Noise>> ELSE Plain(n)[i][2]])

LEMMA SealedIs ==
  ASSUME NEW k, NEW plain, NEW name, NEW chain, NEW block, block = Sealed(k, plain, name, chain),
         block # Noise
  PROVE  /\ Name(block) = name /\ block[2].chain = chain
         /\ rkey = k => \A c : Dec(block, c) = IF c = chain THEN plain ELSE Garbage
<1>1. block[2] = [plain |-> plain, key |-> k, name |-> name, chain |-> chain] BY DEF Sealed
<1> QED BY <1>1 DEF Name, Dec

LEMMA RestIsRead ==
  ASSUME NEW pos \in Nat, NEW len \in Lens, NEW l \in Nat, r_last = l + 1, rkey = wkey,
         DataFrom(wkey, In, 0, pos, len, l), Blocks(len) - 1 <= Len(In), Len(In) \in Nat,
         \A i \in 1..Blocks(len) - 1 : In[i] # Noise
  PROVE  /\ RestBytes(Blocks(len) - 1) = [j \in 1..len - BlockSize |-> pos + j]
         /\ Name(In[Blocks(len) - 1]) = l + Blocks(len)
<1> DEFINE n == Blocks(len) - 1
<1>1. n \in Nat \ {0} /\ Blocks(len) \in Nat /\ n + 1 = Blocks(len) BY SomeBlocks
<1>2. ASSUME NEW i \in 1..n PROVE In[i] = Data(wkey, pos, len, i, l) /\ In[i] # Noise
  <2>1. i \in 1..Blocks(len) - 1 /\ 0 + i = i /\ i <= Len(In) BY <1>1
  <2> QED BY <2>1 DEF DataFrom
<1>0. \A i \in 1..n : i \in 1..Blocks(len) - 1 OBVIOUS
<1> HIDE DEF n
<1>3. ASSUME NEW i \in 1..n PROVE Name(In[i]) = l + 1 + i
  <2>1. /\ In[i] = Sealed(wkey, <<"data", Bytes(pos, len, i)>>, l + 1 + i, l + i)
        /\ In[i] # Noise
    BY <1>2 DEF Data
  <2> QED BY <2>1, SealedIs
<1>4. ASSUME NEW i \in 1..n PROVE Plain(n)[i] = <<"data", Bytes(pos, len, i)>>
  <2>1. (IF i = 1 THEN r_last ELSE Name(In[i - 1])) = l + i
    <3>1. i # 1 => i - 1 \in 1..n /\ l + 1 + (i - 1) = l + i BY <1>1
    <3> QED BY <1>3, <3>1
  <2>2. Dec(In[i], l + i) = <<"data", Bytes(pos, len, i)>>
    <3>1. /\ In[i] = Sealed(wkey, <<"data", Bytes(pos, len, i)>>, l + 1 + i, l + i)
          /\ In[i] # Noise
      BY <1>2 DEF Data
    <3>2. \A c : Dec(In[i], c) = IF c = l + i THEN <<"data", Bytes(pos, len, i)>> ELSE Garbage
      BY <3>1, SealedIs
    <3> QED BY <3>2
  <2> QED BY <2>1, <2>2 DEF Plain
<1>5. ASSUME NEW i \in 1..n
      PROVE  (IF Plain(n)[i] = Garbage THEN <<Noise>> ELSE Plain(n)[i][2]) = Bytes(pos, len, i)
  <2>1. /\ <<"data", Bytes(pos, len, i)>> # Garbage
        /\ <<"data", Bytes(pos, len, i)>>[2] = Bytes(pos, len, i)
    BY DEF Garbage
  <2>2. Plain(n)[i] = <<"data", Bytes(pos, len, i)>> BY <1>4
  <2> QED BY <2>1, <2>2
<1> DEFINE u == [i \in 0..n |-> Upto(len, i)]
           seqs == [i \in 1..n |-> [j \in 1..u[i] - u[i - 1] |-> pos + u[i - 1] + j]]
<1>6. /\ u \in [0..n -> Nat] /\ u[0] = 0 /\ u[n] = len - BlockSize
      /\ \A i \in 1..n : u[i - 1] <= u[i]
  <2>1. ASSUME NEW i \in 1..n
        PROVE  /\ u[i] = Upto(len, i) /\ u[i - 1] = Upto(len, i - 1)
               /\ u[i] \in Nat /\ u[i - 1] \in Nat /\ u[i - 1] <= u[i]
    <3>1. i \in 0..n /\ i - 1 \in 0..n BY <1>1
    <3>2. Upto(len, i) \in Nat /\ Upto(len, i - 1) \in Nat /\ Upto(len, i - 1) < Upto(len, i)
      BY <1>0, UptoIs
    <3> QED BY <3>1, <3>2
  <2>2. 1 \in 1..n /\ n \in 1..n /\ n \in 0..n /\ 0 \in 0..n BY <1>1
  <2>3. u[0] = 0 /\ u[n] = len - BlockSize
    <3>1. Upto(len, 0) = 0 /\ Upto(len, n) = len - BlockSize BY <1>0, <2>2, UptoIs DEF n
    <3> QED BY <2>2, <3>1
  <2>4. \A i \in 0..n : i # 0 => i \in 1..n BY <1>1
  <2>5. ASSUME NEW i \in 0..n PROVE u[i] \in Nat
    <3>1. u[0] \in Nat BY <2>3
    <3>2. i \in 1..n => u[i] \in Nat BY <2>1
    <3> HIDE DEF u
    <3> QED BY <2>4, <3>1, <3>2
  <2> QED BY <2>1, <2>3, <2>5
<1>7. ASSUME NEW i \in 1..n PROVE seqs[i] = Bytes(pos, len, i)
  <2>1. i \in 0..n /\ i - 1 \in 0..n BY <1>1
  <2> QED BY <2>1 DEF Bytes
<1>8. [i \in 1..n |-> IF Plain(n)[i] = Garbage THEN <<Noise>> ELSE Plain(n)[i][2]] = seqs
  <2>1. seqs = [i \in 1..n |-> seqs[i]] OBVIOUS
  <2> HIDE DEF seqs
  <2> QED BY <1>5, <1>7, <2>1
<1>9. FlattenSeq(seqs) = [j \in 1..u[n] |-> pos + j]
  <2> HIDE DEF u
  <2>1. n \in Nat /\ n > 0 BY <1>1
  <2>2. seqs = [i \in 1..n |-> [j \in 1..u[i] - u[i - 1] |-> pos + u[i - 1] + j]] OBVIOUS
  <2> HIDE DEF seqs
  <2>3. Pieces(n, u, pos, seqs) BY <1>6, <2>2 DEF Pieces
  <2> QED BY <2>1, <2>3, FlattenPieces
<1>10. RestBytes(n) = [j \in 1..len - BlockSize |-> pos + j]
  <2> HIDE DEF u, seqs
  <2> QED BY <1>6, <1>8, <1>9 DEF RestBytes
<1>11. Name(In[n]) = l + Blocks(len)
  <2>1. n \in 1..n /\ l + 1 + n = l + Blocks(len) BY <1>1
  <2> QED BY <1>3, <2>1
<1> QED BY <1>10, <1>11 DEF n

LEMMA NoiseIsRead ==
  ASSUME NEW pos \in Nat, NEW len \in Lens, NEW l \in Nat,
         DataFrom(wkey, In, 0, pos, len, l), Blocks(len) - 1 <= Len(In), Len(In) \in Nat,
         NEW i \in 1..Blocks(len) - 1, In[i] = Noise
  PROVE  Noise \in ToSet(RestBytes(Blocks(len) - 1))
<1> DEFINE n == Blocks(len) - 1
           seqs == [j \in 1..n |-> IF Plain(n)[j] = Garbage THEN <<Noise>> ELSE Plain(n)[j][2]]
           S == Nat \cup {Noise}
<1>1. n \in Nat \ {0} BY SomeBlocks
<1>2. ASSUME NEW j \in 1..n PROVE seqs[j] \in Seq(S)
  <2>1. j \in 1..Blocks(len) - 1 /\ 0 + j = j /\ j <= Len(In) BY <1>1
  <2>2. In[j] \in {Noise, Data(wkey, pos, len, j, l)} BY <2>1 DEF DataFrom
  <2>3. Plain(n)[j] \in {Garbage, <<"data", Bytes(pos, len, j)>>}
    <3>1. \A chain : Dec(In[j], chain) \in {Garbage, <<"data", Bytes(pos, len, j)>>}
      BY <2>2 DEF Dec, Data, Sealed
    <3> HIDE DEF n
    <3> QED BY <3>1 DEF Plain
  <2>4. Bytes(pos, len, j) \in Seq(S)
    <3>1. Bytes(pos, len, j) \in Seq(Nat) BY BytesAre
    <3> QED BY <3>1, SeqMonotonic
  <2>5. <<Noise>> \in Seq(S) OBVIOUS
  <2> HIDE DEF S, n
  <2>6. seqs[j] \in {<<Noise>>, Bytes(pos, len, j)} BY <2>3
  <2> QED BY <2>4, <2>5, <2>6
<1>3. seqs[i] = <<Noise>>
  <2>1. \A chain : Dec(In[i], chain) = Garbage BY DEF Dec
  <2> HIDE DEF n
  <2>2. Plain(n)[i] = Garbage BY <2>1 DEF Plain, n
  <2> QED BY <2>2 DEF n
<1>4. seqs \in [1..n -> Seq(S)]
  <2> HIDE DEF S, n
  <2> QED BY <1>2
<1>5. n > 0 /\ i \in 1..n BY <1>1
<1>6. RestBytes(n) = FlattenSeq(seqs) BY DEF RestBytes
<1> HIDE DEF seqs, n, S
<1> QED BY <1>1, <1>3, <1>4, <1>5, <1>6, FlattenNoise DEF n
-----------------------------------------------------------------------------
(* What the writer does, and what happens to the wire, while the reader    *)
(* stands still.                                                           *)
LEMMA ReaderStands ==
  ASSUME ConduitInv, UNCHANGED setupVars, UNCHANGED keys, UNCHANGED readerVars,
         Client = "done" \/ UNCHANGED writerVars, Numbers',
         sent <= sent', damaged => damaged',
         Flowing =>
           /\ WriterInv'
           /\ Carries(wkey, In', Ahead, WriterCursor', cut', sent', ~damaged')
           /\ Expects(wkey, In', Ahead, RPos, r_seq, r_hasIV, r_last, header,
                      WriterCursor', cut', sent')
  PROVE  ConduitInv'
<1>1. UNCHANGED <<Client, Server, Ahead, wkey, RPos, told>>
  BY DEF setupVars, readerVars, Client, Server, Ahead, wkey, RPos
<1>2. UNCHANGED <<r_buf, r_seq, r_hasIV, r_last, header, received>>
  BY DEF readerVars
<1>3. Quiet'
  BY <1>1, <1>2 DEF ConduitInv, Quiet, writerVars
<1>4. Flow'
  <2>1. SUFFICES ASSUME Flowing
                 PROVE  WriterInv' /\ ReaderInv'
                        /\ Carries(wkey, In, Ahead, WriterCursor, cut, sent, ~damaged)'
    BY <1>1 DEF Flow, Flowing
  <2>2. Carries(wkey, In, Ahead, WriterCursor, cut, sent, ~damaged)' BY <1>1, <2>1
  <2>3. Expects(wkey, In, Ahead, RPos, r_seq, r_hasIV, r_last, header, WriterCursor, cut, sent)'
    BY <1>1, <1>2, <2>1
  <2>4. RPos' <= sent'
    <3>1. RPos \in Nat /\ RPos <= sent /\ sent \in Nat /\ sent' \in Nat
      BY <2>1 DEF ConduitInv, Numbers, RPos, Flow, ReaderInv
    <3> QED BY <1>1, <3>1
  <2>5. ReaderInv'
    BY <1>1, <1>2, <2>1, <2>3, <2>4 DEF ConduitInv, Flow, ReaderInv
  <2> QED BY <2>1, <2>2, <2>5
<1> QED BY <1>3, <1>4 DEF ConduitInv

LEMMA Untouched ==
  ASSUME wire' = wire
  PROVE  In' = In
BY DEF In

(* When the wire is broken it does not matter where the writer is.         *)
LEMMA LostIsLost ==
  ASSUME NEW w, NEW v, Listed(v), Len(w) \in Nat, Longer(v, w), NEW k, NEW o \in Nat, NEW end,
         NEW lost, NEW end2, NEW max, NEW clean, Carries(k, w, o, end, lost, max, clean),
         NEW pos, NEW seq, NEW hasIV, NEW last, NEW h,
         Expects(k, w, o, pos, seq, hasIV, last, h, end, lost, max)
  PROVE  /\ Carries(k, v, o, end2, TRUE, max, clean)
         /\ Expects(k, v, o, pos, seq, hasIV, last, h, end2, TRUE, max)
<1>1. Len(v) \in Nat BY DEF Listed
<1>2. Becomes(k, 0, o, w, end, lost, v, end2, TRUE) BY <1>1, LostComes
<1>3. Carries(k, w, o + 0, end, lost, max, clean)
  <2>1. o + 0 = o OBVIOUS
  <2> QED BY <2>1
<1>4. \A i \in o + 1..Len(v) : i + 0 <= Len(w) /\ v[i] = w[i + 0] BY <1>1 DEF Longer
<1>5. \A i \in o + 1..Len(v) : ~(i + 0 > Len(w)) BY <1>1, <1>4
<1>6. Carries(k, v, o, end2, TRUE, max, clean)
  BY <1>1, <1>2, <1>3, <1>4, <1>5, CarriesStay
<1>7. Expects(k, v, o, pos, seq, hasIV, last, h, end2, TRUE, max)
  BY <1>1, <1>2, ExpectsStays
<1> QED BY <1>6, <1>7

LEMMA SendKeeps ==
  ASSUME Numbers, WriterInv, ~cut, m_buf # <<>>, wkey \in {kcw(v) : v \in Vectors},
         NEW o \in Nat, NEW clean, Carries(wkey, In, o, WriterCursor, cut, sent, clean),
         NEW pos, NEW seq, NEW hasIV, NEW last, NEW h,
         Expects(wkey, In, o, pos, seq, hasIV, last, h, WriterCursor, cut, sent),
         NEW n \in 0..Len(InitVector \o Chunk), NEW v, Listed(v),
         Extended(In, InitVector \o Chunk, n, v),
         NEW end2, NEW lost \in BOOLEAN,
         \/ lost
         \/ /\ n = Len(InitVector \o Chunk)
            /\ end2 = Cursor(sent, w_seq + (BlockSize + Len(m_buf)), TRUE, w_last + Len(Chunk))
  PROVE  /\ Carries(wkey, v, o, end2, lost, sent, clean)
         /\ Expects(wkey, v, o, pos, seq, hasIV, last, h, end2, lost, sent)
<1> DEFINE len == BlockSize + Len(m_buf) s == Sending(wkey, Out, len, w_seq, w_hasIV, w_last)
<1>1. /\ len \in Lens /\ Out \in Nat /\ Out + len - BlockSize = sent
      /\ InitVector \o Chunk = s /\ Len(Chunk) = Blocks(len)
      /\ Len(s) = Before(w_hasIV) + Blocks(len)
  BY FlushSends
<1>2. Len(In) \in Nat /\ Len(v) \in Nat BY DEF Carries, Listed
<1>3. w_seq \in Nat /\ w_last \in Nat /\ w_hasIV \in BOOLEAN BY DEF Numbers
<1>4. Ready(Out, w_seq, w_hasIV, w_last) BY DEF WriterInv, Ready
<1> HIDE DEF len, s
<1>5. n \in 0..Before(w_hasIV) + Blocks(len) /\ Extended(In, s, n, v) BY <1>1
<1>6. EndsAt(n, Out, len, w_seq, w_hasIV, w_last, end2, lost)
  BY <1>1 DEF EndsAt, len
<1>7. /\ Comes(wkey, v, Len(In) + 1, WriterCursor, end2, lost)
      /\ \A i \in Len(In) + 1..Len(v) : Linked(wkey, v, i, end2, lost, sent)
  <2>1. /\ Comes(wkey, v, Len(In) + 1, Cursor(Out, w_seq, w_hasIV, w_last), end2, lost)
        /\ \A i \in Len(In) + 1..Len(v) : Linked(wkey, v, i, end2, lost, Out + len - BlockSize)
    <3>1. Extended(In, Sending(wkey, Out, len, w_seq, w_hasIV, w_last), n, v) BY <1>5 DEF s
    <3>2. /\ Len(In) \in Nat /\ Out \in Nat /\ len \in Lens
          /\ n \in 0..Before(w_hasIV) + Blocks(len)
      BY <1>1, <1>2, <1>5
    <3> QED BY <1>3, <1>4, <1>6, <3>1, <3>2, SentComes, ZenonT(30)
  <2> QED BY <1>1, <2>1 DEF WriterCursor
<1>8. \A i \in Len(In) + 1..Len(v) : v[i] # Noise
  BY <1>1, <1>2, <1>3, <1>5, SentIsClean DEF s
<1>9. Longer(In, v) BY <1>2, <1>5 DEF Extended, Longer
<1>10. cut = FALSE BY DEF Numbers
<1>11. Becomes(wkey, 0, o, In, WriterCursor, FALSE, v, end2, lost)
  BY <1>2, <1>7, <1>9, MoreComes
<1>12. Carries(wkey, In, o + 0, WriterCursor, FALSE, sent, clean)
  <2>1. o + 0 = o OBVIOUS
  <2> QED BY <1>10, <2>1
<1>13. \A i \in o + 1..Len(v) :
         /\ i + 0 <= Len(In) => v[i] = In[i + 0]
         /\ i + 0 > Len(In) => i \in Len(In) + 1..Len(v)
  BY <1>2, <1>9 DEF Longer
<1>14. Carries(wkey, v, o, end2, lost, sent, clean)
  BY <1>7, <1>8, <1>11, <1>12, <1>13, CarriesStay
<1>15. Expects(wkey, v, o, pos, seq, hasIV, last, h, end2, lost, sent)
  BY <1>2, <1>10, <1>11, ExpectsStays
<1> QED BY <1>14, <1>15

LEMMA ClientKey ==
  ASSUME SecureInv, Client = "done"
  PROVE  wkey \in {kcw(v) : v \in Vectors}
<1>1. keys["client"] = [reads |-> ksw(ClientV), writes |-> kcw(ClientV)] /\ ClientV \in Vectors
  BY DEF SecureInv, Agreed, Types
<1> QED BY <1>1 DEF wkey

LEMMA WritesBytes ==
  ASSUME ConduitInv, Client = "done", UNCHANGED setupVars, ~closed["client"],
         NEW len \in WriteLengths, Write(len)
  PROVE  ConduitInv' /\ [C!Next]_C!vars
<1> DEFINE n == Least(BufSize - Len(m_buf), len) bytes == [j \in 1..n |-> sent + j]
<1>1. /\ Len(m_buf) < BufSize
      /\ sent = ResetAt => m_buf = <<>> /\ ~w_hasIV
      /\ m_buf' = m_buf \o bytes /\ m_parity' = Xor(m_parity, ToSet(bytes)) /\ sent' = sent + n
      /\ UNCHANGED <<innerVars, w_seq, w_hasIV, w_last, readerVars>>
  BY DEF Write
<1>2. Numbers BY DEF ConduitInv
<1>3. n \in Nat \ {0}
  <2>1. BufSize \in Nat /\ len \in Nat \ {0} /\ Len(m_buf) \in Nat
    <3>1. BufBlocks - 1 \in Nat /\ BlockSize \in Nat BY AESAssumption
    <3>2. (BufBlocks - 1) * BlockSize \in Nat BY <3>1, SMT
    <3>3. Len(m_buf) \in Nat BY <1>2 DEF Numbers
    <3> QED BY <3>2, <3>3, AESAssumption DEF BufSize
  <2> QED BY <1>1, <2>1 DEF Least
<1> HIDE DEF n
<1>4. sent \in Nat /\ Len(m_buf) \in Nat /\ Len(m_buf) <= sent /\ m_buf \in Seq(Nat)
  BY <1>2 DEF Numbers
<1>5. bytes \in Seq(Nat) /\ Len(bytes) = n BY <1>3, <1>4, Counting
<1> HIDE DEF bytes
<1>6. m_buf' \in Seq(Nat) /\ Len(m_buf') = Len(m_buf) + n
  BY <1>1, <1>4, <1>5, ConcatProperties
<1>7. sent' \in Nat /\ sent <= sent' /\ Len(m_buf') <= sent' /\ Out' = Out /\ Out \in Nat
  BY <1>1, <1>3, <1>4, <1>6 DEF Out
<1>8. UNCHANGED <<wire, closed, cut, damaged, keys>> BY <1>1 DEF innerVars
<1>9. Numbers'
  BY <1>1, <1>2, <1>6, <1>7, <1>8 DEF Numbers, readerVars, Placed
<1>10. WriterCursor' = WriterCursor BY <1>1, <1>7 DEF WriterCursor
<1>11. In' = In BY <1>8, Untouched
<1>12. ASSUME WriterInv PROVE WriterInv'
  <2>1. SUFFICES ASSUME ~cut
                 PROVE  /\ m_buf' = [j \in 1..Len(m_buf') |-> Out + j] /\ m_parity' = Out + 1..sent'
                        /\ m_buf' # <<>> /\ Out = ResetAt => w_seq = 0
    BY <1>1, <1>7, <1>8, <1>12 DEF WriterInv
  <2>2. /\ m_buf = [j \in 1..Len(m_buf) |-> Out + j] /\ m_parity = Out + 1..sent
        /\ w_hasIV <=> w_seq # 0
        /\ m_buf # <<>> /\ Out = ResetAt => w_seq = 0
    BY <1>12, <2>1 DEF WriterInv
  <2>3. bytes = [j \in 1..(Len(m_buf) + n) - Len(m_buf) |-> Out + Len(m_buf) + j]
    <3>1. (Len(m_buf) + n) - Len(m_buf) = n BY <1>3, <1>4
    <3>2. Out + Len(m_buf) = sent BY <1>4 DEF Out
    <3> QED BY <3>1, <3>2 DEF bytes
  <2>4. m_buf' = [j \in 1..Len(m_buf) + n |-> Out + j]
    <3>1. Len(m_buf) + n \in Nat /\ Len(m_buf) <= Len(m_buf) + n BY <1>3, <1>4
    <3>2. [j \in 1..Len(m_buf) |-> Out + j]
             \o [j \in 1..(Len(m_buf) + n) - Len(m_buf) |-> Out + Len(m_buf) + j]
            = [j \in 1..Len(m_buf) + n |-> Out + j]
      BY <1>4, <1>7, <3>1, JoinPieces
    <3> QED BY <1>1, <2>2, <2>3, <3>2
  <2>5. m_parity' = Out + 1..sent'
    <3>1. ToSet(bytes) = sent + 1..sent + n
      <4>1. ToSet(bytes) = {sent + j : j \in 1..n} BY DEF ToSet, bytes
      <4>2. ASSUME NEW x \in sent + 1..sent + n PROVE x \in ToSet(bytes)
        <5>1. x - sent \in 1..n /\ x = sent + (x - sent) BY <1>3, <1>4
        <5> QED BY <4>1, <5>1
      <4>3. \A j \in 1..n : sent + j \in sent + 1..sent + n BY <1>3, <1>4
      <4> QED BY <4>1, <4>2, <4>3
    <3>2. Out \in Nat /\ Out <= sent BY <1>4, <1>7 DEF Out
    <3>3. Xor(Out + 1..sent, sent + 1..sent + n) = Out + 1..sent + n
      BY <1>3, <1>4, <3>2 DEF Xor
    <3> QED BY <1>1, <2>2, <3>1, <3>3
  <2>6. ASSUME Out = ResetAt PROVE w_seq = 0
    <3>1. CASE m_buf # <<>> BY <2>2, <2>6, <3>1
    <3>2. CASE m_buf = <<>>
      <4>1. sent = ResetAt BY <1>4, <2>6, <3>2 DEF Out
      <4>2. ~w_hasIV BY <1>1, <4>1
      <4> QED BY <2>2, <4>2
    <3> QED BY <3>1, <3>2
  <2> QED BY <1>6, <2>4, <2>5, <2>6
<1>13. ASSUME Flowing
       PROVE  /\ WriterInv'
              /\ Carries(wkey, In', Ahead, WriterCursor', cut', sent', ~damaged')
              /\ Expects(wkey, In', Ahead, RPos, r_seq, r_hasIV, r_last, header,
                         WriterCursor', cut', sent')
  <2>1. /\ WriterInv /\ Carries(wkey, In, Ahead, WriterCursor, cut, sent, ~damaged)
        /\ Expects(wkey, In, Ahead, RPos, r_seq, r_hasIV, r_last, header, WriterCursor, cut, sent)
    BY <1>13 DEF ConduitInv, Flow, ReaderInv
  <2>2. Ahead \in Nat /\ RPos \in Nat /\ sent \in Int /\ sent' \in Int
    BY <1>2, <1>4, <1>7 DEF Ahead, RPos, Numbers
  <2>3. /\ Carries(wkey, In, Ahead, WriterCursor, cut, sent', ~damaged)
        /\ Expects(wkey, In, Ahead, RPos, r_seq, r_hasIV, r_last, header, WriterCursor, cut, sent')
    BY <1>7, <2>1, <2>2, MoreIsTaken
  <2> QED BY <1>8, <1>10, <1>11, <1>12, <2>1, <2>3
<1>14. ConduitInv'
  BY <1>1, <1>7, <1>8, <1>9, <1>13, ReaderStands
<1>15. C!Next
  <2>1. sent' - sent = n /\ n \in 1..n BY <1>1, <1>3, <1>4
  <2>2. C!Take(n)
    BY <1>1, <1>8 DEF C!Take, readerVars, setupVars
  <2> QED BY <2>1, <2>2 DEF C!Next
<1> QED BY <1>14, <1>15

(* All of a chunk goes out, or a part of it.                               *)
LEMMA LenOfChunk ==
  ASSUME Numbers
  PROVE  Len(Chunk) \in Nat
<1>1. Len(m_buf) \in Nat /\ BlockSize \in Nat BY AESAssumption DEF Numbers
<1>2. BlockSize + Len(m_buf) \in Nat BY <1>1
<1>3. Blocks(BlockSize + Len(m_buf)) \in Nat BY <1>2, BlocksAre
<1> QED BY <1>3 DEF Chunk

LEMMA AppendAll ==
  ASSUME NEW w, Listed(w), NEW s, Listed(s)
  PROVE  LET v == w \o s IN Listed(v) /\ Extended(w, s, Len(s), v)
<1>1. SubSeq(s, 1, Len(s)) = s
  <2> DEFINE S == {s[i] : i \in 1..Len(s)}
  <2>1. s \in [1..Len(s) -> S] /\ Len(s) \in Nat BY DEF Listed
  <2> HIDE DEF S
  <2>2. s \in Seq(S) BY <2>1
  <2> QED BY <2>2, SubSeqFull
<1>2. Len(s) \in 0..Len(s) BY DEF Listed
<1> QED BY <1>1, <1>2, AppendIs

LEMMA AppendNothing ==
  ASSUME NEW w, Listed(w), NEW s
  PROVE  w \o SubSeq(s, 1, 0) = w
<1> DEFINE S == {w[i] : i \in 1..Len(w)}
<1>1. w \in [1..Len(w) -> S] /\ Len(w) \in Nat BY DEF Listed
<1> HIDE DEF S
<1>2. w \in Seq(S) BY <1>1
<1>3. SubSeq(s, 1, 0) = <<>> BY SubSeqEmpty
<1> QED BY <1>2, <1>3, ConcatEmptySeq

(* The wire after a Send.                                                  *)
LEMMA SendIs ==
  ASSUME Placed(wire), NEW b, Send(b)
  PROVE  In' = In \o b
BY DEF Send, In, Placed, Side

LEMMA FlushKeeps ==
  ASSUME SecureInv, ConduitInv, Client = "done", UNCHANGED setupVars, Flush
  PROVE  ConduitInv' /\ [C!Next]_C!vars
<1>1. /\ m_buf # <<>> /\ ~cut /\ Send(InitVector \o Chunk)
      /\ w_seq' = w_seq + BlockSize + Len(m_buf)
      /\ m_parity' = {} /\ w_hasIV' = TRUE /\ w_last' = w_last + Len(Chunk)
      /\ m_buf' = <<>> /\ UNCHANGED <<closed, cut, damaged, keys, sent, readerVars>>
  BY DEF Flush, ChunkIsOut
<1>2. Numbers BY DEF ConduitInv
<1>3. /\ sent \in Nat /\ Len(m_buf) \in Nat \ {0} /\ BlockSize \in Nat \ {0}
      /\ w_seq \in Nat /\ w_last \in Nat /\ Len(Chunk) \in Nat
  BY <1>1, <1>2, LenOfChunk, AESAssumption DEF Numbers
<1>4. w_seq' \in Nat \ {0} /\ w_last' \in Nat /\ Len(m_buf') = 0 /\ Out' = sent
      /\ w_seq' = w_seq + (BlockSize + Len(m_buf))
  BY <1>1, <1>3 DEF Out
<1>5. UNCHANGED <<received, r_buf, r_seq, r_hasIV, r_last, header, told>>
  BY <1>1 DEF readerVars
<1>6. Numbers'
  <2>1. m_buf' \in Seq(Nat) /\ w_hasIV' \in BOOLEAN /\ Len(m_buf') <= sent'
    BY <1>1, <1>3, <1>4
  <2> QED BY <1>1, <1>2, <1>4, <1>5, <2>1 DEF Numbers, Placed
<1>7. WriterCursor' = Cursor(sent, w_seq + (BlockSize + Len(m_buf)), TRUE, w_last + Len(Chunk))
  BY <1>1, <1>4 DEF WriterCursor
<1>8. ASSUME Flowing
      PROVE  /\ WriterInv'
             /\ Carries(wkey, In', Ahead, WriterCursor', cut', sent', ~damaged')
             /\ Expects(wkey, In', Ahead, RPos, r_seq, r_hasIV, r_last, header,
                        WriterCursor', cut', sent')
  <2>1. /\ WriterInv /\ Carries(wkey, In, Ahead, WriterCursor, cut, sent, ~damaged)
        /\ Expects(wkey, In, Ahead, RPos, r_seq, r_hasIV, r_last, header, WriterCursor, cut, sent)
    BY <1>8 DEF ConduitInv, Flow, ReaderInv
  <2> DEFINE s == InitVector \o Chunk
  <2>2. Listed(s) /\ Len(Chunk) \in Nat \ {0}
    <3>1. BlockSize + Len(m_buf) \in Lens /\ Len(Chunk) = Blocks(BlockSize + Len(m_buf))
          /\ Listed(s)
      BY <1>1, <1>2, <2>1, FlushSends
    <3> QED BY <3>1, SomeBlocks
  <2>3. In' = In \o s BY <1>1, SendIs DEF SecureInv, Types
  <2>4. Listed(In) BY <2>1 DEF Carries
  <2> HIDE DEF s
  <2>5. Listed(In') /\ Extended(In, s, Len(s), In') BY <2>2, <2>3, <2>4, AppendAll
  <2>6. wkey \in {kcw(v) : v \in Vectors} BY ClientKey
  <2>7. Len(s) \in 0..Len(s) BY <2>2 DEF Listed
  <2>8. Ahead \in Nat BY DEF Ahead
  <2>9. WriterInv'
    <3>1. w_last' # 0 BY <1>1, <1>3, <2>2
    <3>2. m_buf' = [j \in 1..Len(m_buf') |-> Out' + j] BY <1>1, <1>4
    <3>3. m_parity' = Out' + 1..sent' BY <1>1, <1>3, <1>4
    <3> HIDE DEF s
    <3> QED BY <1>1, <1>4, <3>1, <3>2, <3>3 DEF WriterInv
  <2>10. /\ Carries(wkey, In', Ahead, WriterCursor', FALSE, sent, ~damaged)
         /\ Expects(wkey, In', Ahead, RPos, r_seq, r_hasIV, r_last, header,
                    WriterCursor', FALSE, sent)
    BY <1>1, <1>2, <1>7, <2>1, <2>5, <2>6, <2>7, <2>8, SendKeeps DEF s
  <2>11. cut' = FALSE BY <1>1, <1>2 DEF Numbers
  <2> QED BY <1>1, <2>9, <2>10, <2>11
<1>9. ConduitInv'
  <2>1. sent <= sent' BY <1>1, <1>3
  <2> QED BY <1>1, <1>6, <1>8, <2>1, ReaderStands
<1>10. UNCHANGED C!vars
  BY <1>1, <1>5 DEF C!vars, setupVars
<1> QED BY <1>9, <1>10

LEMMA FlushFailsKeeps ==
  ASSUME SecureInv, ConduitInv, Client = "done", UNCHANGED setupVars,
         NEW n \in 0..BufBlocks, FlushFails(n)
  PROVE  ConduitInv' /\ [C!Next]_C!vars
<1> DEFINE s == InitVector \o Chunk
<1>1. /\ m_buf # <<>> /\ n < Len(s) /\ (cut => n = 0)
      /\ Send(SubSeq(s, 1, n)) /\ cut' = TRUE
      /\ UNCHANGED <<closed, damaged, keys, sent, readerVars>>
  BY DEF FlushFails
<1>2. \/ UNCHANGED <<m_buf, w_seq, m_parity, w_hasIV, w_last>>
      \/ ChunkIsOut /\ m_buf' = [i \in DOMAIN m_buf |-> 0]
  BY DEF FlushFails
<1>3. Numbers BY DEF ConduitInv
<1>4. UNCHANGED <<received, r_buf, r_seq, r_hasIV, r_last, header, told>>
  BY <1>1 DEF readerVars
<1>5. /\ m_buf' \in Seq(Nat) /\ Len(m_buf') = Len(m_buf)
      /\ w_seq' \in Nat /\ w_last' \in Nat /\ w_hasIV' \in BOOLEAN
  <2>1. /\ m_buf \in Seq(Nat) /\ Len(m_buf) \in Nat /\ BlockSize \in Nat /\ w_seq \in Nat
        /\ w_last \in Nat /\ w_hasIV \in BOOLEAN /\ Len(Chunk) \in Nat
    BY <1>3, LenOfChunk, AESAssumption DEF Numbers
  <2>2. CASE UNCHANGED <<m_buf, w_seq, m_parity, w_hasIV, w_last>>
    BY <2>1, <2>2
  <2>3. CASE ChunkIsOut /\ m_buf' = [i \in DOMAIN m_buf |-> 0]
    <3>1. w_seq' \in Nat /\ w_last' \in Nat /\ w_hasIV' \in BOOLEAN
      BY <2>1, <2>3 DEF ChunkIsOut
    <3>2. DOMAIN m_buf = 1..Len(m_buf) BY <2>1
    <3>3. m_buf' \in [1..Len(m_buf) -> Nat] BY <2>3, <3>2
    <3>4. m_buf' \in Seq(Nat) /\ Len(m_buf') = Len(m_buf) BY <2>1, <3>3
    <3> QED BY <3>1, <3>4
  <2> QED BY <1>2, <2>2, <2>3
<1>6. Numbers'
  BY <1>1, <1>3, <1>4, <1>5 DEF Numbers, Placed
<1>7. ASSUME Flowing
      PROVE  /\ WriterInv'
             /\ Carries(wkey, In', Ahead, WriterCursor', cut', sent', ~damaged')
             /\ Expects(wkey, In', Ahead, RPos, r_seq, r_hasIV, r_last, header,
                        WriterCursor', cut', sent')
  <2>1. /\ WriterInv /\ Carries(wkey, In, Ahead, WriterCursor, cut, sent, ~damaged)
        /\ Expects(wkey, In, Ahead, RPos, r_seq, r_hasIV, r_last, header, WriterCursor, cut, sent)
    BY <1>7 DEF ConduitInv, Flow, ReaderInv
  <2> HIDE DEF s
  <2>2. In' = In \o SubSeq(s, 1, n) BY <1>1, SendIs DEF SecureInv, Types
  <2>3. Listed(In) BY <2>1 DEF Carries
  <2>4. Ahead \in Nat BY DEF Ahead
  <2>5. WriterInv' BY <1>1 DEF WriterInv
  <2>6. CASE cut
    <3>1. In' = In BY <1>1, <2>2, <2>3, <2>6, AppendNothing
    <3>2. Longer(In, In) /\ Len(In) \in Nat BY <2>3 DEF Longer, Listed
    <3>3. /\ Carries(wkey, In, Ahead, WriterCursor', TRUE, sent, ~damaged)
          /\ Expects(wkey, In, Ahead, RPos, r_seq, r_hasIV, r_last, header,
                     WriterCursor', TRUE, sent)
      BY <2>1, <2>3, <2>4, <3>2, LostIsLost
    <3> QED BY <1>1, <2>5, <3>1, <3>3
  <2>7. CASE ~cut
    <3>1. Listed(s) BY <1>1, <1>3, <2>1, <2>7, FlushSends DEF s
    <3>2. n \in 0..Len(s) BY <1>1, <3>1 DEF Listed
    <3>3. Listed(In') /\ Extended(In, s, n, In') BY <2>2, <2>3, <3>1, <3>2, AppendIs
    <3>4. wkey \in {kcw(v) : v \in Vectors} BY ClientKey
    <3>5. /\ Carries(wkey, In', Ahead, WriterCursor', TRUE, sent, ~damaged)
          /\ Expects(wkey, In', Ahead, RPos, r_seq, r_hasIV, r_last, header,
                     WriterCursor', TRUE, sent)
      BY <1>1, <1>3, <2>1, <2>4, <2>7, <3>2, <3>3, <3>4, SendKeeps DEF s
    <3> QED BY <1>1, <2>5, <3>5
  <2> QED BY <2>6, <2>7
<1>8. ConduitInv'
  <2>1. sent <= sent' BY <1>1, <1>3 DEF Numbers
  <2> QED BY <1>1, <1>6, <1>7, <2>1, ReaderStands
<1>9. C!Next
  <2>1. C!Break BY <1>1, <1>4 DEF C!Break
  <2> QED BY <2>1 DEF C!Next
<1> QED BY <1>8, <1>9

LEMMA ResetWriterKeeps ==
  ASSUME ConduitInv, Client = "done", UNCHANGED setupVars, ResetWriter
  PROVE  ConduitInv' /\ [C!Next]_C!vars
<1>1. /\ sent = ResetAt /\ m_buf = <<>> /\ w_hasIV /\ w_seq' = 0 /\ w_hasIV' = FALSE
      /\ UNCHANGED <<innerVars, m_buf, m_parity, w_last, sent, readerVars>>
  BY DEF ResetWriter
<1>2. UNCHANGED <<wire, closed, cut, damaged, keys>> BY <1>1 DEF innerVars
<1>3. UNCHANGED <<received, r_buf, r_seq, r_hasIV, r_last, header, told>>
  BY <1>1 DEF readerVars
<1>4. Numbers BY DEF ConduitInv
<1>5. Numbers' BY <1>1, <1>2, <1>3, <1>4 DEF Numbers, Placed
<1>6. In' = In BY <1>2, Untouched
<1>7. Out' = Out /\ Out = ResetAt BY <1>1, <1>4, AESAssumption DEF Out, Numbers
<1>8. ASSUME Flowing
      PROVE  /\ WriterInv'
             /\ Carries(wkey, In', Ahead, WriterCursor', cut', sent', ~damaged')
             /\ Expects(wkey, In', Ahead, RPos, r_seq, r_hasIV, r_last, header,
                        WriterCursor', cut', sent')
  <2>1. /\ WriterInv /\ Carries(wkey, In, Ahead, WriterCursor, cut, sent, ~damaged)
        /\ Expects(wkey, In, Ahead, RPos, r_seq, r_hasIV, r_last, header, WriterCursor, cut, sent)
    BY <1>8 DEF ConduitInv, Flow, ReaderInv
  <2>2. CASE cut
    <3>1. Listed(In) BY <2>1 DEF Carries
    <3>2. Ahead \in Nat BY DEF Ahead
    <3>3. Longer(In, In) /\ Len(In) \in Nat BY <3>1 DEF Longer, Listed
    <3>4. /\ Carries(wkey, In, Ahead, WriterCursor', TRUE, sent, ~damaged)
          /\ Expects(wkey, In, Ahead, RPos, r_seq, r_hasIV, r_last, header,
                     WriterCursor', TRUE, sent)
      BY <2>1, <3>1, <3>2, <3>3, LostIsLost
    <3>5. cut = TRUE BY <2>2, <1>4 DEF Numbers
    <3>6. WriterInv' BY <1>2, <2>2 DEF WriterInv
    <3> QED BY <1>1, <1>2, <1>6, <3>4, <3>5, <3>6
  <2>3. CASE ~cut
    <3>1. w_seq # 0 /\ w_last # 0 BY <1>1, <2>1, <2>3 DEF WriterInv
    <3>2. WriterCursor' = WriterCursor
      <4>1. Fresh(Out, w_seq, w_hasIV) /\ Fresh(Out, 0, FALSE) BY <1>7, <3>1 DEF Fresh
      <4> QED BY <1>1, <1>7, <4>1 DEF WriterCursor, Cursor
    <3>3. WriterInv' BY <1>1, <1>2, <1>7, <2>1, <2>3, <3>1 DEF WriterInv, After
    <3> QED BY <1>1, <1>2, <1>6, <2>1, <3>2, <3>3
  <2> QED BY <2>2, <2>3
<1>9. ConduitInv'
  <2>1. sent <= sent' BY <1>1, <1>4 DEF Numbers
  <2> QED BY <1>1, <1>2, <1>5, <1>8, <2>1, ReaderStands
<1>10. UNCHANGED C!vars BY <1>1, <1>2, <1>3 DEF C!vars, setupVars
<1> QED BY <1>9, <1>10

LEMMA DestroyKeeps ==
  ASSUME ConduitInv, Client = "done", UNCHANGED setupVars, Destroy
  PROVE  ConduitInv' /\ [C!Next]_C!vars
<1>1. /\ m_buf = <<>> \/ cut
      /\ closed' = [closed EXCEPT !["client"] = TRUE]
      /\ UNCHANGED <<wire, cut, damaged, keys, writerVars, readerVars>>
  BY DEF Destroy, aesVars
<1>2. UNCHANGED <<received, r_buf, r_seq, r_hasIV, r_last, header, told>>
  BY <1>1 DEF readerVars
<1>3. UNCHANGED <<m_buf, w_seq, m_parity, w_hasIV, w_last, sent>> BY <1>1 DEF writerVars
<1>4. Numbers BY DEF ConduitInv
<1>5. closed'["client"] = TRUE /\ Placed(closed)'
  BY <1>1, <1>4 DEF Numbers, Placed, Side
<1>6. Numbers' BY <1>1, <1>2, <1>3, <1>4, <1>5 DEF Numbers
<1>7. In' = In BY <1>1, Untouched
<1>8. UNCHANGED <<Out, WriterCursor>> BY <1>3 DEF Out, WriterCursor
<1>9. ASSUME Flowing
      PROVE  /\ WriterInv'
             /\ Carries(wkey, In', Ahead, WriterCursor', cut', sent', ~damaged')
             /\ Expects(wkey, In', Ahead, RPos, r_seq, r_hasIV, r_last, header,
                        WriterCursor', cut', sent')
  <2>1. /\ WriterInv /\ Carries(wkey, In, Ahead, WriterCursor, cut, sent, ~damaged)
        /\ Expects(wkey, In, Ahead, RPos, r_seq, r_hasIV, r_last, header, WriterCursor, cut, sent)
    BY <1>9 DEF ConduitInv, Flow, ReaderInv
  <2>2. WriterInv' BY <1>1, <1>3, <1>8, <2>1 DEF WriterInv
  <2> QED BY <1>1, <1>3, <1>7, <1>8, <2>1, <2>2
<1>10. ConduitInv'
  <2>1. sent <= sent' BY <1>3, <1>4 DEF Numbers
  <2> QED BY <1>1, <1>6, <1>9, <2>1, ReaderStands
<1>11. C!Next
  <2>1. C!End BY <1>1, <1>2, <1>3, <1>5 DEF C!End, setupVars
  <2> QED BY <2>1 DEF C!Next
<1> QED BY <1>10, <1>11

(* A fault breaks what the conduit promises.                               *)
LEMMA CutKeeps ==
  ASSUME SecureInv, ConduitInv, UNCHANGED setupVars, Cut
  PROVE  ConduitInv' /\ [C!Next]_C!vars
<1>1. cut' = TRUE /\ UNCHANGED <<closed, damaged, keys, writerVars, readerVars>>
  BY DEF Cut, aesVars
<1>2. UNCHANGED <<received, r_buf, r_seq, r_hasIV, r_last, header, told>>
  BY <1>1 DEF readerVars
<1>3. UNCHANGED <<m_buf, w_seq, m_parity, w_hasIV, w_last, sent>> BY <1>1 DEF writerVars
<1>4. Numbers BY DEF ConduitInv
<1>5. Numbers' BY <1>1, <1>2, <1>3, <1>4 DEF Numbers, Placed
<1>6. PICK m \in 0..Len(In) : In' = SubSeq(In, 1, m) BY DEF Cut, In
<1>7. ASSUME Flowing
      PROVE  /\ WriterInv'
             /\ Carries(wkey, In', Ahead, WriterCursor', cut', sent', ~damaged')
             /\ Expects(wkey, In', Ahead, RPos, r_seq, r_hasIV, r_last, header,
                        WriterCursor', cut', sent')
  <2>1. /\ Carries(wkey, In, Ahead, WriterCursor, cut, sent, ~damaged)
        /\ Expects(wkey, In, Ahead, RPos, r_seq, r_hasIV, r_last, header, WriterCursor, cut, sent)
    BY <1>7 DEF ConduitInv, Flow, ReaderInv
  <2>2. Listed(In) /\ Len(In) \in Nat BY <2>1 DEF Carries, Listed
  <2> DEFINE S == {In[i] : i \in 1..Len(In)}
  <2>3. m \in Nat /\ m <= Len(In) /\ \A i \in 1..m : In[i] \in S BY <2>2
  <2> HIDE DEF S
  <2>4. In' \in Seq(S) /\ Len(In') = m /\ \A i \in 1..m : In'[i] = In[i]
    BY <1>6, <2>3, PrefixIs
  <2>5. Listed(In') BY <2>4 DEF Listed
  <2>6. Longer(In', In) BY <2>3, <2>4 DEF Longer
  <2>7. Ahead \in Nat BY DEF Ahead
  <2>8. /\ Carries(wkey, In', Ahead, WriterCursor', TRUE, sent, ~damaged)
        /\ Expects(wkey, In', Ahead, RPos, r_seq, r_hasIV, r_last, header,
                   WriterCursor', TRUE, sent)
    BY <2>1, <2>2, <2>5, <2>6, <2>7, LostIsLost
  <2>9. WriterInv' BY <1>1 DEF WriterInv
  <2> QED BY <1>1, <1>3, <2>8, <2>9
<1>8. ConduitInv'
  <2>1. sent <= sent' BY <1>3, <1>4 DEF Numbers
  <2> QED BY <1>1, <1>5, <1>7, <2>1, ReaderStands
<1>9. C!Next
  <2>1. C!Break BY <1>1, <1>2, <1>3 DEF C!Break
  <2> QED BY <2>1 DEF C!Next
<1> QED BY <1>8, <1>9

LEMMA DamageKeeps ==
  ASSUME SecureInv, ConduitInv, UNCHANGED setupVars,
         NEW side \in Side, NEW i \in DOMAIN wire[side], Damage(side, i)
  PROVE  ConduitInv' /\ [C!Next]_C!vars
<1>1. /\ ~cut /\ damaged' = TRUE /\ wire' = [wire EXCEPT ![side][i] = Noise]
      /\ UNCHANGED <<closed, cut, keys, writerVars, readerVars>>
  BY DEF Damage, aesVars
<1>2. UNCHANGED <<received, r_buf, r_seq, r_hasIV, r_last, header, told>>
  BY <1>1 DEF readerVars
<1>3. UNCHANGED <<m_buf, w_seq, m_parity, w_hasIV, w_last, sent>> BY <1>1 DEF writerVars
<1>4. Numbers BY DEF ConduitInv
<1>5. Numbers' BY <1>1, <1>2, <1>3, <1>4 DEF Numbers, Placed
<1>6. UNCHANGED <<Out, WriterCursor>> BY <1>3 DEF Out, WriterCursor
<1>7. ASSUME Flowing
      PROVE  /\ WriterInv'
             /\ Carries(wkey, In', Ahead, WriterCursor', cut', sent', ~damaged')
             /\ Expects(wkey, In', Ahead, RPos, r_seq, r_hasIV, r_last, header,
                        WriterCursor', cut', sent')
  <2>1. /\ WriterInv /\ Carries(wkey, In, Ahead, WriterCursor, cut, sent, ~damaged)
        /\ Expects(wkey, In, Ahead, RPos, r_seq, r_hasIV, r_last, header, WriterCursor, cut, sent)
    BY <1>7 DEF ConduitInv, Flow, ReaderInv
  <2>2. Listed(In) /\ Len(In) \in Nat BY <2>1 DEF Carries, Listed
  <2>3. In' = In \/ (i \in 1..Len(In) /\ In' = [In EXCEPT ![i] = Noise])
    <3>1. wire = [x \in Side |-> wire[x]] BY DEF SecureInv, Types, Placed
    <3>2. CASE side = "client"
      <4>1. In' = [In EXCEPT ![i] = Noise] BY <1>1, <3>1, <3>2 DEF In, Side
      <4>2. i \in 1..Len(In) BY <2>2, <3>2 DEF In, Listed
      <4> QED BY <4>1, <4>2
    <3>3. CASE side = "server" BY <1>1, <3>1, <3>3 DEF In, Side
    <3> QED BY <3>2, <3>3 DEF Side
  <2>4. Listed(In') /\ Len(In') = Len(In) /\ \A j \in 1..Len(In) : In'[j] \in {In[j], Noise}
    BY <2>2, <2>3 DEF Listed
  <2>5. Ahead \in Nat BY DEF Ahead
  <2>6. Noisier(Ahead, In, In') BY <2>4, <2>5 DEF Noisier
  <2>7. Becomes(wkey, 0, Ahead, In, WriterCursor, cut, In', WriterCursor, cut)
    BY <2>2, <2>5, <2>6, NoiseComes
  <2>8. Carries(wkey, In, Ahead + 0, WriterCursor, cut, sent, ~damaged) BY <2>1, <2>5
  <2>9. \A j \in Ahead + 1..Len(In') : ~(j + 0 > Len(In)) BY <2>2, <2>4, <2>5
  <2>10. Carries(wkey, In', Ahead, WriterCursor, cut, sent, FALSE)
    BY <2>4, <2>5, <2>7, <2>8, <2>9, CarriesStay
  <2>11. Expects(wkey, In', Ahead, RPos, r_seq, r_hasIV, r_last, header, WriterCursor, cut, sent)
    BY <2>1, <2>2, <2>4, <2>5, <2>7, ExpectsStays
  <2>12. WriterInv' BY <1>1, <1>3, <1>6, <2>1 DEF WriterInv
  <2>13. (~damaged') = FALSE BY <1>1
  <2> QED BY <1>1, <1>3, <1>6, <2>10, <2>11, <2>12, <2>13
<1>8. ConduitInv'
  <2>1. sent <= sent' BY <1>3, <1>4 DEF Numbers
  <2> QED BY <1>1, <1>5, <1>7, <2>1, ReaderStands
<1>9. C!Next
  <2>1. C!Break BY <1>1, <1>2, <1>3 DEF C!Break
  <2> QED BY <2>1 DEF C!Next
<1> QED BY <1>8, <1>9
-----------------------------------------------------------------------------
(* What the reader does.                                                   *)
LEMMA ConsumeIs ==
  ASSUME Placed(wire), Listed(In), NEW n \in Nat, n <= Len(In), Consume(n)
  PROVE  Listed(In') /\ Taken(n, In, In')
<1> DEFINE w == In S == {w[i] : i \in 1..Len(w)} v == SubSeq(w, n + 1, Len(w))
<1>1. In' = v BY DEF Consume, In, Placed, Side
<1>2. Len(w) \in Nat /\ w = [i \in 1..Len(w) |-> w[i]] BY DEF Listed
<1> HIDE DEF w
<1>3. \A i \in n + 1..Len(w) : w[i] \in S
  <2>1. \A i \in n + 1..Len(w) : i \in 1..Len(w) BY <1>2
  <2> QED BY <2>1
<1> HIDE DEF S
<1>4. /\ v \in Seq(S) /\ Len(v) = IF n + 1 <= Len(w) THEN Len(w) - (n + 1) + 1 ELSE 0
      /\ \A i \in 1..Len(w) - (n + 1) + 1 : v[i] = w[n + 1 + i - 1]
  <2>1. n + 1 \in Int /\ Len(w) \in Int BY <1>2
  <2> HIDE DEF v
  <2> QED BY <1>3, <2>1, SubSeqProperties DEF v
<1> HIDE DEF v
<1>5. n <= Len(w) BY DEF w
<1>6. Len(v) = Len(w) - n
  <2>1. Len(v) = IF n + 1 <= Len(w) THEN Len(w) - (n + 1) + 1 ELSE 0 BY <1>4
  <2>2. Len(w) \in Nat BY <1>2
  <2> QED BY <1>5, <2>1, <2>2
<1>7. \A i \in 1..Len(v) : v[i] = w[i + n]
  <2> TAKE i \in 1..Len(v)
  <2>1. i \in 1..Len(w) - (n + 1) + 1 /\ n + 1 + i - 1 = i + n BY <1>2, <1>5, <1>6
  <2> QED BY <1>4, <2>1
<1>8. Listed(v) BY <1>4 DEF Listed
<1> QED BY <1>1, <1>6, <1>7, <1>8 DEF Taken, w

(* A reader that has not told the end is in the flow.                      *)
LEMMA ReaderFlows ==
  ASSUME SecureInv, ConduitInv, Server = "done", ~told
  PROVE  /\ Flowing /\ WriterInv /\ ReaderInv /\ Numbers /\ rkey = wkey
         /\ Carries(wkey, In, 0, WriterCursor, cut, sent, ~damaged)
         /\ Expects(wkey, In, 0, RPos, r_seq, r_hasIV, r_last, header, WriterCursor, cut, sent)
         /\ Listed(In) /\ Len(In) \in Nat /\ RPos \in Nat
<1>1. Client = "done" BY DEF SecureInv, Agreed
<1>2. Flowing BY <1>1 DEF Flowing
<1>3. Ahead = 0 BY DEF Ahead
<1>4. /\ WriterInv /\ ReaderInv /\ Numbers
      /\ Carries(wkey, In, 0, WriterCursor, cut, sent, ~damaged)
      /\ Expects(wkey, In, 0, RPos, r_seq, r_hasIV, r_last, header, WriterCursor, cut, sent)
  BY <1>2, <1>3 DEF ConduitInv, Flow, ReaderInv
<1>5. rkey = wkey BY InvariantAgrees DEF KeysAgree, Server, rkey, wkey
<1>6. RPos \in Nat BY <1>4 DEF Numbers, RPos
<1>7. Listed(In) /\ Len(In) \in Nat BY <1>4 DEF Carries, Listed
<1> QED BY <1>2, <1>4, <1>5, <1>6, <1>7

LEMMA ReaderMoves ==
  ASSUME SecureInv, ConduitInv, Server = "done", ~told, UNCHANGED setupVars,
         UNCHANGED <<closed, cut, damaged, keys, writerVars>>,
         received' \in Seq(Nat), r_buf' \in Seq(Nat), r_seq' \in Nat, r_hasIV' \in BOOLEAN,
         told' \in BOOLEAN, NEW n \in Nat, n <= Len(In),
         ~told' => Listed(In') /\ Taken(n, In, In') /\ ReaderInv'
  PROVE  ConduitInv'
<1>1. /\ Flowing /\ WriterInv /\ Numbers
      /\ Carries(wkey, In, 0, WriterCursor, cut, sent, ~damaged)
      /\ Listed(In) /\ Len(In) \in Nat
  BY ReaderFlows
<1>2. UNCHANGED <<m_buf, w_seq, m_parity, w_hasIV, w_last, sent>> BY DEF writerVars
<1>3. UNCHANGED <<Out, WriterCursor, wkey, Client, Server>>
  BY <1>2 DEF Out, WriterCursor, wkey, setupVars, Client, Server
<1>4. Numbers' BY <1>1, <1>2 DEF Numbers, Placed
<1>5. Client = "done" BY <1>1 DEF Flowing
<1>6. Quiet' BY <1>3, <1>5 DEF Quiet
<1>7. ASSUME ~told' PROVE WriterInv' /\ ReaderInv' /\ Carries(wkey, In, Ahead, WriterCursor, cut, sent, ~damaged)'
  <2>1. WriterInv' BY <1>1, <1>2, <1>3 DEF WriterInv
  <2>2. Becomes(wkey, n, 0, In, WriterCursor, cut, In', WriterCursor, cut)
    BY <1>1, <1>7, NextComes
  <2>3. Carries(wkey, In, 0 + n, WriterCursor, cut, sent, ~damaged)
    <3>1. \A i \in 0 + n + 1..Len(In) : i \in 0 + 1..Len(In) BY <1>1
    <3> QED BY <1>1, <3>1 DEF Carries
  <2>4. Len(In') = Len(In) - n /\ Len(In') \in Nat /\ \A i \in 1..Len(In') : In'[i] = In[i + n]
    BY <1>1, <1>7 DEF Taken
  <2>5. \A i \in 0 + 1..Len(In') : i + n <= Len(In) /\ ~(i + n > Len(In)) /\ In'[i] = In[i + n]
    BY <1>1, <2>4
  <2>6. Carries(wkey, In', 0, WriterCursor, cut, sent, ~damaged)
    BY <1>7, <2>2, <2>3, <2>5, CarriesStay
  <2>7. Ahead' = 0 BY <1>3 DEF Ahead
  <2> QED BY <1>2, <1>3, <1>7, <2>1, <2>6, <2>7
<1>8. Flow' BY <1>7 DEF Flow, Flowing
<1> QED BY <1>4, <1>6, <1>8 DEF ConduitInv

(* The end is told after the last byte, or something broke.                *)
LEMMA TellKeeps ==
  ASSUME SecureInv, ConduitInv, Server = "done", UNCHANGED setupVars, Refilling,
         NEW n, Tell(n), n = IF header = None THEN 1 ELSE Blocks(header.len) - 1
  PROVE  ConduitInv' /\ C!Next
<1>1. /\ r_buf = <<>> /\ ~told /\ ~(Len(In) >= n) /\ (closed["client"] \/ cut) /\ told' = TRUE
      /\ UNCHANGED <<closed, cut, damaged, keys, writerVars>>
      /\ UNCHANGED <<r_buf, r_seq, r_hasIV, r_last, header, received>>
  BY DEF Refilling, Tell, Arrived, Ended
<1>2. /\ WriterInv /\ ReaderInv /\ Numbers
      /\ Expects(wkey, In, 0, RPos, r_seq, r_hasIV, r_last, header, WriterCursor, cut, sent)
      /\ Len(In) \in Nat /\ RPos \in Nat
  BY <1>1, ReaderFlows
<1>3. ConduitInv'
  <2>1. 0 \in Nat /\ 0 <= Len(In) BY <1>2
  <2>2. /\ received' \in Seq(Nat) /\ r_buf' \in Seq(Nat) /\ r_seq' \in Nat
        /\ r_hasIV' \in BOOLEAN /\ told' \in BOOLEAN
    BY <1>1, <1>2 DEF Numbers
  <2> QED BY <1>1, <2>1, <2>2, ReaderMoves
<1>4. ASSUME ~cut, ~damaged PROVE closed["client"] /\ Len(received) = sent
  <2>1. closed["client"] /\ m_buf = <<>> BY <1>1, <1>2, <1>4 DEF WriterInv
  <2>2. Out = sent BY <1>2, <2>1 DEF Out, Numbers
  <2>3. r_last # Noise BY <1>2, <1>4, NoiseAssumption DEF ReaderInv
  <2>4. CASE header = None
    <3>1. 0 + 1 > Len(In) BY <1>1, <1>2, <2>4
    <3>2. Comes(wkey, In, 0 + 1, Cursor(RPos, r_seq, r_hasIV, r_last), WriterCursor, cut)
      BY <1>2, <2>3, <2>4 DEF Expects
    <3>3. Cursor(RPos, r_seq, r_hasIV, r_last) = WriterCursor
      BY <1>4, <3>1, <3>2 DEF Comes
    <3>4. RPos = Out BY <3>3, CursorIs DEF WriterCursor
    <3>5. RPos = Len(received) BY <1>1, <1>2 DEF RPos, Numbers
    <3> QED BY <2>1, <2>2, <3>4, <3>5
  <2>5. CASE header # None
    <3>1. PICK len \in Lens, s \in Nat, l \in Nat :
            header = Hdr(RPos, len, s) /\ Rest(wkey, In, 0, RPos, len, s, l, WriterCursor, cut, sent)
      BY <1>2, <2>5 DEF Expects
    <3>2. header.len = len BY <3>1 DEF Hdr
    <3>3. 0 + Blocks(len) > Len(In) + 1
      <4>1. Blocks(len) \in Nat BY SomeBlocks
      <4>2. n = Blocks(len) - 1 BY <2>5, <3>2
      <4> QED BY <1>1, <1>2, <4>1, <4>2
    <3>4. Blocks(len) \in Nat BY SomeBlocks
    <3>5. 0 + Blocks(len) > Len(In) /\ 0 + Blocks(len) # Len(In) + 1 BY <1>2, <3>3, <3>4
    <3>6. Comes(wkey, In, 0 + Blocks(len),
                Cursor(RPos + len - BlockSize, s + len, TRUE, l + Blocks(len)), WriterCursor, cut)
      BY <3>1 DEF Rest
    <3>7. cut BY <3>5, <3>6 DEF Comes
    <3> QED BY <1>4, <3>7
  <2> QED BY <2>4, <2>5
<1>5. C!Tell
  BY <1>1, <1>4 DEF C!Tell, writerVars, setupVars
<1> QED BY <1>3, <1>5 DEF C!Next

LEMMA ComesNext ==
  ASSUME NEW k, NEW n \in Nat, NEW w, Len(w) \in Nat, NEW v, Taken(n, w, v), n <= Len(w),
         NEW end, NEW lost, NEW i \in Nat \ {0}, NEW at, Comes(k, w, i + n, at, end, lost)
  PROVE  Comes(k, v, i, at, end, lost)
<1>1. Becomes(k, n, 0, w, end, lost, v, end, lost) BY NextComes
<1>2. i > 0 OBVIOUS
<1> QED BY <1>1, <1>2 DEF Becomes

LEMMA ReadInitVectorKeeps ==
  ASSUME SecureInv, ConduitInv, Server = "done", UNCHANGED setupVars, ReadInitVector
  PROVE  ConduitInv' /\ [C!Next]_C!vars
<1>1. r_buf = <<>> /\ ~told /\ ~r_hasIV /\ header = None
  BY DEF ReadInitVector, Refilling
<1>2. CASE Tell(1)
  <2>1. Refilling BY <1>1 DEF Refilling
  <2> QED BY <1>1, <1>2, <2>1, TellKeeps
<1>3. CASE ~Tell(1)
  <2> DEFINE block == Head(In) iv == Dec(block, -1)
  <2>1. /\ Arrived(1) /\ Consume(1)
        /\ r_last' = (IF iv = Garbage THEN Noise ELSE iv[2]) /\ r_hasIV' = TRUE
        /\ UNCHANGED <<closed, cut, damaged, keys, writerVars>>
        /\ UNCHANGED <<r_buf, r_seq, header, received, told>>
    BY <1>3 DEF ReadInitVector
  <2>2. /\ ReaderInv /\ Numbers /\ rkey = wkey
        /\ Carries(wkey, In, 0, WriterCursor, cut, sent, ~damaged)
        /\ Expects(wkey, In, 0, RPos, r_seq, r_hasIV, r_last, header, WriterCursor, cut, sent)
        /\ Listed(In) /\ Len(In) \in Nat /\ RPos \in Nat
    BY <1>1, ReaderFlows
  <2>3. 1 <= Len(In) /\ block = In[1] BY <2>1, <2>2 DEF Arrived
  <2> HIDE DEF block
  <2>4. Listed(In') /\ Taken(1, In, In') BY <2>1, <2>2, <2>3, ConsumeIs DEF SecureInv, Types
  <2>5. r_seq = 0 /\ r_last # Noise /\ r_last \in Nat BY <1>1, <2>2 DEF ReaderInv
  <2>6. Comes(wkey, In, 0 + 1, Cursor(RPos, r_seq, r_hasIV, r_last), WriterCursor, cut)
    BY <1>1, <2>2, <2>5 DEF Expects
  <2>7. In[1] = Noise \/ (In[1] # Noise /\ In[1] = Vector(wkey, r_last) /\ RPos = After(r_last))
    <3>1. Fresh(RPos, r_seq, r_hasIV) BY <1>1 DEF Fresh
    <3>2. ~(0 + 1 > Len(In)) /\ 0 + 1 = 1 BY <2>2, <2>3
    <3> QED BY <2>6, <3>1, <3>2, CursorIs DEF Comes
  <2>8. Linked(wkey, In, 1, WriterCursor, cut, sent) /\ (~damaged => In[1] # Noise)
    <3>1. 1 \in 0 + 1..Len(In) BY <2>2, <2>3
    <3> QED BY <2>2, <3>1 DEF Carries
  <2>9. /\ WriterCursor' = WriterCursor /\ wkey' = wkey /\ RPos' = RPos
        /\ UNCHANGED <<cut, sent, damaged>>
    BY <2>1 DEF writerVars, WriterCursor, Out, wkey, RPos
  <2>10. ReaderInv'
    <3>1. CASE In[1] = Noise
      <4>1. r_last' = Noise BY <2>1, <2>3, <3>1 DEF Dec, iv
      <4>2. damaged BY <2>8, <3>1
      <4>3. Expects(wkey, In', 0, RPos, r_seq, TRUE, Noise, None, WriterCursor, cut, sent)
        BY DEF Expects
      <4> QED BY <1>1, <2>1, <2>2, <2>5, <2>9, <4>1, <4>2, <4>3 DEF ReaderInv, Expects
    <3>2. CASE In[1] # Noise
      <4>1. In[1] = Vector(wkey, r_last) /\ RPos = After(r_last) BY <2>7, <3>2
      <4>2. r_last' = r_last
        <5>1. iv = <<"iv", r_last>>
          BY <2>2, <2>3, <3>2, <4>1, SealedIs DEF Vector
        <5>2. <<"iv", r_last>> # Garbage /\ <<"iv", r_last>>[2] = r_last BY DEF Garbage
        <5> QED BY <2>1, <5>1, <5>2
      <4>3. Comes(wkey, In, 1 + 1, Cursor(RPos, 0, TRUE, r_last), WriterCursor, cut)
        BY <2>5, <2>8, <3>2, <4>1 DEF Linked
      <4>4. 1 \in Nat /\ 1 \in Nat \ {0} OBVIOUS
      <4>5. Comes(wkey, In', 1, Cursor(RPos, 0, TRUE, r_last), WriterCursor, cut)
        BY <2>2, <2>3, <2>4, <4>3, <4>4, ComesNext, Zenon
      <4>6. 0 + 1 = 1 OBVIOUS
      <4>7. Expects(wkey, In', Ahead', RPos, r_seq, TRUE, r_last, None, WriterCursor, cut, sent)
        <5>1. Ahead' = 0 BY DEF Ahead, setupVars, Server
        <5> QED BY <2>5, <4>5, <4>6, <5>1 DEF Expects
      <4> QED BY <1>1, <2>1, <2>2, <2>5, <2>9, <4>2, <4>7 DEF ReaderInv
    <3> QED BY <3>1, <3>2
  <2>11. ConduitInv'
    <3>1. /\ received' \in Seq(Nat) /\ r_buf' \in Seq(Nat) /\ r_seq' \in Nat
          /\ r_hasIV' \in BOOLEAN /\ told' \in BOOLEAN
      BY <2>1, <2>2 DEF Numbers
    <3> QED BY <1>1, <2>1, <2>3, <2>4, <2>10, <3>1, ReaderMoves
  <2>12. UNCHANGED C!vars BY <2>1 DEF C!vars, writerVars, setupVars
  <2> QED BY <2>11, <2>12
<1> QED BY <1>2, <1>3

LEMMA ReadHeaderKeeps ==
  ASSUME SecureInv, ConduitInv, Server = "done", UNCHANGED setupVars, ReadHeader
  PROVE  ConduitInv' /\ [C!Next]_C!vars
<1>1. /\ r_buf = <<>> /\ ~told /\ r_hasIV /\ header = None
      /\ Len(received) = ResetAt => r_seq = 0
  BY DEF ReadHeader, Refilling
<1>2. CASE Tell(1)
  <2>1. Refilling BY <1>1 DEF Refilling
  <2> QED BY <1>1, <1>2, <2>1, TellKeeps
<1>3. CASE ~Tell(1)
  <2> DEFINE block == Head(In) pt == Dec(block, r_last)
             valid == pt # Garbage /\ pt[2].seq = r_seq
  <2>1. /\ Arrived(1) /\ Consume(1) /\ r_last' = Name(block)
        /\ header' = (IF valid THEN pt[2] ELSE None)
        /\ r_seq' = (IF valid THEN r_seq + pt[2].len ELSE r_seq)
        /\ told' = ~valid
        /\ UNCHANGED <<closed, cut, damaged, keys, writerVars, r_buf, r_hasIV, received>>
    BY <1>3 DEF ReadHeader
  <2>2. /\ ReaderInv /\ Numbers /\ rkey = wkey
        /\ Carries(wkey, In, 0, WriterCursor, cut, sent, ~damaged)
        /\ Expects(wkey, In, 0, RPos, r_seq, r_hasIV, r_last, header, WriterCursor, cut, sent)
        /\ Listed(In) /\ Len(In) \in Nat /\ RPos \in Nat
    BY <1>1, ReaderFlows
  <2>3. 1 <= Len(In) /\ block = In[1] BY <2>1, <2>2 DEF Arrived
  <2> HIDE DEF block
  <2>4. Listed(In') /\ Taken(1, In, In') BY <2>1, <2>2, <2>3, ConsumeIs DEF SecureInv, Types
  <2>5. Linked(wkey, In, 1, WriterCursor, cut, sent) /\ (~damaged => In[1] # Noise)
    <3>1. 1 \in 0 + 1..Len(In) BY <2>2, <2>3
    <3> QED BY <2>2, <3>1 DEF Carries
  <2>6. /\ WriterCursor' = WriterCursor /\ wkey' = wkey /\ RPos' = RPos
        /\ UNCHANGED <<cut, sent, damaged>>
    BY <2>1 DEF writerVars, WriterCursor, Out, wkey, RPos
  <2>7. UNCHANGED setupVars /\ r_seq \in Nat /\ received' \in Seq(Nat) /\ r_buf' \in Seq(Nat)
        /\ r_hasIV' \in BOOLEAN
    BY <2>1, <2>2 DEF Numbers
  <2>8. CASE r_last = Noise \/ In[1] = Noise
    <3>1. pt = Garbage
      <4>1. CASE In[1] = Noise BY <2>3, <4>1 DEF Dec
      <4>2. CASE In[1] # Noise
        <5>1. In[1][2].chain \in Int BY <2>5, <4>2 DEF Linked
        <5>2. In[1][2].chain # r_last BY <2>8, <4>2, <5>1, NoiseAssumption
        <5> QED BY <2>3, <5>2 DEF Dec
      <4> QED BY <4>1, <4>2
    <3> HIDE DEF pt
    <3>2. told' = TRUE /\ header' = header /\ r_seq' = r_seq BY <1>1, <2>1, <3>1
    <3>3. damaged BY <2>2, <2>5, <2>8, NoiseAssumption DEF ReaderInv
    <3>4. ConduitInv' BY <1>1, <2>1, <2>3, <2>7, <3>2, ReaderMoves
    <3>5. C!Tell BY <2>1, <3>2, <3>3 DEF C!Tell, writerVars, setupVars
    <3> QED BY <3>4, <3>5 DEF C!Next
  <2>9. CASE r_last # Noise /\ In[1] # Noise
    <3>1. r_last \in Nat BY <2>2, <2>9 DEF ReaderInv
    <3>2. Comes(wkey, In, 0 + 1, Cursor(RPos, r_seq, r_hasIV, r_last), WriterCursor, cut)
      BY <1>1, <2>2, <2>9 DEF Expects
    <3>3. PICK len \in Lens : In[1] = Header(wkey, RPos, len, r_seq, r_last)
      <4>1. RPos = Len(received) BY <1>1, <2>2 DEF RPos, Numbers
      <4>2. ~Fresh(RPos, r_seq, r_hasIV) BY <1>1, <4>1 DEF Fresh
      <4>3. ~(0 + 1 > Len(In)) /\ 0 + 1 = 1 BY <2>2, <2>3
      <4> QED BY <2>9, <3>2, <4>2, <4>3, CursorIs DEF Comes
    <3> DEFINE h == Hdr(RPos, len, r_seq)
    <3>4. h.len = len /\ h.seq = r_seq /\ h # None /\ len \in Nat /\ len > BlockSize
      BY AESAssumption DEF Hdr, None, Lens
    <3>5. pt = <<"head", h>> /\ Name(block) = r_last + 1
      BY <2>2, <2>3, <2>9, <3>3, SealedIs DEF Header
    <3> HIDE DEF pt, h
    <3>6. valid /\ pt[2] = h
      <4>1. <<"head", h>> # Garbage /\ <<"head", h>>[2] = h BY DEF Garbage
      <4> QED BY <3>4, <3>5, <4>1
    <3>7. told' = FALSE /\ header' = h /\ r_seq' = r_seq + len /\ r_last' = r_last + 1
      BY <2>1, <3>4, <3>5, <3>6
    <3>8. Rest(wkey, In', 0, RPos, len, r_seq, r_last, WriterCursor, cut, sent)
      <4>1. Rest(wkey, In, 0 + 1, RPos, len, r_seq, r_last, WriterCursor, cut, sent)
        BY <2>2, <2>5, <2>7, <2>9, <3>1, <3>3 DEF Linked
      <4>2. Becomes(wkey, 1, 0, In, WriterCursor, cut, In', WriterCursor, cut)
        BY <2>2, <2>3, <2>4, NextComes
      <4>3. Len(In') \in Nat /\ 0 >= 0 BY <2>4 DEF Listed
      <4> QED BY <2>2, <4>1, <4>2, <4>3, RestStays
    <3>9. Expects(wkey, In', Ahead', RPos, r_seq + len, TRUE, r_last + 1, h, WriterCursor, cut, sent)
      <4>1. Ahead' = 0 BY DEF Ahead, setupVars, Server
      <4> QED BY <2>7, <3>1, <3>4, <3>8, <4>1 DEF Expects, h
    <3>10. ReaderInv'
      <4>1. r_hasIV = TRUE /\ r_hasIV' = TRUE BY <1>1, <2>1, <2>2 DEF Numbers
      <4>2. r_last' \in Nat /\ r_last' # Noise BY <3>1, <3>7, NoiseAssumption
      <4>3. r_buf' = <<>> /\ r_buf' = [j \in 1..Len(r_buf') |-> Len(received') + j] /\ RPos' <= sent'
        BY <1>1, <2>1, <2>2, <2>6 DEF ReaderInv
      <4> QED BY <2>6, <3>7, <3>9, <4>1, <4>2, <4>3 DEF ReaderInv
    <3>11. ConduitInv'
      <4>1. r_seq' \in Nat BY <2>7, <3>4, <3>7
      <4> QED BY <1>1, <2>1, <2>3, <2>4, <2>7, <3>7, <3>10, <4>1, ReaderMoves
    <3>12. UNCHANGED C!vars BY <1>1, <2>1, <2>2, <3>7 DEF C!vars, writerVars, setupVars, Numbers
    <3> QED BY <3>11, <3>12
  <2> QED BY <2>8, <2>9
<1> QED BY <1>2, <1>3

LEMMA ReadRestKeeps ==
  ASSUME SecureInv, ConduitInv, Server = "done", UNCHANGED setupVars, ReadRest
  PROVE  ConduitInv' /\ [C!Next]_C!vars
<1> DEFINE n == Blocks(header.len) - 1
<1>1. /\ r_buf = <<>> /\ ~told /\ header # None
      /\ Refilling
      /\ \/ Tell(n)
         \/ /\ Arrived(n) /\ Consume(n)
            /\ IF ParityHolds(header, ToSet(RestBytes(n)))
                 THEN r_buf' = RestBytes(n) /\ UNCHANGED told
                 ELSE told' = TRUE /\ UNCHANGED r_buf
            /\ r_last' = Name(In[n]) /\ header' = None
            /\ UNCHANGED <<closed, cut, damaged, keys, writerVars, r_seq, r_hasIV, received>>
  BY DEF ReadRest, Refilling, RestBytes, Plain
<1>2. CASE Tell(n)
  BY <1>1, <1>2, TellKeeps
<1>3. CASE /\ Arrived(n) /\ Consume(n)
           /\ IF ParityHolds(header, ToSet(RestBytes(n)))
                THEN r_buf' = RestBytes(n) /\ UNCHANGED told
                ELSE told' = TRUE /\ UNCHANGED r_buf
           /\ r_last' = Name(In[n]) /\ header' = None
           /\ UNCHANGED <<closed, cut, damaged, keys, writerVars, r_seq, r_hasIV, received>>
  <2>1. /\ ReaderInv /\ Numbers /\ rkey = wkey
        /\ Carries(wkey, In, 0, WriterCursor, cut, sent, ~damaged)
        /\ Expects(wkey, In, 0, RPos, r_seq, r_hasIV, r_last, header, WriterCursor, cut, sent)
        /\ Listed(In) /\ Len(In) \in Nat /\ RPos \in Nat
    BY <1>1, ReaderFlows
  <2>2. PICK len \in Lens, s \in Nat, l \in Nat :
          /\ header = Hdr(RPos, len, s) /\ r_seq = s + len /\ r_last = l + 1
          /\ Rest(wkey, In, 0, RPos, len, s, l, WriterCursor, cut, sent)
    BY <1>1, <2>1 DEF Expects
  <2>3. header.len = len BY <2>2 DEF Hdr
  <2>4. /\ Blocks(len) \in Nat \ {0, 1} /\ n = Blocks(len) - 1 /\ n \in Nat \ {0}
        /\ 0 + Blocks(len) = 1 + n
    BY <2>3, SomeBlocks
  <2> HIDE DEF n
  <2>5. n <= Len(In) BY <1>3, <2>1, <2>4 DEF Arrived
  <2>6. Listed(In') /\ Taken(n, In, In') BY <1>3, <2>1, <2>4, <2>5, ConsumeIs DEF SecureInv, Types
  <2>7. /\ WriterCursor' = WriterCursor /\ wkey' = wkey /\ UNCHANGED <<cut, sent, damaged>>
    BY <1>3 DEF writerVars, WriterCursor, Out, wkey
  <2>8. /\ RPos + len - BlockSize <= sent /\ DataFrom(wkey, In, 0, RPos, len, l)
        /\ Comes(wkey, In, 1 + n, Cursor(RPos + len - BlockSize, r_seq, TRUE, l + Blocks(len)),
                 WriterCursor, cut)
    BY <2>2, <2>4 DEF Rest
  <2>9. RPos = Len(received) BY <1>1, <2>1 DEF RPos, Numbers
  <2>10. /\ received' \in Seq(Nat) /\ r_seq' \in Nat /\ r_hasIV' \in BOOLEAN
    BY <1>3, <2>1 DEF Numbers
  <2>11. CASE \E i \in 1..Blocks(len) - 1 : In[i] = Noise
    <3>1. PICK i \in 1..Blocks(len) - 1 : In[i] = Noise BY <2>11
    <3>2. Noise \in ToSet(RestBytes(Blocks(len) - 1))
      BY <2>1, <2>4, <2>5, <2>8, <3>1, NoiseIsRead
    <3>3. ~ParityHolds(header, ToSet(RestBytes(n))) BY <2>4, <3>2 DEF ParityHolds
    <3>4. told' = TRUE /\ r_buf' = r_buf BY <1>3, <3>3
    <3>5. damaged
      <4>1. i \in 0 + 1..Len(In) BY <2>1, <2>4, <2>5
      <4> QED BY <2>1, <3>1, <4>1 DEF Carries
    <3>6. ConduitInv'
      <4>1. r_buf' \in Seq(Nat) BY <2>1, <3>4 DEF Numbers
      <4> QED BY <1>1, <1>3, <2>4, <2>5, <2>10, <3>4, <4>1, ReaderMoves
    <3>7. C!Tell BY <1>3, <3>4, <3>5 DEF C!Tell, writerVars, setupVars
    <3> QED BY <3>6, <3>7 DEF C!Next
  <2>12. CASE \A i \in 1..Blocks(len) - 1 : In[i] # Noise
    <3>1. /\ RestBytes(n) = [j \in 1..len - BlockSize |-> RPos + j]
          /\ Name(In[n]) = l + Blocks(len)
      BY <2>1, <2>2, <2>4, <2>5, <2>8, <2>12, RestIsRead
    <3>2. ParityHolds(header, ToSet(RestBytes(n)))
      BY <2>1, <2>2, <3>1, ParityOfChunk
    <3>3. told' = told /\ r_buf' = [j \in 1..len - BlockSize |-> RPos + j]
      BY <1>3, <3>1, <3>2
    <3>4. len - BlockSize \in Nat BY AESAssumption DEF Lens
    <3>5. r_buf' \in Seq(Nat) /\ Len(r_buf') = len - BlockSize BY <2>1, <3>3, <3>4, Counting
    <3>6. RPos' = RPos + len - BlockSize
      <4>1. BlockSize \in Nat /\ len \in Nat BY AESAssumption DEF Lens
      <4> QED BY <1>3, <2>1, <2>9, <3>5, <4>1 DEF RPos
    <3>7. r_last' = l + Blocks(len) /\ r_last' \in Nat BY <1>3, <2>4, <3>1
    <3>8. Comes(wkey, In', 1, Cursor(RPos', r_seq, TRUE, r_last'), WriterCursor, cut)
      <4> DEFINE at == Cursor(RPos', r_seq, TRUE, r_last')
      <4>1. Comes(wkey, In, 1 + n, at, WriterCursor, cut) BY <2>8, <3>6, <3>7
      <4> HIDE DEF at
      <4>2. 1 \in Nat \ {0} OBVIOUS
      <4>3. Comes(wkey, In', 1, at, WriterCursor, cut)
        BY <2>1, <2>4, <2>5, <2>6, <4>1, <4>2, ComesNext
      <4> QED BY <4>3 DEF at
    <3>9. ReaderInv'
      <4>1. r_hasIV = TRUE /\ r_hasIV' = TRUE BY <1>1, <1>3, <2>1 DEF Numbers, ReaderInv
      <4>2. r_last' # Noise BY <3>7, NoiseAssumption
      <4>3. Ahead' = 0 /\ 0 + 1 = 1 BY DEF Ahead, setupVars, Server
      <4>4. r_buf' = [j \in 1..Len(r_buf') |-> Len(received') + j] /\ RPos' <= sent'
        BY <1>3, <2>7, <2>8, <2>9, <3>3, <3>5, <3>6
      <4>5. Expects(wkey, In', Ahead', RPos', r_seq', r_hasIV', r_last', header',
                    WriterCursor', cut', sent')
        BY <1>3, <2>7, <3>8, <4>1, <4>3 DEF Expects
      <4> QED BY <1>3, <2>7, <3>7, <4>1, <4>2, <4>4, <4>5 DEF ReaderInv
    <3>10. ConduitInv'
      <4>1. told' \in BOOLEAN BY <2>1, <3>3 DEF Numbers
      <4> QED BY <1>1, <1>3, <2>4, <2>5, <2>6, <2>10, <3>5, <3>9, <4>1, ReaderMoves
    <3>11. UNCHANGED C!vars BY <1>3, <3>3 DEF C!vars, writerVars, setupVars
    <3> QED BY <3>10, <3>11
  <2> QED BY <2>11, <2>12
<1> QED BY <1>1, <1>2, <1>3

LEMMA ReadKeeps ==
  ASSUME SecureInv, ConduitInv, Server = "done", UNCHANGED setupVars,
         NEW len \in ReadLengths, Read(len)
  PROVE  ConduitInv' /\ [C!Next]_C!vars
<1> DEFINE n == Least(Len(r_buf), len) p == Len(received)
<1>1. /\ r_buf # <<>> /\ ~told
      /\ received' = received \o SubSeq(r_buf, 1, n)
      /\ r_buf' = SubSeq(r_buf, n + 1, Len(r_buf))
      /\ UNCHANGED <<innerVars, writerVars, r_seq, r_hasIV, r_last, header, told>>
  BY DEF Read
<1>2. UNCHANGED <<wire, closed, cut, damaged, keys>> BY <1>1 DEF innerVars
<1>3. /\ ReaderInv /\ Numbers
      /\ Expects(wkey, In, 0, RPos, r_seq, r_hasIV, r_last, header, WriterCursor, cut, sent)
      /\ Listed(In) /\ Len(In) \in Nat /\ RPos \in Nat
  BY <1>1, ReaderFlows
<1>4. /\ r_buf = [j \in 1..Len(r_buf) |-> p + j] /\ RPos <= sent
      /\ r_buf \in Seq(Nat) /\ received \in Seq(Nat) /\ sent \in Nat
  BY <1>3 DEF ReaderInv, Numbers
<1>5. n \in 1..Len(r_buf) /\ n \in Nat /\ Len(r_buf) \in Nat /\ p \in Nat /\ RPos = p + Len(r_buf)
  <2>1. len \in Nat \ {0} BY AESAssumption
  <2>2. Len(r_buf) \in Nat \ {0} BY <1>1, <1>4, EmptySeq
  <2>3. n \in 1..Len(r_buf) BY <2>1, <2>2 DEF Least
  <2>4. p \in Nat /\ RPos = p + Len(r_buf) BY <1>4 DEF RPos
  <2> HIDE DEF n, p
  <2> QED BY <2>2, <2>3, <2>4
<1> HIDE DEF n
<1>6. SubSeq(r_buf, 1, n) = [j \in 1..n |-> p + j]
  <2> HIDE DEF p
  <2>1. \A i \in 1..n : r_buf[i] = p + i /\ r_buf[i] \in Nat BY <1>4, <1>5
  <2>2. /\ SubSeq(r_buf, 1, n) \in Seq(Nat) /\ Len(SubSeq(r_buf, 1, n)) = n
        /\ \A i \in 1..n : SubSeq(r_buf, 1, n)[i] = r_buf[i]
    BY <1>5, <2>1, PrefixIs
  <2>3. LET t == [j \in 1..n |-> p + j]
        IN  t \in Seq(Nat) /\ Len(t) = n /\ \A i \in 1..n : t[i] = p + i
    BY <1>5, Counting
  <2> QED BY <2>1, <2>2, <2>3, SeqEqual
<1>7. received' \in Seq(Nat) /\ Len(received') = p + n
  <2> HIDE DEF p
  <2>1. [j \in 1..n |-> p + j] \in Seq(Nat) /\ Len([j \in 1..n |-> p + j]) = n
    BY <1>5, Counting
  <2> DEFINE t == [j \in 1..n |-> p + j]
  <2>2. received' = received \o t BY <1>1, <1>6
  <2> HIDE DEF t
  <2>3. received \in Seq(Nat) /\ t \in Seq(Nat) /\ Len(t) = n BY <1>4, <2>1 DEF t
  <2>4. received' \in Seq(Nat) /\ Len(received') = Len(received) + n
    BY <2>2, <2>3, ConcatProperties
  <2> QED BY <2>4 DEF p
<1>8. /\ r_buf' \in Seq(Nat) /\ Len(r_buf') = Len(r_buf) - n
      /\ r_buf' = [j \in 1..Len(r_buf') |-> Len(received') + j]
  <2> HIDE DEF p
  <2> DEFINE t == SubSeq(r_buf, n + 1, Len(r_buf)) m == Len(r_buf) - n
             u == [j \in 1..m |-> (p + n) + j]
  <2>1. \A i \in 1..Len(r_buf) : r_buf[i] = p + i /\ r_buf[i] \in Nat BY <1>4
  <2>2. \A i \in n + 1..Len(r_buf) : i \in 1..Len(r_buf) BY <1>5
  <2>3. n + 1 \in Int /\ Len(r_buf) \in Int /\ m \in Nat /\ p + n \in Nat BY <1>5
  <2>4. /\ t \in Seq(Nat) /\ Len(t) = IF n + 1 <= Len(r_buf) THEN Len(r_buf) - (n + 1) + 1 ELSE 0
        /\ \A i \in 1..Len(r_buf) - (n + 1) + 1 : t[i] = r_buf[n + 1 + i - 1]
    <3> HIDE DEF t
    <3> QED BY <2>1, <2>2, <2>3, SubSeqProperties DEF t
  <2> HIDE DEF t
  <2>5. Len(t) = m BY <1>5, <2>4
  <2>6. u \in Seq(Nat) /\ Len(u) = m /\ \A i \in 1..m : u[i] = (p + n) + i
    <3> HIDE DEF m
    <3> QED BY <2>3, Counting
  <2> HIDE DEF u
  <2>7. ASSUME NEW i \in 1..m PROVE t[i] = u[i]
    <3>1. i \in 1..Len(r_buf) - (n + 1) + 1 /\ n + 1 + i - 1 \in 1..Len(r_buf) BY <1>5
    <3>2. t[i] = p + (n + 1 + i - 1) BY <2>1, <2>4, <3>1
    <3>3. p + (n + 1 + i - 1) = (p + n) + i BY <1>5
    <3> QED BY <2>6, <3>2, <3>3
  <2> HIDE DEF m
  <2>8. t = u BY <2>4, <2>5, <2>6, <2>7, SeqEqual
  <2>9. r_buf' = t BY <1>1 DEF t
  <2>10. r_buf' = [j \in 1..Len(r_buf') |-> Len(received') + j] BY <1>7, <2>5, <2>8, <2>9 DEF u
  <2> QED BY <2>4, <2>5, <2>9, <2>10 DEF m
<1> HIDE DEF p
<1>9. RPos' = RPos
  <2>1. Len(received') = p + n /\ Len(r_buf') = Len(r_buf) - n BY <1>7, <1>8
  <2>2. Len(received') + Len(r_buf') = p + Len(r_buf) BY <1>5, <2>1
  <2> QED BY <1>5, <2>2 DEF RPos
<1>10. header = None /\ r_last # Noise BY <1>1, <1>3 DEF ReaderInv
<1>11. UNCHANGED <<sent, WriterCursor, wkey, In>>
  BY <1>1, <1>2 DEF writerVars, WriterCursor, Out, wkey, In
<1>12. ReaderInv'
  <2>1. Expects(wkey, In', Ahead', RPos', r_seq', r_hasIV', r_last', header',
                WriterCursor', cut', sent')
    <3>1. Ahead' = 0 BY DEF Ahead, setupVars, Server
    <3> QED BY <1>1, <1>2, <1>3, <1>9, <1>11, <3>1
  <2> QED BY <1>1, <1>2, <1>3, <1>4, <1>8, <1>9, <1>10, <1>11, <2>1 DEF ReaderInv
<1>13. ConduitInv'
  <2>1. 0 \in Nat /\ 0 <= Len(In) /\ Taken(0, In, In') /\ Listed(In')
    BY <1>3, <1>11 DEF Taken, Listed
  <2>2. r_seq' \in Nat /\ r_hasIV' \in BOOLEAN /\ told' \in BOOLEAN
    BY <1>1, <1>3 DEF Numbers
  <2> QED BY <1>1, <1>2, <1>7, <1>8, <1>12, <2>1, <2>2, ReaderMoves
<1>14. C!Give(n)
  <2>1. Len(received) + n <= sent BY <1>4, <1>5 DEF p
  <2>2. received' = received \o [j \in 1..n |-> Len(received) + j] BY <1>1, <1>6 DEF p
  <2> QED BY <1>1, <1>2, <2>1, <2>2 DEF C!Give, writerVars, setupVars
<1>15. n \in 1..sent - Len(received) BY <1>4, <1>5 DEF p
<1> QED BY <1>13, <1>14, <1>15 DEF C!Next

LEMMA ResetReaderKeeps ==
  ASSUME SecureInv, ConduitInv, Server = "done", UNCHANGED setupVars, ResetReader
  PROVE  ConduitInv' /\ [C!Next]_C!vars
<1>1. /\ Len(received) = ResetAt /\ r_buf = <<>> /\ ~told /\ header = None /\ r_seq # 0
      /\ r_seq' = 0 /\ r_hasIV' = FALSE
      /\ UNCHANGED <<innerVars, writerVars, r_buf, r_last, header, received, told>>
  BY DEF ResetReader, Refilling
<1>2. UNCHANGED <<wire, closed, cut, damaged, keys>> BY <1>1 DEF innerVars
<1>3. /\ ReaderInv /\ Numbers
      /\ Expects(wkey, In, 0, RPos, r_seq, r_hasIV, r_last, header, WriterCursor, cut, sent)
      /\ Listed(In) /\ Len(In) \in Nat /\ RPos \in Nat
  BY <1>1, ReaderFlows
<1>4. RPos = ResetAt /\ RPos' = RPos BY <1>1, <1>3 DEF RPos, Numbers
<1>5. r_last # Noise BY <1>1, <1>3 DEF ReaderInv
<1>6. UNCHANGED <<sent, WriterCursor, wkey, In>>
  BY <1>1, <1>2 DEF writerVars, WriterCursor, Out, wkey, In
<1>7. Cursor(RPos, r_seq, r_hasIV, r_last) = Cursor(RPos, 0, FALSE, r_last)
  <2>1. Fresh(RPos, r_seq, r_hasIV) /\ Fresh(RPos, 0, FALSE) BY <1>1, <1>4 DEF Fresh
  <2> QED BY <2>1 DEF Cursor
<1>8. ReaderInv'
  <2>1. Ahead' = 0 BY DEF Ahead, setupVars, Server
  <2>2. Expects(wkey, In', Ahead', RPos', r_seq', r_hasIV', r_last', header',
                WriterCursor', cut', sent')
    BY <1>1, <1>2, <1>3, <1>4, <1>5, <1>6, <1>7, <2>1 DEF Expects
  <2> QED BY <1>1, <1>2, <1>3, <1>4, <1>5, <1>6, <2>2 DEF ReaderInv
<1>9. ConduitInv'
  <2>1. 0 \in Nat /\ 0 <= Len(In) /\ Taken(0, In, In') /\ Listed(In')
    BY <1>3, <1>6 DEF Taken, Listed
  <2>2. /\ received' \in Seq(Nat) /\ r_buf' \in Seq(Nat) /\ r_seq' \in Nat
        /\ r_hasIV' \in BOOLEAN /\ told' \in BOOLEAN
    BY <1>1, <1>3 DEF Numbers
  <2> QED BY <1>1, <1>2, <1>8, <2>1, <2>2, ReaderMoves
<1>10. UNCHANGED C!vars BY <1>1, <1>2 DEF C!vars, writerVars, setupVars
<1> QED BY <1>9, <1>10
-----------------------------------------------------------------------------
(* The handshake: a side that fails closes its end, or breaks what the     *)
(* conduit promises; and otherwise the streams stand still until both      *)
(* sides are there.                                                        *)
Steps(side) == UNCHANGED closed /\ \E to : to # "failed" /\ pc' = [pc EXCEPT ![side] = to]

LEMMA ServerGetsSteps ==
  ASSUME NEW at, NEW expected, NEW to, to # "failed", ServerGets(at, expected, to)
  PROVE  pc["server"] = at /\ (Fails("server") \/ Steps("server"))
BY DEF ServerGets, Hears, Goes, s_failConnection, Steps

LEMMA SetupShape ==
  ASSUME SecureInv, NEW side \in Side, Setup(side)
  PROVE  /\ pc[side] \notin {"done", "failed"} /\ UNCHANGED <<cut, damaged, app, key, aesVars>>
         /\ Fails(side) \/ Steps(side)
<1>1. UNCHANGED <<cut, damaged, app, key, aesVars>> BY DEF Setup
<1>2. ASSUME ClientStep
      PROVE  pc["client"] \notin {"done", "failed"} /\ (Fails("client") \/ Steps("client"))
  <2>1. CASE ClientHello BY <2>1 DEF ClientHello, Goes, PackThrows, Steps
  <2>2. CASE ClientGetsGreeting BY <2>2 DEF ClientGetsGreeting, Hears, Goes, Throws, Steps
  <2>3. CASE ClientGetsRand BY <2>3 DEF ClientGetsRand, Hears, Goes, Steps
  <2>4. CASE ClientGetsProof BY <2>4 DEF ClientGetsProof, Hears, Goes, PackThrows, Throws, Steps
  <2> QED BY <1>2, <2>1, <2>2, <2>3, <2>4 DEF ClientStep
<1>3. ASSUME ServerStep
      PROVE  pc["server"] \notin {"done", "failed"} /\ (Fails("server") \/ Steps("server"))
  <2>1. CASE ServerGets("greeting", <<"librho">>, "app") BY <2>1, ServerGetsSteps
  <2>2. CASE ServerGets("app", <<"app", app["server"]>>, "rand") BY <2>2, ServerGetsSteps
  <2>3. CASE ServerGetsRand BY <2>3 DEF ServerGetsRand, Hears, Goes, Steps
  <2>4. CASE ServerGetsSecret
    BY <2>4 DEF ServerGetsSecret, Hears, Goes, PackThrows, Throws, s_failConnection, Steps
  <2>5. CASE ServerGetsProof BY <2>5 DEF ServerGetsProof, Hears, Goes, Throws, Steps
  <2> QED BY <1>3, <2>1, <2>2, <2>3, <2>4, <2>5 DEF ServerStep
<1>4. ASSUME UnpackFails(side)
      PROVE  pc[side] \notin {"done", "failed"} /\ (Fails(side) \/ Steps(side))
  <2>1. pc[side] \notin {"done", "failed"} BY <1>4 DEF UnpackFails
  <2>2. ASSUME NEW w, Gives(side, w) PROVE Fails(side)
    BY <2>2 DEF Gives, s_failConnection, Throws
  <2>3. UNCHANGED <<pc, closed>> => Steps(side)
    <3>1. pc = [pc EXCEPT ![side] = pc[side]] BY DEF SecureInv, Types, Placed
    <3> QED BY <2>1, <3>1 DEF Steps
  <2> QED BY <1>4, <2>1, <2>2, <2>3 DEF UnpackFails
<1> QED BY <1>1, <1>2, <1>3, <1>4 DEF Setup

LEMMA SetupIsConduit ==
  ASSUME SecureInv, Numbers, NEW side \in Side, Setup(side)
  PROVE  /\ [C!Next]_C!vars
         /\ Numbers' /\ UNCHANGED <<cut, damaged, writerVars, readerVars>>
         /\ side = "client" => UNCHANGED Server /\ Client # "done"
         /\ side = "server" =>
              UNCHANGED <<Client, closed["client"]>> /\ Server \notin {"done", "failed"}
<1>1. /\ pc[side] \notin {"done", "failed"} /\ UNCHANGED <<cut, damaged, writerVars, readerVars>>
      /\ Fails(side) \/ Steps(side)
  BY SetupShape DEF aesVars
<1>2. UNCHANGED <<m_buf, w_seq, m_parity, w_hasIV, w_last, sent>> BY <1>1 DEF writerVars
<1>3. UNCHANGED <<received, r_buf, r_seq, r_hasIV, r_last, header, told>>
  BY <1>1 DEF readerVars
<1>4. Placed(pc) /\ Placed(closed) /\ closed["client"] \in BOOLEAN
  BY DEF SecureInv, Types, Numbers
<1>5. CASE Fails(side)
  <2>1. pc' = [pc EXCEPT ![side] = "failed"] /\ closed' = [closed EXCEPT ![side] = TRUE]
    BY <1>5 DEF Fails
  <2>2. Placed(closed)' BY <1>4, <2>1 DEF Placed
  <2>3. CASE side = "client"
    <3>1. closed'["client"] = TRUE /\ Server' = Server
      BY <1>4, <2>1, <2>3 DEF Placed, Side, Server
    <3>2. C!End BY <1>1, <1>2, <1>3, <3>1 DEF C!End, Server
    <3> QED BY <1>1, <1>2, <1>3, <2>2, <2>3, <3>1, <3>2 DEF C!Next, Numbers, Client
  <2>4. CASE side = "server"
    <3>1. closed'["client"] = closed["client"] /\ Client' = Client /\ pc'["server"] = "failed"
      BY <1>4, <2>1, <2>4 DEF Placed, Side, Client
    <3>2. C!Break BY <1>1, <1>2, <1>3, <3>1 DEF C!Break
    <3> QED BY <1>1, <1>2, <1>3, <2>2, <2>4, <3>1, <3>2 DEF C!Next, Numbers, Server
  <2> QED BY <2>3, <2>4 DEF Side
<1>6. CASE Steps(side)
  <2>1. PICK to : to # "failed" /\ pc' = [pc EXCEPT ![side] = to] BY <1>6 DEF Steps
  <2>2. closed' = closed BY <1>6 DEF Steps
  <2>3. Numbers' BY <1>1, <1>2, <1>3, <2>2 DEF Numbers, Placed
  <2>4. CASE side = "client"
    <3>1. pc'["server"] = pc["server"] BY <1>4, <2>1, <2>4 DEF Placed, Side
    <3>2. UNCHANGED C!vars BY <1>1, <1>2, <1>3, <2>2, <3>1 DEF C!vars
    <3> QED BY <1>1, <2>3, <2>4, <3>1, <3>2 DEF Client, Server
  <2>5. CASE side = "server"
    <3>1. pc'["client"] = pc["client"] /\ pc'["server"] # "failed" /\ pc["server"] # "failed"
      BY <1>1, <1>4, <2>1, <2>5 DEF Placed, Side
    <3>2. UNCHANGED C!vars BY <1>1, <1>2, <1>3, <2>2, <3>1 DEF C!vars
    <3> QED BY <1>1, <2>2, <2>3, <2>5, <3>1, <3>2 DEF Client, Server
  <2> QED BY <2>4, <2>5 DEF Side
<1> QED BY <1>1, <1>5, <1>6

LEMMA QuietStays ==
  ASSUME SecureInv, ConduitInv, NEW side \in Side, Setup(side)
  PROVE  Quiet'
<1>1. /\ UNCHANGED <<cut, damaged, writerVars, readerVars>>
      /\ side = "client" => UNCHANGED Server /\ Client # "done"
      /\ side = "server" => UNCHANGED Client /\ Server \notin {"done", "failed"}
  BY SetupIsConduit DEF ConduitInv
<1>2. Client' # "done" => Client # "done" BY <1>1 DEF Side
<1>3. Server' # "done" => Server # "done" BY <1>1 DEF Side
<1> QED BY <1>1, <1>2, <1>3 DEF ConduitInv, Quiet, writerVars, readerVars

(* The client's last message is the first of what the server will read.    *)
LEMMA ClientSetupKeeps ==
  ASSUME SecureInv, ConduitInv, Setup("client")
  PROVE  ConduitInv' /\ [C!Next]_C!vars
<1>1. /\ [C!Next]_C!vars /\ Numbers' /\ UNCHANGED <<cut, damaged, writerVars, readerVars>>
      /\ UNCHANGED Server /\ Client # "done"
  BY SetupIsConduit DEF ConduitInv, Side
<1>2. Quiet' BY QuietStays DEF Side
<1>3. ASSUME Flowing' PROVE WriterInv' /\ ReaderInv' /\ Carries(wkey, In, Ahead, WriterCursor, cut, sent, ~damaged)'
  <2>1. Client' = "done" /\ Server \in {"proof", "done"} /\ ~told
    BY <1>1, <1>3 DEF Flowing, readerVars
  <2>2. Server = "proof" /\ ToServer = <<>>
    <3>1. Server # "done" /\ Follows(ToServer, Left(Server)) BY <1>1, <2>1 DEF SecureInv, Said
    <3>2. Server = "proof" BY <2>1, <3>1
    <3>3. ToServer \in Seq(Sayings) /\ Len(ToServer) <= 0 BY <3>1, <3>2, LeftIs DEF Follows
    <3> QED BY <3>2, <3>3, EmptySeq
  <2>3. PICK msg : wire' = [Unpacked("client") EXCEPT !["client"] = @ \o <<msg>>]
    <3>1. Placed(pc) BY DEF SecureInv, Types
    <3>2. ~Fails("client") /\ ~(pc' = pc)
      BY <1>1, <2>1, <3>1 DEF Fails, Client, Placed, Side
    <3>3. ASSUME NEW to, Goes("client", to) PROVE to = "done"
      BY <2>1, <3>1, <3>3 DEF Goes, Client, Placed, Side
    <3>4. ~UnpackFails("client")
      BY <3>2 DEF UnpackFails, Gives, s_failConnection, Throws
    <3>5. ~ClientHello
      <4>1. ~Goes("client", "greeting") BY <3>3
      <4> QED BY <3>2, <4>1 DEF ClientHello, PackThrows
    <3>6. ~ClientGetsGreeting
      <4>1. ~Goes("client", "rand") BY <3>3
      <4> QED BY <3>2, <4>1 DEF ClientGetsGreeting, Throws
    <3>7. ~ClientGetsRand
      <4>1. ~Goes("client", "proof") BY <3>3
      <4> QED BY <4>1 DEF ClientGetsRand
    <3>8. ClientGetsProof BY <3>4, <3>5, <3>6, <3>7 DEF Setup, ClientStep
    <3>9. Packs("client", Unpacked("client"), <<H3(vectors["client"])>>)
      BY <3>2, <3>8 DEF ClientGetsProof, PackThrows, Throws
    <3> QED BY <3>9 DEF Packs
  <2>4. In' = <<msg>>
    <3>1. Placed(Unpacked("client")) /\ Unpacked("client")["client"] = ToServer
      BY UnpackedIs DEF SecureInv, Types
    <3>2. In' = ToServer \o <<msg>> BY <2>3, <3>1 DEF In, Placed, Side
    <3> QED BY <2>2, <3>2
  <2>5. /\ sent = 0 /\ m_buf = <<>> /\ w_seq = 0 /\ m_parity = {} /\ ~w_hasIV /\ w_last = 0
        /\ r_buf = <<>> /\ r_seq = 0 /\ ~r_hasIV /\ r_last = 0 /\ header = None /\ received = <<>>
    BY <1>1, <2>2 DEF ConduitInv, Quiet
  <2>6. /\ sent' = 0 /\ m_buf' = <<>> /\ w_seq' = 0 /\ m_parity' = {} /\ ~w_hasIV' /\ w_last' = 0
        /\ r_buf' = <<>> /\ r_seq' = 0 /\ ~r_hasIV' /\ r_last' = 0 /\ header' = None
        /\ received' = <<>> /\ Ahead' = 1 /\ Out' = 0 /\ RPos' = 0
    <3>1. /\ sent' = 0 /\ m_buf' = <<>> /\ w_seq' = 0 /\ m_parity' = {} /\ ~w_hasIV' /\ w_last' = 0
          /\ r_buf' = <<>> /\ r_seq' = 0 /\ ~r_hasIV' /\ r_last' = 0 /\ header' = None
          /\ received' = <<>>
      BY <1>1, <2>5 DEF writerVars, readerVars
    <3>2. Ahead' = 1 BY <1>1, <2>2 DEF Ahead
    <3>3. Len(<<>>) = 0 /\ 0 - 0 = 0 /\ 0 + 0 = 0 OBVIOUS
    <3>4. Out' = 0 /\ RPos' = 0 BY <3>1, <3>3 DEF Out, RPos
    <3> QED BY <3>1, <3>2, <3>4
  <2>7. WriterInv'
    <3>1. 0 + 1..0 = {} OBVIOUS
    <3>2. <<>> = [j \in 1..0 |-> 0 + j] OBVIOUS
    <3>3. m_buf' = [j \in 1..Len(m_buf') |-> Out' + j] BY <2>6
    <3> QED BY <2>6, <3>1, <3>3 DEF WriterInv, After
  <2>8. Len(In') = 1 /\ Listed(In') BY <2>4 DEF Listed
  <2>9. WriterCursor' = Cursor(0, r_seq', r_hasIV', r_last')
    <3>1. Fresh(0, 0, w_hasIV') /\ Fresh(0, 0, r_hasIV') BY <2>6 DEF Fresh
    <3> QED BY <2>6, <3>1 DEF WriterCursor, Cursor
  <2>10. Comes(wkey', In', Ahead' + 1, Cursor(RPos', r_seq', r_hasIV', r_last'), WriterCursor', cut')
    BY <2>6, <2>8, <2>9 DEF Comes
  <2>11. ReaderInv'
    <3>1. Expects(wkey', In', Ahead', RPos', r_seq', r_hasIV', r_last', header', WriterCursor', cut', sent')
      BY <2>6, <2>10 DEF Expects
    <3>2. r_buf' = [j \in 1..Len(r_buf') |-> Len(received') + j] BY <2>6
    <3>3. r_last' # Noise BY <2>6, NoiseAssumption
    <3> QED BY <2>6, <3>1, <3>2, <3>3 DEF ReaderInv
  <2>12. Carries(wkey, In, Ahead, WriterCursor, cut, sent, ~damaged)'
    <3>1. \A i : i \notin Ahead' + 1..Len(In') BY <2>6, <2>8
    <3> QED BY <2>8, <3>1 DEF Carries
  <2> QED BY <2>7, <2>11, <2>12
<1> QED BY <1>1, <1>2, <1>3 DEF ConduitInv, Flow

(* A server that waits for the proof takes it, or finds it damaged.        *)
LEMMA ServerSetupKeeps ==
  ASSUME SecureInv, ConduitInv, Setup("server")
  PROVE  ConduitInv' /\ [C!Next]_C!vars
<1>1. /\ [C!Next]_C!vars /\ Numbers' /\ UNCHANGED <<cut, damaged, writerVars, readerVars>>
      /\ UNCHANGED <<Client, closed["client"]>> /\ Server \notin {"done", "failed"}
  BY SetupIsConduit DEF ConduitInv, Side
<1>2. Quiet' BY QuietStays DEF Side
<1>3. ASSUME Flowing' PROVE WriterInv' /\ ReaderInv' /\ Carries(wkey, In, Ahead, WriterCursor, cut, sent, ~damaged)'
  <2>1. Client = "done" /\ Server' \in {"proof", "done"} /\ ~told
    BY <1>1, <1>3 DEF Flowing, readerVars
  <2>2. Server = "proof"
    <3>1. Replied BY <2>1 DEF SecureInv, Agreed
    <3>2. Server \notin {"greeting", "app", "rand", "secret"} BY <3>1 DEF SecureInv, Checked
    <3> QED BY <1>1, <3>2 DEF SecureInv, Types
  <2>3. Flowing /\ Ahead = 1 BY <2>1, <2>2 DEF Flowing, Ahead
  <2>4. /\ WriterInv /\ ReaderInv /\ Carries(wkey, In, 1, WriterCursor, cut, sent, ~damaged)
        /\ Expects(wkey, In, 1, RPos, r_seq, r_hasIV, r_last, header, WriterCursor, cut, sent)
    BY <2>3 DEF ConduitInv, Flow, ReaderInv
  <2>5. Listed(In) /\ Len(In) \in Nat BY <2>4 DEF Carries, Listed
  <2>6. UNCHANGED <<m_buf, w_seq, m_parity, w_hasIV, w_last, sent, r_buf, r_seq, r_hasIV, r_last,
                    header, received, told>>
    BY <1>1 DEF writerVars, readerVars
  <2>7. UNCHANGED <<Out, WriterCursor, RPos>> BY <2>6 DEF Out, WriterCursor, RPos
  <2>8. WriterInv' BY <1>1, <2>4, <2>6, <2>7 DEF WriterInv
  <2>9. header = None BY <2>2 DEF ConduitInv, Quiet
  <2>10. SUFFICES /\ Carries(wkey', In', Ahead', WriterCursor, cut, sent, ~damaged)
                  /\ Expects(wkey', In', Ahead', RPos, r_seq, r_hasIV, r_last, header,
                             WriterCursor, cut, sent)
    <3>1. ReaderInv' BY <1>1, <2>4, <2>6, <2>7, <2>10 DEF ReaderInv
    <3> QED BY <1>1, <2>6, <2>7, <2>8, <2>10, <3>1
  <2>11. \/ ServerGetsProof
         \/ ~Waits("server") /\ wire' = [wire EXCEPT !["client"][1] = Endless] /\ UNCHANGED <<pc, keys>>
    <3>1. pc["server"] = "proof" BY <2>2 DEF Server
    <3>2. ~Fails("server")
      BY <2>1 DEF Fails, SecureInv, Types, Placed, Side, Server
    <3>3. \/ ServerGetsProof \/ UnpackFails("server")
      BY <3>1 DEF Setup, ServerStep, ServerGets, ServerGetsRand, ServerGetsSecret, Hears
    <3> QED BY <3>2, <3>3 DEF UnpackFails, Gives, s_failConnection, Throws, Other
  <2>12. CASE ServerGetsProof
    <3>1. ToServer # <<>> BY <2>12, ServerHas DEF ServerGetsProof
    <3>2. ~Fails("server")
      BY <2>1 DEF Fails, SecureInv, Types, Placed, Side, Server
    <3>3. /\ wire' = Unpacked("server") /\ SetsUp("server", ServerV) /\ Goes("server", "done")
      BY <2>12, <3>2 DEF ServerGetsProof, Throws, ServerV
    <3>4. Server' = "done" /\ Ahead' = 0
      BY <3>3 DEF Goes, SecureInv, Types, Placed, Side, Server, Ahead
    <3>5. wkey' = wkey BY <3>3 DEF SetsUp, SecureInv, Types, Placed, Side, wkey
    <3> DEFINE S == {In[i] : i \in 1..Len(In)}
    <3>6. In \in Seq(S)
      <4>1. In \in [1..Len(In) -> S] BY <2>5 DEF Listed
      <4> HIDE DEF S
      <4> QED BY <2>5, <4>1
    <3>7. In' = Tail(In) BY <3>3, UnpackedIs DEF SecureInv, Types, In, ToServer
    <3> HIDE DEF S
    <3>8. Len(In) # 0 BY <3>1, <3>6, EmptySeq DEF In, ToServer
    <3>9. Listed(In') /\ Taken(1, In, In')
      <4>1. /\ Tail(In) \in Seq(S) /\ Len(Tail(In)) = Len(In) - 1
            /\ \A i \in 1..Len(Tail(In)) : Tail(In)[i] = In[i + 1]
        BY <3>6, <3>8, HeadTailProperties
      <4> DEFINE t == Tail(In)
      <4> HIDE DEF t
      <4>2. t \in Seq(S) BY <4>1 DEF t
      <4>3. Listed(t) BY <4>2 DEF Listed
      <4> QED BY <3>7, <4>1, <4>3 DEF Taken, t
    <3>10. 1 \in Nat /\ 0 \in Nat /\ 1 <= Len(In) /\ 0 + 1 = 1 BY <2>5, <3>8
    <3>11. Becomes(wkey, 1, 0, In, WriterCursor, cut, In', WriterCursor, cut)
      BY <2>5, <3>9, <3>10, NextComes
    <3>12. Carries(wkey, In, 0 + 1, WriterCursor, cut, sent, ~damaged) BY <2>4, <3>10
    <3>13. \A i \in 0 + 1..Len(In') : i + 1 <= Len(In) /\ ~(i + 1 > Len(In)) /\ In'[i] = In[i + 1]
      BY <2>5, <3>9 DEF Taken
    <3>14. Carries(wkey, In', 0, WriterCursor, cut, sent, ~damaged)
      BY <3>9, <3>10, <3>11, <3>12, <3>13, CarriesStay
    <3>15. Expects(wkey, In', 0, RPos, r_seq, r_hasIV, r_last, header, WriterCursor, cut, sent)
      <4> DEFINE at == Cursor(RPos, r_seq, r_hasIV, r_last)
      <4> HIDE DEF at
      <4>1. ASSUME r_last # Noise PROVE Comes(wkey, In', 1, at, WriterCursor, cut)
        <5>1. Comes(wkey, In, 1 + 1, at, WriterCursor, cut) BY <2>4, <2>9, <4>1 DEF Expects, at
        <5>2. 1 \in Nat \ {0} OBVIOUS
        <5> QED BY <2>5, <3>9, <3>10, <5>1, <5>2, ComesNext, Zenon
      <4> QED BY <2>9, <3>10, <4>1 DEF Expects, at
    <3> QED BY <3>4, <3>5, <3>14, <3>15
  <2>13. CASE ~Waits("server") /\ wire' = [wire EXCEPT !["client"][1] = Endless] /\ UNCHANGED <<pc, keys>>
    <3>1. In' = [In EXCEPT ![1] = Endless]
      BY <2>13 DEF SecureInv, Types, Placed, Side, In
    <3>2. Ahead' = 1 /\ wkey' = wkey BY <2>3, <2>13 DEF Ahead, Server, wkey
    <3>3. Listed(In') /\ Len(In') = Len(In) /\ \A i \in 1 + 1..Len(In) : In'[i] = In[i]
      <4> DEFINE v == [i \in 1..Len(In) |-> IF i = 1 THEN Endless ELSE In[i]]
      <4>1. In' = v BY <2>5, <3>1 DEF Listed
      <4>2. Listed(v) /\ Len(v) = Len(In) /\ \A i \in 1 + 1..Len(In) : v[i] = In[i]
        BY <2>5 DEF Listed
      <4> HIDE DEF v
      <4> QED BY <4>1, <4>2
    <3>4. Noisier(1, In, In') BY <3>3 DEF Noisier
    <3>5. Becomes(wkey, 0, 1, In, WriterCursor, cut, In', WriterCursor, cut)
      BY <2>5, <3>4, NoiseComes
    <3>6. Carries(wkey, In, 1 + 0, WriterCursor, cut, sent, ~damaged) BY <2>4
    <3>7. \A i \in 1 + 1..Len(In') : i + 0 <= Len(In) /\ ~(i + 0 > Len(In)) /\ In'[i] = In[i + 0]
      BY <2>5, <3>3
    <3>8. Carries(wkey, In', 1, WriterCursor, cut, sent, ~damaged)
      BY <3>3, <3>5, <3>6, <3>7, CarriesStay
    <3>9. Expects(wkey, In', 1, RPos, r_seq, r_hasIV, r_last, header, WriterCursor, cut, sent)
      BY <2>4, <2>5, <3>3, <3>5, ExpectsStays
    <3> QED BY <3>2, <3>8, <3>9
  <2> QED BY <2>11, <2>12, <2>13
<1> QED BY <1>1, <1>2, <1>3 DEF ConduitInv, Flow
-----------------------------------------------------------------------------
LEMMA InitConduitInv == Init => ConduitInv /\ C!Init
<1> SUFFICES ASSUME Init PROVE ConduitInv /\ C!Init OBVIOUS
<1>1. AESInit /\ Client = "hello" /\ Server = "greeting"
      /\ Placed(closed) /\ closed["client"] = FALSE /\ ~cut /\ cut \in BOOLEAN
      /\ ~damaged /\ damaged \in BOOLEAN
  BY DEF Init, Placed, Side, Client, Server
<1>2. Numbers
  <2>1. w_hasIV \in BOOLEAN /\ r_hasIV \in BOOLEAN /\ told \in BOOLEAN BY <1>1 DEF AESInit
  <2>2. m_buf = <<>> /\ r_buf = <<>> /\ received = <<>> BY <1>1 DEF AESInit
  <2>3. sent = 0 /\ w_seq = 0 /\ w_last = 0 /\ r_seq = 0 BY <1>1 DEF AESInit
  <2>4. <<>> \in Seq(Nat) /\ Len(<<>>) <= 0 OBVIOUS
  <2>5. closed["client"] \in BOOLEAN BY <1>1
  <2> QED BY <1>1, <2>1, <2>2, <2>3, <2>4, <2>5 DEF Numbers
<1>3. Quiet BY <1>1 DEF AESInit, Quiet
<1>4. Flow BY <1>1 DEF Flow, Flowing
<1>5. C!Init BY <1>1 DEF C!Init, AESInit, Server
<1> QED BY <1>2, <1>3, <1>4, <1>5 DEF ConduitInv

LEMMA WritesAreConduit ==
  ASSUME SecureInv, ConduitInv, Writes
  PROVE  ConduitInv' /\ [C!Next]_C!vars
<1>1. Client = "done" /\ ~closed["client"] /\ WriterCall /\ UNCHANGED setupVars
  BY DEF Writes, Client
<1>2. ASSUME NEW len \in WriteLengths, Write(len) PROVE ConduitInv' /\ [C!Next]_C!vars
  BY <1>1, <1>2, WritesBytes
<1>3. CASE Flush BY <1>1, <1>3, FlushKeeps
<1>4. ASSUME NEW n \in 0..BufBlocks, FlushFails(n) PROVE ConduitInv' /\ [C!Next]_C!vars
  BY <1>1, <1>4, FlushFailsKeeps
<1>5. CASE ResetWriter BY <1>1, <1>5, ResetWriterKeeps
<1>6. CASE Destroy BY <1>1, <1>6, DestroyKeeps
<1> QED BY <1>1, <1>2, <1>3, <1>4, <1>5, <1>6 DEF WriterCall

LEMMA ReadsAreConduit ==
  ASSUME SecureInv, ConduitInv, Reads
  PROVE  ConduitInv' /\ [C!Next]_C!vars
<1>1. Server = "done" /\ ReaderStep /\ UNCHANGED setupVars BY DEF Reads, Server
<1>2. CASE ReadInitVector BY <1>1, <1>2, ReadInitVectorKeeps
<1>3. CASE ReadHeader BY <1>1, <1>3, ReadHeaderKeeps
<1>4. CASE ReadRest BY <1>1, <1>4, ReadRestKeeps
<1>5. CASE ResetReader BY <1>1, <1>5, ResetReaderKeeps
<1>6. ASSUME NEW len \in ReadLengths, Read(len) PROVE ConduitInv' /\ [C!Next]_C!vars
  BY <1>1, <1>6, ReadKeeps
<1> QED BY <1>1, <1>2, <1>3, <1>4, <1>5, <1>6 DEF ReaderStep

LEMMA NothingHappens ==
  ASSUME ConduitInv, UNCHANGED vars
  PROVE  ConduitInv' /\ UNCHANGED C!vars
<1>1. UNCHANGED <<setupVars, wire, closed, cut, damaged, keys, writerVars, readerVars>>
  BY DEF vars, innerVars, aesVars
<1>2. UNCHANGED <<m_buf, w_seq, m_parity, w_hasIV, w_last, sent, r_buf, r_seq, r_hasIV, r_last,
                  header, received, told>>
  BY <1>1 DEF writerVars, readerVars
<1>3. Numbers' BY <1>1, <1>2 DEF ConduitInv, Numbers, Placed
<1>4. In' = In BY <1>1, Untouched
<1>5. UNCHANGED <<Out, WriterCursor>> BY <1>2 DEF Out, WriterCursor
<1>6. ASSUME Flowing
      PROVE  /\ WriterInv'
             /\ Carries(wkey, In', Ahead, WriterCursor', cut', sent', ~damaged')
             /\ Expects(wkey, In', Ahead, RPos, r_seq, r_hasIV, r_last, header,
                        WriterCursor', cut', sent')
  <2>1. /\ WriterInv /\ Carries(wkey, In, Ahead, WriterCursor, cut, sent, ~damaged)
        /\ Expects(wkey, In, Ahead, RPos, r_seq, r_hasIV, r_last, header, WriterCursor, cut, sent)
    BY <1>6 DEF ConduitInv, Flow, ReaderInv
  <2>2. WriterInv' BY <1>1, <1>2, <1>5, <2>1 DEF WriterInv
  <2> QED BY <1>1, <1>2, <1>4, <1>5, <2>1, <2>2
<1>7. ConduitInv'
  <2>1. sent <= sent' BY <1>2 DEF ConduitInv, Numbers
  <2> QED BY <1>1, <1>3, <1>6, <2>1, ReaderStands
<1>8. UNCHANGED C!vars BY <1>1, <1>2 DEF C!vars, setupVars
<1> QED BY <1>7, <1>8

LEMMA StepsAreConduit == SecureInv /\ ConduitInv /\ [Next]_vars => ConduitInv' /\ [C!Next]_C!vars
<1> SUFFICES ASSUME SecureInv, ConduitInv, [Next]_vars
             PROVE  ConduitInv' /\ [C!Next]_C!vars
  OBVIOUS
<1>1. ASSUME NEW side \in Side, Setup(side) PROVE ConduitInv' /\ [C!Next]_C!vars
  BY <1>1, ClientSetupKeeps, ServerSetupKeeps DEF Side
<1>2. CASE Writes BY <1>2, WritesAreConduit
<1>3. CASE Reads BY <1>3, ReadsAreConduit
<1>4. CASE Faults
  <2>1. UNCHANGED setupVars BY <1>4 DEF Faults
  <2>2. CASE Cut BY <2>1, <2>2, CutKeeps
  <2>3. ASSUME NEW side \in Side, NEW i \in DOMAIN wire[side], Damage(side, i)
        PROVE  ConduitInv' /\ [C!Next]_C!vars
    BY <2>1, <2>3, DamageKeeps
  <2> QED BY <1>4, <2>2, <2>3 DEF Faults
<1>5. CASE UNCHANGED vars BY <1>5, NothingHappens
<1> QED BY <1>1, <1>2, <1>3, <1>4, <1>5 DEF Next

(* What is on the wire between the AES streams, and what each end has      *)
(* counted, is as the invariant says, in whatever order writes, flushes,   *)
(* reads, resets and faults come (tWritableAES.cpp, tReadableAES.cpp).     *)
THEOREM StreamInvariant == Spec => []ConduitInv
<1>1. Init => ConduitInv BY InitConduitInv
<1>2. SecureInv /\ ConduitInv /\ [Next]_vars => ConduitInv' BY StepsAreConduit
<1> QED BY <1>1, <1>2, HandshakeInvariant, PTL DEF Spec

(* The server's program is given the bytes that the client's wrote, in     *)
(* order and from one reset to the next, and it is told the end only after *)
(* the last of them, unless the stream broke or was damaged or the         *)
(* handshake failed (tSecureStream.cpp; the safety half of Implements).    *)
THEOREM ImplementsSafety == Spec => C!Spec
<1>1. SecureInv /\ ConduitInv /\ [Next]_vars => [C!Next]_C!vars BY StepsAreConduit
<1>2. Init => C!Init BY InitConduitInv
<1> QED BY <1>1, <1>2, HandshakeInvariant, StreamInvariant, PTL DEF Spec, C!Spec
-----------------------------------------------------------------------------
(* What the server's program has been given, as the refinement has it.     *)
Broken == cut \/ damaged \/ Server = "failed"
InOrder ==
    /\ received = [j \in 1..Len(received) |-> j] /\ Len(received) <= sent
    /\ told /\ ~Broken => closed["client"] /\ Len(received) = sent

LEMMA ConduitIsInOrder ==
  ASSUME Numbers, Numbers', InOrder, [C!Next]_C!vars
  PROVE  InOrder'
<1>1. sent \in Nat /\ received \in Seq(Nat) /\ Len(received) \in Nat /\ sent' \in Nat
  BY DEF Numbers
<1>2. ASSUME NEW n \in 1..sent' - sent, C!Take(n) PROVE InOrder'
  <2>1. /\ ~closed["client"] \/ Broken
        /\ sent' = sent + n /\ UNCHANGED <<received, told>> /\ (Broken' <=> Broken)
    BY <1>2 DEF C!Take, Broken, Server
  <2>2. n \in Nat BY <1>1
  <2>3. Len(received') <= sent'
    <3>1. Len(received) <= sent BY DEF InOrder
    <3>2. Len(received) <= sent + n BY <1>1, <2>2, <3>1
    <3> QED BY <2>1, <3>2
  <2>4. ~(told /\ ~Broken) BY <2>1 DEF InOrder
  <2> QED BY <2>1, <2>3, <2>4 DEF InOrder
<1>3. ASSUME NEW n \in 1..sent - Len(received), C!Give(n) PROVE InOrder'
  <2>1. /\ ~told /\ Len(received) + n <= sent
        /\ received' = received \o [j \in 1..n |-> Len(received) + j]
        /\ UNCHANGED <<sent, told>>
    BY <1>3 DEF C!Give
  <2> DEFINE a == Len(received) b == a + n
  <2>2. n \in Nat /\ a \in Nat /\ b \in Nat /\ a <= b /\ b - a = n BY <1>1
  <2> HIDE DEF b
  <2>3. received = [j \in 1..a |-> 0 + j] BY <2>2 DEF InOrder
  <2>4. received' = [j \in 1..a |-> 0 + j] \o [j \in 1..b - a |-> 0 + a + j]
    <3>1. \A j \in 1..b - a : 0 + a + j = a + j BY <2>2
    <3>2. [j \in 1..b - a |-> 0 + a + j] = [j \in 1..n |-> a + j] BY <2>2, <3>1
    <3> HIDE DEF a
    <3> QED BY <2>1, <2>3, <3>2 DEF a
  <2>5. received' = [j \in 1..b |-> 0 + j]
    <3> HIDE DEF a
    <3> QED BY <2>2, <2>4, JoinPieces
  <2>6. Len(received') = b BY <2>2, <2>5
  <2>7. received' = [j \in 1..Len(received') |-> j] BY <2>2, <2>5, <2>6
  <2>8. Len(received') <= sent' BY <2>1, <2>6 DEF b
  <2> QED BY <2>1, <2>7, <2>8 DEF InOrder
<1>4. ASSUME C!End PROVE InOrder'
  BY <1>1, <1>4 DEF C!End, InOrder, Broken, Server
<1>5. ASSUME C!Break PROVE InOrder'
  BY <1>1, <1>5 DEF C!Break, InOrder, Broken, Server
<1>6. ASSUME C!Tell PROVE InOrder'
  BY <1>1, <1>6 DEF C!Tell, InOrder, Broken, Server
<1>7. ASSUME UNCHANGED C!vars PROVE InOrder'
  BY <1>1, <1>7 DEF C!vars, InOrder, Broken, Server
<1> QED BY <1>2, <1>3, <1>4, <1>5, <1>6, <1>7 DEF C!Next

(* Whatever is lost or damaged between the two ends, no byte comes out     *)
(* twice, changed or before an earlier one; and when nothing broke, the    *)
(* end comes when the client has closed and all that it wrote is there.    *)
THEOREM BytesComeInOrder == Spec => []InOrder
<1>1. Init => InOrder
  <2>1. <<>> = [j \in 1..0 |-> j] /\ Len(<<>>) = 0 OBVIOUS
  <2> QED BY <2>1 DEF Init, AESInit, InOrder
<1>2. ConduitInv /\ ConduitInv' /\ InOrder /\ [C!Next]_C!vars => InOrder'
  BY ConduitIsInOrder DEF ConduitInv
<1> QED BY <1>1, <1>2, StreamInvariant, ImplementsSafety, PTL DEF Spec, C!Spec

=============================================================================
