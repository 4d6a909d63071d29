---------------------------- MODULE tSecureStream ----------------------------
(***************************************************************************)
(* source/rho/crypt/tSecureStream.cpp: the handshake of a client and a     *)
(* server, and then the AES streams between them, from the client to the   *)
(* server (AESStreams; the other direction is the same with the keys       *)
(* crossed). Random vectors, the pre-secret and the hashes are terms: no   *)
(* two different ones are equal. A message may be lost with what follows   *)
(* it, and one may be damaged. A program whose handshake throws closes its *)
(* end, and one whose handshake succeeds reads or writes.                  *)
(***************************************************************************)
EXTENDS AESStreams

VARIABLES pc, vectors, app, key

setupVars == <<pc, vectors, app, key>>
vars == <<setupVars, innerVars, aesVars>>

Side == {"client", "server"}
Other(side) == IF side = "client" THEN "server" ELSE "client"
Unset == [pre_secret |-> "", rand_c |-> "", rand_s |-> ""]

(* A client may ask for another application, or have another server's key. *)
Init ==
    /\ pc = [client |-> "hello", server |-> "greeting"]
    /\ vectors = [side \in Side |-> Unset]
    /\ app \in [Side -> {"app", "other"}] /\ app["server"] = "app"
    /\ key \in [Side -> {"key", "other"}] /\ key["server"] = "key"
    /\ wire = [side \in Side |-> <<>>] /\ closed = [side \in Side |-> FALSE]
    /\ cut = FALSE /\ damaged = FALSE
    /\ keys = [side \in Side |-> [reads |-> <<>>, writes |-> <<>>]]
    /\ AESInit

H1(v) == <<"H1", v.pre_secret, v.rand_c, v.rand_s>>
H2(v) == <<"H2", H1(v), v.rand_c, v.rand_s>>
H3(v) == <<"H3", H1(v), v.rand_s, v.rand_c>>
ksw(v) == <<"H4", v.pre_secret, H1(v), v.rand_c, v.rand_s>>
kcw(v) == <<"H5", v.pre_secret, H1(v), v.rand_s, v.rand_c>>

(* What a vector or a pre-secret may turn out to be, whatever message it   *)
(* was taken from; and damage does not happen to make of a message one     *)
(* that is expected in its place, of a block an authentic one, or a byte.  *)
Words == {"", "pre", "c", "s", "ok", "failed", Noise}
Vectors == [pre_secret : Words, rand_c : Words, rand_s : Words]
Plains == ({"iv"} \X Nat) \cup ({"head"} \X [len : Nat, seq : Nat, parity : SUBSET Int])
             \cup ({"data"} \X Seq(Nat))
Ciphertexts ==
    {"aes"} \X [plain : Plains, key : {kcw(v) : v \in Vectors}, name : Int, chain : Int]
ASSUME NoiseAssumption ==
    /\ Noise # "pre" /\ Noise # <<"app", "app">>
    /\ \A v \in Vectors : Noise # H2(v)
    /\ Noise \notin Ciphertexts /\ Noise \notin Int

Heard(side) == wire[Other(side)]
Message(side) == Head(Heard(side))
Unpacked(side) == [wire EXCEPT ![Other(side)] = Tail(@)]
-----------------------------------------------------------------------------
Goes(side, to) == pc' = [pc EXCEPT ![side] = to] /\ UNCHANGED closed
Fails(side) ==
    /\ pc' = [pc EXCEPT ![side] = "failed"] /\ closed' = [closed EXCEPT ![side] = TRUE]
    /\ UNCHANGED <<vectors, keys>>

(* What a side packs goes out when it flushes; w is the rest of the wire.  *)
Packs(side, w, msgs) == ~cut /\ wire' = [w EXCEPT ![side] = @ \o msgs]
PackThrows(side, w) == (cut \/ closed[Other(side)]) /\ wire' = w /\ Fails(side)

(* s_failConnection: the server throws, whether its greeting went or not.  *)
s_failConnection(w) ==
    /\ Packs("server", w, <<<<"failed">>>>) \/ ((cut \/ closed["client"]) /\ wire' = w)
    /\ Fails("server")
Throws(side, w) == wire' = w /\ Fails(side)

(* What a side does when unpack throws. Only the last exception of the     *)
(* server, and those of the client, come without the failure greeting.     *)
Gives(side, w) ==
    IF side = "server" /\ pc["server"] # "proof" THEN s_failConnection(w)
    ELSE Throws(side, w)

(* unpack throws at the end of the stream. When a length was damaged it    *)
(* throws, or waits for bytes that nobody is about to send.                *)
Endless == <<"endless">>
Waits(side) == Heard(side) # <<>> => Message(side) = Endless
UnpackFails(side) ==
    /\ pc[side] \notin {"hello", "done", "failed"}
    /\ \/ /\ Waits(side) /\ (closed[Other(side)] \/ cut)
          /\ Gives(side, wire)
       \/ /\ ~Waits(side) /\ Message(side) = Noise
          /\ Gives(side, Unpacked(side))
       \/ /\ ~Waits(side) /\ Message(side) = Noise
          /\ wire' = [wire EXCEPT ![Other(side)][1] = Endless]
          /\ UNCHANGED <<pc, closed, vectors, keys>>

Hears(side, at) == pc[side] = at /\ ~Waits(side)

(* Otherwise a damaged message is a wrong one of the right length.         *)
Content(msg) == IF msg = Noise THEN Noise ELSE msg[Len(msg)]

SetsUp(side, v) ==
    keys' = [keys EXCEPT ![side] = IF side = "client" THEN [reads |-> ksw(v), writes |-> kcw(v)]
                                   ELSE [reads |-> kcw(v), writes |-> ksw(v)]]
-----------------------------------------------------------------------------
(* m_setupClient                                                           *)
ClientHello ==
    /\ pc["client"] = "hello"
    /\ \/ /\ Packs("client", wire, <<<<"librho">>, <<"app", app["client"]>>, <<"rand", "c">>,
                                     <<"enc", key["client"], "pre">>>>)
          /\ vectors' = [vectors EXCEPT !["client"].pre_secret = "pre", !["client"].rand_c = "c"]
          /\ Goes("client", "greeting") /\ UNCHANGED keys
       \/ PackThrows("client", wire)

ClientGetsGreeting ==
    /\ Hears("client", "greeting")
    /\ IF Message("client") = <<"ok">>
         THEN wire' = Unpacked("client") /\ Goes("client", "rand") /\ UNCHANGED <<vectors, keys>>
         ELSE Throws("client", Unpacked("client"))

ClientGetsRand ==
    /\ Hears("client", "rand")
    /\ vectors' = [vectors EXCEPT !["client"].rand_s = Content(Message("client"))]
    /\ wire' = Unpacked("client") /\ Goes("client", "proof") /\ UNCHANGED keys

(* The server proves that it has the private key. The first form takes its *)
(* word for it.                                                            *)
ServerIsNotVerified(f, v) == TRUE
ServerVerified(f, v) == f = H2(v)

ClientGetsProof ==
    LET v == vectors["client"]
    IN  /\ Hears("client", "proof")
        /\ IF ServerVerified(Message("client"), v)
             THEN \/ /\ Packs("client", Unpacked("client"), <<H3(v)>>)
                     /\ SetsUp("client", v) /\ Goes("client", "done") /\ UNCHANGED vectors
                  \/ PackThrows("client", Unpacked("client"))
             ELSE Throws("client", Unpacked("client"))
-----------------------------------------------------------------------------
(* m_setupServer                                                           *)
ServerGets(at, expected, to) ==
    /\ Hears("server", at)
    /\ IF Message("server") = expected
         THEN wire' = Unpacked("server") /\ Goes("server", to) /\ UNCHANGED <<vectors, keys>>
         ELSE s_failConnection(Unpacked("server"))

ServerGetsRand ==
    /\ Hears("server", "rand")
    /\ vectors' = [vectors EXCEPT !["server"].rand_c = Content(Message("server"))]
    /\ wire' = Unpacked("server") /\ Goes("server", "secret") /\ UNCHANGED keys

(* What was encrypted for another key decrypts to anything: rsa.decrypt    *)
(* throws, and nobody tells the client; or the length is wrong; or not.    *)
(* The first form flushes too early.                                       *)
ReplyWithoutProof(v) == <<<<"ok">>, <<"rand", v.rand_s>>>>
Reply(v) == <<<<"ok">>, <<"rand", v.rand_s>>, H2(v)>>

ServerGetsSecret ==
    LET msg == Message("server")
        readable == msg # Noise /\ msg[2] = key["server"]
        v == [vectors["server"] EXCEPT !.pre_secret = IF readable THEN Content(msg) ELSE Noise,
                                       !.rand_s = "s"]
    IN  /\ Hears("server", "secret")
        /\ \/ /\ Packs("server", Unpacked("server"), Reply(v))
              /\ vectors' = [vectors EXCEPT !["server"] = v]
              /\ Goes("server", "proof") /\ UNCHANGED keys
           \/ PackThrows("server", Unpacked("server"))
           \/ ~readable /\ (Throws("server", Unpacked("server"))
                            \/ s_failConnection(Unpacked("server")))

ServerGetsProof ==
    LET v == vectors["server"]
    IN  /\ Hears("server", "proof")
        /\ IF Message("server") = H3(v)
             THEN /\ wire' = Unpacked("server") /\ SetsUp("server", v)
                  /\ Goes("server", "done") /\ UNCHANGED vectors
             ELSE Throws("server", Unpacked("server"))
-----------------------------------------------------------------------------
ClientStep == ClientHello \/ ClientGetsGreeting \/ ClientGetsRand \/ ClientGetsProof
ServerStep ==
    \/ ServerGets("greeting", <<"librho">>, "app")
    \/ ServerGets("app", <<"app", app["server"]>>, "rand")
    \/ ServerGetsRand \/ ServerGetsSecret \/ ServerGetsProof

Setup(side) ==
    /\ \/ side = "client" /\ ClientStep
       \/ side = "server" /\ ServerStep
       \/ UnpackFails(side)
    /\ UNCHANGED <<cut, damaged, app, key, aesVars>>

Writes == pc["client"] = "done" /\ ~closed["client"] /\ WriterCall /\ UNCHANGED setupVars
Reads == pc["server"] = "done" /\ ReaderStep /\ UNCHANGED setupVars
Faults ==
    /\ Cut \/ \E side \in Side : \E i \in DOMAIN wire[side] : Damage(side, i)
    /\ UNCHANGED setupVars

Next ==
    \/ \E side \in Side : Setup(side)
    \/ Writes \/ Reads \/ Faults

(* A handshake goes on when it can, and the server's program reads until   *)
(* it is told the end. Nobody has to write or to close.                    *)
Fairness == (\A side \in Side : WF_vars(Setup(side))) /\ WF_vars(Reads)
Spec == Init /\ [][Next]_vars /\ Fairness
-----------------------------------------------------------------------------
(* When one side has set up its AES streams, both have computed them from  *)
(* the same three vectors, for the same application, with keys that cross; *)
(* the server's are set up only after the client's.                        *)
KeysAgree ==
    /\ pc["client"] = "done" =>
          /\ vectors["server"] = vectors["client"]
          /\ app["client"] = app["server"] /\ key["client"] = key["server"]
    /\ pc["server"] = "done" =>
          /\ pc["client"] = "done"
          /\ keys["server"].reads = keys["client"].writes
          /\ keys["server"].writes = keys["client"].reads
          /\ keys["server"].reads # keys["server"].writes

Over(side) == pc[side] \in {"done", "failed"}
Matching == app["client"] = app["server"] /\ key["client"] = key["server"]

(* Unless something was damaged on the way, the handshake ends on both     *)
(* sides; it succeeds if the parties match and the stream did not break.   *)
HandshakeEnds ==
    <>(\/ damaged
       \/ /\ \A side \in Side : Over(side)
          /\ Matching /\ ~cut => \A side \in Side : pc[side] = "done")

(* The server's program is given what the client's wrote, in order, from   *)
(* one reset to the next, and unless something broke or was damaged it is  *)
(* told the end only after the last byte. The end of the client's stream   *)
(* is told, unless the handshake failed.                                   *)
C == INSTANCE Conduit WITH taken <- sent, ended <- closed["client"],
                           broken <- cut \/ damaged \/ pc["server"] = "failed"
Implements == C!Spec /\ (closed["client"] ~> told \/ pc["server"] = "failed")
=============================================================================
