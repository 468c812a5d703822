-------------------------- MODULE ApplicationProofs --------------------------
(***************************************************************************)
(* Proofs about what is built on the pool: remote signing and the wallet.  *)
(*                                                                         *)
(* Remote signing: each client has a conversation of its own with the      *)
(* signer (Talk), whose parts are operators on the client, its calls, its  *)
(* inbox, its session and the ids served.  A request that a relay has      *)
(* taken is in somebody's hands or served (PublishOk), the ring has the    *)
(* last ids at their places (RingOk), and an answer is in the inbox or the *)
(* loop until its call takes it (ServedOk, LoopOk).                        *)
(*                                                                         *)
(* The wallet: a note has a number of its own, which names its token       *)
(* (TypesInv), and a call has the second mutex from the choice of tokens   *)
(* to the history entry (LockInv).  A deletion moves the last token to the *)
(* place of the one that goes, and a loop over Tokens goes on in the array *)
(* as it was (Arr): what goes is spent, so the places that a call          *)
(* remembers lead to what it chose, or to nothing, or the mint will refuse *)
(* it (PlacesIn, SafeInv), a reserved token is spent or will be released   *)
(* (ReservedInv), and every note is somebody's (MoneyInv).  Each step of a *)
(* call keeps WalletInv, which is all of these.                            *)
(***************************************************************************)
EXTENDS RemoteSigner, Wallet, FiniteSetTheorems, TLAPS

-----------------------------------------------------------------------------
(* Remote signing *)

MethodNames == Methods \cup {NoText, "imagined-nostrconnect"}
Args == {req.arg : req \in RsRequests} \cup {NoText, "good", "other", "refused"}
RpcIds == Nat \X MethodNames
Values == [method : MethodNames, arg : Args]
Resp == [id : RpcIds, kind : {"none", "result", "error", "auth_url", "silence"}, value : Values]

CallRec ==
    [id : RpcIds, method : Methods, arg : Args, why : {"switch", "connect", "app"},
     at : {"publish", "answer", "end"}, ended : BOOLEAN, sent : BOOLEAN,
     pub : [RsRelays -> {"begin", "taken", "done", "failed"}], out : Resp]

Listeners46 == UNION {[D -> Nat] : D \in SUBSET RpcIds}

ClientRec ==
    [way : Ways, at : {"new", "listening", "switching", "eose", "connecting", "last", "ready", "failed"},
     target : {NoText, "signer", "zero"}, serial : Nat, listeners : Listeners46,
     loop : [call : Nat, resp : Resp], live : BOOLEAN, known : BOOLEAN, asked : Nat]

SessionRec == [made : BOOLEAN, ring : [0..RingSize - 1 -> RpcIds], serial : Nat]
ThreadRec == [at : {"idle", "parse", "remember"}, c : RsClients \cup {NoText}, k : Nat]

\* A conversation of one client with the signer: its state (cl), its calls, what is
\* on its way to it (inbox), the signer's session for it (ses), the ids that were
\* served (done), and the calls of which the signer or a relay has a copy (hands).
Pending(call) == call.at # "end"
Known(done, id) == \E i \in 1..Len(done) : done[i] = id
Imagined == <<MaxRpcs + 1, "imagined-nostrconnect">>
AnswerBy(signer, req) == IF signer = "static" THEN StaticAnswer(req) ELSE DynamicAnswer(req)
AnswerTo(signer, call) == MakeResponse(call.id, AnswerBy(signer, call))

\* The calls of a client are numbered; before it has somebody to call there are none.
CallsOk(cl, calls) ==
    /\ cl.serial = Len(calls) /\ Len(calls) <= MaxRpcs
    /\ \A k \in 1..Len(calls) :
          /\ calls[k].id = <<k, calls[k].method>>
          /\ calls[k].method \in WithoutParams => calls[k].arg = NoText

\* What the set-up waits for is the one call it has made.
SetUpOk(cl, calls) ==
    /\ cl.at \in {"new", "listening"} => calls = <<>>
    /\ cl.at \in {"connecting", "last", "ready", "failed"} => cl.live
    /\ \A k \in 1..Len(calls) :
          /\ calls[k].why # "switch" => cl.live
          /\ calls[k].why = "switch" /\ Pending(calls[k]) => cl.at \in {"switching", "last"}
          /\ calls[k].why = "connect" /\ Pending(calls[k]) => cl.at = "connecting"
    /\ \A j, k \in 1..Len(calls) :
          Pending(calls[j]) /\ Pending(calls[k]) /\ calls[j].why # "app" /\ calls[k].why # "app" => j = k

\* A request that a relay has taken is on its way to the signer, in its hands, or served.
PublishOk(cl, calls, done, hands) ==
    \A k \in 1..Len(calls) :
        /\ calls[k].at = "answer" => calls[k].sent
        /\ calls[k].sent => \E r \in RsRelays : calls[k].pub[r] = "done"
        /\ \A r \in RsRelays : cl.target = "signer" /\ calls[k].pub[r] \in {"taken", "done"} =>
              k \in hands \/ Known(done, calls[k].id)

\* The ring has the last ids, so one that is not in it was not served lately.
RingOk(ses, done) ==
    /\ ses.serial = Len(done)
    /\ \A i \in 1..Len(done) : Len(done) - i < RingSize => ses.ring[(i - 1) % RingSize] = done[i]
    /\ \A x \in 0..RingSize - 1 : ses.ring[x] = NoId \/ Known(done, ses.ring[x])
    /\ \A i, j \in 1..Len(done) : i < j /\ done[i] = done[j] => j - i > RingSize

\* What is served or answered was asked for, and the answer is of that request.
AskedOk(signer, calls, inbox, done) ==
    /\ \A i \in 1..Len(done) : done[i] = Imagined \/ \E k \in 1..Len(calls) : done[i] = calls[k].id
    /\ \A resp \in inbox :
          \/ resp.id = NoId
          \/ resp.id = Imagined
          \/ \E k \in 1..Len(calls) :
                resp.id = calls[k].id /\ (resp.kind = "auth_url" \/ resp = AnswerTo(signer, calls[k]))

\* Listeners, and the response in the hands of the loop, are of the call they name;
\* a pending call has one of the two.
LoopOk(signer, cl, calls) ==
    /\ \A id \in DOMAIN cl.listeners : cl.listeners[id] \in 1..Len(calls) /\ calls[cl.listeners[id]].id = id
    /\ IF cl.loop.call = 0 THEN cl.loop = NoLoop
       ELSE cl.loop.call \in 1..Len(calls) /\ cl.loop.resp = AnswerTo(signer, calls[cl.loop.call])
    /\ \A k \in 1..Len(calls) :
          Pending(calls[k]) => calls[k].id \in DOMAIN cl.listeners \/ cl.loop.call = k

\* A pending call that was served has its answer before it.
ServedOk(signer, cl, calls, inbox, done) ==
    \A k \in 1..Len(calls) :
        Pending(calls[k]) /\ Known(done, calls[k].id) /\ calls[k].why # "switch" /\ ~SilentlyDropped(calls[k]) =>
            cl.loop.call = k \/ AnswerTo(signer, calls[k]) \in inbox

OutOk(calls) ==
    \A k \in 1..Len(calls) : calls[k].at = "end" /\ calls[k].out.kind = "result" =>
        calls[k].out.value = OfUser(calls[k]) /\ calls[k].arg # "refused"

TalkTypes(cl, calls, ses, done) ==
    cl \in ClientRec /\ calls \in Seq(CallRec) /\ ses \in SessionRec /\ done \in Seq(RpcIds)

Talk(signer, cl, calls, inbox, ses, done, hands) ==
    /\ TalkTypes(cl, calls, ses, done)
    /\ CallsOk(cl, calls) /\ SetUpOk(cl, calls)
    /\ PublishOk(cl, calls, done, hands) /\ RingOk(ses, done)
    /\ AskedOk(signer, calls, inbox, done) /\ LoopOk(signer, cl, calls)
    /\ ServedOk(signer, cl, calls, inbox, done) /\ OutOk(calls)

\* Copies and threads are about calls that were made.
Holds(t, c, k) == rsThread[t].at # "idle" /\ rsThread[t].c = c /\ rsThread[t].k = k
Hands(c) == {k \in Nat : (\E r \in RsRelays : [c |-> c, k |-> k, relay |-> r] \in rsAt)
                         \/ \E t \in Threads46 : Holds(t, c, k)}

HandsInv ==
    /\ rsAt \subseteq [c : RsClients, k : Nat, relay : RsRelays]
    /\ \A copy \in rsAt : copy.k \in 1..Len(rsCalls[copy.c])
    /\ rsThread \in [Threads46 -> ThreadRec]
    /\ \A t \in Threads46 : rsThread[t].at # "idle" =>
          rsSigner = "static" /\ rsThread[t].c \in RsClients /\ rsThread[t].k \in 1..Len(rsCalls[rsThread[t].c])
    /\ \A t \in Threads46 : rsThread[t].at = "remember" =>
          ~Repeated(rsSession[rsThread[t].c], rsCalls[rsThread[t].c][rsThread[t].k].id)

\* The state of a client is where it belongs.
Shape ==
    /\ DOMAIN rsClient = RsClients /\ DOMAIN rsCalls = RsClients /\ DOMAIN rsInbox = RsClients
    /\ DOMAIN rsSession = RsClients /\ DOMAIN rsParsed = RsClients

TalkOf(c) == Talk(rsSigner, rsClient[c], rsCalls[c], rsInbox[c], rsSession[c], rsParsed[c], Hands(c))

RsInv == Shape /\ HandsInv /\ \A c \in RsClients : TalkOf(c)

-----------------------------------------------------------------------------

\* Numbers that differ by less than n have different places in a ring of n.
LEMMA ModIsInjective ==
  ASSUME NEW a \in Nat, NEW b \in Nat, NEW n \in Nat \ {0}, a < b, b - a < n
  PROVE  a % n # b % n
  <1> SUFFICES ASSUME a % n = b % n PROVE FALSE
    OBVIOUS
  <1> DEFINE p == a \div n
  <1> DEFINE q == b \div n
  <1>1. p \in Int /\ q \in Int /\ a = n * p + (a % n) /\ b = n * q + (b % n)
    OBVIOUS
  <1>2. b - a = n * (q - p)
    BY <1>1
  <1>3. CASE q - p <= 0
    <2>1. n * (q - p) <= 0
      BY <1>1, <1>3
    <2> QED
      BY <1>2, <2>1
  <1>4. CASE q - p >= 1
    <2>1. n * (q - p) >= n
      BY <1>1, <1>4
    <2> QED
      BY <1>2, <2>1
  <1> QED
    BY <1>1, <1>3, <1>4

LEMMA NoTextIsNoMethod == NoText \notin Methods /\ NoText # "refused"
  BY DEF NoText, Methods, WithoutParams, Secretive

\* MakeResponse, for each answer that a signer may give.
LEMMA MadeOfAnswer ==
  ASSUME NEW signer, NEW call \in CallRec, call.id # NoId,
         \/ AnswerBy(signer, call) = [kind |-> "silence", value |-> Nothing] /\ call.method = "unknown"
         \/ AnswerBy(signer, call) = Refusal
         \/ AnswerBy(signer, call) = Success(OfUser(call)) /\ call.arg # "refused"
         \/ AnswerBy(signer, call) = Success(Nothing) /\ call.method \in Secretive /\ call.arg = "empty"
  PROVE  /\ AnswerTo(signer, call) \in Resp
         /\ AnswerTo(signer, call).id \in {call.id, NoId}
         /\ AnswerTo(signer, call).kind = "result" =>
               AnswerTo(signer, call).value = OfUser(call) /\ call.arg # "refused"
         /\ AnswerTo(signer, call).kind # "auth_url"
         /\ ~SilentlyDropped(call) =>
               AnswerTo(signer, call).id = call.id /\ AnswerBy(signer, call).kind # "silence"
  <1>1. call.id \in RpcIds /\ call.method \in Methods /\ call.arg \in Args
    BY DEF CallRec
  <1>2. NoId \in RpcIds /\ Nothing \in Values
    BY DEF RpcIds, NoId, Nothing, Values, MethodNames, Args
  <1>3. OfUser(call) \in Values /\ OfUser(call) # Nothing
    BY <1>1, NoTextIsNoMethod DEF OfUser, Nothing, Values, MethodNames
  <1>4. CASE AnswerBy(signer, call) = [kind |-> "silence", value |-> Nothing] /\ call.method = "unknown"
    <2>1. AnswerTo(signer, call) = [id |-> NoId, kind |-> "none", value |-> Nothing]
      BY <1>4 DEF AnswerTo, MakeResponse
    <2> QED
      BY <2>1, <1>2, <1>4 DEF Resp, SilentlyDropped
  <1>5. CASE AnswerBy(signer, call) = Refusal
    <2>1. AnswerTo(signer, call) = [id |-> call.id, kind |-> "error", value |-> Nothing]
      BY <1>5 DEF AnswerTo, MakeResponse, Refusal
    <2> QED
      BY <2>1, <1>1, <1>2, <1>5 DEF Resp, Refusal
  <1>6. CASE AnswerBy(signer, call) = Success(OfUser(call)) /\ call.arg # "refused"
    <2>1. AnswerTo(signer, call) = [id |-> call.id, kind |-> "result", value |-> OfUser(call)]
      BY <1>6, <1>3 DEF AnswerTo, MakeResponse, Success
    <2> QED
      BY <2>1, <1>1, <1>3, <1>6 DEF Resp, Success
  <1>7. CASE AnswerBy(signer, call) = Success(Nothing) /\ call.method \in Secretive /\ call.arg = "empty"
    <2>1. AnswerTo(signer, call) = [id |-> NoId, kind |-> "none", value |-> Nothing]
      BY <1>7 DEF AnswerTo, MakeResponse, Success
    <2> QED
      BY <2>1, <1>2, <1>7 DEF Resp, SilentlyDropped
  <1> QED
    BY <1>4, <1>5, <1>6, <1>7

\* What the signers answer: to each request its own value, or silence.
LEMMA AnswersAreOwn ==
  ASSUME NEW signer, NEW call \in CallRec, call.id # NoId,
         call.method \in WithoutParams => call.arg = NoText
  PROVE  /\ AnswerTo(signer, call) \in Resp
         /\ AnswerTo(signer, call).id \in {call.id, NoId}
         /\ AnswerTo(signer, call).kind = "result" =>
               AnswerTo(signer, call).value = OfUser(call) /\ call.arg # "refused"
         /\ AnswerTo(signer, call).kind # "auth_url"
         /\ ~SilentlyDropped(call) =>
               AnswerTo(signer, call).id = call.id /\ AnswerBy(signer, call).kind # "silence"
  <1>1. call.method \in Methods
    BY DEF CallRec
  <1>4. CASE signer = "static"
    <2>1. AnswerBy(signer, call) = StaticAnswer(call)
      BY <1>4 DEF AnswerBy
    <2>2. \/ AnswerBy(signer, call) = [kind |-> "silence", value |-> Nothing] /\ call.method = "unknown"
          \/ AnswerBy(signer, call) = Refusal
          \/ AnswerBy(signer, call) = Success(OfUser(call)) /\ call.arg # "refused"
          \/ AnswerBy(signer, call) = Success(Nothing) /\ call.method \in Secretive /\ call.arg = "empty"
      BY <2>1 DEF StaticAnswer
    <2> QED
      BY <2>2, MadeOfAnswer
  <1>5. CASE signer # "static"
    <2>1. AnswerBy(signer, call) = DynamicAnswer(call)
      BY <1>5 DEF AnswerBy
    <2>2. \/ AnswerBy(signer, call) = [kind |-> "silence", value |-> Nothing] /\ call.method = "unknown"
          \/ AnswerBy(signer, call) = Refusal
          \/ AnswerBy(signer, call) = Success(OfUser(call)) /\ call.arg # "refused"
          \/ AnswerBy(signer, call) = Success(Nothing) /\ call.method \in Secretive /\ call.arg = "empty"
      BY <2>1, <1>1, NoTextIsNoMethod DEF DynamicAnswer, Methods, WithoutParams, Secretive
    <2> QED
      BY <2>2, MadeOfAnswer
  <1> QED
    BY <1>4, <1>5

\* RpcIds of calls are told apart by their numbers.
LEMMA IdsDiffer ==
  ASSUME NEW cl, NEW calls \in Seq(CallRec), CallsOk(cl, calls)
  PROVE  /\ \A k \in 1..Len(calls) : calls[k] \in CallRec /\ calls[k].id # NoId /\ calls[k].id # Imagined
         /\ \A j, k \in 1..Len(calls) : calls[j].id = calls[k].id => j = k
  <1>1. MaxRpcs \in Nat
    BY RemoteSignerBounds
  <1>2. \A k \in 1..Len(calls) : calls[k] \in CallRec /\ calls[k].id = <<k, calls[k].method>> /\ k <= MaxRpcs
    <2> TAKE k \in 1..Len(calls)
    <2>1. Len(calls) \in Nat /\ Len(calls) <= MaxRpcs
      <3>1. Len(calls) \in Nat
        OBVIOUS
      <3> QED
        BY <3>1 DEF CallsOk
    <2>2. calls[k] \in CallRec /\ k \in Nat
      BY <2>1
    <2>3. calls[k].id = <<k, calls[k].method>>
      BY DEF CallsOk
    <2> QED
      BY <1>1, <2>1, <2>2, <2>3
  <1>3. ASSUME NEW m, NEW k \in 1..Len(calls)
        PROVE  <<k, m>> # <<0, NoText>> /\ <<k, m>> # <<MaxRpcs + 1, "imagined-nostrconnect">>
    <2>1. k # 0 /\ k # MaxRpcs + 1
      BY <1>1, <1>2
    <2> QED
      BY <2>1
  <1>4. \A l, m : \A j, k \in 1..Len(calls) : <<j, l>> = <<k, m>> => j = k
    OBVIOUS
  <1> QED
    BY <1>2, <1>3, <1>4 DEF NoId, Imagined

\* The next id to be served is not in the ring; it takes the place of the oldest.
LEMMA RememberKeepsRing ==
  ASSUME NEW ses \in SessionRec, NEW done \in Seq(RpcIds), NEW id \in RpcIds, RingOk(ses, done), ~Repeated(ses, id)
  PROVE  RingOk(Remember(ses, id), Append(done, id)) /\ Remember(ses, id) \in SessionRec
  <1> DEFINE new == Append(done, id)
  <1> DEFINE n == Len(done) + 1
  <1> DEFINE x == ses.serial % RingSize
  <1>1. RingSize \in Nat \ {0} /\ ses.serial = Len(done) /\ Len(done) \in Nat
    BY RemoteSignerBounds DEF RingOk
  <1>2. x \in 0..RingSize - 1 /\ x = (n - 1) % RingSize
    BY <1>1
  <1>11. ses.ring \in [0..RingSize - 1 -> RpcIds] /\ ses.serial \in Nat
    BY DEF SessionRec
  <1>13. [ses.ring EXCEPT ![x] = id] \in [0..RingSize - 1 -> RpcIds]
    BY <1>2, <1>11
  <1>3. /\ Remember(ses, id) \in SessionRec
        /\ Remember(ses, id).serial = Len(done) + 1 /\ Remember(ses, id).ring = [ses.ring EXCEPT ![x] = id]
    <2>1. PICK r : r = [ses.ring EXCEPT ![x] = id]
      OBVIOUS
    <2>2. PICK m : m = ses.serial + 1
      OBVIOUS
    <2>3. Remember(ses, id) = [ses EXCEPT !.ring = r, !.serial = m]
      BY <2>1, <2>2 DEF Remember
    <2>4. r \in [0..RingSize - 1 -> RpcIds] /\ m \in Nat /\ m = Len(done) + 1
      BY <2>1, <2>2, <1>1, <1>11, <1>13
    <2>5. LET rec == [ses EXCEPT !.ring = r, !.serial = m]
          IN  rec \in SessionRec /\ rec.ring = r /\ rec.serial = m
      BY <2>4 DEF SessionRec
    <2> HIDE DEF x
    <2> QED
      BY <2>1, <2>3, <2>4, <2>5
  <1>4. Remember(ses, id).ring = [ses.ring EXCEPT ![x] = id]
    BY <1>3
  <1>5. ses.ring \in [0..RingSize - 1 -> RpcIds]
    BY DEF SessionRec
  <1>6. Len(new) = n /\ new[n] = id /\ \A i \in 1..Len(done) : new[i] = done[i]
    BY <1>1
  <1>7. \A y \in 0..RingSize - 1 : ses.ring[y] # id
    BY <1>5 DEF Repeated, Range
  <1> HIDE DEF new, x
  <1>8. ASSUME NEW i \in 1..n, n - i < RingSize
        PROVE  [ses.ring EXCEPT ![x] = id][(i - 1) % RingSize] = new[i]
    <2>1. CASE i = n
      BY <2>1, <1>2, <1>5, <1>6
    <2>2. CASE i < n
      <3>1. (i - 1) % RingSize # (n - 1) % RingSize
        <4>1. i - 1 \in Nat /\ n - 1 \in Nat /\ i - 1 < n - 1 /\ (n - 1) - (i - 1) < RingSize
          BY <2>2, <1>1, <1>8
        <4> HIDE DEF n
        <4> QED
          BY <4>1, <1>1, ModIsInjective
      <3>2. ses.ring[(i - 1) % RingSize] = done[i]
        BY <2>2, <1>1, <1>8 DEF RingOk
      <3>3. (i - 1) % RingSize \in 0..RingSize - 1
        BY <1>1
      <3> QED
        BY <2>2, <3>1, <3>2, <3>3, <1>1, <1>2, <1>5, <1>6
    <2> QED
      BY <2>1, <2>2, <1>1
  <1>9. ASSUME NEW y \in 0..RingSize - 1
        PROVE  [ses.ring EXCEPT ![x] = id][y] = NoId \/ Known(new, [ses.ring EXCEPT ![x] = id][y])
    <2>1. CASE y = x
      BY <2>1, <1>1, <1>5, <1>6 DEF Known
    <2>2. CASE y # x
      <3>1. ses.ring[y] = NoId \/ Known(done, ses.ring[y])
        BY DEF RingOk
      <3> QED
        BY <2>2, <3>1, <1>1, <1>5, <1>6 DEF Known
    <2> QED
      BY <2>1, <2>2
  <1>10. ASSUME NEW i \in 1..n, NEW j \in 1..n, i < j, new[i] = new[j]
         PROVE  j - i > RingSize
    <2>1. CASE j < n
      BY <2>1, <1>1, <1>6, <1>10 DEF RingOk
    <2>2. CASE j = n
      <3>1. done[i] = id /\ i \in 1..Len(done)
        BY <2>2, <1>1, <1>6, <1>10
      <3>2. ~(Len(done) - i < RingSize)
        <4> SUFFICES ASSUME Len(done) - i < RingSize PROVE FALSE
          OBVIOUS
        <4>1. ses.ring[(i - 1) % RingSize] = id
          BY <3>1 DEF RingOk
        <4>2. (i - 1) % RingSize \in 0..RingSize - 1
          BY <1>1
        <4> QED
          BY <4>1, <4>2, <1>7
      <3> QED
        BY <2>2, <3>1, <3>2, <1>1
    <2> QED
      BY <2>1, <2>2, <1>1
  <1> QED
    BY <1>3, <1>4, <1>6, <1>8, <1>9, <1>10 DEF RingOk, new

-----------------------------------------------------------------------------
(* The steps of a conversation. *)

\* The client goes on in its set-up, or finds that its subscription is up.
LEMMA TalkMoves ==
  ASSUME NEW signer, NEW cl, NEW calls, NEW inbox, NEW ses, NEW done, NEW hands,
         Talk(signer, cl, calls, inbox, ses, done, hands),
         NEW new \in ClientRec,
         new.serial = cl.serial, new.listeners = cl.listeners, new.loop = cl.loop,
         new.at \in {"new", "listening"} => calls = <<>>,
         new.at \in {"connecting", "last", "ready", "failed"} => new.live,
         calls = <<>> \/ (new.target = cl.target /\ (cl.live => new.live)),
         \A k \in 1..Len(calls) : Pending(calls[k]) => calls[k].why = "app" \/ new.at = cl.at
  PROVE  Talk(signer, new, calls, inbox, ses, done, hands)
  <1>1. calls = <<>> => 1..Len(calls) = {}
    OBVIOUS
  <1>2. TalkTypes(new, calls, ses, done) /\ CallsOk(new, calls)
    BY DEF Talk, TalkTypes, CallsOk
  <1>3. SetUpOk(new, calls)
    <2>1. SetUpOk(cl, calls)
      BY DEF Talk
    <2>2. CASE calls = <<>>
      BY <1>1, <2>2 DEF SetUpOk
    <2>3. CASE calls # <<>>
      BY <2>1, <2>3 DEF SetUpOk
    <2> QED
      BY <2>2, <2>3
  <1>4. PublishOk(new, calls, done, hands)
    BY <1>1 DEF Talk, PublishOk
  <1>5. LoopOk(signer, new, calls) /\ ServedOk(signer, new, calls, inbox, done)
    BY DEF Talk, LoopOk, ServedOk
  <1> QED
    BY <1>2, <1>3, <1>4, <1>5 DEF Talk

\* Before there are calls, what arrives may be dropped.
LEMMA TalkDrops ==
  ASSUME NEW signer, NEW cl, NEW inbox, NEW ses, NEW done, NEW hands, NEW less,
         Talk(signer, cl, <<>>, inbox, ses, done, hands), less \subseteq inbox
  PROVE  Talk(signer, cl, <<>>, less, ses, done, hands)
  <1>1. AskedOk(signer, <<>>, less, done)
    BY DEF Talk, AskedOk
  <1>2. ServedOk(signer, cl, <<>>, less, done)
    <2>1. 1..Len(<<>>) = {}
      OBVIOUS
    <2> QED
      BY <2>1 DEF ServedOk
  <1> QED
    BY <1>1, <1>2 DEF Talk

\* A copy of a request is thrown away or changes hands, once it is served.
LEMMA TalkLetsGo ==
  ASSUME NEW signer, NEW cl, NEW calls, NEW inbox, NEW ses, NEW done, NEW hands, NEW held, NEW k,
         Talk(signer, cl, calls, inbox, ses, done, hands),
         hands \ {k} \subseteq held, k \in held \/ Known(done, calls[k].id)
  PROVE  Talk(signer, cl, calls, inbox, ses, done, held)
  <1>1. PublishOk(cl, calls, done, held)
    BY DEF Talk, PublishOk
  <1> QED
    BY <1>1 DEF Talk

\* A call is published, waits or is ended by its caller.
LEMMA TalkProceeds ==
  ASSUME NEW signer, NEW cl, NEW calls, NEW inbox, NEW ses, NEW done, NEW hands, NEW held,
         NEW k \in 1..Len(calls), NEW call \in CallRec,
         Talk(signer, cl, calls, inbox, ses, done, hands), hands \subseteq held,
         call.id = calls[k].id, call.method = calls[k].method, call.arg = calls[k].arg,
         call.why = calls[k].why, call.out = calls[k].out, call.at = "end" <=> calls[k].at = "end",
         call.at = "answer" => call.sent,
         call.sent => \E r \in RsRelays : call.pub[r] = "done",
         \A r \in RsRelays : cl.target = "signer" /\ call.pub[r] \in {"taken", "done"} =>
            k \in held \/ Known(done, call.id)
  PROVE  Talk(signer, cl, [calls EXCEPT ![k] = call], inbox, ses, done, held)
  <1> DEFINE new == [calls EXCEPT ![k] = call]
  <1>1. calls \in Seq(CallRec)
    BY DEF Talk, TalkTypes
  <1>2. /\ new \in Seq(CallRec) /\ Len(new) = Len(calls) /\ new[k] = call
        /\ \A j \in 1..Len(calls) : j # k => new[j] = calls[j]
    BY <1>1
  <1>3. \A j \in 1..Len(calls) : /\ new[j].id = calls[j].id /\ new[j].method = calls[j].method
                                 /\ new[j].arg = calls[j].arg /\ new[j].why = calls[j].why
                                 /\ Pending(new[j]) <=> Pending(calls[j])
    BY <1>2 DEF Pending
  <1>4. \A j \in 1..Len(calls) : /\ AnswerTo(signer, new[j]) = AnswerTo(signer, calls[j])
                                 /\ SilentlyDropped(new[j]) <=> SilentlyDropped(calls[j])
    BY <1>3 DEF AnswerTo, AnswerBy, StaticAnswer, DynamicAnswer, OfUser, SilentlyDropped
  <1> HIDE DEF new
  <1>5. TalkTypes(cl, new, ses, done) /\ CallsOk(cl, new)
    BY <1>2, <1>3 DEF Talk, TalkTypes, CallsOk
  <1>6. SetUpOk(cl, new)
    <2>1. calls # <<>>
      OBVIOUS
    <2>2. SetUpOk(cl, calls)
      BY DEF Talk
    <2> QED
      BY <1>2, <1>3, <2>1, <2>2 DEF SetUpOk
  <1>7. PublishOk(cl, new, done, held)
    <2>1. PublishOk(cl, calls, done, hands)
      BY DEF Talk
    <2> QED
      BY <1>2, <2>1 DEF PublishOk
  <1>8. AskedOk(signer, new, inbox, done)
    BY <1>2, <1>3, <1>4 DEF Talk, AskedOk
  <1>9. LoopOk(signer, cl, new)
    BY <1>2, <1>3, <1>4 DEF Talk, LoopOk
  <1>10. ServedOk(signer, cl, new, inbox, done)
    BY <1>2, <1>3, <1>4 DEF Talk, ServedOk
  <1>11. OutOk(new)
    <2>1. OutOk(calls) /\ OfUser(call) = OfUser(calls[k])
      BY DEF Talk, OfUser
    <2> QED
      BY <1>2, <2>1 DEF OutOk
  <1> QED
    BY <1>5, <1>6, <1>7, <1>8, <1>9, <1>10, <1>11 DEF Talk, new

\* The signer finds or makes its session.
LEMMA TalkMeets ==
  ASSUME NEW signer, NEW cl, NEW calls, NEW inbox, NEW ses, NEW done, NEW hands,
         Talk(signer, cl, calls, inbox, ses, done, hands),
         NEW new \in SessionRec, new.ring = ses.ring, new.serial = ses.serial
  PROVE  Talk(signer, cl, calls, inbox, new, done, hands)
  BY DEF Talk, TalkTypes, RingOk

\* A call is made.
LEMMA TalkBegins ==
  ASSUME NEW signer, NEW cl, NEW calls, NEW inbox, NEW ses, NEW done, NEW hands,
         Talk(signer, cl, calls, inbox, ses, done, hands),
         NEW call \in CallRec, call.id = <<Len(calls) + 1, call.method>>, Len(calls) + 1 <= MaxRpcs,
         call.method \in WithoutParams => call.arg = NoText,
         call.at = "publish", ~call.sent, \A r \in RsRelays : call.pub[r] = "begin",
         cl.at \notin {"new", "listening"}, call.why # "switch" => cl.live,
         call.why = "switch" => cl.at \in {"switching", "last"}, call.why = "connect" => cl.at = "connecting",
         \A k \in 1..Len(calls) : Pending(calls[k]) => call.why = "app" \/ calls[k].why = "app",
         NEW new \in ClientRec, new.serial = cl.serial + 1,
         DOMAIN new.listeners = DOMAIN cl.listeners \cup {call.id}, new.listeners[call.id] = Len(calls) + 1,
         \A i \in DOMAIN cl.listeners : i # call.id => new.listeners[i] = cl.listeners[i],
         new.at = cl.at, new.target = cl.target, new.live = cl.live, new.loop = cl.loop
  PROVE  Talk(signer, new, Append(calls, call), inbox, ses, done, hands)
  <1> DEFINE all == Append(calls, call)
  <1> DEFINE n == Len(calls) + 1
  <1>1. calls \in Seq(CallRec) /\ Len(calls) \in Nat
    <2>1. calls \in Seq(CallRec)
      BY DEF Talk, TalkTypes
    <2> QED
      BY <2>1
  <1>2. all \in Seq(CallRec) /\ Len(all) = n /\ all[n] = call /\ \A k \in 1..Len(calls) : all[k] = calls[k]
    BY <1>1
  <1>3. /\ \A k \in 1..n : k \in 1..Len(calls) \/ k = n
        /\ \A k \in 1..Len(calls) : k \in 1..n /\ k # n
        /\ n \in 1..n /\ n # 0 /\ n \in Nat
    BY <1>1
  <1>4. CallsOk(cl, calls) /\ LoopOk(signer, cl, calls) /\ PublishOk(cl, calls, done, hands)
    BY DEF Talk
  <1>5. \A k \in 1..Len(calls) : calls[k].id # call.id /\ calls[k].id # NoId
    <2> TAKE k \in 1..Len(calls)
    <2>1. calls[k].id = <<k, calls[k].method>> /\ k # n /\ k # 0
      BY <1>1, <1>3, <1>4 DEF CallsOk
    <2>2. call.id = <<n, call.method>>
      OBVIOUS
    <2> HIDE DEF n
    <2>3. <<k, calls[k].method>> # <<n, call.method>> /\ <<k, calls[k].method>> # <<0, NoText>>
      BY <2>1
    <2> QED
      BY <2>1, <2>2, <2>3 DEF NoId
  <1>6. call.id # Imagined
    <2>1. n # MaxRpcs + 1
      BY <1>1, RemoteSignerBounds
    <2>2. call.id = <<n, call.method>>
      OBVIOUS
    <2> HIDE DEF n
    <2> QED
      BY <2>1, <2>2 DEF Imagined
  <1> HIDE DEF all, n
  <1>7. TalkTypes(new, all, ses, done)
    BY <1>2 DEF Talk, TalkTypes
  <1>8. CallsOk(new, all)
    <2>1. new.serial = n /\ n <= MaxRpcs
      BY <1>4 DEF CallsOk, n
    <2>2. call.id = <<n, call.method>>
      BY DEF n
    <2> QED
      BY <1>2, <1>3, <1>4, <2>1, <2>2 DEF CallsOk
  <1>9. SetUpOk(new, all)
    <2>1. SetUpOk(cl, calls)
      BY DEF Talk
    <2>2. ASSUME NEW j \in 1..n, NEW k \in 1..n, Pending(all[j]), Pending(all[k]),
                 all[j].why # "app", all[k].why # "app"
          PROVE  j = k
      BY <1>2, <1>3, <2>1, <2>2 DEF SetUpOk
    <2>3. \A k \in 1..n :
            /\ all[k].why # "switch" => new.live
            /\ all[k].why = "switch" /\ Pending(all[k]) => new.at \in {"switching", "last"}
            /\ all[k].why = "connect" /\ Pending(all[k]) => new.at = "connecting"
      BY <1>2, <1>3, <2>1 DEF SetUpOk
    <2> QED
      BY <1>2, <2>1, <2>2, <2>3 DEF SetUpOk
  <1>10. PublishOk(new, all, done, hands)
    BY <1>2, <1>3, <1>4 DEF PublishOk
  <1>11. AskedOk(signer, all, inbox, done)
    <2>1. \A k \in 1..Len(calls) : k \in 1..n
      BY <1>3
    <2>2. AskedOk(signer, calls, inbox, done)
      BY DEF Talk
    <2> QED
      BY <1>2, <2>1, <2>2 DEF AskedOk
  <1>12. LoopOk(signer, new, all)
    <2>1. \A id \in DOMAIN new.listeners : new.listeners[id] \in 1..n /\ all[new.listeners[id]].id = id
      <3> TAKE id \in DOMAIN new.listeners
      <3>1. CASE id = call.id
        <4>1. new.listeners[id] = n
          BY <3>1 DEF n
        <4> QED
          BY <3>1, <4>1, <1>2, <1>3
      <3>2. CASE id # call.id
        <4>1. id \in DOMAIN cl.listeners /\ new.listeners[id] = cl.listeners[id]
          BY <3>2
        <4> QED
          BY <4>1, <1>2, <1>3, <1>4 DEF LoopOk
      <3> QED
        BY <3>1, <3>2
    <2>2. IF new.loop.call = 0 THEN new.loop = NoLoop
          ELSE new.loop.call \in 1..n /\ new.loop.resp = AnswerTo(signer, all[new.loop.call])
      BY <1>2, <1>3, <1>4 DEF LoopOk
    <2>3. \A k \in 1..n : Pending(all[k]) => all[k].id \in DOMAIN new.listeners \/ new.loop.call = k
      BY <1>2, <1>3, <1>4 DEF LoopOk
    <2> QED
      BY <1>2, <2>1, <2>2, <2>3 DEF LoopOk
  <1>13. ServedOk(signer, new, all, inbox, done)
    <2>1. ~Known(done, call.id)
      BY <1>5, <1>6 DEF Talk, AskedOk, Known
    <2>2. ServedOk(signer, cl, calls, inbox, done)
      BY DEF Talk
    <2> QED
      BY <1>2, <1>3, <2>1, <2>2 DEF ServedOk
  <1>14. OutOk(all)
    BY <1>2, <1>3 DEF Talk, OutOk
  <1> QED
    BY <1>7, <1>8, <1>9, <1>10, <1>11, <1>12, <1>13, <1>14 DEF Talk, all

\* A call returns, with an answer or without.
LEMMA TalkReturns ==
  ASSUME NEW signer, NEW cl, NEW calls, NEW inbox, NEW ses, NEW done, NEW hands,
         Talk(signer, cl, calls, inbox, ses, done, hands),
         NEW k \in 1..Len(calls), NEW call \in CallRec, Pending(calls[k]),
         call.id = calls[k].id, call.method = calls[k].method, call.arg = calls[k].arg,
         call.why = calls[k].why, call.at = "end", call.sent = calls[k].sent, call.pub = calls[k].pub,
         call.out.kind = "result" => call.out.value = OfUser(call) /\ call.arg # "refused",
         NEW new \in ClientRec, new.serial = cl.serial,
         new.listeners = Restrict(cl.listeners, DOMAIN cl.listeners \ {calls[k].id}),
         new.at = cl.at, new.target = cl.target, new.live = cl.live,
         new.loop = cl.loop \/ (cl.loop.call = k /\ new.loop = NoLoop)
  PROVE  Talk(signer, new, [calls EXCEPT ![k] = call], inbox, ses, done, hands)
  <1> DEFINE all == [calls EXCEPT ![k] = call]
  <1>1. calls \in Seq(CallRec)
    BY DEF Talk, TalkTypes
  <1>2. /\ all \in Seq(CallRec) /\ Len(all) = Len(calls) /\ all[k] = call
        /\ \A j \in 1..Len(calls) : j # k => all[j] = calls[j]
    BY <1>1
  <1>3. \A j \in 1..Len(calls) : /\ all[j].id = calls[j].id /\ all[j].method = calls[j].method
                                 /\ all[j].arg = calls[j].arg /\ all[j].why = calls[j].why
                                 /\ Pending(all[j]) => Pending(calls[j]) /\ j # k
    BY <1>2 DEF Pending
  <1>4. \A j \in 1..Len(calls) : /\ AnswerTo(signer, all[j]) = AnswerTo(signer, calls[j])
                                 /\ SilentlyDropped(all[j]) <=> SilentlyDropped(calls[j])
    BY <1>3 DEF AnswerTo, AnswerBy, StaticAnswer, DynamicAnswer, OfUser, SilentlyDropped
  <1>5. CallsOk(cl, calls) /\ LoopOk(signer, cl, calls) /\ PublishOk(cl, calls, done, hands)
    BY DEF Talk
  <1>6. \A i, j \in 1..Len(calls) : calls[i].id = calls[j].id => i = j
    BY <1>1, <1>5, IdsDiffer
  <1> HIDE DEF all
  <1>7. TalkTypes(new, all, ses, done) /\ CallsOk(new, all)
    BY <1>2, <1>3, <1>5 DEF Talk, TalkTypes, CallsOk
  <1>8. SetUpOk(new, all)
    <2>1. calls # <<>>
      OBVIOUS
    <2>2. SetUpOk(cl, calls)
      BY DEF Talk
    <2> QED
      BY <1>2, <1>3, <2>1, <2>2 DEF SetUpOk
  <1>9. PublishOk(new, all, done, hands)
    BY <1>2, <1>5 DEF PublishOk
  <1>10. AskedOk(signer, all, inbox, done)
    BY <1>2, <1>3, <1>4 DEF Talk, AskedOk
  <1>11. LoopOk(signer, new, all)
    <2>1. DOMAIN new.listeners = DOMAIN cl.listeners \ {calls[k].id}
      BY DEF Restrict
    <2>2. \A id \in DOMAIN new.listeners : new.listeners[id] = cl.listeners[id]
      BY DEF Restrict
    <2>3. NoLoop.call = 0
      BY DEF NoLoop
    <2>4. IF new.loop.call = 0 THEN new.loop = NoLoop
          ELSE new.loop.call \in 1..Len(all) /\ new.loop.resp = AnswerTo(signer, all[new.loop.call])
      BY <1>2, <1>4, <1>5, <2>3 DEF LoopOk
    <2>5. ASSUME NEW j \in 1..Len(calls), Pending(all[j])
          PROVE  all[j].id \in DOMAIN new.listeners \/ new.loop.call = j
      BY <1>3, <1>5, <1>6, <2>1, <2>5 DEF LoopOk
    <2>6. \A id \in DOMAIN new.listeners :
             new.listeners[id] \in 1..Len(all) /\ all[new.listeners[id]].id = id
      <3> TAKE id \in DOMAIN new.listeners
      <3>1. PICK j \in 1..Len(calls) : j = cl.listeners[id] /\ calls[j].id = id
        BY <1>5, <2>1 DEF LoopOk
      <3> QED
        BY <3>1, <1>2, <1>3, <2>2
    <2> QED
      BY <1>2, <2>4, <2>5, <2>6 DEF LoopOk
  <1>12. ServedOk(signer, new, all, inbox, done)
    <2>1. ServedOk(signer, cl, calls, inbox, done)
      BY DEF Talk
    <2> QED
      BY <1>2, <1>3, <1>4, <2>1 DEF ServedOk
  <1>13. OutOk(all)
    <2>1. OutOk(calls)
      BY DEF Talk
    <2> QED
      BY <1>2, <2>1 DEF OutOk
  <1> QED
    BY <1>7, <1>8, <1>9, <1>10, <1>11, <1>12, <1>13 DEF Talk, all

\* The loop reads something that no call waits for.
LEMMA TalkSkips ==
  ASSUME NEW signer, NEW cl, NEW calls, NEW inbox, NEW ses, NEW done, NEW hands, NEW resp \in inbox,
         Talk(signer, cl, calls, inbox, ses, done, hands),
         cl.loop = NoLoop, resp.kind = "auth_url" \/ resp.id \notin DOMAIN cl.listeners
  PROVE  Talk(signer, cl, calls, inbox \ {resp}, ses, done, hands)
  <1>1. calls \in Seq(CallRec) /\ CallsOk(cl, calls) /\ LoopOk(signer, cl, calls)
    BY DEF Talk, TalkTypes
  <1>2. AskedOk(signer, calls, inbox \ {resp}, done)
    BY DEF Talk, AskedOk
  <1>3. ServedOk(signer, cl, calls, inbox \ {resp}, done)
    <2> SUFFICES ASSUME NEW k \in 1..Len(calls), Pending(calls[k]), Known(done, calls[k].id),
                        calls[k].why # "switch", ~SilentlyDropped(calls[k])
                 PROVE  AnswerTo(signer, calls[k]) \in inbox \ {resp}
      BY DEF ServedOk
    <2>1. cl.loop.call # k
      BY DEF NoLoop
    <2>2. AnswerTo(signer, calls[k]) \in inbox /\ calls[k].id \in DOMAIN cl.listeners
      BY <1>1, <2>1 DEF Talk, ServedOk, LoopOk
    <2>3. calls[k] \in CallRec /\ calls[k].id # NoId
      BY <1>1, IdsDiffer
    <2>4. calls[k].method \in WithoutParams => calls[k].arg = NoText
      BY <1>1 DEF CallsOk
    <2>5. AnswerTo(signer, calls[k]).id = calls[k].id /\ AnswerTo(signer, calls[k]).kind # "auth_url"
      BY <2>3, <2>4, AnswersAreOwn
    <2> QED
      BY <2>2, <2>5
  <1> QED
    BY <1>2, <1>3 DEF Talk

\* The loop reads what a call waits for.
LEMMA TalkReads ==
  ASSUME NEW signer, NEW cl, NEW calls, NEW inbox, NEW ses, NEW done, NEW hands, NEW resp \in inbox,
         Talk(signer, cl, calls, inbox, ses, done, hands),
         cl.loop = NoLoop, resp.kind # "auth_url", resp.id \in DOMAIN cl.listeners,
         NEW new \in ClientRec, new.serial = cl.serial,
         new.listeners = Restrict(cl.listeners, DOMAIN cl.listeners \ {resp.id}),
         new.at = cl.at, new.target = cl.target, new.live = cl.live,
         new.loop.call = cl.listeners[resp.id], new.loop.resp = resp
  PROVE  Talk(signer, new, calls, inbox \ {resp}, ses, done, hands)
  <1>1. calls \in Seq(CallRec) /\ CallsOk(cl, calls) /\ LoopOk(signer, cl, calls)
    BY DEF Talk, TalkTypes
  <1>2. \A j, k \in 1..Len(calls) : calls[j].id = calls[k].id => j = k
    BY <1>1, IdsDiffer
  <1>3. PICK k \in 1..Len(calls) : k = cl.listeners[resp.id] /\ calls[k].id = resp.id
    BY <1>1 DEF LoopOk
  <1>4. calls[k] \in CallRec /\ calls[k].id # NoId /\ calls[k].id # Imagined
    BY <1>1, IdsDiffer
  <1>5. resp = AnswerTo(signer, calls[k])
    BY <1>2, <1>3, <1>4 DEF Talk, AskedOk
  <1>6. AskedOk(signer, calls, inbox \ {resp}, done)
    BY DEF Talk, AskedOk
  <1>7. TalkTypes(new, calls, ses, done) /\ CallsOk(new, calls) /\ SetUpOk(new, calls)
    <2>1. CallsOk(new, calls)
      BY <1>1 DEF CallsOk
    <2>2. SetUpOk(new, calls)
      BY DEF Talk, SetUpOk
    <2> QED
      BY <2>1, <2>2 DEF Talk, TalkTypes
  <1>8. PublishOk(new, calls, done, hands)
    BY DEF Talk, PublishOk
  <1>9. /\ DOMAIN new.listeners = DOMAIN cl.listeners \ {resp.id}
        /\ \A id \in DOMAIN new.listeners : new.listeners[id] = cl.listeners[id]
    BY DEF Restrict
  <1>10. k # 0 /\ NoLoop.call = 0
    BY DEF NoLoop
  <1>11. LoopOk(signer, new, calls)
    <2>1. \A id \in DOMAIN new.listeners :
            new.listeners[id] \in 1..Len(calls) /\ calls[new.listeners[id]].id = id
      BY <1>1, <1>9 DEF LoopOk
    <2>2. \A j \in 1..Len(calls) : Pending(calls[j]) => calls[j].id \in DOMAIN new.listeners \/ new.loop.call = j
      BY <1>1, <1>2, <1>3, <1>9, <1>10 DEF LoopOk
    <2> QED
      BY <1>3, <1>5, <1>10, <2>1, <2>2 DEF LoopOk
  <1>12. ServedOk(signer, new, calls, inbox \ {resp}, done)
    <2> SUFFICES ASSUME NEW j \in 1..Len(calls), Pending(calls[j]), Known(done, calls[j].id),
                        calls[j].why # "switch", ~SilentlyDropped(calls[j]), j # k
                 PROVE  AnswerTo(signer, calls[j]) \in inbox \ {resp}
      BY <1>3 DEF ServedOk
    <2>1. cl.loop.call # j
      BY DEF NoLoop
    <2>2. AnswerTo(signer, calls[j]) \in inbox
      BY <2>1 DEF Talk, ServedOk
    <2>3. calls[j] \in CallRec /\ calls[j].id # NoId
      BY <1>1, IdsDiffer
    <2>4. calls[j].method \in WithoutParams => calls[j].arg = NoText
      BY <1>1 DEF CallsOk
    <2>5. AnswerTo(signer, calls[j]).id = calls[j].id
      BY <2>3, <2>4, AnswersAreOwn
    <2>6. calls[j].id # calls[k].id
      BY <1>2
    <2> QED
      BY <1>3, <2>2, <2>5, <2>6
  <1> QED
    BY <1>6, <1>7, <1>8, <1>11, <1>12 DEF Talk

\* The signer serves a request, and answers it unless the client cannot hear yet.
LEMMA TalkServes ==
  ASSUME NEW signer, NEW cl, NEW calls, NEW inbox, NEW ses, NEW done, NEW hands,
         NEW k \in 1..Len(calls), NEW more, NEW held,
         Talk(signer, cl, calls, inbox, ses, done, hands),
         ~Repeated(ses, calls[k].id), inbox \subseteq more, hands \ {k} \subseteq held,
         \A resp \in more \ inbox :
            (resp.id = calls[k].id /\ resp.kind = "auth_url") \/ resp = AnswerTo(signer, calls[k]),
         cl.live /\ ~SilentlyDropped(calls[k]) => AnswerTo(signer, calls[k]) \in more
  PROVE  Talk(signer, cl, calls, more, Remember(ses, calls[k].id), Append(done, calls[k].id), held)
  <1> DEFINE all == Append(done, calls[k].id)
  <1>1. calls \in Seq(CallRec) /\ CallsOk(cl, calls) /\ ses \in SessionRec /\ done \in Seq(RpcIds) /\ RingOk(ses, done)
    BY DEF Talk, TalkTypes
  <1>2. calls[k] \in CallRec /\ calls[k].id \in RpcIds /\ calls[k].id # NoId
    <2>1. calls[k] \in CallRec /\ calls[k].id # NoId
      BY <1>1, IdsDiffer
    <2> QED
      BY <2>1 DEF CallRec
  <1>3. \A i, j \in 1..Len(calls) : calls[i].id = calls[j].id => i = j
    BY <1>1, IdsDiffer
  <1>4. /\ all \in Seq(RpcIds) /\ Len(all) = Len(done) + 1 /\ Len(done) \in Nat /\ all[Len(done) + 1] = calls[k].id
        /\ \A i \in 1..Len(done) : all[i] = done[i]
    BY <1>1, <1>2
  <1> HIDE DEF all
  <1>5. \A id : Known(all, id) <=> Known(done, id) \/ id = calls[k].id
    <2> TAKE id
    <2>1. Known(all, id) => Known(done, id) \/ id = calls[k].id
      BY <1>4 DEF Known
    <2>2. Known(done, id) \/ id = calls[k].id => Known(all, id)
      BY <1>4 DEF Known
    <2> QED
      BY <2>1, <2>2
  <1>6. RingOk(Remember(ses, calls[k].id), all) /\ Remember(ses, calls[k].id) \in SessionRec
    BY <1>1, <1>2, RememberKeepsRing DEF all
  <1>7. PublishOk(cl, calls, all, held)
    BY <1>5 DEF Talk, PublishOk
  <1>8. calls[k].method \in WithoutParams => calls[k].arg = NoText
    BY <1>1 DEF CallsOk
  <1>9. AnswerTo(signer, calls[k]).id \in {calls[k].id, NoId}
    BY <1>2, <1>8, AnswersAreOwn
  <1>10. AskedOk(signer, calls, more, all)
    <2>1. AskedOk(signer, calls, inbox, done)
      BY DEF Talk
    <2>2. \A i \in 1..Len(all) : all[i] = Imagined \/ \E j \in 1..Len(calls) : all[i] = calls[j].id
      BY <1>4, <2>1 DEF AskedOk
    <2>3. ASSUME NEW resp \in more
          PROVE  \/ resp.id = NoId
                 \/ resp.id = Imagined
                 \/ \E j \in 1..Len(calls) :
                       resp.id = calls[j].id /\ (resp.kind = "auth_url" \/ resp = AnswerTo(signer, calls[j]))
      BY <1>9, <2>1 DEF AskedOk
    <2> QED
      BY <2>2, <2>3 DEF AskedOk
  <1>11. ServedOk(signer, cl, calls, more, all)
    <2> SUFFICES ASSUME NEW j \in 1..Len(calls), Pending(calls[j]), Known(all, calls[j].id),
                        calls[j].why # "switch", ~SilentlyDropped(calls[j]), cl.loop.call # j
                 PROVE  AnswerTo(signer, calls[j]) \in more
      BY DEF ServedOk
    <2>1. CASE j = k
      BY <2>1 DEF Talk, SetUpOk
    <2>2. CASE j # k
      BY <1>3, <1>5, <2>2 DEF Talk, ServedOk
    <2> QED
      BY <2>1, <2>2
  <1> QED
    BY <1>4, <1>6, <1>7, <1>10, <1>11 DEF Talk, TalkTypes, all

\* The signer answers a request that it has imagined.
LEMMA TalkImagines ==
  ASSUME NEW signer, NEW cl, NEW inbox, NEW ses, NEW done, NEW hands, NEW more,
         Talk(signer, cl, <<>>, inbox, ses, done, hands),
         ~Repeated(ses, Imagined), inbox \subseteq more,
         \A resp \in more \ inbox : resp.id \in {Imagined, NoId}
  PROVE  Talk(signer, cl, <<>>, more, Remember(ses, Imagined), Append(done, Imagined), hands)
  <1> DEFINE all == Append(done, Imagined)
  <1>1. ses \in SessionRec /\ done \in Seq(RpcIds) /\ RingOk(ses, done)
    BY DEF Talk, TalkTypes
  <1>2. Imagined \in RpcIds
    BY RemoteSignerBounds DEF Imagined, RpcIds, MethodNames
  <1>3. /\ all \in Seq(RpcIds) /\ Len(all) = Len(done) + 1 /\ Len(done) \in Nat /\ all[Len(done) + 1] = Imagined
        /\ \A i \in 1..Len(done) : all[i] = done[i]
    BY <1>1, <1>2
  <1> HIDE DEF all
  <1>4. RingOk(Remember(ses, Imagined), all) /\ Remember(ses, Imagined) \in SessionRec
    BY <1>1, <1>2, RememberKeepsRing DEF all
  <1>5. 1..Len(<<>>) = {}
    OBVIOUS
  <1>6. PublishOk(cl, <<>>, all, hands) /\ ServedOk(signer, cl, <<>>, more, all)
    BY <1>5 DEF PublishOk, ServedOk
  <1>7. AskedOk(signer, <<>>, more, all)
    BY <1>3, <1>5 DEF Talk, AskedOk
  <1> QED
    BY <1>3, <1>4, <1>6, <1>7 DEF Talk, TalkTypes, all

-----------------------------------------------------------------------------
(* The steps of the system. *)

\* Copies and threads are all that Hands depends on.
LEMMA HandsStay ==
  ASSUME rsAt' = rsAt, rsThread' = rsThread
  PROVE  \A c \in RsClients : Hands(c)' = Hands(c)
  BY DEF Hands, Holds

LEMMA TalkStays ==
  ASSUME NEW c \in RsClients, TalkOf(c), rsSigner' = rsSigner, rsClient'[c] = rsClient[c],
         rsCalls'[c] = rsCalls[c], rsInbox'[c] = rsInbox[c], rsSession'[c] = rsSession[c],
         rsParsed'[c] = rsParsed[c], Hands(c)' = Hands(c)
  PROVE  TalkOf(c)'
  BY DEF TalkOf

\* Calls are added, but keep their numbers and ids.
Grown(calls, all) == \A k \in 1..Len(calls) : k \in 1..Len(all) /\ all[k].id = calls[k].id

\* The signer's side is undisturbed by a step that only adds calls and copies of them.
LEMMA SignerStays ==
  ASSUME HandsInv, rsSigner' = rsSigner, rsThread' = rsThread,
         \A c \in RsClients : rsSession'[c].ring = rsSession[c].ring,
         \A c \in RsClients : Grown(rsCalls[c], rsCalls'[c]),
         \A copy \in rsAt' : copy \in rsAt \/
            (copy \in [c : RsClients, k : Nat, relay : RsRelays] /\ copy.k \in 1..Len(rsCalls'[copy.c]))
  PROVE  HandsInv'
  <1>1. /\ rsAt' \subseteq [c : RsClients, k : Nat, relay : RsRelays]
        /\ \A copy \in rsAt' : copy.k \in 1..Len(rsCalls'[copy.c])
    BY DEF HandsInv, Grown
  <1>2. \A t \in Threads46 : rsThread[t].at # "idle" =>
          /\ rsSigner = "static" /\ rsThread[t].c \in RsClients
          /\ rsThread[t].k \in 1..Len(rsCalls'[rsThread[t].c])
          /\ rsCalls'[rsThread[t].c][rsThread[t].k].id = rsCalls[rsThread[t].c][rsThread[t].k].id
          /\ rsSession'[rsThread[t].c].ring = rsSession[rsThread[t].c].ring
    BY DEF HandsInv, Grown
  <1>3. ASSUME NEW t \in Threads46, rsThread[t].at = "remember"
        PROVE  ~Repeated(rsSession'[rsThread[t].c], rsCalls'[rsThread[t].c][rsThread[t].k].id)
    <2>1. ~Repeated(rsSession[rsThread[t].c], rsCalls[rsThread[t].c][rsThread[t].k].id)
      BY <1>3 DEF HandsInv
    <2> QED
      BY <1>2, <1>3, <2>1 DEF Repeated
  <1> QED
    BY <1>1, <1>2, <1>3 DEF HandsInv

\* A step of the client c, which the signer does not see.
LEMMA ClientStep ==
  ASSUME RsInv, NEW c \in RsClients, Shape',
         UNCHANGED <<rsSigner, rsAt, rsSession, rsThread, rsParsed>>,
         \A d \in RsClients \ {c} :
            rsClient'[d] = rsClient[d] /\ rsCalls'[d] = rsCalls[d] /\ rsInbox'[d] = rsInbox[d],
         Grown(rsCalls[c], rsCalls'[c]),
         Talk(rsSigner, rsClient'[c], rsCalls'[c], rsInbox'[c], rsSession[c], rsParsed[c], Hands(c))
  PROVE  RsInv'
  <1>1. \A d \in RsClients : Hands(d)' = Hands(d)
    BY HandsStay
  <1>2. \A d \in RsClients : TalkOf(d)'
    <2> TAKE d \in RsClients
    <2>1. CASE d = c
      BY <1>1, <2>1 DEF TalkOf
    <2>2. CASE d # c
      BY <1>1, <2>2, TalkStays DEF RsInv
    <2> QED
      BY <2>1, <2>2
  <1>3. \A d \in RsClients : Grown(rsCalls[d], rsCalls'[d])
    BY DEF Grown
  <1>4. HandsInv'
    BY <1>3, SignerStays DEF RsInv
  <1> QED
    BY <1>2, <1>4 DEF RsInv

LEMMA SetCallIs ==
  ASSUME Shape, NEW c \in RsClients, NEW k, NEW call, SetCall(c, k, call)
  PROVE  /\ rsCalls'[c] = [rsCalls[c] EXCEPT ![k] = call] /\ DOMAIN rsCalls' = RsClients
         /\ \A d \in RsClients \ {c} : rsCalls'[d] = rsCalls[d]
  BY DEF Shape, SetCall

\* What is written into a call.
LEMMA CallFields ==
  ASSUME NEW call \in CallRec, NEW r \in RsRelays, NEW x \in {"taken", "failed", "done"}
  PROVE  /\ [call EXCEPT !.pub[r] = x] \in CallRec
         /\ [call EXCEPT !.pub[r] = x, !.sent = TRUE] \in CallRec
         /\ [call EXCEPT !.pub[r] = x].pub = [call.pub EXCEPT ![r] = x]
         /\ [call EXCEPT !.pub[r] = x, !.sent = TRUE].pub = [call.pub EXCEPT ![r] = x]
  BY DEF CallRec

\* A step of a call that goes on; copies may be on their way to the signer.
LEMMA ProceedsStep ==
  ASSUME RsInv, NEW c \in RsClients, NEW k \in 1..Len(rsCalls[c]), NEW call \in CallRec,
         SetCall(c, k, call), UNCHANGED <<rsSigner, rsClient, rsInbox, rsSession, rsThread, rsParsed>>,
         rsAt \subseteq rsAt', \A copy \in rsAt' \ rsAt : \E r \in RsRelays : copy = [c |-> c, k |-> k, relay |-> r],
         call.id = rsCalls[c][k].id, call.method = rsCalls[c][k].method, call.arg = rsCalls[c][k].arg,
         call.why = rsCalls[c][k].why, call.out = rsCalls[c][k].out,
         call.at = "end" <=> rsCalls[c][k].at = "end",
         call.at = "answer" => call.sent,
         call.sent => \E r \in RsRelays : call.pub[r] = "done",
         \A r \in RsRelays : rsClient[c].target = "signer" /\ call.pub[r] \in {"taken", "done"} =>
            rsCalls[c][k].pub[r] \in {"taken", "done"} \/ [c |-> c, k |-> k, relay |-> r] \in rsAt'
  PROVE  RsInv'
  <1>1. Shape /\ HandsInv /\ TalkOf(c)
    BY DEF RsInv
  <1>2. /\ rsCalls'[c] = [rsCalls[c] EXCEPT ![k] = call] /\ DOMAIN rsCalls' = RsClients
        /\ \A d \in RsClients \ {c} : rsCalls'[d] = rsCalls[d]
    BY <1>1, SetCallIs
  <1>3. rsCalls[c] \in Seq(CallRec)
    BY <1>1 DEF TalkOf, Talk, TalkTypes
  <1>4. k \in Nat
    BY <1>3
  <1>5. Grown(rsCalls[c], rsCalls'[c]) /\ Len(rsCalls'[c]) = Len(rsCalls[c])
    BY <1>2, <1>3 DEF Grown
  <1>6. Hands(c) \subseteq Hands(c)'
    BY DEF Hands, Holds
  <1>7. \A d \in RsClients \ {c} : Hands(d)' = Hands(d)
    <2> TAKE d \in RsClients \ {c}
    <2>1. \A j, r : [c |-> d, k |-> j, relay |-> r] \in rsAt' <=> [c |-> d, k |-> j, relay |-> r] \in rsAt
      OBVIOUS
    <2> QED
      BY <2>1 DEF Hands, Holds
  <1>8. \A r \in RsRelays : rsClient[c].target = "signer" /\ call.pub[r] \in {"taken", "done"} =>
            k \in Hands(c)' \/ Known(rsParsed[c], call.id)
    <2> TAKE r \in RsRelays
    <2>1. CASE [c |-> c, k |-> k, relay |-> r] \in rsAt'
      BY <1>4, <2>1 DEF Hands
    <2>2. CASE rsCalls[c][k].pub[r] \in {"taken", "done"}
      BY <1>1, <1>6, <2>2 DEF TalkOf, Talk, PublishOk
    <2> QED
      BY <2>1, <2>2
  <1>9. TalkOf(c)'
    <2>1. Talk(rsSigner, rsClient[c], rsCalls[c], rsInbox[c], rsSession[c], rsParsed[c], Hands(c))
      BY <1>1 DEF TalkOf
    <2>2. Talk(rsSigner, rsClient[c], [rsCalls[c] EXCEPT ![k] = call], rsInbox[c], rsSession[c], rsParsed[c], Hands(c)')
      BY <1>6, <1>8, <2>1, TalkProceeds
    <2> QED
      BY <1>2, <2>2 DEF TalkOf
  <1>10. \A d \in RsClients : TalkOf(d)'
    BY <1>2, <1>7, <1>9, TalkStays DEF RsInv
  <1>11. HandsInv'
    <2>1. \A d \in RsClients : Grown(rsCalls[d], rsCalls'[d])
      BY <1>2, <1>5 DEF Grown
    <2>2. \A copy \in rsAt' : copy \in rsAt \/
            (copy \in [c : RsClients, k : Nat, relay : RsRelays] /\ copy.k \in 1..Len(rsCalls'[copy.c]))
      BY <1>4, <1>5
    <2> QED
      BY <1>1, <2>1, <2>2, SignerStays
  <1> QED
    BY <1>1, <1>2, <1>10, <1>11 DEF RsInv, Shape

\* Calls on their way: the relays, their OKs and failures, and callers that stop to wait.
LEMMA CallGoesOnKeepsInv ==
  ASSUME RsInv, NEW c \in RsClients, NEW k \in 1..Len(rsCalls[c]),
         \/ \E r \in RsRelays : RpcPublishes(c, k, r) \/ RpcPublishEnds(c, k, r)
         \/ RpcGoesOn(c, k) \/ RpcContextEnds(c, k)
  PROVE  RsInv'
  <1>1. rsCalls[c] \in Seq(CallRec) /\ OutOk(rsCalls[c]) /\ PublishOk(rsClient[c], rsCalls[c], rsParsed[c], Hands(c))
    BY DEF RsInv, TalkOf, Talk, TalkTypes
  <1>2. PICK call : call = rsCalls[c][k]
    OBVIOUS
  <1>3. call \in CallRec
    BY <1>1, <1>2
  <1>4. /\ call.at = "answer" => call.sent
        /\ call.sent => \E r \in RsRelays : call.pub[r] = "done"
    BY <1>1, <1>2 DEF PublishOk
  <1>5. ASSUME NEW r \in RsRelays, RpcPublishes(c, k, r) PROVE RsInv'
    <2>1. PICK new : new = [call EXCEPT !.pub[r] = "taken"]
      OBVIOUS
    <2>2. /\ SetCall(c, k, new) /\ call.pub[r] = "begin"
          /\ UNCHANGED <<rsSigner, rsClient, rsInbox, rsSession, rsThread, rsParsed>>
      BY <1>2, <1>5, <2>1 DEF RpcPublishes, Call46
    <2>3. /\ rsAt \subseteq rsAt' /\ \A copy \in rsAt' \ rsAt : copy = [c |-> c, k |-> k, relay |-> r]
          /\ rsClient[c].target = "signer" => [c |-> c, k |-> k, relay |-> r] \in rsAt'
      BY <1>5 DEF RpcPublishes
    <2>4. new \in CallRec /\ new.pub = [call.pub EXCEPT ![r] = "taken"] /\ call.pub \in [RsRelays -> {"begin", "taken", "done", "failed"}]
      BY <1>3, <2>1, CallFields DEF CallRec
    <2>5. /\ new.id = call.id /\ new.method = call.method /\ new.arg = call.arg
          /\ new.why = call.why /\ new.at = call.at /\ new.sent = call.sent /\ new.out = call.out
      BY <1>3, <2>1 DEF CallRec
    <2>6. /\ \A s \in RsRelays : call.pub[s] = "done" => new.pub[s] = "done"
          /\ \A s \in RsRelays : new.pub[s] \in {"taken", "done"} => call.pub[s] \in {"taken", "done"} \/ s = r
      BY <2>2, <2>4
    <2> QED
      BY <1>2, <1>4, <2>2, <2>3, <2>4, <2>5, <2>6, ProceedsStep
  <1>6. ASSUME NEW r \in RsRelays, RpcPublishEnds(c, k, r) PROVE RsInv'
    <2>1. PICK fine : fine = [call EXCEPT !.pub[r] = "done", !.sent = TRUE]
      OBVIOUS
    <2>2. PICK lost : lost = [call EXCEPT !.pub[r] = "failed"]
      OBVIOUS
    <2>3. /\ rsAt' = rsAt /\ UNCHANGED <<rsSigner, rsClient, rsInbox, rsSession, rsThread, rsParsed>>
          /\ \/ SetCall(c, k, fine) /\ call.pub[r] = "taken"
             \/ SetCall(c, k, lost) /\ call.pub[r] \in {"begin", "taken"}
      BY <1>2, <1>6, <2>1, <2>2 DEF RpcPublishEnds, Call46
    <2>4. call.pub \in [RsRelays -> {"begin", "taken", "done", "failed"}]
      BY <1>3 DEF CallRec
    <2>5. CASE SetCall(c, k, fine) /\ call.pub[r] = "taken"
      <3>1. fine \in CallRec /\ fine.pub = [call.pub EXCEPT ![r] = "done"]
        BY <1>3, <2>1, CallFields
      <3>2. /\ fine.id = call.id /\ fine.method = call.method /\ fine.arg = call.arg
            /\ fine.why = call.why /\ fine.at = call.at /\ fine.out = call.out
        BY <1>3, <2>1 DEF CallRec
      <3>3. /\ fine.pub[r] = "done" /\ fine.sent
            /\ \A s \in RsRelays : fine.pub[s] \in {"taken", "done"} => call.pub[s] \in {"taken", "done"}
        BY <1>3, <2>1, <2>4, <2>5, <3>1 DEF CallRec
      <3>4. fine.sent => \E s \in RsRelays : fine.pub[s] = "done"
        BY <3>3
      <3> QED
        <4>1. fine.at = "end" <=> rsCalls[c][k].at = "end"
          BY <1>2, <3>2
        <4>2. fine.id = rsCalls[c][k].id /\ fine.method = rsCalls[c][k].method /\ fine.arg = rsCalls[c][k].arg
              /\ fine.why = rsCalls[c][k].why /\ fine.out = rsCalls[c][k].out
          BY <1>2, <3>2
        <4>3. \A s \in RsRelays : rsClient[c].target = "signer" /\ fine.pub[s] \in {"taken", "done"} =>
                 rsCalls[c][k].pub[s] \in {"taken", "done"} \/ [c |-> c, k |-> k, relay |-> s] \in rsAt'
          BY <1>2, <3>3
        <4>4. rsAt \subseteq rsAt' /\ \A copy \in rsAt' \ rsAt : \E s \in RsRelays : copy = [c |-> c, k |-> k, relay |-> s]
          BY <2>3
        <4>5. fine.at = "answer" => fine.sent
          BY <3>3
        <4> QED
          BY <2>3, <2>5, <3>1, <3>4, <4>1, <4>2, <4>3, <4>4, <4>5, ProceedsStep
    <2>6. CASE SetCall(c, k, lost) /\ call.pub[r] \in {"begin", "taken"}
      <3>1. lost \in CallRec /\ lost.pub = [call.pub EXCEPT ![r] = "failed"]
        BY <1>3, <2>2, CallFields
      <3>2. /\ lost.id = call.id /\ lost.method = call.method /\ lost.arg = call.arg
            /\ lost.why = call.why /\ lost.at = call.at /\ lost.sent = call.sent /\ lost.out = call.out
        BY <1>3, <2>2 DEF CallRec
      <3>3. /\ \A s \in RsRelays : call.pub[s] = "done" => lost.pub[s] = "done"
            /\ \A s \in RsRelays : lost.pub[s] \in {"taken", "done"} => call.pub[s] \in {"taken", "done"}
        BY <2>4, <2>6, <3>1
      <3>4. lost.at = "answer" => lost.sent
        BY <1>4, <3>2
      <3>5. lost.sent => \E s \in RsRelays : lost.pub[s] = "done"
        BY <1>4, <3>2, <3>3
      <3> QED
        <4>1. lost.at = "end" <=> rsCalls[c][k].at = "end"
          BY <1>2, <3>2
        <4>2. lost.id = rsCalls[c][k].id /\ lost.method = rsCalls[c][k].method /\ lost.arg = rsCalls[c][k].arg
              /\ lost.why = rsCalls[c][k].why /\ lost.out = rsCalls[c][k].out
          BY <1>2, <3>2
        <4>3. \A s \in RsRelays : rsClient[c].target = "signer" /\ lost.pub[s] \in {"taken", "done"} =>
                 rsCalls[c][k].pub[s] \in {"taken", "done"} \/ [c |-> c, k |-> k, relay |-> s] \in rsAt'
          BY <1>2, <3>3
        <4>4. rsAt \subseteq rsAt' /\ \A copy \in rsAt' \ rsAt : \E s \in RsRelays : copy = [c |-> c, k |-> k, relay |-> s]
          BY <2>3
        <4> QED
          BY <2>3, <2>6, <3>1, <3>4, <3>5, <4>1, <4>2, <4>3, <4>4, ProceedsStep
    <2> QED
      BY <2>3, <2>5, <2>6
  <1>7. CASE RpcGoesOn(c, k)
    <2>1. PICK new : new = [call EXCEPT !.at = "answer"]
      OBVIOUS
    <2>2. /\ SetCall(c, k, new) /\ rsAt' = rsAt /\ call.at = "publish" /\ call.sent
          /\ UNCHANGED <<rsSigner, rsClient, rsInbox, rsSession, rsThread, rsParsed>>
      BY <1>2, <1>7, <2>1 DEF RpcGoesOn, Call46
    <2>3. /\ new \in CallRec /\ new.id = call.id /\ new.method = call.method /\ new.arg = call.arg
          /\ new.why = call.why /\ new.at = "answer" /\ new.sent = call.sent /\ new.pub = call.pub
          /\ new.out = call.out
      BY <1>3, <2>1 DEF CallRec
    <2>4. new.at = "answer" => new.sent
      BY <2>2, <2>3
    <2>5. new.sent => \E r \in RsRelays : new.pub[r] = "done"
      BY <1>4, <2>3
    <2> QED
      BY <1>2, <2>2, <2>3, <2>4, <2>5, ProceedsStep
  <1>8. CASE RpcContextEnds(c, k)
    <2>1. PICK new : new = [call EXCEPT !.ended = TRUE]
      OBVIOUS
    <2>2. /\ SetCall(c, k, new) /\ rsAt' = rsAt /\ call.at \in {"publish", "answer"}
          /\ UNCHANGED <<rsSigner, rsClient, rsInbox, rsSession, rsThread, rsParsed>>
      BY <1>2, <1>8, <2>1 DEF RpcContextEnds, Call46
    <2>3. /\ new \in CallRec /\ new.id = call.id /\ new.method = call.method /\ new.arg = call.arg
          /\ new.why = call.why /\ new.at = call.at /\ new.sent = call.sent /\ new.pub = call.pub
          /\ new.out = call.out
      BY <1>3, <2>1 DEF CallRec
    <2>4. new.at = "answer" => new.sent
      BY <1>4, <2>3
    <2>5. new.sent => \E r \in RsRelays : new.pub[r] = "done"
      BY <1>4, <2>3
    <2> QED
      BY <1>2, <2>2, <2>3, <2>4, <2>5, ProceedsStep
  <1> QED
    BY <1>5, <1>6, <1>7, <1>8

NoneWaits(calls) == \A j \in 1..Len(calls) : Pending(calls[j]) => calls[j].why = "app"

\* What a caller does with the end of its call leaves all but its place and its key.
LEMMA AfterIs ==
  ASSUME NEW cl \in ClientRec, NEW call \in CallRec, NEW resp
  PROVE  LET new == AfterRpc(cl, call, resp)
         IN  /\ new \in ClientRec /\ new.serial = cl.serial /\ new.listeners = cl.listeners
             /\ new.loop = cl.loop /\ new.target = cl.target /\ new.live = cl.live
             /\ call.why = "app" => new.at = cl.at
             /\ call.why = "switch" => new.at = IF cl.at = "switching" THEN "eose" ELSE "ready"
             /\ call.why = "connect" => new.at \in {"ready", "failed"}
  <1>1. CASE call.why = "switch"
    <2>1. AfterRpc(cl, call, resp) = [cl EXCEPT !.at = AfterSwitch(cl.at)]
      BY <1>1 DEF AfterRpc
    <2>2. AfterSwitch(cl.at) \in {"eose", "ready"}
      BY DEF AfterSwitch
    <2>3. AfterRpc(cl, call, resp) \in ClientRec /\ AfterRpc(cl, call, resp).at = AfterSwitch(cl.at)
      BY <2>1, <2>2 DEF ClientRec
    <2>4. AfterRpc(cl, call, resp).at = IF cl.at = "switching" THEN "eose" ELSE "ready"
      BY <2>3 DEF AfterSwitch
    <2> QED
      BY <1>1, <2>1, <2>3, <2>4 DEF ClientRec
  <1>2. CASE call.why = "connect"
    <2>1. AfterRpc(cl, call, resp) = [cl EXCEPT !.at = AfterConnect(resp)]
      BY <1>2 DEF AfterRpc
    <2>2. AfterConnect(resp) \in {"ready", "failed"}
      BY DEF AfterConnect
    <2> QED
      BY <1>2, <2>1, <2>2 DEF ClientRec
  <1>3. CASE call.why = "app"
    BY <1>3 DEF AfterRpc, ClientRec
  <1> QED
    BY <1>1, <1>2, <1>3 DEF CallRec

LEMMA RestrictIs ==
  ASSUME NEW f \in Listeners46, NEW S
  PROVE  Restrict(f, DOMAIN f \ S) \in Listeners46
  <1>1. PICK D \in SUBSET RpcIds : f \in [D -> Nat]
    BY DEF Listeners46
  <1>2. DOMAIN f \ S \in SUBSET RpcIds /\ [x \in DOMAIN f \ S |-> f[x]] \in [DOMAIN f \ S -> Nat]
    BY <1>1
  <1> QED
    BY <1>2 DEF Restrict, Listeners46

\* A call returns to its caller.
LEMMA ReturnsKeepsInv ==
  ASSUME RsInv, NEW c \in RsClients, NEW k \in 1..Len(rsCalls[c]), NEW cl \in ClientRec, NEW resp \in Resp,
         RpcReturns(c, k, cl, resp), Pending(rsCalls[c][k]),
         UNCHANGED <<rsSigner, rsAt, rsInbox, rsSession, rsThread, rsParsed>>,
         cl.serial = rsClient[c].serial, cl.listeners = rsClient[c].listeners, cl.at = rsClient[c].at,
         cl.target = rsClient[c].target, cl.live = rsClient[c].live,
         cl.loop = rsClient[c].loop \/ (rsClient[c].loop.call = k /\ cl.loop = NoLoop),
         resp.kind = "result" => resp.value = OfUser(rsCalls[c][k]) /\ rsCalls[c][k].arg # "refused"
  PROVE  RsInv'
  <1>1. Shape /\ Talk(rsSigner, rsClient[c], rsCalls[c], rsInbox[c], rsSession[c], rsParsed[c], Hands(c))
    BY DEF RsInv, TalkOf
  <1>2. rsCalls[c] \in Seq(CallRec) /\ SetUpOk(rsClient[c], rsCalls[c]) /\ OutOk(rsCalls[c])
    BY <1>1 DEF Talk, TalkTypes
  <1>3. PICK call : call = rsCalls[c][k]
    OBVIOUS
  <1>4. call \in CallRec
    BY <1>2, <1>3
  <1>5. PICK ended : ended = [call EXCEPT !.at = "end", !.ended = TRUE, !.out = resp]
    OBVIOUS
  <1>6. /\ ended \in CallRec /\ ended.id = call.id /\ ended.method = call.method /\ ended.arg = call.arg
        /\ ended.why = call.why /\ ended.at = "end" /\ ended.sent = call.sent /\ ended.pub = call.pub
        /\ ended.out = resp
    BY <1>4, <1>5 DEF CallRec
  <1>7. PICK mid : mid = [cl EXCEPT !.listeners = Restrict(@, DOMAIN @ \ {call.id})]
    OBVIOUS
  <1>8. cl.listeners \in Listeners46
    BY DEF ClientRec
  <1>9. /\ mid \in ClientRec /\ mid.serial = cl.serial /\ mid.at = cl.at /\ mid.target = cl.target
        /\ mid.live = cl.live /\ mid.loop = cl.loop
        /\ mid.listeners = Restrict(cl.listeners, DOMAIN cl.listeners \ {call.id})
    BY <1>7, <1>8, RestrictIs DEF ClientRec
  <1>10. PICK all : all = [rsCalls[c] EXCEPT ![k] = ended]
    OBVIOUS
  <1>11. Talk(rsSigner, mid, all, rsInbox[c], rsSession[c], rsParsed[c], Hands(c))
    <2>1. ended.out.kind = "result" => ended.out.value = OfUser(ended) /\ ended.arg # "refused"
      BY <1>3, <1>6 DEF OfUser
    <2>2. /\ ended.id = rsCalls[c][k].id /\ ended.method = rsCalls[c][k].method /\ ended.arg = rsCalls[c][k].arg
          /\ ended.why = rsCalls[c][k].why /\ ended.sent = rsCalls[c][k].sent /\ ended.pub = rsCalls[c][k].pub
      BY <1>3, <1>6
    <2>3. /\ mid.serial = rsClient[c].serial /\ mid.at = rsClient[c].at
          /\ mid.target = rsClient[c].target /\ mid.live = rsClient[c].live
          /\ mid.listeners = Restrict(rsClient[c].listeners, DOMAIN rsClient[c].listeners \ {rsCalls[c][k].id})
          /\ mid.loop = rsClient[c].loop \/ (rsClient[c].loop.call = k /\ mid.loop = NoLoop)
      BY <1>3, <1>9
    <2>4. mid \in ClientRec /\ ended \in CallRec /\ ended.at = "end"
      BY <1>6, <1>9
    <2>5. Talk(rsSigner, mid, [rsCalls[c] EXCEPT ![k] = ended], rsInbox[c], rsSession[c], rsParsed[c], Hands(c))
      BY <1>1, <2>1, <2>2, <2>3, <2>4, TalkReturns
    <2> QED
      BY <1>10, <2>5
  <1>12. PICK new : new = AfterRpc(mid, ended, resp)
    OBVIOUS
  <1>13. AfterRpc(mid, call, resp) = new
    BY <1>6, <1>12 DEF AfterRpc
  <1>14. /\ new \in ClientRec /\ new.serial = mid.serial /\ new.listeners = mid.listeners
         /\ new.loop = mid.loop /\ new.target = mid.target /\ new.live = mid.live
         /\ ended.why = "app" => new.at = mid.at
         /\ ended.why = "switch" => new.at = IF mid.at = "switching" THEN "eose" ELSE "ready"
         /\ ended.why = "connect" => new.at \in {"ready", "failed"}
    BY <1>6, <1>9, <1>12, AfterIs
  <1>15. /\ Len(all) = Len(rsCalls[c]) /\ all[k] = ended
         /\ \A j \in 1..Len(rsCalls[c]) : j # k => all[j] = rsCalls[c][j]
    BY <1>2, <1>10
  <1>16. Talk(rsSigner, new, all, rsInbox[c], rsSession[c], rsParsed[c], Hands(c))
    <2>1. ended.why = "app" \/ NoneWaits(all)
      BY <1>2, <1>3, <1>6, <1>15 DEF NoneWaits, SetUpOk, Pending
    <2>2. SetUpOk(mid, all) /\ rsCalls[c] # <<>> /\ call.why \in {"app", "switch", "connect"}
      BY <1>4, <1>11 DEF Talk, CallRec
    <2>3. new.at \notin {"new", "listening"}
      BY <1>2, <1>6, <1>9, <1>14, <2>2 DEF SetUpOk
    <2>4. new.at \in {"connecting", "last", "ready", "failed"} => new.live
      <3>1. CASE ended.why = "app"
        BY <1>14, <2>2, <3>1 DEF SetUpOk
      <3>2. CASE ended.why = "connect"
        BY <1>2, <1>3, <1>6, <1>9, <1>14, <3>2 DEF SetUpOk
      <3>3. CASE ended.why = "switch"
        <4>1. rsClient[c].at \in {"switching", "last"}
          BY <1>2, <1>3, <1>6, <3>3 DEF SetUpOk
        <4> QED
          BY <1>2, <1>9, <1>14, <3>3, <4>1 DEF SetUpOk
      <3> QED
        BY <1>6, <2>2, <3>1, <3>2, <3>3
    <2>5. \A j \in 1..Len(all) : Pending(all[j]) => all[j].why = "app" \/ new.at = mid.at
      BY <1>14, <2>1 DEF NoneWaits
    <2>6. new.target = mid.target /\ (mid.live => new.live)
      BY <1>14
    <2> QED
      BY <1>11, <1>14, <2>3, <2>4, <2>5, <2>6, TalkMoves
  <1>17. SetCall(c, k, ended) /\ rsClient' = [rsClient EXCEPT ![c] = new]
    BY <1>3, <1>5, <1>7, <1>13 DEF RpcReturns, Call46
  <1>18. /\ rsCalls'[c] = all /\ DOMAIN rsCalls' = RsClients
         /\ \A d \in RsClients \ {c} : rsCalls'[d] = rsCalls[d]
    BY <1>1, <1>10, <1>17, SetCallIs
  <1>19. /\ rsClient'[c] = new /\ DOMAIN rsClient' = RsClients
         /\ \A d \in RsClients \ {c} : rsClient'[d] = rsClient[d]
    BY <1>1, <1>17 DEF Shape
  <1>20. Shape' /\ rsInbox'[c] = rsInbox[c]
    BY <1>1, <1>18, <1>19 DEF Shape
  <1>21. Grown(rsCalls[c], all)
    BY <1>3, <1>6, <1>15 DEF Grown
  <1>22. \A d \in RsClients \ {c} :
            rsClient'[d] = rsClient[d] /\ rsCalls'[d] = rsCalls[d] /\ rsInbox'[d] = rsInbox[d]
    BY <1>18, <1>19
  <1> QED
    BY <1>16, <1>18, <1>19, <1>20, <1>21, <1>22, ClientStep

\* RPC returns, with an answer or without.
LEMMA CallEndsKeepsInv ==
  ASSUME RsInv, NEW c \in RsClients, NEW k \in 1..Len(rsCalls[c]), RpcGivesUp(c, k) \/ RpcAnswered(c, k)
  PROVE  RsInv'
  <1>1. Talk(rsSigner, rsClient[c], rsCalls[c], rsInbox[c], rsSession[c], rsParsed[c], Hands(c))
    BY DEF RsInv, TalkOf
  <1>2. /\ rsClient[c] \in ClientRec /\ rsCalls[c] \in Seq(CallRec) /\ CallsOk(rsClient[c], rsCalls[c])
        /\ LoopOk(rsSigner, rsClient[c], rsCalls[c])
    BY <1>1 DEF Talk, TalkTypes
  <1>3. NoLoop.resp \in Resp /\ NoLoop \in [call : Nat, resp : Resp]
    BY DEF NoLoop, Resp, NoId, Nothing, RpcIds, Values, MethodNames, Args
  <1>4. CASE RpcGivesUp(c, k)
    <2>1. PICK resp : resp = [NoLoop.resp EXCEPT !.kind = "error"]
      OBVIOUS
    <2>2. resp \in Resp /\ resp.kind # "result"
      BY <1>3, <2>1 DEF Resp
    <2>3. /\ RpcReturns(c, k, rsClient[c], resp) /\ Pending(rsCalls[c][k])
          /\ UNCHANGED <<rsSigner, rsAt, rsInbox, rsSession, rsThread, rsParsed>>
      BY <1>4, <2>1 DEF RpcGivesUp, Call46, Pending
    <2> QED
      BY <1>2, <2>2, <2>3, ReturnsKeepsInv
  <1>5. CASE RpcAnswered(c, k)
    <2>1. PICK cl : cl = [rsClient[c] EXCEPT !.loop = NoLoop]
      OBVIOUS
    <2>2. PICK resp : resp = rsClient[c].loop.resp
      OBVIOUS
    <2>3. /\ RpcReturns(c, k, cl, resp) /\ Pending(rsCalls[c][k]) /\ rsClient[c].loop.call = k
          /\ UNCHANGED <<rsSigner, rsAt, rsInbox, rsSession, rsThread, rsParsed>>
      BY <1>5, <2>1, <2>2 DEF RpcAnswered, Call46, Pending
    <2>4. /\ cl \in ClientRec /\ cl.serial = rsClient[c].serial /\ cl.listeners = rsClient[c].listeners
          /\ cl.at = rsClient[c].at /\ cl.target = rsClient[c].target /\ cl.live = rsClient[c].live
          /\ cl.loop = NoLoop
      BY <1>2, <1>3, <2>1 DEF ClientRec
    <2>5. resp = AnswerTo(rsSigner, rsCalls[c][k])
      BY <1>2, <2>2, <2>3 DEF LoopOk
    <2>6. rsCalls[c][k] \in CallRec /\ rsCalls[c][k].id # NoId
      BY <1>2, IdsDiffer
    <2>7. rsCalls[c][k].method \in WithoutParams => rsCalls[c][k].arg = NoText
      BY <1>2 DEF CallsOk
    <2>8. resp \in Resp /\ (resp.kind = "result" => resp.value = OfUser(rsCalls[c][k]) /\ rsCalls[c][k].arg # "refused")
      BY <2>5, <2>6, <2>7, AnswersAreOwn
    <2> QED
      BY <2>3, <2>4, <2>8, ReturnsKeepsInv
  <1> QED
    BY <1>4, <1>5

\* The loop of NewBunker looks up the listener of a response.
LEMMA LoopKeepsInv ==
  ASSUME RsInv, NEW c \in RsClients, NEW resp, LoopReads(c, resp)
  PROVE  RsInv'
  <1>1. Shape /\ Talk(rsSigner, rsClient[c], rsCalls[c], rsInbox[c], rsSession[c], rsParsed[c], Hands(c))
    BY DEF RsInv, TalkOf
  <1>2. PICK cl : cl = rsClient[c]
    OBVIOUS
  <1>3. /\ cl \in ClientRec /\ rsCalls[c] \in Seq(CallRec) /\ CallsOk(cl, rsCalls[c])
        /\ LoopOk(rsSigner, cl, rsCalls[c]) /\ AskedOk(rsSigner, rsCalls[c], rsInbox[c], rsParsed[c])
        /\ SetUpOk(cl, rsCalls[c])
    BY <1>1, <1>2 DEF Talk, TalkTypes
  <1>4. cl.loop = NoLoop /\ resp \in rsInbox[c] /\ cl.at \notin {"new", "listening"}
    BY <1>2 DEF LoopReads
  <1>5. /\ UNCHANGED <<rsSigner, rsCalls, rsAt, rsSession, rsThread, rsParsed>>
        /\ rsInbox'[c] = rsInbox[c] \ {resp} /\ DOMAIN rsInbox' = RsClients
        /\ \A d \in RsClients \ {c} : rsInbox'[d] = rsInbox[d]
    BY <1>1 DEF LoopReads, Shape
  <1>6. /\ DOMAIN rsClient' = RsClients /\ \A d \in RsClients \ {c} : rsClient'[d] = rsClient[d]
        /\ rsClient'[c] = Heard(cl, resp)
    BY <1>1, <1>2 DEF LoopReads, Shape
  <1>7. Talk(rsSigner, rsClient'[c], rsCalls[c], rsInbox[c] \ {resp}, rsSession[c], rsParsed[c], Hands(c))
    <2>1. CASE resp.kind = "auth_url"
      <3>1. PICK new : new = [cl EXCEPT !.asked = @ + 1]
        OBVIOUS
      <3>2. rsClient'[c] = new
        BY <1>6, <2>1, <3>1 DEF Heard
      <3>3. /\ new \in ClientRec /\ new.serial = cl.serial /\ new.listeners = cl.listeners /\ new.loop = cl.loop
            /\ new.at = cl.at /\ new.target = cl.target /\ new.live = cl.live
        BY <1>3, <3>1 DEF ClientRec
      <3>4. Talk(rsSigner, cl, rsCalls[c], rsInbox[c] \ {resp}, rsSession[c], rsParsed[c], Hands(c))
        BY <1>1, <1>2, <1>4, <2>1, TalkSkips
      <3>5. new.at \in {"connecting", "last", "ready", "failed"} => new.live
        BY <1>3, <3>3 DEF SetUpOk
      <3> QED
        BY <1>4, <3>2, <3>3, <3>4, <3>5, TalkMoves
    <2>2. CASE resp.kind # "auth_url" /\ resp.id \in DOMAIN cl.listeners
      <3>1. PICK loop : loop = [call |-> cl.listeners[resp.id], resp |-> resp]
        OBVIOUS
      <3>2. PICK left : left = Restrict(cl.listeners, DOMAIN cl.listeners \ {resp.id})
        OBVIOUS
      <3>3. PICK new : new = [cl EXCEPT !.loop = loop, !.listeners = left]
        OBVIOUS
      <3>4. rsClient'[c] = new
        BY <1>6, <2>2, <3>1, <3>2, <3>3 DEF Heard
      <3>5. PICK k \in 1..Len(rsCalls[c]) : k = cl.listeners[resp.id] /\ rsCalls[c][k].id = resp.id
        BY <1>3, <2>2 DEF LoopOk
      <3>6. \A i, j \in 1..Len(rsCalls[c]) : rsCalls[c][i].id = rsCalls[c][j].id => i = j
        BY <1>3, IdsDiffer
      <3>7. rsCalls[c][k] \in CallRec /\ rsCalls[c][k].id # NoId /\ rsCalls[c][k].id # Imagined
        BY <1>3, IdsDiffer
      <3>8. resp = AnswerTo(rsSigner, rsCalls[c][k])
        BY <1>3, <1>4, <2>2, <3>5, <3>6, <3>7 DEF AskedOk
      <3>9. rsCalls[c][k].method \in WithoutParams => rsCalls[c][k].arg = NoText
        BY <1>3 DEF CallsOk
      <3>10. resp \in Resp /\ k \in Nat
        BY <1>3, <3>7, <3>8, <3>9, AnswersAreOwn
      <3>11. loop \in [call : Nat, resp : Resp] /\ loop.call = cl.listeners[resp.id] /\ loop.resp = resp
        BY <3>1, <3>5, <3>10
      <3>12. left \in Listeners46
        BY <1>3, <3>2, RestrictIs DEF ClientRec
      <3>13. /\ new \in ClientRec /\ new.serial = cl.serial /\ new.listeners = left /\ new.loop = loop
             /\ new.at = cl.at /\ new.target = cl.target /\ new.live = cl.live
        BY <1>3, <3>3, <3>11, <3>12 DEF ClientRec
      <3>14. new.loop.call = cl.listeners[resp.id] /\ new.loop.resp = resp
             /\ new.listeners = Restrict(cl.listeners, DOMAIN cl.listeners \ {resp.id})
        BY <3>2, <3>11, <3>13
      <3> QED
        BY <1>1, <1>2, <1>4, <2>2, <3>4, <3>13, <3>14, TalkReads
    <2>3. CASE resp.kind # "auth_url" /\ resp.id \notin DOMAIN cl.listeners
      <3>1. rsClient'[c] = cl
        BY <1>6, <2>3 DEF Heard
      <3> QED
        BY <1>1, <1>2, <1>4, <2>3, <3>1, TalkSkips
    <2> QED
      BY <2>1, <2>2, <2>3
  <1>8. Grown(rsCalls[c], rsCalls'[c]) /\ Shape'
    BY <1>1, <1>5, <1>6 DEF Grown, Shape
  <1> QED
    BY <1>5, <1>6, <1>7, <1>8, ClientStep

LEMMA ListenIs ==
  ASSUME NEW f \in Listeners46, NEW id \in RpcIds, NEW n \in Nat
  PROVE  /\ Listen(f, id, n) \in Listeners46 /\ DOMAIN Listen(f, id, n) = DOMAIN f \cup {id}
         /\ Listen(f, id, n)[id] = n /\ \A i \in DOMAIN f : i # id => Listen(f, id, n)[i] = f[i]
  <1>1. PICK D \in SUBSET RpcIds : f \in [D -> Nat]
    BY DEF Listeners46
  <1>2. PICK all : all = [i \in DOMAIN f \cup {id} |-> IF i = id THEN n ELSE f[i]]
    OBVIOUS
  <1>3. /\ DOMAIN all = DOMAIN f \cup {id} /\ all[id] = n
        /\ \A i \in DOMAIN f : i # id => all[i] = f[i]
    BY <1>2
  <1>4. DOMAIN f \cup {id} \in SUBSET RpcIds /\ all \in [DOMAIN f \cup {id} -> Nat]
    BY <1>1, <1>2
  <1>5. all \in Listeners46
    BY <1>4 DEF Listeners46
  <1> QED
    BY <1>2, <1>3, <1>5 DEF Listen

\* A call begins; cl is the client as the caller has left it.
LEMMA BeginsKeepsInv ==
  ASSUME RsInv, NEW c \in RsClients, NEW cl \in ClientRec, NEW req, NEW why \in {"switch", "connect", "app"},
         RpcBegins(c, req, why, cl), UNCHANGED <<rsSigner, rsAt, rsSession, rsThread, rsParsed>>,
         DOMAIN rsInbox' = RsClients, \A d \in RsClients \ {c} : rsInbox'[d] = rsInbox[d],
         Talk(rsSigner, cl, rsCalls[c], rsInbox'[c], rsSession[c], rsParsed[c], Hands(c)),
         req.method \in Methods, req.arg \in Args, req.method \in WithoutParams => req.arg = NoText,
         cl.at \notin {"new", "listening"}, why # "switch" => cl.live,
         why = "switch" => cl.at \in {"switching", "last"}, why = "connect" => cl.at = "connecting",
         why = "app" \/ NoneWaits(rsCalls[c])
  PROVE  RsInv'
  <1>1. Shape /\ rsCalls[c] \in Seq(CallRec) /\ CallsOk(cl, rsCalls[c])
    BY DEF RsInv, Talk, TalkTypes
  <1>2. PICK n : n = Len(rsCalls[c]) + 1
    OBVIOUS
  <1>3. PICK id : id = <<n, req.method>>
    OBVIOUS
  <1>4. PICK call : call = [id |-> id, method |-> req.method, arg |-> req.arg, why |-> why, at |-> "publish",
                            ended |-> FALSE, sent |-> FALSE, pub |-> [r \in RsRelays |-> "begin"], out |-> NoLoop.resp]
    OBVIOUS
  <1>5. PICK new : new = [cl EXCEPT !.serial = n, !.listeners = Listen(cl.listeners, id, n)]
    OBVIOUS
  <1>6. Len(rsCalls[c]) \in Nat /\ cl.serial = Len(rsCalls[c])
    <2>1. Len(rsCalls[c]) \in Nat
      BY <1>1
    <2> QED
      BY <1>1, <2>1 DEF CallsOk
  <1>7. n \in Nat /\ n = cl.serial + 1
    BY <1>2, <1>6
  <1>8. RequestId(cl.serial + 1, req.method) = id
    BY <1>3, <1>7 DEF RequestId
  <1>9. /\ n <= MaxRpcs /\ rsClient' = [rsClient EXCEPT ![c] = new]
        /\ rsCalls' = [rsCalls EXCEPT ![c] = Append(rsCalls[c], call)]
    BY <1>2, <1>4, <1>5, <1>7, <1>8 DEF RpcBegins
  <1>10. id \in RpcIds
    BY <1>3, <1>7 DEF RpcIds, MethodNames
  <1>11. NoLoop.resp \in Resp
    BY DEF NoLoop, Resp, NoId, Nothing, RpcIds, Values, MethodNames, Args
  <1>12. call \in CallRec
    BY <1>4, <1>10, <1>11 DEF CallRec
  <1>13. /\ call.id = <<Len(rsCalls[c]) + 1, call.method>> /\ call.method = req.method /\ call.arg = req.arg
         /\ call.why = why /\ call.at = "publish" /\ ~call.sent /\ \A r \in RsRelays : call.pub[r] = "begin"
         /\ call.id = id
    BY <1>2, <1>3, <1>4
  <1>14. /\ Listen(cl.listeners, id, n) \in Listeners46
         /\ DOMAIN Listen(cl.listeners, id, n) = DOMAIN cl.listeners \cup {id}
         /\ Listen(cl.listeners, id, n)[id] = n
         /\ \A i \in DOMAIN cl.listeners : i # id => Listen(cl.listeners, id, n)[i] = cl.listeners[i]
    <2>1. cl.listeners \in Listeners46
      BY DEF ClientRec
    <2>2. PICK listeners : listeners = cl.listeners
      OBVIOUS
    <2>3. listeners \in Listeners46 /\ id \in RpcIds /\ n \in Nat
      BY <1>7, <1>10, <2>1, <2>2
    <2>4. /\ Listen(listeners, id, n) \in Listeners46
          /\ DOMAIN Listen(listeners, id, n) = DOMAIN listeners \cup {id}
          /\ Listen(listeners, id, n)[id] = n
          /\ \A i \in DOMAIN listeners : i # id => Listen(listeners, id, n)[i] = listeners[i]
      BY ONLY <2>3, ListenIs
    <2> QED
      BY ONLY <2>2, <2>4
  <1>15. /\ new \in ClientRec /\ new.serial = n /\ new.listeners = Listen(cl.listeners, id, n)
         /\ new.at = cl.at /\ new.target = cl.target /\ new.live = cl.live /\ new.loop = cl.loop
    BY <1>5, <1>7, <1>14 DEF ClientRec
  <1>16. /\ new.serial = cl.serial + 1 /\ DOMAIN new.listeners = DOMAIN cl.listeners \cup {call.id}
         /\ new.listeners[call.id] = Len(rsCalls[c]) + 1
         /\ \A i \in DOMAIN cl.listeners : i # call.id => new.listeners[i] = cl.listeners[i]
    BY <1>2, <1>7, <1>13, <1>14, <1>15
  <1>17. \A k \in 1..Len(rsCalls[c]) : Pending(rsCalls[c][k]) => call.why = "app" \/ rsCalls[c][k].why = "app"
    BY <1>13 DEF NoneWaits
  <1>18. call.method \in WithoutParams => call.arg = NoText
    BY <1>13
  <1>19. Talk(rsSigner, new, Append(rsCalls[c], call), rsInbox'[c], rsSession[c], rsParsed[c], Hands(c))
    <2>1. Len(rsCalls[c]) + 1 <= MaxRpcs
      BY <1>2, <1>9
    <2>2. /\ call.why # "switch" => cl.live
          /\ call.why = "switch" => cl.at \in {"switching", "last"}
          /\ call.why = "connect" => cl.at = "connecting"
      BY <1>13
    <2> QED
      BY <1>12, <1>13, <1>15, <1>16, <1>17, <1>18, <2>1, <2>2, TalkBegins
  <1>20. /\ rsClient'[c] = new /\ rsCalls'[c] = Append(rsCalls[c], call) /\ Shape'
         /\ \A d \in RsClients \ {c} :
               rsClient'[d] = rsClient[d] /\ rsCalls'[d] = rsCalls[d] /\ rsInbox'[d] = rsInbox[d]
    BY <1>1, <1>9 DEF Shape
  <1>21. Grown(rsCalls[c], rsCalls'[c])
    BY <1>1, <1>20 DEF Grown
  <1> QED
    BY <1>19, <1>20, <1>21, ClientStep

LEMMA SwitchRelaysIs == SwitchRelays.method \in Methods /\ SwitchRelays.arg \in Args /\ SwitchRelays.arg = NoText
  BY DEF SwitchRelays, Methods, WithoutParams, Args

\* NewBunker, from its two callers: there are no calls yet.
LEMMA NewBunkerKeepsInv ==
  ASSUME RsInv, NEW c \in RsClients, rsClient[c].at \in {"new", "listening"},
         NEW target \in {"signer", "zero"}, NEW client \in NewBunkerAt(rsClient[c], target),
         IF client.at = "switching" THEN RpcBegins(c, SwitchRelays, "switch", client)
         ELSE rsClient' = [rsClient EXCEPT ![c] = client] /\ UNCHANGED rsCalls,
         UNCHANGED <<rsSigner, rsAt, rsSession, rsThread, rsParsed>>,
         DOMAIN rsInbox' = RsClients, \A d \in RsClients \ {c} : rsInbox'[d] = rsInbox[d],
         rsInbox'[c] \subseteq rsInbox[c]
  PROVE  RsInv'
  <1>1. PICK cl : cl = rsClient[c]
    OBVIOUS
  <1>2. Shape /\ Talk(rsSigner, cl, rsCalls[c], rsInbox[c], rsSession[c], rsParsed[c], Hands(c))
    BY <1>1 DEF RsInv, TalkOf
  <1>3. cl \in ClientRec /\ rsCalls[c] = <<>>
    BY <1>1, <1>2 DEF Talk, TalkTypes, SetUpOk
  <1>4. PICK at \in {"eose", "switching"} : client = [cl EXCEPT !.at = at, !.target = target, !.live = FALSE]
    BY <1>1 DEF NewBunkerAt
  <1>5. /\ client \in ClientRec /\ client.serial = cl.serial /\ client.listeners = cl.listeners
        /\ client.loop = cl.loop /\ client.at = at
    BY <1>3, <1>4 DEF ClientRec
  <1>6. Talk(rsSigner, client, rsCalls[c], rsInbox'[c], rsSession[c], rsParsed[c], Hands(c))
    <2>1. Talk(rsSigner, cl, <<>>, rsInbox'[c], rsSession[c], rsParsed[c], Hands(c))
      BY <1>2, <1>3, TalkDrops
    <2>2. \A k \in 1..Len(<<>>) : FALSE
      OBVIOUS
    <2>3. client.at \notin {"connecting", "last", "ready", "failed", "new", "listening"}
      BY <1>4, <1>5
    <2>4. Talk(rsSigner, client, <<>>, rsInbox'[c], rsSession[c], rsParsed[c], Hands(c))
      BY <1>5, <2>1, <2>2, <2>3, TalkMoves
    <2> QED
      BY <1>3, <2>4
  <1>7. CASE at = "switching"
    <2>1. NoneWaits(rsCalls[c])
      <3>1. \A k \in 1..Len(<<>>) : FALSE
        OBVIOUS
      <3> QED
        BY <1>3, <3>1 DEF NoneWaits
    <2>2. RpcBegins(c, SwitchRelays, "switch", client)
      BY <1>5, <1>7
    <2> QED
      BY <1>5, <1>6, <1>7, <2>1, <2>2, SwitchRelaysIs, BeginsKeepsInv
  <1>8. CASE at = "eose"
    <2>1. rsClient' = [rsClient EXCEPT ![c] = client] /\ rsCalls' = rsCalls
      BY <1>5, <1>8
    <2>2. rsClient'[c] = client /\ Shape' /\ \A d \in RsClients \ {c} : rsClient'[d] = rsClient[d]
      BY <1>2, <2>1 DEF Shape
    <2>3. Grown(rsCalls[c], rsCalls'[c])
      BY <2>1 DEF Grown
    <2> QED
      BY <1>6, <2>1, <2>2, <2>3, ClientStep
  <1> QED
    BY <1>7, <1>8

\* A client changes, and none of its calls.
LEMMA MoveKeepsInv ==
  ASSUME RsInv, NEW c \in RsClients, NEW new \in ClientRec, rsClient' = [rsClient EXCEPT ![c] = new],
         UNCHANGED <<rsSigner, rsCalls, rsAt, rsInbox, rsSession, rsThread, rsParsed>>,
         new.serial = rsClient[c].serial, new.listeners = rsClient[c].listeners, new.loop = rsClient[c].loop,
         new.at \in {"new", "listening"} => rsCalls[c] = <<>>,
         new.at \in {"connecting", "last", "ready", "failed"} => new.live,
         rsCalls[c] = <<>> \/ (new.target = rsClient[c].target /\ (rsClient[c].live => new.live)),
         NoneWaits(rsCalls[c]) \/ new.at = rsClient[c].at
  PROVE  RsInv'
  <1>1. Shape /\ Talk(rsSigner, rsClient[c], rsCalls[c], rsInbox[c], rsSession[c], rsParsed[c], Hands(c))
    BY DEF RsInv, TalkOf
  <1>2. \A k \in 1..Len(rsCalls[c]) : Pending(rsCalls[c][k]) => rsCalls[c][k].why = "app" \/ new.at = rsClient[c].at
    BY DEF NoneWaits
  <1>3. Talk(rsSigner, new, rsCalls[c], rsInbox[c], rsSession[c], rsParsed[c], Hands(c))
    BY <1>1, <1>2, TalkMoves
  <1>4. rsClient'[c] = new /\ Shape' /\ \A d \in RsClients \ {c} : rsClient'[d] = rsClient[d]
    BY <1>1 DEF Shape
  <1>5. Grown(rsCalls[c], rsCalls'[c])
    BY DEF Grown
  <1> QED
    BY <1>3, <1>4, <1>5, ClientStep

\* NewBunker is called, or NewBunkerFromNostrConnect begins to listen.
LEMMA SetUpBeginsKeepsInv ==
  ASSUME RsInv, NEW c \in RsClients, SetUpBegins(c)
  PROVE  RsInv'
  <1>1. Shape /\ rsClient[c] \in ClientRec /\ SetUpOk(rsClient[c], rsCalls[c])
    BY DEF RsInv, TalkOf, Talk, TalkTypes
  <1>2. rsClient[c].at = "new" /\ rsCalls[c] = <<>>
    BY <1>1 DEF SetUpBegins, SetUpOk
  <1>3. UNCHANGED <<rsSigner, rsAt, rsInbox, rsSession, rsThread, rsParsed>>
    BY DEF SetUpBegins
  <1>4. CASE rsClient[c].way = "nostrconnect"
    <2>1. PICK new : new = [rsClient[c] EXCEPT !.at = "listening"]
      OBVIOUS
    <2>2. /\ new \in ClientRec /\ new.serial = rsClient[c].serial /\ new.listeners = rsClient[c].listeners
          /\ new.loop = rsClient[c].loop /\ new.at = "listening"
      BY <1>1, <2>1 DEF ClientRec
    <2>3. rsClient' = [rsClient EXCEPT ![c] = new] /\ rsCalls' = rsCalls
      BY <1>4, <2>1, <2>2 DEF SetUpBegins
    <2>4. NoneWaits(rsCalls[c])
      <3>1. \A k \in 1..Len(<<>>) : FALSE
        OBVIOUS
      <3> QED
        BY <1>2, <3>1 DEF NoneWaits
    <2> QED
      BY <1>2, <1>3, <2>2, <2>3, <2>4, MoveKeepsInv
  <1>5. CASE rsClient[c].way # "nostrconnect"
    <2>1. ParseBunkerInput(rsClient[c].way) \in {"signer", "zero"}
      BY DEF ParseBunkerInput, QueryWellKnown
    <2>2. PICK target \in {"signer", "zero"} : target = ParseBunkerInput(rsClient[c].way)
      BY <2>1
    <2>3. PICK client \in NewBunkerAt(rsClient[c], target) :
            IF client.at = "switching" THEN RpcBegins(c, SwitchRelays, "switch", client)
            ELSE rsClient' = [rsClient EXCEPT ![c] = client] /\ UNCHANGED rsCalls
      BY <1>5, <2>2 DEF SetUpBegins
    <2>4. DOMAIN rsInbox' = RsClients /\ rsInbox' = rsInbox
      BY <1>1, <1>3 DEF Shape
    <2> QED
      BY <1>2, <1>3, <2>3, <2>4, NewBunkerKeepsInv
  <1> QED
    BY <1>4, <1>5

\* NewBunkerFromNostrConnect has its first response.
LEMMA NostrConnectKeepsInv ==
  ASSUME RsInv, NEW c \in RsClients, NEW resp, NostrConnectReads(c, resp)
  PROVE  RsInv'
  <1>1. Shape /\ Talk(rsSigner, rsClient[c], rsCalls[c], rsInbox[c], rsSession[c], rsParsed[c], Hands(c))
    BY DEF RsInv, TalkOf
  <1>2. rsClient[c].at = "listening" /\ rsCalls[c] = <<>>
    BY <1>1 DEF Talk, SetUpOk, NostrConnectReads
  <1>3. /\ UNCHANGED <<rsSigner, rsAt, rsSession, rsThread, rsParsed>>
        /\ rsInbox'[c] = rsInbox[c] \ {resp} /\ DOMAIN rsInbox' = RsClients
        /\ \A d \in RsClients \ {c} : rsInbox'[d] = rsInbox[d]
    BY <1>1 DEF NostrConnectReads, Shape
  <1>4. CASE UNCHANGED <<rsClient, rsCalls>>
    <2>1. Talk(rsSigner, rsClient'[c], rsCalls'[c], rsInbox'[c], rsSession[c], rsParsed[c], Hands(c))
      BY <1>1, <1>2, <1>3, <1>4, TalkDrops
    <2>2. Grown(rsCalls[c], rsCalls'[c]) /\ Shape'
      BY <1>1, <1>3, <1>4 DEF Grown, Shape
    <2> QED
      BY <1>3, <1>4, <2>1, <2>2, ClientStep
  <1>5. CASE \E client \in NewBunkerAt(rsClient[c], "signer") :
               IF client.at = "switching" THEN RpcBegins(c, SwitchRelays, "switch", client)
               ELSE rsClient' = [rsClient EXCEPT ![c] = client] /\ UNCHANGED rsCalls
    BY <1>2, <1>3, <1>5, NewBunkerKeepsInv
  <1> QED
    BY <1>4, <1>5 DEF NostrConnectReads

\* Subscriptions come up, the set-up goes on, applications call.
LEMMA SetUpGoesOnKeepsInv ==
  ASSUME RsInv, NEW c \in RsClients,
         SubscriptionLives(c) \/ EoseSeen(c) \/ \E req \in RsRequests : AppCalls(c, req)
  PROVE  RsInv'
  <1>1. PICK cl : cl = rsClient[c]
    OBVIOUS
  <1>2. Shape /\ Talk(rsSigner, cl, rsCalls[c], rsInbox[c], rsSession[c], rsParsed[c], Hands(c))
    BY <1>1 DEF RsInv, TalkOf
  <1>3. cl \in ClientRec /\ SetUpOk(cl, rsCalls[c]) /\ rsCalls[c] \in Seq(CallRec)
    BY <1>2 DEF Talk, TalkTypes
  <1>4. CASE SubscriptionLives(c)
    <2>1. PICK new : new = [cl EXCEPT !.live = TRUE]
      OBVIOUS
    <2>2. /\ new \in ClientRec /\ new.serial = cl.serial /\ new.listeners = cl.listeners /\ new.loop = cl.loop
          /\ new.at = cl.at /\ new.target = cl.target /\ new.live = TRUE
      BY <1>3, <2>1 DEF ClientRec
    <2>3. rsClient' = [rsClient EXCEPT ![c] = new] /\ cl.at # "new"
          /\ UNCHANGED <<rsSigner, rsCalls, rsAt, rsInbox, rsSession, rsThread, rsParsed>>
      BY <1>1, <1>4, <2>1 DEF SubscriptionLives
    <2>4. new.at \in {"new", "listening"} => rsCalls[c] = <<>>
      BY <1>3, <2>2 DEF SetUpOk
    <2> QED
      BY <1>1, <2>2, <2>3, <2>4, MoveKeepsInv
  <1>5. CASE EoseSeen(c)
    <2>1. cl.at = "eose" /\ cl.live /\ UNCHANGED <<rsSigner, rsAt, rsInbox, rsSession, rsThread, rsParsed>>
      BY <1>1, <1>5 DEF EoseSeen
    <2>2. NoneWaits(rsCalls[c])
      <3> SUFFICES ASSUME NEW k \in 1..Len(rsCalls[c]), Pending(rsCalls[c][k])
                   PROVE  rsCalls[c][k].why = "app"
        BY DEF NoneWaits
      <3>1. rsCalls[c][k].why \in {"switch", "connect", "app"}
        <4>1. rsCalls[c][k] \in CallRec
          BY <1>3
        <4> QED
          BY <4>1 DEF CallRec
      <3> QED
        BY <1>3, <2>1, <3>1 DEF SetUpOk
    <2>3. ASSUME NEW at \in {"ready", "last", "connecting"}, NEW new, new = [cl EXCEPT !.at = at]
          PROVE  /\ new \in ClientRec /\ new.serial = cl.serial /\ new.listeners = cl.listeners
                 /\ new.loop = cl.loop /\ new.at = at /\ new.target = cl.target /\ new.live = cl.live
                 /\ Talk(rsSigner, new, rsCalls[c], rsInbox[c], rsSession[c], rsParsed[c], Hands(c))
      <3>1. /\ new \in ClientRec /\ new.serial = cl.serial /\ new.listeners = cl.listeners
            /\ new.loop = cl.loop /\ new.at = at /\ new.target = cl.target /\ new.live = cl.live
        BY <1>3, <2>3 DEF ClientRec
      <3>2. \A k \in 1..Len(rsCalls[c]) : Pending(rsCalls[c][k]) => rsCalls[c][k].why = "app" \/ new.at = cl.at
        BY <2>2 DEF NoneWaits
      <3>3. new.at \notin {"new", "listening"} /\ new.live
        BY <2>1, <3>1
      <3>4. Talk(rsSigner, new, rsCalls[c], rsInbox[c], rsSession[c], rsParsed[c], Hands(c))
        BY <1>2, <3>1, <3>2, <3>3, TalkMoves
      <3> QED
        BY <3>1, <3>4
    <2>4. rsInbox' = rsInbox /\ DOMAIN rsInbox' = RsClients
      BY <1>2, <2>1 DEF Shape
    <2>5. CASE cl.way = "plain"
      <3>1. PICK new : new = [cl EXCEPT !.at = "ready"]
        OBVIOUS
      <3>2. rsClient' = [rsClient EXCEPT ![c] = new] /\ rsCalls' = rsCalls
        BY <1>1, <1>5, <2>5, <3>1 DEF EoseSeen
      <3>3. /\ new \in ClientRec /\ new.serial = cl.serial /\ new.listeners = cl.listeners
            /\ new.loop = cl.loop /\ new.at = "ready" /\ new.target = cl.target /\ new.live = cl.live
        BY <2>3, <3>1
      <3> QED
        BY <1>1, <2>1, <2>2, <3>2, <3>3, MoveKeepsInv
    <2>6. CASE cl.way = "nostrconnect"
      <3>1. PICK new : new = [cl EXCEPT !.at = "last"]
        OBVIOUS
      <3>2. RpcBegins(c, SwitchRelays, "switch", new)
        BY <1>1, <1>5, <2>6, <3>1 DEF EoseSeen
      <3>3. new \in ClientRec /\ new.at = "last"
            /\ Talk(rsSigner, new, rsCalls[c], rsInbox[c], rsSession[c], rsParsed[c], Hands(c))
        BY <2>3, <3>1
      <3> QED
        BY <2>1, <2>2, <2>4, <3>2, <3>3, SwitchRelaysIs, BeginsKeepsInv
    <2>7. CASE cl.way \notin {"plain", "nostrconnect"}
      <3>1. PICK new : new = [cl EXCEPT !.at = "connecting"]
        OBVIOUS
      <3>2. PICK secret \in {"good", "refused"} : RpcBegins(c, [method |-> "connect", arg |-> secret], "connect", new)
        BY <1>1, <1>5, <2>7, <3>1 DEF EoseSeen
      <3>3. new \in ClientRec /\ new.at = "connecting" /\ new.live
            /\ Talk(rsSigner, new, rsCalls[c], rsInbox[c], rsSession[c], rsParsed[c], Hands(c))
        BY <2>1, <2>3, <3>1
      <3>4. PICK req : req = [method |-> "connect", arg |-> secret]
        OBVIOUS
      <3>5. req.method \in Methods /\ req.arg \in Args /\ req.method \notin WithoutParams
        BY <3>4 DEF Methods, WithoutParams, Args
      <3> QED
        BY <2>1, <2>2, <2>4, <3>2, <3>3, <3>4, <3>5, BeginsKeepsInv
    <2> QED
      BY <2>5, <2>6, <2>7
  <1>6. ASSUME NEW req \in RsRequests, AppCalls(c, req) PROVE RsInv'
    <2>1. /\ cl.at = "ready" /\ RpcBegins(c, req, "app", cl)
          /\ UNCHANGED <<rsSigner, rsAt, rsInbox, rsSession, rsThread, rsParsed>>
      BY <1>1, <1>6 DEF AppCalls
    <2>2. rsInbox' = rsInbox /\ DOMAIN rsInbox' = RsClients
      BY <1>2, <2>1 DEF Shape
    <2>3. req.method \in Methods /\ req.arg \in Args /\ (req.method \in WithoutParams => req.arg = NoText)
      BY RequestsAssumption DEF Args
    <2>4. cl.live
      BY <1>3, <2>1 DEF SetUpOk
    <2> QED
      BY <1>2, <1>3, <2>1, <2>2, <2>3, <2>4, BeginsKeepsInv
  <1> QED
    BY <1>4, <1>5, <1>6

\* What a signer sends to a client.
LEMMA RespondsIs ==
  ASSUME Shape, NEW c \in RsClients, NEW req, Responds(c, req)
  PROVE  /\ DOMAIN rsInbox' = RsClients /\ \A d \in RsClients \ {c} : rsInbox'[d] = rsInbox[d]
         /\ rsInbox[c] \subseteq rsInbox'[c]
         /\ \A resp \in rsInbox'[c] \ rsInbox[c] :
               (resp.id = req.id /\ resp.kind = "auth_url") \/ resp = AnswerTo(rsSigner, req)
         /\ rsClient[c].live /\ AnswerBy(rsSigner, req).kind # "silence" => AnswerTo(rsSigner, req) \in rsInbox'[c]
  <1>1. /\ \A resp \in Responses(req) :
               (resp.id = req.id /\ resp.kind = "auth_url") \/ resp = AnswerTo(rsSigner, req)
        /\ AnswerBy(rsSigner, req).kind # "silence" => AnswerTo(rsSigner, req) \in Responses(req)
    BY DEF Responses, AnswerOf, AnswerBy, AnswerTo
  <1>2. CASE rsInbox' = [rsInbox EXCEPT ![c] = @ \cup Responses(req)]
    BY <1>1, <1>2 DEF Shape
  <1>3. CASE ~rsClient[c].live /\ rsInbox' = rsInbox
    BY <1>3 DEF Shape
  <1> QED
    BY <1>2, <1>3 DEF Responds

\* A step of the signer in its conversation with the client c.
LEMMA SignerStep ==
  ASSUME RsInv, NEW c \in RsClients, Shape', HandsInv', UNCHANGED <<rsSigner, rsClient, rsCalls>>,
         \A d \in RsClients \ {c} : /\ rsInbox'[d] = rsInbox[d] /\ rsSession'[d] = rsSession[d]
                                    /\ rsParsed'[d] = rsParsed[d] /\ Hands(d)' = Hands(d),
         Talk(rsSigner, rsClient[c], rsCalls[c], rsInbox'[c], rsSession'[c], rsParsed'[c], Hands(c)')
  PROVE  RsInv'
  <1>1. TalkOf(c)'
    BY DEF TalkOf
  <1>2. ASSUME NEW d \in RsClients \ {c} PROVE TalkOf(d)'
    BY <1>2, TalkStays DEF RsInv
  <1> QED
    BY <1>1, <1>2 DEF RsInv

\* What the ring has was served, so a repeated request may be dropped.
LEMMA RingIsKnown ==
  ASSUME NEW ses \in SessionRec, NEW done, NEW id, RingOk(ses, done), Repeated(ses, id), id # NoId
  PROVE  Known(done, id)
  <1>1. ses.ring \in [0..RingSize - 1 -> RpcIds]
    BY DEF SessionRec
  <1>2. PICK x \in 0..RingSize - 1 : ses.ring[x] = id
    BY <1>1 DEF Repeated, Range
  <1> QED
    BY <1>2 DEF RingOk

\* A request is served, with the answer under way.
LEMMA ServesTalk ==
  ASSUME RsInv, NEW c \in RsClients, NEW k \in 1..Len(rsCalls[c]), NEW ses \in SessionRec,
         ses.ring = rsSession[c].ring, ses.serial = rsSession[c].serial, ~Repeated(ses, rsCalls[c][k].id),
         Responds(c, rsCalls[c][k]), Hands(c) \ {k} \subseteq Hands(c)'
  PROVE  /\ Talk(rsSigner, rsClient[c], rsCalls[c], rsInbox'[c], Remember(ses, rsCalls[c][k].id),
                  Append(rsParsed[c], rsCalls[c][k].id), Hands(c)')
         /\ DOMAIN rsInbox' = RsClients /\ \A d \in RsClients \ {c} : rsInbox'[d] = rsInbox[d]
  <1>1. Shape /\ Talk(rsSigner, rsClient[c], rsCalls[c], rsInbox[c], rsSession[c], rsParsed[c], Hands(c))
    BY DEF RsInv, TalkOf
  <1>2. rsCalls[c] \in Seq(CallRec) /\ CallsOk(rsClient[c], rsCalls[c])
    BY <1>1 DEF Talk, TalkTypes
  <1>3. rsCalls[c][k] \in CallRec /\ rsCalls[c][k].id # NoId
    BY <1>2, IdsDiffer
  <1>4. rsCalls[c][k].method \in WithoutParams => rsCalls[c][k].arg = NoText
    BY <1>2 DEF CallsOk
  <1>5. PICK call : call = rsCalls[c][k]
    OBVIOUS
  <1>6. /\ DOMAIN rsInbox' = RsClients /\ \A d \in RsClients \ {c} : rsInbox'[d] = rsInbox[d]
        /\ rsInbox[c] \subseteq rsInbox'[c]
        /\ \A resp \in rsInbox'[c] \ rsInbox[c] :
              (resp.id = call.id /\ resp.kind = "auth_url") \/ resp = AnswerTo(rsSigner, call)
        /\ rsClient[c].live /\ AnswerBy(rsSigner, call).kind # "silence" => AnswerTo(rsSigner, call) \in rsInbox'[c]
    BY <1>1, <1>5, RespondsIs
  <1>7. rsClient[c].live /\ ~SilentlyDropped(call) => AnswerTo(rsSigner, call) \in rsInbox'[c]
    BY <1>3, <1>4, <1>5, <1>6, AnswersAreOwn
  <1>8. Talk(rsSigner, rsClient[c], rsCalls[c], rsInbox[c], ses, rsParsed[c], Hands(c))
    BY <1>1, TalkMeets
  <1>9. /\ \A resp \in rsInbox'[c] \ rsInbox[c] :
              (resp.id = rsCalls[c][k].id /\ resp.kind = "auth_url") \/ resp = AnswerTo(rsSigner, rsCalls[c][k])
        /\ rsClient[c].live /\ ~SilentlyDropped(rsCalls[c][k]) => AnswerTo(rsSigner, rsCalls[c][k]) \in rsInbox'[c]
    BY <1>5, <1>6, <1>7
  <1>10. Talk(rsSigner, rsClient[c], rsCalls[c], rsInbox'[c], Remember(ses, rsCalls[c][k].id),
              Append(rsParsed[c], rsCalls[c][k].id), Hands(c)')
    BY <1>6, <1>8, <1>9, TalkServes
  <1> QED
    BY <1>6, <1>10

LEMMA MadeIs ==
  ASSUME NEW ses \in SessionRec
  PROVE  LET new == [ses EXCEPT !.made = TRUE]
         IN  new \in SessionRec /\ new.ring = ses.ring /\ new.serial = ses.serial
  BY DEF SessionRec

\* DynamicSigner looks up, remembers and answers in one step.
LEMMA DynamicKeepsInv ==
  ASSUME RsInv, NEW copy \in rsAt, DynamicHandles(copy)
  PROVE  RsInv'
  <1>1. Shape /\ HandsInv
    BY DEF RsInv
  <1>2. PICK c \in RsClients, k \in Nat, r \in RsRelays : copy = [c |-> c, k |-> k, relay |-> r] /\ k \in 1..Len(rsCalls[c])
    BY <1>1 DEF HandsInv
  <1>3. /\ copy.c = c /\ copy.k = k /\ rsSigner # "static" /\ rsAt' = rsAt \ {copy}
        /\ UNCHANGED <<rsSigner, rsClient, rsCalls, rsThread, rsFaults>>
    BY <1>2 DEF DynamicHandles
  <1>4. Talk(rsSigner, rsClient[c], rsCalls[c], rsInbox[c], rsSession[c], rsParsed[c], Hands(c))
    BY DEF RsInv, TalkOf
  <1>5. /\ rsSession[c] \in SessionRec /\ RingOk(rsSession[c], rsParsed[c]) /\ rsCalls[c] \in Seq(CallRec)
        /\ CallsOk(rsClient[c], rsCalls[c])
    BY <1>4 DEF Talk, TalkTypes
  <1>6. PICK ses : ses = [rsSession[c] EXCEPT !.made = TRUE]
    OBVIOUS
  <1>7. ses \in SessionRec /\ ses.ring = rsSession[c].ring /\ ses.serial = rsSession[c].serial
    BY <1>5, <1>6, MadeIs
  <1>8. PICK id : id = rsCalls[c][k].id
    OBVIOUS
  <1>9. id # NoId
    BY <1>2, <1>5, <1>8, IdsDiffer
  <1>10. Hands(c) \ {k} \subseteq Hands(c)'
    <2>1. \A j, s : j # k /\ [c |-> c, k |-> j, relay |-> s] \in rsAt => [c |-> c, k |-> j, relay |-> s] \in rsAt'
      BY <1>2, <1>3
    <2> QED
      BY <1>3, <2>1 DEF Hands, Holds
  <1>11. \A d \in RsClients \ {c} : Hands(d)' = Hands(d)
    <2> TAKE d \in RsClients \ {c}
    <2>1. \A j, s : [c |-> d, k |-> j, relay |-> s] \in rsAt' <=> [c |-> d, k |-> j, relay |-> s] \in rsAt
      BY <1>2, <1>3
    <2> QED
      BY <1>3, <2>1 DEF Hands, Holds
  <1>12. HandsInv'
    <2>1. \A t \in Threads46 : rsThread[t].at = "idle"
      BY <1>1, <1>3 DEF HandsInv
    <2> QED
      BY <1>1, <1>3, <2>1 DEF HandsInv
  <1>13. CASE Repeated(ses, id)
    <2>1. rsSession' = [rsSession EXCEPT ![c] = ses] /\ rsInbox' = rsInbox /\ rsParsed' = rsParsed
      BY <1>2, <1>3, <1>6, <1>8, <1>13 DEF DynamicHandles, Call46
    <2>2. Known(rsParsed[c], id)
      BY <1>5, <1>7, <1>9, <1>13, RingIsKnown DEF RingOk
    <2>3. Talk(rsSigner, rsClient[c], rsCalls[c], rsInbox[c], ses, rsParsed[c], Hands(c))
      BY <1>4, <1>7, TalkMeets
    <2>4. Talk(rsSigner, rsClient[c], rsCalls[c], rsInbox[c], ses, rsParsed[c], Hands(c)')
      BY <1>8, <1>10, <2>2, <2>3, TalkLetsGo
    <2>5. Shape' /\ rsSession'[c] = ses /\ \A d \in RsClients \ {c} : rsSession'[d] = rsSession[d]
      BY <1>1, <1>3, <2>1 DEF Shape
    <2> QED
      BY <1>3, <1>11, <1>12, <2>1, <2>4, <2>5, SignerStep
  <1>14. CASE ~Repeated(ses, id)
    <2>1. /\ rsSession' = [rsSession EXCEPT ![c] = Remember(ses, id)]
          /\ rsParsed' = [rsParsed EXCEPT ![c] = Append(rsParsed[c], id)] /\ Responds(c, rsCalls[c][k])
      BY <1>2, <1>3, <1>6, <1>8, <1>14 DEF DynamicHandles, Call46
    <2>2. /\ Talk(rsSigner, rsClient[c], rsCalls[c], rsInbox'[c], Remember(ses, id), Append(rsParsed[c], id), Hands(c)')
          /\ DOMAIN rsInbox' = RsClients /\ \A d \in RsClients \ {c} : rsInbox'[d] = rsInbox[d]
      BY <1>2, <1>7, <1>8, <1>10, <1>14, <2>1, ServesTalk
    <2>3. /\ Shape' /\ rsSession'[c] = Remember(ses, id) /\ rsParsed'[c] = Append(rsParsed[c], id)
          /\ \A d \in RsClients \ {c} : rsSession'[d] = rsSession[d] /\ rsParsed'[d] = rsParsed[d]
      BY <1>1, <1>3, <2>1, <2>2 DEF Shape
    <2>4. Talk(rsSigner, rsClient[c], rsCalls[c], rsInbox'[c], rsSession'[c], rsParsed'[c], Hands(c)')
      BY <2>2, <2>3
    <2>5. \A d \in RsClients \ {c} : /\ rsInbox'[d] = rsInbox[d] /\ rsSession'[d] = rsSession[d]
                                     /\ rsParsed'[d] = rsParsed[d] /\ Hands(d)' = Hands(d)
      BY <1>11, <2>2, <2>3
    <2> QED
      BY <1>3, <1>12, <2>3, <2>4, <2>5, SignerStep
  <1> QED
    BY <1>13, <1>14

\* A goroutine of StaticKeySigner takes a request in its hands.
LEMMA FindsSessionKeepsInv ==
  ASSUME RsInv, NEW copy \in rsAt, NEW t \in Threads46, GetOrCreateSession(t, copy)
  PROVE  RsInv'
  <1>1. Shape /\ HandsInv
    BY DEF RsInv
  <1>2. PICK c \in RsClients, k \in Nat, r \in RsRelays : copy = [c |-> c, k |-> k, relay |-> r] /\ k \in 1..Len(rsCalls[c])
    BY <1>1 DEF HandsInv
  <1>3. /\ rsSigner = "static" /\ rsThread[t].at = "idle" /\ rsAt' = rsAt \ {copy}
        /\ rsSession' = [rsSession EXCEPT ![c].made = TRUE]
        /\ rsThread' = [rsThread EXCEPT ![t] = [at |-> "parse", c |-> c, k |-> k]]
        /\ UNCHANGED <<rsSigner, rsClient, rsCalls, rsInbox, rsParsed>>
    BY <1>2 DEF GetOrCreateSession
  <1>4. Talk(rsSigner, rsClient[c], rsCalls[c], rsInbox[c], rsSession[c], rsParsed[c], Hands(c))
    BY DEF RsInv, TalkOf
  <1>5. rsSession[c] \in SessionRec
    BY <1>4 DEF Talk, TalkTypes
  <1>6. PICK ses : ses = [rsSession[c] EXCEPT !.made = TRUE]
    OBVIOUS
  <1>7. ses \in SessionRec /\ ses.ring = rsSession[c].ring /\ ses.serial = rsSession[c].serial
    BY <1>5, <1>6, MadeIs
  <1>8. /\ rsThread' \in [Threads46 -> ThreadRec] /\ rsThread'[t] = [at |-> "parse", c |-> c, k |-> k]
        /\ \A u \in Threads46 \ {t} : rsThread'[u] = rsThread[u]
    <2>1. [at |-> "parse", c |-> c, k |-> k] \in ThreadRec
      BY DEF ThreadRec
    <2> QED
      BY <1>1, <1>3, <2>1 DEF HandsInv
  <1>9. /\ rsSession'[c] = ses /\ DOMAIN rsSession' = RsClients
        /\ \A d \in RsClients \ {c} : rsSession'[d] = rsSession[d]
    BY <1>1, <1>3, <1>6 DEF Shape
  <1>10. \A d \in RsClients : rsSession'[d].ring = rsSession[d].ring
    BY <1>7, <1>9
  <1>11. HandsInv'
    <2>1. \A u \in Threads46 : rsThread'[u].at # "idle" =>
             /\ rsSigner' = "static" /\ rsThread'[u].c \in RsClients
             /\ rsThread'[u].k \in 1..Len(rsCalls'[rsThread'[u].c])
      BY <1>1, <1>2, <1>3, <1>8 DEF HandsInv
    <2>2. ASSUME NEW u \in Threads46, rsThread'[u].at = "remember"
          PROVE  ~Repeated(rsSession'[rsThread'[u].c], rsCalls'[rsThread'[u].c][rsThread'[u].k].id)
      <3>1. u # t /\ rsThread'[u] = rsThread[u]
        BY <1>8, <2>2
      <3>2. rsThread[u].at = "remember" /\ rsThread[u].c \in RsClients
        BY <1>1, <2>2, <3>1 DEF HandsInv
      <3>3. ~Repeated(rsSession[rsThread[u].c], rsCalls[rsThread[u].c][rsThread[u].k].id)
        BY <1>1, <3>2 DEF HandsInv
      <3> QED
        BY <1>3, <1>10, <3>1, <3>2, <3>3 DEF Repeated
    <2>3. /\ rsAt' \subseteq [c : RsClients, k : Nat, relay : RsRelays]
          /\ \A cp \in rsAt' : cp.k \in 1..Len(rsCalls'[cp.c])
      BY <1>1, <1>3 DEF HandsInv
    <2> QED
      BY <1>8, <2>1, <2>2, <2>3 DEF HandsInv
  <1>12. Hands(c) \ {k} \subseteq Hands(c)'
    <2>1. \A j, s : j # k /\ [c |-> c, k |-> j, relay |-> s] \in rsAt => [c |-> c, k |-> j, relay |-> s] \in rsAt'
      BY <1>2, <1>3
    <2>2. \A u, j : u \in Threads46 /\ Holds(u, c, j) => Holds(u, c, j)'
      BY <1>3, <1>8 DEF Holds
    <2> QED
      BY <2>1, <2>2 DEF Hands
  <1>13. k \in Hands(c)'
    <2>1. Holds(t, c, k)'
      BY <1>8 DEF Holds
    <2> QED
      BY <1>2, <2>1 DEF Hands
  <1>14. ASSUME NEW d \in RsClients \ {c} PROVE Hands(d)' = Hands(d)
    <2>1. \A j, s : [c |-> d, k |-> j, relay |-> s] \in rsAt' <=> [c |-> d, k |-> j, relay |-> s] \in rsAt
      BY <1>2, <1>3, <1>14
    <2>2. \A u, j : u \in Threads46 => (Holds(u, d, j)' <=> Holds(u, d, j))
      BY <1>3, <1>8, <1>14 DEF Holds
    <2> QED
      BY <2>1, <2>2 DEF Hands
  <1>15. Talk(rsSigner, rsClient[c], rsCalls[c], rsInbox[c], ses, rsParsed[c], Hands(c))
    BY <1>4, <1>7, TalkMeets
  <1>16. Talk(rsSigner, rsClient[c], rsCalls[c], rsInbox[c], ses, rsParsed[c], Hands(c)')
    BY <1>12, <1>13, <1>15, TalkLetsGo
  <1>17. Talk(rsSigner, rsClient[c], rsCalls[c], rsInbox'[c], rsSession'[c], rsParsed'[c], Hands(c)')
    BY <1>3, <1>9, <1>16
  <1>18. Shape'
    BY <1>1, <1>3, <1>9 DEF Shape
  <1>19. \A d \in RsClients \ {c} : /\ rsInbox'[d] = rsInbox[d] /\ rsSession'[d] = rsSession[d]
                                     /\ rsParsed'[d] = rsParsed[d] /\ Hands(d)' = Hands(d)
    BY <1>3, <1>9, <1>14
  <1> QED
    BY <1>3, <1>11, <1>17, <1>18, <1>19, SignerStep

\* A thread is done with the request in its hands.
LEMMA ThreadLetsGo ==
  ASSUME HandsInv, NEW t \in Threads46, NEW c \in RsClients, NEW k \in Nat, rsThread[t].c = c, rsThread[t].k = k,
         rsThread[t].at # "idle", rsAt' = rsAt, rsThread' = [rsThread EXCEPT ![t] = NoThread]
  PROVE  /\ rsThread' \in [Threads46 -> ThreadRec] /\ rsThread'[t].at = "idle"
         /\ \A u \in Threads46 \ {t} : rsThread'[u] = rsThread[u]
         /\ Hands(c) \ {k} \subseteq Hands(c)' /\ \A d \in RsClients \ {c} : Hands(d)' = Hands(d)
  <1>1. /\ rsThread' \in [Threads46 -> ThreadRec] /\ rsThread'[t].at = "idle"
        /\ \A u \in Threads46 \ {t} : rsThread'[u] = rsThread[u]
    <2>1. NoThread \in ThreadRec /\ NoThread.at = "idle"
      BY DEF NoThread, ThreadRec
    <2> QED
      BY <2>1 DEF HandsInv
  <1>2. Hands(c) \ {k} \subseteq Hands(c)'
    <2>1. \A u, j : u \in Threads46 /\ j # k /\ Holds(u, c, j) => Holds(u, c, j)'
      BY <1>1 DEF Holds
    <2> QED
      BY <2>1 DEF Hands
  <1>3. ASSUME NEW d \in RsClients \ {c} PROVE Hands(d)' = Hands(d)
    <2>1. \A u, j : u \in Threads46 => (Holds(u, d, j)' <=> Holds(u, d, j))
      BY <1>1, <1>3 DEF Holds
    <2> QED
      BY <2>1 DEF Hands
  <1> QED
    BY <1>1, <1>2, <1>3

\* It drops a request that the ring has.
LEMMA ParsesKeepsInv ==
  ASSUME RsInv, NEW t \in Threads46, StaticParses(t)
  PROVE  RsInv'
  <1>1. Shape /\ HandsInv
    BY DEF RsInv
  <1>2. PICK c, k : c = rsThread[t].c /\ k = rsThread[t].k
    OBVIOUS
  <1>3. rsThread[t].at = "parse" /\ UNCHANGED <<rsSigner, rsClient, rsCalls, rsAt, rsInbox, rsSession, rsParsed>>
    BY DEF StaticParses
  <1>4. c \in RsClients /\ k \in 1..Len(rsCalls[c]) /\ k \in Nat /\ rsSigner = "static"
    BY <1>1, <1>2, <1>3 DEF HandsInv, ThreadRec
  <1>5. Talk(rsSigner, rsClient[c], rsCalls[c], rsInbox[c], rsSession[c], rsParsed[c], Hands(c))
    BY <1>4 DEF RsInv, TalkOf
  <1>6. /\ rsSession[c] \in SessionRec /\ RingOk(rsSession[c], rsParsed[c]) /\ rsCalls[c] \in Seq(CallRec)
        /\ CallsOk(rsClient[c], rsCalls[c])
    BY <1>5 DEF Talk, TalkTypes
  <1>7. rsCalls[c][k].id # NoId
    BY <1>4, <1>6, IdsDiffer
  <1>8. Shape'
    BY <1>1, <1>3 DEF Shape
  <1>9. CASE Repeated(rsSession[c], rsCalls[c][k].id)
    <2>1. rsThread' = [rsThread EXCEPT ![t] = NoThread]
      BY <1>2, <1>9 DEF StaticParses, Call46
    <2>2. /\ rsThread' \in [Threads46 -> ThreadRec] /\ rsThread'[t].at = "idle"
          /\ \A u \in Threads46 \ {t} : rsThread'[u] = rsThread[u]
          /\ Hands(c) \ {k} \subseteq Hands(c)' /\ \A d \in RsClients \ {c} : Hands(d)' = Hands(d)
      BY <1>1, <1>2, <1>3, <1>4, <2>1, ThreadLetsGo
    <2>3. HandsInv'
      BY <1>1, <1>3, <2>2 DEF HandsInv
    <2>4. Known(rsParsed[c], rsCalls[c][k].id)
      BY <1>6, <1>7, <1>9, RingIsKnown
    <2>5. Talk(rsSigner, rsClient[c], rsCalls[c], rsInbox[c], rsSession[c], rsParsed[c], Hands(c)')
      BY <1>5, <2>2, <2>4, TalkLetsGo
    <2>6. Talk(rsSigner, rsClient[c], rsCalls[c], rsInbox'[c], rsSession'[c], rsParsed'[c], Hands(c)')
      BY <1>3, <2>5
    <2>7. \A d \in RsClients \ {c} : /\ rsInbox'[d] = rsInbox[d] /\ rsSession'[d] = rsSession[d]
                                     /\ rsParsed'[d] = rsParsed[d] /\ Hands(d)' = Hands(d)
      BY <1>3, <2>2
    <2> QED
      BY <1>3, <1>4, <1>8, <2>3, <2>6, <2>7, SignerStep
  <1>10. CASE ~Repeated(rsSession[c], rsCalls[c][k].id)
    <2>1. rsThread' = [rsThread EXCEPT ![t] = [rsThread[t] EXCEPT !.at = "remember"]]
      BY <1>2, <1>10 DEF StaticParses, Call46
    <2>2. PICK th : th = [rsThread[t] EXCEPT !.at = "remember"]
      OBVIOUS
    <2>3. rsThread \in [Threads46 -> ThreadRec] /\ rsThread[t] \in ThreadRec
      BY <1>1 DEF HandsInv
    <2>4. th \in ThreadRec /\ th.at = "remember" /\ th.c = c /\ th.k = k
      BY <1>2, <2>2, <2>3 DEF ThreadRec
    <2>5. /\ rsThread' \in [Threads46 -> ThreadRec] /\ rsThread'[t] = th
          /\ \A u \in Threads46 \ {t} : rsThread'[u] = rsThread[u]
      BY <2>1, <2>2, <2>3, <2>4
    <2>6. HandsInv'
      <3>1. \A u \in Threads46 : rsThread'[u].at # "idle" =>
               /\ rsSigner' = "static" /\ rsThread'[u].c \in RsClients
               /\ rsThread'[u].k \in 1..Len(rsCalls'[rsThread'[u].c])
        BY <1>1, <1>3, <1>4, <2>4, <2>5 DEF HandsInv
      <3>2. \A u \in Threads46 : rsThread'[u].at = "remember" =>
               ~Repeated(rsSession'[rsThread'[u].c], rsCalls'[rsThread'[u].c][rsThread'[u].k].id)
        BY <1>1, <1>3, <1>10, <2>4, <2>5 DEF HandsInv
      <3>3. /\ rsAt' \subseteq [c : RsClients, k : Nat, relay : RsRelays]
            /\ \A cp \in rsAt' : cp.k \in 1..Len(rsCalls'[cp.c])
        BY <1>1, <1>3 DEF HandsInv
      <3> QED
        BY <2>5, <3>1, <3>2, <3>3 DEF HandsInv
    <2>7. ASSUME NEW d \in RsClients PROVE Hands(d)' = Hands(d)
      <3>1. \A u, j : u \in Threads46 => (Holds(u, d, j)' <=> Holds(u, d, j))
        BY <1>2, <1>3, <2>4, <2>5 DEF Holds
      <3> QED
        BY <1>3, <3>1 DEF Hands
    <2>8. Talk(rsSigner, rsClient[c], rsCalls[c], rsInbox'[c], rsSession'[c], rsParsed'[c], Hands(c)')
      BY <1>3, <1>4, <1>5, <2>7
    <2>9. \A d \in RsClients \ {c} : /\ rsInbox'[d] = rsInbox[d] /\ rsSession'[d] = rsSession[d]
                                     /\ rsParsed'[d] = rsParsed[d] /\ Hands(d)' = Hands(d)
      BY <1>3, <2>7
    <2> QED
      BY <1>3, <1>4, <1>8, <2>6, <2>8, <2>9, SignerStep
  <1> QED
    BY <1>9, <1>10

\* The one goroutine of a StaticKeySigner remembers and answers what it has looked up.
LEMMA StaticKeepsInv ==
  ASSUME RsInv, HandlerThreads = 1, NEW t \in Threads46, StaticHandles(t)
  PROVE  RsInv'
  <1>1. Shape /\ HandsInv
    BY DEF RsInv
  <1>2. PICK c, k : c = rsThread[t].c /\ k = rsThread[t].k
    OBVIOUS
  <1>3. PICK id : id = rsCalls[c][k].id
    OBVIOUS
  <1>4. /\ rsThread[t].at = "remember" /\ UNCHANGED <<rsSigner, rsClient, rsCalls, rsAt>>
        /\ rsThread' = [rsThread EXCEPT ![t] = NoThread]
        /\ rsSession' = [rsSession EXCEPT ![c] = Remember(rsSession[c], id)]
        /\ rsParsed' = [rsParsed EXCEPT ![c] = Append(rsParsed[c], id)] /\ Responds(c, rsCalls[c][k])
    BY <1>2, <1>3 DEF StaticHandles, Call46
  <1>5. /\ c \in RsClients /\ k \in 1..Len(rsCalls[c]) /\ k \in Nat
        /\ ~Repeated(rsSession[c], id)
    BY <1>1, <1>2, <1>3, <1>4 DEF HandsInv, ThreadRec
  <1>6. Talk(rsSigner, rsClient[c], rsCalls[c], rsInbox[c], rsSession[c], rsParsed[c], Hands(c))
    BY <1>5 DEF RsInv, TalkOf
  <1>7. rsSession[c] \in SessionRec
    BY <1>6 DEF Talk, TalkTypes
  <1>8. /\ rsThread' \in [Threads46 -> ThreadRec] /\ rsThread'[t].at = "idle"
        /\ \A u \in Threads46 \ {t} : rsThread'[u] = rsThread[u]
        /\ Hands(c) \ {k} \subseteq Hands(c)' /\ \A d \in RsClients \ {c} : Hands(d)' = Hands(d)
    BY <1>1, <1>2, <1>4, <1>5, ThreadLetsGo
  <1>9. HandsInv'
    <2>1. \A u \in Threads46 : rsThread'[u].at = "idle"
      BY <1>8 DEF Threads46
    <2> QED
      BY <1>1, <1>4, <1>8, <2>1 DEF HandsInv
  <1>10. /\ Talk(rsSigner, rsClient[c], rsCalls[c], rsInbox'[c], Remember(rsSession[c], id),
                 Append(rsParsed[c], id), Hands(c)')
         /\ DOMAIN rsInbox' = RsClients /\ \A d \in RsClients \ {c} : rsInbox'[d] = rsInbox[d]
    BY <1>3, <1>4, <1>5, <1>7, <1>8, ServesTalk
  <1>11. /\ Shape' /\ rsSession'[c] = Remember(rsSession[c], id) /\ rsParsed'[c] = Append(rsParsed[c], id)
         /\ \A d \in RsClients \ {c} : rsSession'[d] = rsSession[d] /\ rsParsed'[d] = rsParsed[d]
    BY <1>1, <1>4, <1>5, <1>10 DEF Shape
  <1>12. Talk(rsSigner, rsClient[c], rsCalls[c], rsInbox'[c], rsSession'[c], rsParsed'[c], Hands(c)')
    BY <1>10, <1>11
  <1>13. \A d \in RsClients \ {c} : /\ rsInbox'[d] = rsInbox[d] /\ rsSession'[d] = rsSession[d]
                                     /\ rsParsed'[d] = rsParsed[d] /\ Hands(d)' = Hands(d)
    BY <1>8, <1>10, <1>11
  <1> QED
    BY <1>4, <1>5, <1>9, <1>11, <1>12, <1>13, SignerStep

\* The request that the signer imagines has an id of its own.
LEMMA ImaginesKeepsInv ==
  ASSUME RsInv, NEW c \in RsClients, HandlesNostrConnectURI(c)
  PROVE  RsInv'
  <1>1. Shape /\ HandsInv
    BY DEF RsInv
  <1>2. PICK ses : ses = [rsSession[c] EXCEPT !.made = TRUE]
    OBVIOUS
  <1>3. PICK req : /\ req.id = Imagined /\ Responds(c, req)
    <2>1. PICK secret \in {"good", "other", "refused"} :
               Responds(c, [id |-> Imagined, method |-> "imagined-nostrconnect", arg |-> secret])
      BY DEF HandlesNostrConnectURI, Imagined
    <2> QED
      BY <2>1
  <1>4. /\ rsClient[c].at = "listening" /\ ~Repeated(rsSession[c], Imagined)
        /\ rsSession' = [rsSession EXCEPT ![c] = Remember(ses, Imagined)]
        /\ rsParsed' = [rsParsed EXCEPT ![c] = Append(rsParsed[c], Imagined)]
        /\ UNCHANGED <<rsSigner, rsClient, rsCalls, rsAt, rsThread>>
    BY <1>2 DEF HandlesNostrConnectURI, Imagined
  <1>5. Talk(rsSigner, rsClient[c], rsCalls[c], rsInbox[c], rsSession[c], rsParsed[c], Hands(c))
    BY DEF RsInv, TalkOf
  <1>6. rsSession[c] \in SessionRec /\ rsCalls[c] = <<>>
    BY <1>4, <1>5 DEF Talk, TalkTypes, SetUpOk
  <1>7. ses \in SessionRec /\ ses.ring = rsSession[c].ring /\ ses.serial = rsSession[c].serial
    BY <1>2, <1>6, MadeIs
  <1>8. /\ DOMAIN rsInbox' = RsClients /\ \A d \in RsClients \ {c} : rsInbox'[d] = rsInbox[d]
        /\ rsInbox[c] \subseteq rsInbox'[c]
        /\ \A resp \in rsInbox'[c] \ rsInbox[c] :
               (resp.id = req.id /\ resp.kind = "auth_url") \/ resp = AnswerTo(rsSigner, req)
    BY <1>1, <1>3, RespondsIs
  <1>9. AnswerTo(rsSigner, req).id \in {Imagined, NoId}
    BY <1>3 DEF AnswerTo, MakeResponse
  <1>10. \A resp \in rsInbox'[c] \ rsInbox[c] : resp.id \in {Imagined, NoId}
    BY <1>3, <1>8, <1>9
  <1>11. Hands(c)' = Hands(c) /\ \A d \in RsClients \ {c} : Hands(d)' = Hands(d)
    BY <1>4, HandsStay
  <1>12. Talk(rsSigner, rsClient[c], <<>>, rsInbox[c], ses, rsParsed[c], Hands(c))
    <2>1. Talk(rsSigner, rsClient[c], rsCalls[c], rsInbox[c], ses, rsParsed[c], Hands(c))
      BY <1>5, <1>7, TalkMeets
    <2> QED
      BY <1>6, <2>1
  <1>13. ~Repeated(ses, Imagined)
    BY <1>4, <1>7 DEF Repeated
  <1>14. Talk(rsSigner, rsClient[c], <<>>, rsInbox'[c], Remember(ses, Imagined), Append(rsParsed[c], Imagined), Hands(c))
    BY <1>8, <1>10, <1>12, <1>13, TalkImagines
  <1>15. /\ Shape' /\ rsSession'[c] = Remember(ses, Imagined) /\ rsParsed'[c] = Append(rsParsed[c], Imagined)
         /\ \A d \in RsClients \ {c} : rsSession'[d] = rsSession[d] /\ rsParsed'[d] = rsParsed[d]
    BY <1>1, <1>4, <1>8 DEF Shape
  <1>16. Talk(rsSigner, rsClient[c], rsCalls[c], rsInbox'[c], rsSession'[c], rsParsed'[c], Hands(c)')
    BY <1>6, <1>11, <1>14, <1>15
  <1>17. \A d \in RsClients \ {c} : /\ rsInbox'[d] = rsInbox[d] /\ rsSession'[d] = rsSession[d]
                                     /\ rsParsed'[d] = rsParsed[d] /\ Hands(d)' = Hands(d)
    BY <1>8, <1>11, <1>15
  <1>18. HandsInv'
    <2>1. \A t \in Threads46 : rsThread[t].at # "idle" => rsThread[t].c # c
      <3>1. Len(rsCalls[c]) = 0
        BY <1>6
      <3> QED
        BY <1>1, <3>1 DEF HandsInv
    <2>2. \A t \in Threads46 : rsThread'[t].at = "remember" =>
             ~Repeated(rsSession'[rsThread'[t].c], rsCalls'[rsThread'[t].c][rsThread'[t].k].id)
      BY <1>1, <1>4, <1>15, <2>1 DEF HandsInv
    <2>3. \A t \in Threads46 : rsThread'[t].at # "idle" =>
          rsSigner' = "static" /\ rsThread'[t].c \in RsClients /\ rsThread'[t].k \in 1..Len(rsCalls'[rsThread'[t].c])
      BY <1>1, <1>4 DEF HandsInv
    <2> QED
      BY <1>1, <1>4, <2>2, <2>3 DEF HandsInv
  <1> QED
    BY <1>4, <1>15, <1>16, <1>17, <1>18, SignerStep

LEMMA SignerInit ==
  ASSUME RemoteSignerInit
  PROVE  RsInv
  <1>1. RingSize \in Nat \ {0} /\ MaxRpcs \in Nat
    BY RemoteSignerBounds
  <1>2. NoId \in RpcIds /\ NoLoop.resp \in Resp /\ NoLoop.call = 0 /\ NoLoop \in [call : Nat, resp : Resp]
    <2>1. NoId \in RpcIds
      BY DEF RpcIds, NoId, MethodNames
    <2>2. Nothing \in Values
      BY DEF Nothing, Values, MethodNames, Args
    <2> QED
      BY <2>1, <2>2 DEF NoLoop, Resp
  <1>3. NewSession \in SessionRec /\ NewSession.serial = 0
    BY <1>2 DEF NewSession, SessionRec
  <1>4. <<>> \in Listeners46 /\ DOMAIN <<>> = {}
    <2>1. <<>> \in [{} -> Nat]
      OBVIOUS
    <2>2. {} \in SUBSET RpcIds
      OBVIOUS
    <2> QED
      BY <2>1, <2>2 DEF Listeners46
  <1>5. 1..Len(<<>>) = {} /\ Len(<<>>) = 0
    OBVIOUS
  <1>6. Shape
    BY DEF RemoteSignerInit, Shape
  <1>7. HandsInv
    <2>1. NoThread \in ThreadRec /\ NoThread.at = "idle"
      BY DEF NoThread, ThreadRec
    <2> QED
      BY <2>1 DEF RemoteSignerInit, HandsInv
  <1>8. ASSUME NEW c \in RsClients PROVE TalkOf(c)
    <2>1. PICK cl : cl = rsClient[c]
      OBVIOUS
    <2>2. PICK w \in Ways : cl = [way |-> w, at |-> "new", target |-> NoText, serial |-> 0,
            listeners |-> <<>>, loop |-> NoLoop, live |-> FALSE, known |-> FALSE, asked |-> 0]
      BY <2>1 DEF RemoteSignerInit
    <2>3. cl \in ClientRec /\ cl.serial = 0 /\ cl.listeners = <<>> /\ cl.loop = NoLoop /\ cl.at = "new"
      BY <2>2, <1>2, <1>4 DEF ClientRec
    <2>4. rsCalls[c] = <<>> /\ rsInbox[c] = {} /\ rsSession[c] = NewSession /\ rsParsed[c] = <<>>
      BY DEF RemoteSignerInit
    <2>5. TalkTypes(cl, <<>>, NewSession, <<>>)
      BY <1>3, <2>3 DEF TalkTypes
    <2>6. CallsOk(cl, <<>>) /\ SetUpOk(cl, <<>>) /\ PublishOk(cl, <<>>, <<>>, Hands(c)) /\ OutOk(<<>>)
      BY <1>1, <1>5, <2>3 DEF CallsOk, SetUpOk, PublishOk, OutOk
    <2>7. RingOk(NewSession, <<>>)
      <3>1. \A x \in 0..RingSize - 1 : NewSession.ring[x] = NoId
        BY DEF NewSession
      <3> QED
        BY <1>3, <1>5, <3>1 DEF RingOk
    <2>8. AskedOk(rsSigner, <<>>, {}, <<>>) /\ ServedOk(rsSigner, cl, <<>>, {}, <<>>)
      BY <1>5 DEF AskedOk, ServedOk
    <2>9. LoopOk(rsSigner, cl, <<>>)
      BY <1>2, <1>4, <1>5, <2>3 DEF LoopOk
    <2>10. Talk(rsSigner, cl, <<>>, {}, NewSession, <<>>, Hands(c))
      BY <2>5, <2>6, <2>7, <2>8, <2>9 DEF Talk
    <2> QED
      BY <2>1, <2>4, <2>10 DEF TalkOf
  <1> QED
    BY <1>6, <1>7, <1>8 DEF RsInv

LEMMA SignerStutters ==
  ASSUME RsInv, UNCHANGED rsVars
  PROVE  RsInv'
  <1>1. UNCHANGED <<rsSigner, rsClient, rsCalls, rsAt, rsInbox, rsSession, rsThread, rsParsed>>
    BY DEF rsVars
  <1>2. Shape' /\ HandsInv'
    BY <1>1 DEF RsInv, Shape, HandsInv
  <1>3. ASSUME NEW c \in RsClients PROVE TalkOf(c)'
    BY <1>1, HandsStay, TalkStays DEF RsInv
  <1> QED
    BY <1>2, <1>3 DEF RsInv

\* Every step of the system keeps the invariant.
LEMMA RemoteSignerKeepsInv ==
  ASSUME RsInv, HandlerThreads = 1, RemoteSignerNext
  PROVE  RsInv'
  <1>1. ASSUME NEW c \in RsClients, NEW k \in 1..Len(rsCalls[c]), RpcStep(c, k) PROVE RsInv'
    BY <1>1, CallGoesOnKeepsInv, CallEndsKeepsInv DEF RpcStep
  <1>2. ASSUME NEW c \in RsClients, NEW resp, LoopReads(c, resp) \/ NostrConnectReads(c, resp) PROVE RsInv'
    BY <1>2, LoopKeepsInv, NostrConnectKeepsInv
  <1>3. ASSUME NEW c \in RsClients,
               SetUpBegins(c) \/ SubscriptionLives(c) \/ EoseSeen(c) \/ \E req \in RsRequests : AppCalls(c, req)
        PROVE  RsInv'
    BY <1>3, SetUpBeginsKeepsInv, SetUpGoesOnKeepsInv
  <1>4. ASSUME NEW c \in RsClients, HandlesNostrConnectURI(c) PROVE RsInv'
    BY <1>4, ImaginesKeepsInv
  <1>5. ASSUME NEW copy \in rsAt, DynamicHandles(copy) \/ \E t \in Threads46 : GetOrCreateSession(t, copy)
        PROVE  RsInv'
    BY <1>5, DynamicKeepsInv, FindsSessionKeepsInv
  <1>6. ASSUME NEW t \in Threads46, StaticParses(t) \/ StaticHandles(t) PROVE RsInv'
    BY <1>6, ParsesKeepsInv, StaticKeepsInv
  <1> QED
    BY <1>1, <1>2, <1>3, <1>4, <1>5, <1>6 DEF RemoteSignerNext

\* The invariant gives the three properties; nothing in hands and nothing on its way leaves silence.
LEMMA RsInvIsSafe ==
  ASSUME RsInv
  PROVE  RpcsAreAnswered
  <1>1. \A c \in RsClients : /\ Talk(rsSigner, rsClient[c], rsCalls[c], rsInbox[c], rsSession[c], rsParsed[c], Hands(c))
    BY DEF RsInv, TalkOf
  <1>2. ServedOnce
    BY <1>1 DEF Talk, RingOk, ServedOnce
  <1>3. OwnAnswer
    BY <1>1 DEF Talk, OutOk, OfUser, OwnAnswer, Call46
  <1>4. AnsweredAtRest
    <2> SUFFICES ASSUME NEW c \in RsClients, AtRest(c), rsClient[c].target = "signer", NEW k \in 1..Len(rsCalls[c]),
                        rsCalls[c][k].at = "answer", rsCalls[c][k].why # "switch", ~SilentlyDropped(rsCalls[c][k])
                 PROVE  FALSE
      BY DEF AnsweredAtRest, Call46
    <2>1. /\ PublishOk(rsClient[c], rsCalls[c], rsParsed[c], Hands(c))
          /\ ServedOk(rsSigner, rsClient[c], rsCalls[c], rsInbox[c], rsParsed[c])
      BY <1>1 DEF Talk
    <2>2. k \notin Hands(c)
      BY DEF AtRest, Hands, Holds
    <2>3. Known(rsParsed[c], rsCalls[c][k].id)
      BY <2>1, <2>2 DEF PublishOk
    <2>4. rsClient[c].loop.call = k \/ rsInbox[c] # {}
      BY <2>1, <2>3 DEF ServedOk, Pending
    <2>5. rsClient[c].loop.call = 0 /\ rsInbox[c] = {}
      BY DEF AtRest, NoLoop
    <2> QED
      BY <2>4, <2>5
  <1> QED
    BY <1>2, <1>3, <1>4 DEF RpcsAreAnswered

(***************************************************************************)
(* BunkerClient.RPC against DynamicSigner and StaticKeySigner, for any     *)
(* clients, relays, requests and failures: a request that several relays   *)
(* bring is served once while the ring remembers it, an RPC ends only with *)
(* the result of its own request, and when nothing is on its way any more  *)
(* every RPC that reached the signer has returned, unless its answer is    *)
(* silence.  HandleRequest of a StaticKeySigner is called by one           *)
(* goroutine, as its sessions take no lock after getOrCreateSession.       *)
(***************************************************************************)
THEOREM SignerAnswersRpcs ==
  ASSUME HandlerThreads = 1
  PROVE  RemoteSignerInit /\ [][RemoteSignerNext]_rsVars => []RpcsAreAnswered
  <1>1. RemoteSignerInit => RsInv
    BY SignerInit
  <1>2. RsInv /\ [RemoteSignerNext]_rsVars => RsInv'
    BY RemoteSignerKeepsInv, SignerStutters
  <1>3. RsInv => RpcsAreAnswered
    BY RsInvIsSafe
  <1> QED
    BY <1>1, <1>2, <1>3, PTL

-----------------------------------------------------------------------------
(* The invariant *)

IdsOf(issued) == {n.n : n \in issued}
TokensOf(issued) == {[id |-> n.n, mint |-> m, notes |-> {n}, reserved |-> r] : n \in issued, m \in WMints, r \in BOOLEAN}

\* Notes are numbered; there is one of each number.
IssuedOk(issued) ==
    /\ IsFiniteSet(issued)
    /\ \A n \in issued : n.n \in 1..Cardinality(issued)
    /\ \A a, b \in issued : a.n = b.n => a = b

\* A token event and a deletion name one note, by its number.
EventOk(e, issued) ==
    \/ e.kind = "wallet"
    \/ e.kind = "deletion" /\ e = Deletion(e.id) /\ e.id \in IdsOf(issued)
    \/ /\ e.kind = "token" /\ e.mint \in WMints /\ e.deletes \subseteq IdsOf(issued)
       /\ \E n \in issued : e.id = n.n /\ e.notes = {n}

Doomed == {e.id : e \in {x \in wlRelay : x.kind = "deletion"}} \cup UNION {e.deletes : e \in TokenEvents}

RelayInv ==
    /\ wlEcho \subseteq wlRelay
    /\ \A e \in wlRelay : EventOk(e, wlIssued)
    /\ wlPending \subseteq Doomed
    /\ \A t \in {"events", "deletions"} : wlWork[t].pc # "idle" => wlWork[t].evt \in wlRelay
    /\ wlWork["events"].pc = "append" => wlWork["events"].evt.kind = "token"

\* The array that a loop over Tokens goes through; behind its end there is
\* something only while there is such a loop.
ArrOf(tokens, behind) ==
    [i \in 1..(Len(tokens) + Len(behind)) |-> IF i \in DOMAIN tokens THEN tokens[i] ELSE behind[i - Len(tokens)]]
Arr == ArrOf(wlTokens, wlBehind)
Loops == {"choose", "save"}
TokensInv ==
    /\ wlTokens \in Seq(TokensOf(wlIssued)) /\ wlBehind \in Seq(TokensOf(wlIssued))
    /\ wlBehind = <<>> \/ \E t \in WCalls : wlWork[t].pc \in Loops

AtMostOne(notes, issued) == notes = {} \/ \E n \in issued : notes = {n}

\* What each call remembers: tokens that it chose, notes that it saves, and
\* notes that came in.
Chosen == {"swap", "quote", "reserve", "melt"}
Saving == {"save", "change", "history"}
Coming == {"lightning", "move", "minted", "keep"}
SavingOk(w, issued) ==
    /\ {"change", "principal", "claim", "to"} \subseteq DOMAIN w
    /\ AtMostOne(w.change, issued) /\ AtMostOne(w.principal, issued) /\ AtMostOne(w.claim, issued)
    /\ w.to = "nobody" => w.claim = {}
WorkOk(w, issued) ==
    /\ "pc" \in DOMAIN w
    /\ w.pc \in Chosen \cup Saving \cup Coming \cup {"swapin"} => "mint" \in DOMAIN w /\ w.mint \in WMints
    /\ w.pc \in Chosen => {"idx", "notes", "repeats"} \subseteq DOMAIN w
    /\ w.pc = "choose" => {"at", "picked"} \subseteq DOMAIN w /\ w.at \in Nat /\ \A p \in w.picked : p.token \in TokensOf(issued)
    /\ w.pc = "save" => {"at", "idx"} \subseteq DOMAIN w /\ w.at \in Nat
    /\ w.pc \in Saving => SavingOk(w, issued)
    /\ w.pc \in {"save", "change"} => "updated" \in DOMAIN w /\ w.updated \in Seq(TokensOf(issued))
    /\ w.pc = "redeem" => "claim" \in DOMAIN w /\ AtMostOne(w.claim, issued)
    /\ w.pc \in Coming => "notes" \in DOMAIN w /\ \E n \in issued : w.notes = {n}
    /\ w.pc \in {"swapin", "lightning", "move"} => "targets" \in DOMAIN w /\ w.targets \in Seq(WMints)
    /\ w.pc = "move" => w.targets # <<>>
    /\ w.pc = "append" => w.token \in TokensOf(issued) /\ ~w.token.reserved
    /\ w.pc = "publish" => w.evt.kind = "wallet"

WorkInv ==
    /\ wlWork = [t \in Threads |-> wlWork[t]]
    /\ \A t \in Threads : "pc" \in DOMAIN wlWork[t]
    /\ \A t \in WCalls : WorkOk(wlWork[t], wlIssued)

TypesInv == IssuedOk(wlIssued) /\ RelayInv /\ TokensInv /\ WorkInv /\ wlFaults \in Nat

\* From the choice of tokens to the history entry a call has tokensMu.
Locked == {"choose"} \cup Chosen \cup Saving
LockInv == \A t \in WCalls : wlWork[t].pc \in Locked => wlTokensMu = t

\* The places of a call lead to the tokens it chose, or nowhere, or the mint
\* will refuse them; and what it deletes is spent, and is deleted once.
PlacesIn(w, arr, spent, doomed) ==
    /\ w.pc = "choose" => \A p \in w.picked :
          p.token.notes \cap spent # {} \/ (p.place \in DOMAIN arr => arr[p.place].notes = p.token.notes)
    /\ w.pc \in Chosen =>
          \/ w.notes \cap spent # {}
          \/ /\ \A i \in w.idx \cap DOMAIN arr : arr[i].notes \subseteq w.notes
             /\ w.repeats \/ \A i, j \in w.idx \cap DOMAIN arr : i # j => arr[i].notes \cap arr[j].notes = {}
    /\ w.pc = "save" =>
          /\ \A i \in w.idx \cap DOMAIN arr : i >= w.at => arr[i].notes \subseteq spent /\ arr[i].id \notin doomed
          /\ \A i, j \in w.idx \cap DOMAIN arr : i >= w.at /\ j >= w.at /\ i # j => arr[i].id # arr[j].id

DoomedAreSpent(issued, spent, doomed) == \A n \in issued : n.n \in doomed => n \in spent
SafeInv ==
    /\ DoomedAreSpent(wlIssued, wlSpent, Doomed)
    /\ \A t \in WCalls : PlacesIn(wlWork[t], Arr, wlSpent, Doomed)

\* A reserved token is spent, or one of those that a payment will release,
\* unless that payment is to find its places gone.
ReservedBy(w, i) ==
    /\ w.pc = "melt"
    /\ w.notes \cap wlSpent # {} \/ Arr[i].notes \subseteq w.notes
    /\ w.idx \subseteq DOMAIN wlTokens => i \in w.idx
ReservedInv ==
    /\ wlPanic => \E t \in WCalls : wlWork[t].pc = "panicked"
    /\ ~wlPanic =>
        /\ \A i \in DOMAIN Arr : Arr[i].reserved =>
              Arr[i].notes \subseteq wlSpent \/ \E t \in WCalls : ReservedBy(wlWork[t], i)
        /\ \A t \in WCalls : wlWork[t].pc \in {"save", "change"} =>
              \A i \in DOMAIN wlWork[t].updated :
                  wlWork[t].updated[i].reserved => wlWork[t].updated[i].notes \subseteq wlSpent

\* What a call holds that nobody else accounts for.
Held(w) ==
    (IF w.pc \in Saving THEN w.principal \cup w.claim ELSE {})
    \cup (IF w.pc \in {"save", "change"} THEN w.change ELSE {})
    \cup (IF w.pc = "redeem" THEN w.claim ELSE {})
    \cup (IF w.pc \in Coming THEN w.notes ELSE {})

\* Every note is accounted for.
MoneyInv ==
    wlFaults = 0 /\ AcceptSource =>
        \A n \in wlIssued : \/ n \in wlSpent \/ Overasked(n) \/ n \in wlGiven \/ n \in KeptNotes
                            \/ \E t \in WCalls : n \in Held(wlWork[t])

WalletInv == TypesInv /\ LockInv /\ SafeInv /\ ReservedInv /\ MoneyInv

-----------------------------------------------------------------------------
(* Tokens, notes and the array *)

LEMMA ThreadsDiffer ==
    WCalls \subseteq Threads /\ {"events", "deletions", "eose"} \cap WCalls = {} /\ "free" \notin WCalls
  BY WalletAssumption DEF Threads

LEMMA IssueOne ==
    ASSUME NEW S, IssuedOk(S), NEW x, x.n = Cardinality(S) + 1
    PROVE  IssuedOk(S \cup {x}) /\ Cardinality(S) \in Nat /\ Cardinality(S \cup {x}) = Cardinality(S) + 1 /\ x.n \notin IdsOf(S)
  <1>1. IsFiniteSet(S) /\ Cardinality(S) \in Nat
    BY FS_CardinalityType DEF IssuedOk
  <1>2. \A n \in S : n.n \in 1..Cardinality(S)
    BY DEF IssuedOk
  <1>3. x \notin S /\ x.n \notin IdsOf(S)
    BY <1>1, <1>2 DEF IdsOf
  <1>4. IsFiniteSet(S \cup {x}) /\ Cardinality(S \cup {x}) = Cardinality(S) + 1
    BY <1>1, <1>3, FS_AddElement
  <1>5. \A n \in S \cup {x} : n.n \in 1..(Cardinality(S) + 1)
    BY <1>1, <1>2
  <1>6. \A a, b \in S \cup {x} : a.n = b.n => a = b
    BY <1>1, <1>2 DEF IssuedOk
  <1> QED
    BY <1>1, <1>3, <1>4, <1>5, <1>6 DEF IssuedOk

LEMMA MoreIssued ==
    ASSUME NEW S, NEW S2, S \subseteq S2
    PROVE  /\ IdsOf(S) \subseteq IdsOf(S2) /\ TokensOf(S) \subseteq TokensOf(S2)
           /\ \A s \in Seq(TokensOf(S)) : s \in Seq(TokensOf(S2))
           /\ \A e : EventOk(e, S) => EventOk(e, S2)
           /\ \A w : WorkOk(w, S) => WorkOk(w, S2)
  <1>1. IdsOf(S) \subseteq IdsOf(S2)
    BY DEF IdsOf
  <1>2. TokensOf(S) \subseteq TokensOf(S2)
    BY DEF TokensOf
  <1>3. ASSUME NEW s \in Seq(TokensOf(S)) PROVE s \in Seq(TokensOf(S2))
    <2>1. \A i \in 1..Len(s) : s[i] \in TokensOf(S2)
      BY <1>2
    <2> QED
      BY <2>1
  <1>4. \A e : EventOk(e, S) => EventOk(e, S2)
    BY <1>1 DEF EventOk
  <1>5. \A notes : AtMostOne(notes, S) => AtMostOne(notes, S2)
    BY DEF AtMostOne
  <1>6. \A w : SavingOk(w, S) => SavingOk(w, S2)
    BY <1>5 DEF SavingOk
  <1>7. ASSUME NEW w, WorkOk(w, S) PROVE WorkOk(w, S2)
    BY <1>2, <1>3, <1>5, <1>6, <1>7 DEF WorkOk
  <1> QED
    BY <1>1, <1>2, <1>3, <1>4, <1>7

\* One note signed more, or two, or none.
Signed(new) ==
    \/ new = {}
    \/ \E x : x.n = Cardinality(wlIssued) + 1 /\ new = {x}
    \/ \E x, y : x.n = Cardinality(wlIssued) + 1 /\ y.n = Cardinality(wlIssued) + 2 /\ new = {x, y}
Issues(new) == Signed(new) /\ wlIssued' = wlIssued \cup new

LEMMA SignedIs ==
    ASSUME IssuedOk(wlIssued), NEW new, Issues(new)
    PROVE  /\ wlIssued \subseteq wlIssued' /\ IssuedOk(wlIssued)'
           /\ \A n \in new : n \in wlIssued' /\ n.n \notin IdsOf(wlIssued)
  <1>1. CASE new = {}
    <2>1. wlIssued' = wlIssued
      BY <1>1 DEF Issues
    <2> QED
      BY <1>1, <2>1 DEF IssuedOk
  <1>2. CASE \E x : x.n = Cardinality(wlIssued) + 1 /\ new = {x}
    <2>1. PICK x : x.n = Cardinality(wlIssued) + 1 /\ new = {x}
      BY <1>2
    <2>2. IssuedOk(wlIssued \cup {x}) /\ x.n \notin IdsOf(wlIssued)
      BY <2>1, IssueOne
    <2>3. IssuedOk(wlIssued') /\ wlIssued \subseteq wlIssued' /\ x \in wlIssued'
      BY <2>1, <2>2 DEF Issues
    <2> QED
      BY <2>1, <2>2, <2>3 DEF IssuedOk
  <1>3. CASE \E x, y : x.n = Cardinality(wlIssued) + 1 /\ y.n = Cardinality(wlIssued) + 2 /\ new = {x, y}
    <2>1. PICK x, y : x.n = Cardinality(wlIssued) + 1 /\ y.n = Cardinality(wlIssued) + 2 /\ new = {x, y}
      BY <1>3
    <2> DEFINE S == wlIssued \cup {x}
    <2>2. IssuedOk(S) /\ x.n \notin IdsOf(wlIssued) /\ Cardinality(wlIssued) \in Nat /\ Cardinality(S) = Cardinality(wlIssued) + 1
      BY <2>1, IssueOne
    <2>3. y.n = Cardinality(S) + 1
      BY <2>1, <2>2
    <2>4. wlIssued \cup new = S \cup {y} /\ wlIssued \subseteq S
      BY <2>1
    <2> HIDE DEF S
    <2>5. IssuedOk(S \cup {y}) /\ y.n \notin IdsOf(S)
      BY <2>2, <2>3, IssueOne
    <2>6. IssuedOk(wlIssued') /\ y.n \notin IdsOf(wlIssued) /\ wlIssued \subseteq wlIssued' /\ {x, y} \subseteq wlIssued'
      BY <2>1, <2>4, <2>5, MoreIssued DEF Issues
    <2> QED
      BY <2>1, <2>2, <2>6 DEF IssuedOk
  <1> QED
    BY <1>1, <1>2, <1>3 DEF Signed, Issues

LEMMA NoneSigned == UNCHANGED wlIssued => Issues({})
  BY DEF Signed, Issues

LEMMA TokenIs ==
    ASSUME NEW S, NEW x \in TokensOf(S)
    PROVE  \E n \in S : x.id = n.n /\ x.notes = {n} /\ x.mint \in WMints /\ x.id \in IdsOf(S) /\ x.reserved \in BOOLEAN
  BY DEF TokensOf, IdsOf

LEMMA TokenMade ==
    ASSUME NEW S, NEW n \in S, NEW m \in WMints, NEW r \in BOOLEAN
    PROVE  [id |-> n.n, mint |-> m, notes |-> {n}, reserved |-> r] \in TokensOf(S)
  BY DEF TokensOf

LEMMA NewTokenIs ==
    ASSUME NEW S, NEW n \in S, NEW m \in WMints
    PROVE  /\ NewToken(m, {n}) \in TokensOf(S) /\ NewToken(m, {n}).reserved = FALSE
           /\ EventOk(TokenEvent(NewToken(m, {n})), S)
           /\ TokenEvent(NewToken(m, {n})).notes = {n} /\ TokenEvent(NewToken(m, {n})).id = n.n
           /\ TokenEvent(NewToken(m, {n})).deletes = {} /\ TokenEvent(NewToken(m, {n})).kind = "token"
  <1>1. NewToken(m, {n}) = [id |-> n.n, mint |-> m, notes |-> {n}, reserved |-> FALSE]
    BY DEF NewToken
  <1> DEFINE x == NewToken(m, {n})
  <1>3. x.id = n.n /\ x.mint = m /\ x.notes = {n} /\ x.reserved = FALSE
    BY <1>1
  <1>4. x \in TokensOf(S)
    BY <1>1, TokenMade
  <1> HIDE DEF x
  <1> DEFINE e == TokenEvent(x)
  <1>5. e.kind = "token" /\ e.id = n.n /\ e.mint = m /\ e.notes = {n} /\ e.deletes = {}
    BY <1>3 DEF TokenEvent
  <1> HIDE DEF e
  <1>6. EventOk(e, S)
    BY <1>5 DEF EventOk
  <1> QED
    BY <1>3, <1>4, <1>5, <1>6 DEF x, e

\* The array has Tokens first, and tokens of the wallet only.
LEMMA ArrIs ==
    ASSUME NEW T, NEW tokens \in Seq(T), NEW behind \in Seq(T)
    PROVE  /\ DOMAIN ArrOf(tokens, behind) = 1..(Len(tokens) + Len(behind)) /\ DOMAIN tokens \subseteq DOMAIN ArrOf(tokens, behind)
           /\ DOMAIN ArrOf(tokens, behind) \subseteq Nat /\ DOMAIN tokens = 1..Len(tokens) /\ Len(tokens) \in Nat
           /\ \A i \in DOMAIN tokens : ArrOf(tokens, behind)[i] = tokens[i]
           /\ \A i \in DOMAIN ArrOf(tokens, behind) : ArrOf(tokens, behind)[i] \in T
           /\ behind = <<>> => DOMAIN ArrOf(tokens, behind) = DOMAIN tokens
  <1> DEFINE arr == ArrOf(tokens, behind)
  <1>1. Len(tokens) \in Nat /\ Len(behind) \in Nat /\ DOMAIN tokens = 1..Len(tokens)
    OBVIOUS
  <1>2. DOMAIN arr = 1..(Len(tokens) + Len(behind))
    BY DEF ArrOf
  <1>3. \A i \in DOMAIN arr : arr[i] = IF i \in DOMAIN tokens THEN tokens[i] ELSE behind[i - Len(tokens)]
    BY DEF ArrOf
  <1> HIDE DEF arr
  <1>4. ASSUME NEW i \in DOMAIN arr PROVE arr[i] \in T
    <2>1. CASE i \in DOMAIN tokens
      BY <1>1, <1>3, <2>1
    <2>2. CASE i \notin DOMAIN tokens
      <3>1. i - Len(tokens) \in 1..Len(behind)
        BY <1>1, <1>2, <2>2
      <3> QED
        BY <1>1, <1>3, <2>2, <3>1
    <2> QED
      BY <2>1, <2>2
  <1>5. DOMAIN tokens \subseteq DOMAIN arr /\ DOMAIN arr \subseteq Nat
    BY <1>1, <1>2
  <1>6. ASSUME behind = <<>> PROVE DOMAIN arr = DOMAIN tokens
    <2>1. Len(behind) = 0
      BY <1>6
    <2> QED
      BY <1>1, <1>2, <2>1
  <1>7. \A i \in DOMAIN tokens : arr[i] = tokens[i]
    BY <1>3, <1>5
  <1> QED
    BY <1>1, <1>2, <1>4, <1>5, <1>6, <1>7 DEF arr

LEMMA SlotsAre ==
    Places = DOMAIN Arr /\ \A i \in Places : Slot(i) = Arr[i]
  BY DEF Places, Slot, Arr, ArrOf

\* Cutting off what is behind the end leaves the rest.
LEMMA CutIs ==
    ASSUME TypesInv, UNCHANGED wlTokens, wlBehind' = wlBehind \/ wlBehind' = <<>>
    PROVE  DOMAIN Arr' \subseteq DOMAIN Arr /\ \A i \in DOMAIN Arr' : Arr'[i] = Arr[i]
  <1>1. CASE wlBehind' = wlBehind
    BY <1>1 DEF Arr
  <1>2. CASE wlBehind' = <<>>
    <2> DEFINE T == TokensOf(wlIssued)
    <2>1. wlTokens \in Seq(T) /\ wlBehind \in Seq(T) /\ <<>> \in Seq(T)
      BY DEF TypesInv, TokensInv
    <2>2. Arr' = ArrOf(wlTokens, <<>>)
      BY <1>2 DEF Arr
    <2> HIDE DEF T
    <2>3. DOMAIN Arr' = DOMAIN wlTokens /\ \A i \in DOMAIN wlTokens : Arr'[i] = wlTokens[i]
      BY <2>1, <2>2, ArrIs
    <2>4. DOMAIN wlTokens \subseteq DOMAIN Arr /\ \A i \in DOMAIN wlTokens : Arr[i] = wlTokens[i]
      BY <2>1, ArrIs DEF Arr
    <2> QED
      BY <2>3, <2>4
  <1> QED
    BY <1>1, <1>2

-----------------------------------------------------------------------------
(* What a step of a call keeps *)

\* Nobody else has tokensMu.
Alone(t) == wlTokensMu \in {"free", t}

Adds(events) ==
    /\ wlRelay' = wlRelay \cup events /\ \A e \in events : EventOk(e, wlIssued')
    /\ wlEcho' \subseteq wlRelay' /\ UNCHANGED wlPending

\* A call becomes w2, after mints have signed new notes and events have been
\* published.
CallStep(t, w2, new, events) ==
    /\ ~wlPanic /\ Become(t, w2) /\ WorkOk(w2, wlIssued')
    /\ Issues(new) /\ Adds(events) /\ wlFaults' \in Nat /\ wlSpent \subseteq wlSpent'

\* Its locks, what it does to tokens and deletions, and to the notes it held.
CallLocks(t, w2) ==
    /\ w2.pc \in Locked => wlTokensMu' = t
    /\ UNCHANGED wlTokensMu \/ Alone(t)
CallTouches(t, w2) ==
    /\ Alone(t) \/ (UNCHANGED <<wlTokens, wlBehind>> /\ Doomed' = Doomed)
    /\ wlBehind' = <<>> \/ (wlBehind' = wlBehind /\ (wlWork[t].pc \in Loops => w2.pc \in Loops))
    /\ PlacesIn(w2, Arr', wlSpent', Doomed') /\ DoomedAreSpent(wlIssued', wlSpent', Doomed')
CallPays(t, w2, new) ==
    wlFaults' = 0 /\ AcceptSource =>
        /\ wlFaults = 0 /\ wlGiven \subseteq wlGiven'
        /\ \A n \in Held(wlWork[t]) \cup new :
              n \in wlSpent' \/ Overasked(n) \/ n \in wlGiven' \/ n \in KeptNotes' \/ n \in Held(w2)

LEMMA BecomeIs ==
    ASSUME WorkInv, NEW t \in Threads, NEW w2, Become(t, w2)
    PROVE  /\ wlWork' = [c \in Threads |-> wlWork'[c]] /\ wlWork'[t] = w2
           /\ \A c \in Threads : c # t => wlWork'[c] = wlWork[c]
  BY DEF WorkInv, Become

LEMMA CallTypes ==
    ASSUME TypesInv, NEW t \in WCalls, NEW w2, NEW new, NEW events, CallStep(t, w2, new, events),
           wlTokens' \in Seq(TokensOf(wlIssued')),
           wlBehind' = <<>> \/ (wlBehind' = wlBehind /\ (wlWork[t].pc \in Loops => w2.pc \in Loops))
    PROVE  TypesInv'
  <1> USE DEF Adds, CallStep
  <1>1. wlIssued \subseteq wlIssued' /\ IssuedOk(wlIssued)'
    BY SignedIs DEF TypesInv
  <1>2. t \in Threads /\ t \notin {"events", "deletions", "eose"} /\ {"events", "deletions"} \subseteq Threads /\ WCalls \subseteq Threads
    BY ThreadsDiffer DEF Threads
  <1>3. /\ wlWork' = [c \in Threads |-> wlWork'[c]] /\ wlWork'[t] = w2
        /\ \A c \in Threads : c # t => wlWork'[c] = wlWork[c]
    BY <1>2, BecomeIs DEF TypesInv
  <1>4. WorkInv'
    <2>1. \A c \in Threads : "pc" \in DOMAIN wlWork'[c]
      BY <1>3 DEF TypesInv, WorkInv, WorkOk
    <2>2. ASSUME NEW c \in WCalls PROVE WorkOk(wlWork'[c], wlIssued')
      <3>1. CASE c = t
        BY <1>3, <3>1
      <3>2. CASE c # t
        <4>1. wlWork'[c] = wlWork[c] /\ WorkOk(wlWork[c], wlIssued)
          BY <1>3, <3>2, ThreadsDiffer DEF TypesInv, WorkInv
        <4> QED
          BY <1>1, <4>1, MoreIssued
      <3> QED
        BY <3>1, <3>2
    <2> QED
      BY <1>3, <2>1, <2>2 DEF WorkInv
  <1>5. RelayInv'
    <2>1. \A e \in wlRelay' : EventOk(e, wlIssued')
      BY <1>1, MoreIssued DEF TypesInv, RelayInv
    <2>2. wlPending' \subseteq Doomed'
      BY DEF TypesInv, RelayInv, Doomed, TokenEvents
    <2>3. wlWork'["events"] = wlWork["events"] /\ wlWork'["deletions"] = wlWork["deletions"]
      BY <1>2, <1>3
    <2> QED
      BY <2>1, <2>2, <2>3 DEF TypesInv, RelayInv
  <1>6. TokensInv'
    <2>1. wlBehind' \in Seq(TokensOf(wlIssued'))
      <3>1. <<>> \in Seq(TokensOf(wlIssued'))
        OBVIOUS
      <3> QED
        BY <1>1, <3>1, MoreIssued DEF TypesInv, TokensInv
    <2>2. wlBehind' = <<>> \/ \E c \in WCalls : wlWork'[c].pc \in Loops
      <3>1. CASE wlBehind' = <<>>
        BY <3>1
      <3>2. CASE wlBehind' # <<>>
        <4>1. PICK c \in WCalls : wlWork[c].pc \in Loops
          BY <3>2 DEF TypesInv, TokensInv
        <4>2. wlWork'[c].pc \in Loops
          BY <1>2, <1>3, <3>2, <4>1
        <4> QED
          BY <4>2
      <3> QED
        BY <3>1, <3>2
    <2> QED
      BY <2>1, <2>2 DEF TokensInv
  <1> QED
    BY <1>1, <1>4, <1>5, <1>6 DEF TypesInv

LEMMA AloneIs ==
    ASSUME LockInv, NEW t, Alone(t), NEW c \in WCalls, c # t
    PROVE  wlWork[c].pc \notin Locked
  BY ThreadsDiffer DEF LockInv, Alone

LEMMA FreeForAll == ASSUME NEW w, w.pc \notin Locked PROVE \A arr, spent, doomed : PlacesIn(w, arr, spent, doomed)
  BY DEF PlacesIn, Locked, Saving

LEMMA LessSafe ==
    ASSUME NEW w, NEW arr, NEW spent, NEW doomed, PlacesIn(w, arr, spent, doomed), NEW spent2, spent \subseteq spent2
    PROVE  PlacesIn(w, arr, spent2, doomed)
  <1>1. \A S : S \cap spent # {} => S \cap spent2 # {}
    OBVIOUS
  <1>2. \A S : S \subseteq spent => S \subseteq spent2
    OBVIOUS
  <1> QED
    BY <1>1, <1>2 DEF PlacesIn

LEMMA CallLock ==
    ASSUME TypesInv, LockInv, NEW t \in WCalls, NEW w2, Become(t, w2), CallLocks(t, w2)
    PROVE  LockInv'
  <1>1. wlWork'[t] = w2 /\ \A c \in WCalls : c # t => wlWork'[c] = wlWork[c]
    BY BecomeIs, ThreadsDiffer DEF TypesInv
  <1> SUFFICES ASSUME NEW c \in WCalls, wlWork'[c].pc \in Locked PROVE wlTokensMu' = c
    BY DEF LockInv
  <1>2. CASE c = t
    BY <1>1, <1>2 DEF CallLocks
  <1>3. CASE c # t
    <2>1. wlWork[c].pc \in Locked /\ wlTokensMu = c
      BY <1>1, <1>3 DEF LockInv
    <2>2. ~Alone(t)
      BY <1>3, <2>1, AloneIs
    <2> QED
      BY <2>1, <2>2 DEF CallLocks
  <1> QED
    BY <1>2, <1>3

LEMMA CallSafe ==
    ASSUME TypesInv, LockInv, SafeInv, NEW t \in WCalls, NEW w2, Become(t, w2), CallTouches(t, w2), wlSpent \subseteq wlSpent'
    PROVE  SafeInv'
  <1>1. wlWork'[t] = w2 /\ \A c \in WCalls : c # t => wlWork'[c] = wlWork[c]
    BY BecomeIs, ThreadsDiffer DEF TypesInv
  <1>2. ASSUME NEW c \in WCalls PROVE PlacesIn(wlWork'[c], Arr', wlSpent', Doomed')
    <2>1. CASE c = t
      BY <1>1, <2>1 DEF CallTouches
    <2>2. CASE c # t /\ Alone(t)
      BY <1>1, <2>2, AloneIs, FreeForAll
    <2>3. CASE c # t /\ UNCHANGED <<wlTokens, wlBehind>> /\ Doomed' = Doomed
      <3>1. PlacesIn(wlWork[c], Arr, wlSpent, Doomed) /\ Arr' = Arr
        BY <2>3 DEF SafeInv, Arr
      <3> QED
        BY <1>1, <2>3, <3>1, LessSafe
    <2> QED
      BY <2>1, <2>2, <2>3 DEF CallTouches
  <1> QED
    BY <1>2 DEF SafeInv, CallTouches

\* A deletion takes away only what is spent.
LEMMA KeptStays ==
    ASSUME TypesInv, RelayInv', IssuedOk(wlIssued)', DoomedAreSpent(wlIssued', wlSpent', Doomed'), wlRelay \subseteq wlRelay'
    PROVE  KeptNotes \subseteq KeptNotes' \cup wlSpent'
  <1> SUFFICES ASSUME NEW n \in KeptNotes, n \notin KeptNotes' PROVE n \in wlSpent'
    OBVIOUS
  <1>1. PICK e \in wlRelay : e.kind = "token" /\ n \in e.notes /\ Deletion(e.id) \notin wlRelay
    BY DEF KeptNotes, TokenEvents
  <1>2. e \in wlRelay'
    BY <1>1
  <1>3. Deletion(e.id) \in wlRelay'
    BY <1>1, <1>2 DEF KeptNotes, TokenEvents
  <1>4. EventOk(e, wlIssued')
    BY <1>2 DEF RelayInv
  <1>5. e.notes = {n} /\ e.id = n.n /\ n \in wlIssued'
    BY <1>1, <1>4 DEF EventOk
  <1>6. Deletion(e.id).kind = "deletion" /\ Deletion(e.id).id = e.id
    BY DEF Deletion
  <1>7. n.n \in Doomed'
    BY <1>3, <1>5, <1>6 DEF Doomed
  <1> QED
    BY <1>5, <1>7 DEF DoomedAreSpent

LEMMA CallMoney ==
    ASSUME TypesInv, MoneyInv, TypesInv', SafeInv', NEW t \in WCalls, NEW w2, NEW new, NEW events,
           CallStep(t, w2, new, events), CallPays(t, w2, new)
    PROVE  MoneyInv'
  <1>1. wlWork'[t] = w2 /\ \A c \in WCalls : c # t => wlWork'[c] = wlWork[c]
    BY BecomeIs, ThreadsDiffer DEF TypesInv, CallStep
  <1>2. KeptNotes \subseteq KeptNotes' \cup wlSpent'
    <2>1. wlRelay \subseteq wlRelay'
      BY DEF CallStep, Adds
    <2> QED
      BY <2>1, KeptStays DEF TypesInv, SafeInv
  <1> SUFFICES ASSUME wlFaults' = 0, AcceptSource, NEW n \in wlIssued'
               PROVE  \/ n \in wlSpent' \/ Overasked(n) \/ n \in wlGiven' \/ n \in KeptNotes'
                      \/ \E c \in WCalls : n \in Held(wlWork'[c])
    BY DEF MoneyInv
  <1> DEFINE Fine == n \in wlSpent' \/ Overasked(n) \/ n \in wlGiven' \/ n \in KeptNotes'
  <1>3. wlFaults = 0 /\ wlGiven \subseteq wlGiven' /\ \A x \in Held(wlWork[t]) \cup new :
              x \in wlSpent' \/ Overasked(x) \/ x \in wlGiven' \/ x \in KeptNotes' \/ x \in Held(w2)
    BY DEF CallPays
  <1>4. n \in new \/ n \in wlIssued
    BY DEF CallStep, Issues
  <1>5. CASE n \in Held(wlWork[t]) \cup new
    BY <1>1, <1>3, <1>5
  <1>6. CASE n \in wlIssued /\ ~(n \in Held(wlWork[t]))
    <2>1. n \in wlSpent \/ Overasked(n) \/ n \in wlGiven \/ n \in KeptNotes \/ \E c \in WCalls : n \in Held(wlWork[c])
      BY <1>3, <1>6 DEF MoneyInv
    <2>2. wlSpent \subseteq wlSpent'
      BY DEF CallStep
    <2>3. ASSUME NEW c \in WCalls, n \in Held(wlWork[c]) PROVE \E d \in WCalls : n \in Held(wlWork'[d])
      BY <1>1, <1>6, <2>3
    <2> QED
      BY <1>2, <1>3, <2>1, <2>2, <2>3
  <1> QED
    BY <1>4, <1>5, <1>6

\* A call that leaves Tokens alone reserves and releases nothing.
CallReserves(t, w2) ==
    /\ wlWork[t].pc # "melt" /\ UNCHANGED <<wlTokens, wlPanic>> /\ (wlBehind' = wlBehind \/ wlBehind' = <<>>)
    /\ w2.pc \in {"save", "change"} =>
          \A i \in DOMAIN w2.updated : w2.updated[i].reserved => w2.updated[i].notes \subseteq wlSpent'

LEMMA CallReserved ==
    ASSUME TypesInv, ReservedInv, NEW t \in WCalls, NEW w2, NEW new, NEW events, CallStep(t, w2, new, events), CallReserves(t, w2)
    PROVE  ReservedInv'
  <1>1. wlWork'[t] = w2 /\ \A c \in WCalls : c # t => wlWork'[c] = wlWork[c]
    BY BecomeIs, ThreadsDiffer DEF TypesInv, CallStep
  <1>2. ~wlPanic /\ ~wlPanic' /\ wlSpent \subseteq wlSpent' /\ wlTokens' = wlTokens /\ wlWork[t].pc # "melt"
    BY DEF CallReserves, CallStep
  <1>3. DOMAIN Arr' \subseteq DOMAIN Arr /\ \A i \in DOMAIN Arr' : Arr'[i] = Arr[i]
    BY CutIs DEF CallReserves
  <1>4. ASSUME NEW i \in DOMAIN Arr', Arr'[i].reserved
        PROVE  Arr'[i].notes \subseteq wlSpent' \/ \E c \in WCalls : ReservedBy(wlWork[c], i)'
    <2>1. Arr[i].notes \subseteq wlSpent \/ \E c \in WCalls : ReservedBy(wlWork[c], i)
      BY <1>2, <1>3, <1>4 DEF ReservedInv
    <2>2. ASSUME NEW c \in WCalls, ReservedBy(wlWork[c], i) PROVE ReservedBy(wlWork[c], i)'
      <3>1. c # t /\ wlWork'[c] = wlWork[c]
        BY <1>1, <1>2, <2>2 DEF ReservedBy
      <3>2. wlWork[c].notes \cap wlSpent # {} => wlWork[c].notes \cap wlSpent' # {}
        BY <1>2
      <3> QED
        BY <1>2, <1>3, <1>4, <2>2, <3>1, <3>2 DEF ReservedBy
    <2> QED
      BY <1>2, <1>3, <1>4, <2>1, <2>2
  <1>5. ASSUME NEW c \in WCalls, wlWork'[c].pc \in {"save", "change"}, NEW i \in DOMAIN wlWork'[c].updated,
               wlWork'[c].updated[i].reserved
        PROVE  wlWork'[c].updated[i].notes \subseteq wlSpent'
    <2>1. CASE c = t
      BY <1>1, <1>5, <2>1 DEF CallReserves
    <2>2. CASE c # t
      <3>1. wlWork'[c] = wlWork[c]
        BY <1>1, <2>2
      <3>2. wlWork[c].updated[i].notes \subseteq wlSpent
        BY <1>2, <1>5, <3>1 DEF ReservedInv
      <3> QED
        BY <1>2, <3>1, <3>2
    <2> QED
      BY <2>1, <2>2
  <1> QED
    BY <1>2, <1>4, <1>5 DEF ReservedInv

\* What a call keeps that leaves Tokens alone, and any other call.
LEMMA CallKeeps ==
    ASSUME WalletInv, NEW t \in WCalls, NEW w2, NEW new, NEW events, CallStep(t, w2, new, events),
           wlTokens' \in Seq(TokensOf(wlIssued')), CallLocks(t, w2), CallTouches(t, w2), CallPays(t, w2, new)
    PROVE  TypesInv' /\ LockInv' /\ SafeInv' /\ MoneyInv'
  <1>1. TypesInv'
    BY CallTypes DEF WalletInv, CallTouches
  <1>2. LockInv'
    BY CallLock DEF WalletInv, CallStep
  <1>3. SafeInv'
    BY CallSafe DEF WalletInv, CallStep
  <1>4. MoneyInv'
    BY <1>1, <1>3, CallMoney DEF WalletInv
  <1> QED
    BY <1>1, <1>2, <1>3, <1>4

LEMMA QuietCallKeeps ==
    ASSUME WalletInv, NEW t \in WCalls, NEW w2, NEW new, NEW events, CallStep(t, w2, new, events),
           CallLocks(t, w2), CallTouches(t, w2), CallPays(t, w2, new), CallReserves(t, w2)
    PROVE  WalletInv'
  <1>1. wlTokens' \in Seq(TokensOf(wlIssued'))
    <2>1. wlIssued \subseteq wlIssued' /\ wlTokens' = wlTokens /\ wlTokens \in Seq(TokensOf(wlIssued))
      BY SignedIs DEF WalletInv, TypesInv, TokensInv, CallStep, CallReserves
    <2> QED
      BY <2>1, MoreIssued
  <1>2. TypesInv' /\ LockInv' /\ SafeInv' /\ MoneyInv'
    BY <1>1, CallKeeps
  <1>3. ReservedInv'
    BY CallReserved DEF WalletInv
  <1> QED
    BY <1>2, <1>3 DEF WalletInv

-----------------------------------------------------------------------------
(* Ways a call goes on *)

LEMMA CallFacts ==
    ASSUME WalletInv, NEW t \in WCalls
    PROVE  WorkOk(wlWork[t], wlIssued) /\ wlFaults \in Nat /\ t \in Threads /\ TokensInv /\ IssuedOk(wlIssued) /\ RelayInv
           /\ TypesInv /\ "pc" \in DOMAIN wlWork[t]
  BY ThreadsDiffer DEF WalletInv, TypesInv, WorkInv

LEMMA FaultsAre ==
    ASSUME wlFaults \in Nat, Fails(1) \/ UNCHANGED wlFaults
    PROVE  wlFaults' \in Nat /\ (Fails(1) => wlFaults' # 0)
  BY DEF Fails

LEMMA NoneAdded == RelayInv /\ UNCHANGED <<wlRelay, wlEcho, wlPending>> => Adds({})
  BY DEF Adds, RelayInv

\* Token events of the wallet's own and wallet events delete nothing.
Harmless(e) == e.kind = "wallet" \/ (e.kind = "token" /\ e.deletes = {})

LEMMA HarmlessIs ==
    ASSUME NEW events, \A e \in events : Harmless(e), wlRelay' = wlRelay \cup events
    PROVE  Doomed' = Doomed
  BY DEF Doomed, TokenEvents, Harmless

LEMMA StillDoomed ==
    ASSUME TypesInv, SafeInv, NEW new, Issues(new), Doomed' = Doomed, wlSpent \subseteq wlSpent'
    PROVE  DoomedAreSpent(wlIssued', wlSpent', Doomed')
  <1>1. Doomed \subseteq IdsOf(wlIssued)
    <2>1. \A e \in wlRelay : EventOk(e, wlIssued)
      BY DEF TypesInv, RelayInv
    <2>2. \A e \in wlRelay : e.kind = "deletion" => e.id \in IdsOf(wlIssued)
      BY <2>1 DEF EventOk
    <2>3. \A e \in wlRelay : e.kind = "token" => e.deletes \subseteq IdsOf(wlIssued)
      BY <2>1 DEF EventOk
    <2> QED
      BY <2>2, <2>3 DEF Doomed, TokenEvents
  <1>2. wlIssued' = wlIssued \cup new /\ \A n \in new : n.n \notin IdsOf(wlIssued)
    BY SignedIs DEF TypesInv, Issues
  <1>3. \A n \in wlIssued : n.n \in Doomed => n \in wlSpent
    BY DEF SafeInv, DoomedAreSpent
  <1> QED
    BY <1>1, <1>2, <1>3 DEF DoomedAreSpent

\* Deleting nothing, and leaving Tokens alone.
LEMMA TameCallKeeps ==
    ASSUME WalletInv, NEW t \in WCalls, NEW w2, NEW new, NEW events, CallStep(t, w2, new, events),
           \A e \in events : Harmless(e), CallLocks(t, w2), CallReserves(t, w2), CallPays(t, w2, new),
           \/ UNCHANGED wlBehind /\ (wlWork[t].pc \in Loops => w2.pc \in Loops)
           \/ wlBehind' = <<>> /\ Alone(t),
           PlacesIn(w2, Arr', wlSpent', Doomed)
    PROVE  WalletInv'
  <1>1. Doomed' = Doomed
    BY HarmlessIs DEF CallStep, Adds
  <1>2. DoomedAreSpent(wlIssued', wlSpent', Doomed')
    BY <1>1, StillDoomed DEF WalletInv, CallStep
  <1>3. CallTouches(t, w2)
    BY <1>1, <1>2 DEF CallTouches, CallReserves
  <1> QED
    BY <1>3, QuietCallKeeps

Plain == {"idle", "ended", "lock", "zap", "panicked"}

LEMMA PlainIsOk ==
    ASSUME NEW w, "pc" \in DOMAIN w, w.pc \in Plain
    PROVE  (\A S : WorkOk(w, S)) /\ (\A arr, spent, doomed : PlacesIn(w, arr, spent, doomed)) /\ Held(w) = {} /\ w.pc \notin Locked
  <1>1. w.pc \notin Locked /\ w.pc \notin Coming /\ w.pc \notin Saving /\ w.pc \notin Chosen
    BY DEF Plain, Locked, Saving, Chosen, Coming
  <1>2. \A S : WorkOk(w, S)
    BY <1>1 DEF WorkOk, Plain
  <1>3. Held(w) = {}
    BY <1>1 DEF Held, Plain
  <1> QED
    BY <1>1, <1>2, <1>3, FreeForAll

\* A call returns, or begins.
LEMMA PlainKeeps ==
    ASSUME WalletInv, ~wlPanic, NEW t \in WCalls, NEW w2, Become(t, w2), "pc" \in DOMAIN w2, w2.pc \in Plain,
           NEW new, Issues(new), wlSpent \subseteq wlSpent', wlFaults' \in Nat,
           UNCHANGED <<wlTokens, wlPending, wlRelay, wlEcho, wlPanic>>, wlWork[t].pc # "melt",
           UNCHANGED wlTokensMu \/ Alone(t),
           (UNCHANGED wlBehind /\ wlWork[t].pc \notin Loops) \/ (wlBehind' = <<>> /\ Alone(t)),
           CallPays(t, w2, new)
    PROVE  WalletInv'
  <1>1. (\A S : WorkOk(w2, S)) /\ (\A arr, spent, doomed : PlacesIn(w2, arr, spent, doomed)) /\ w2.pc \notin Locked
    BY PlainIsOk
  <1>2. CallStep(t, w2, new, {})
    BY <1>1, NoneAdded, CallFacts DEF CallStep
  <1>3. CallLocks(t, w2)
    BY <1>1 DEF CallLocks
  <1>4. CallReserves(t, w2)
    BY DEF CallReserves, Plain
  <1> QED
    BY <1>1, <1>2, <1>3, <1>4, TameCallKeeps

\* A call that holds nothing pays nothing.
LEMMA NothingPaid ==
    ASSUME NEW t, NEW w2, Held(wlWork[t]) = {}, Fails(1) \/ UNCHANGED wlFaults, wlFaults \in Nat, wlGiven \subseteq wlGiven'
    PROVE  CallPays(t, w2, {})
  BY FaultsAre DEF CallPays

\* A fault ends the account.
LEMMA FaultPays ==
    ASSUME NEW t, NEW w2, NEW new, Fails(1), wlFaults \in Nat
    PROVE  CallPays(t, w2, new)
  BY FaultsAre DEF CallPays

HandPcs == Saving \cup Coming \cup {"redeem"}
LEMMA NoHands == ASSUME NEW w, w.pc \notin HandPcs PROVE Held(w) = {}
  BY DEF Held, HandPcs, Saving

LEMMA EndedIs ==
    ASSUME NEW t, NEW retry, Ended(t, retry)
    PROVE  \E w2 : Become(t, w2) /\ "pc" \in DOMAIN w2 /\ w2.pc \in Plain
  <1> DEFINE w2 == IF t = "zap" /\ retry THEN [pc |-> "zap", amount |-> wlWork[t].amount, next |-> wlWork[t].next] ELSE [pc |-> "ended"]
  <1>1. Become(t, w2)
    BY DEF Ended
  <1>2. "pc" \in DOMAIN w2 /\ w2.pc \in {"zap", "ended"}
    OBVIOUS
  <1> QED
    BY <1>1, <1>2 DEF Plain

LEMMA GotoIs ==
    ASSUME WalletInv, NEW t \in WCalls, NEW p, Goto2(t, p)
    PROVE  \E w2 : /\ Become(t, w2) /\ "pc" \in DOMAIN w2 /\ w2.pc = p /\ DOMAIN w2 = DOMAIN wlWork[t]
                   /\ \A f \in DOMAIN w2 : f # "pc" => w2[f] = wlWork[t][f]
  <1> DEFINE w2 == [wlWork[t] EXCEPT !.pc = p]
  <1>1. "pc" \in DOMAIN wlWork[t]
    BY CallFacts
  <1>2. /\ Become(t, w2) /\ "pc" \in DOMAIN w2 /\ w2.pc = p /\ DOMAIN w2 = DOMAIN wlWork[t]
        /\ \A f \in DOMAIN w2 : f # "pc" => w2[f] = wlWork[t][f]
    BY <1>1 DEF Goto2
  <1> QED
    BY <1>2

\* A call that holds no notes returns, or begins.
LEMMA QuietKeeps ==
    ASSUME WalletInv, ~wlPanic, NEW t \in WCalls, NEW w2, Become(t, w2), "pc" \in DOMAIN w2, w2.pc \in Plain,
           UNCHANGED <<wlTokens, wlPending, wlRelay, wlEcho, wlIssued, wlSpent, wlPanic>>, wlWork[t].pc # "melt",
           Fails(1) \/ (UNCHANGED wlFaults /\ wlWork[t].pc \notin HandPcs), wlGiven \subseteq wlGiven',
           UNCHANGED wlTokensMu \/ Alone(t),
           (UNCHANGED wlBehind /\ wlWork[t].pc \notin Loops) \/ (wlBehind' = <<>> /\ Alone(t))
    PROVE  WalletInv'
  <1>1. wlFaults \in Nat /\ wlFaults' \in Nat
    BY CallFacts, FaultsAre
  <1>2. CallPays(t, w2, {})
    BY <1>1, NothingPaid, FaultPays, NoHands
  <1>3. Issues({})
    BY NoneSigned
  <1> QED
    BY <1>1, <1>2, <1>3, PlainKeeps

\* Tokens are to be chosen.
LEMMA ChooseKeeps ==
    ASSUME WalletInv, ~wlPanic, NEW t \in WCalls, NEW x, Become(t, ChooseWork(x)), wlTokensMu' = t, Alone(t),
           UNCHANGED <<wlTokens, wlBehind, wlPending, wlRelay, wlEcho, wlIssued, wlSpent, wlGiven, wlPanic>>,
           Fails(1) \/ UNCHANGED wlFaults, wlWork[t].pc \in Plain \cup {"quote"}
    PROVE  WalletInv'
  <1> DEFINE w2 == ChooseWork(x)
  <1>1. {"pc", "at", "picked"} \subseteq DOMAIN w2 /\ w2.pc = "choose" /\ w2.at = 1 /\ w2.picked = {}
    BY DEF ChooseWork
  <1> HIDE DEF w2
  <1>2. WorkOk(w2, wlIssued') /\ PlacesIn(w2, Arr', wlSpent', Doomed)
    BY <1>1 DEF WorkOk, PlacesIn, Chosen, Saving, Coming
  <1>3. wlFaults \in Nat /\ wlFaults' \in Nat
    BY CallFacts, FaultsAre
  <1>4. CallStep(t, w2, {}, {})
    BY <1>2, <1>3, NoneAdded, NoneSigned, CallFacts DEF CallStep, w2
  <1>5. wlWork[t].pc \notin HandPcs /\ wlWork[t].pc \notin Loops /\ wlWork[t].pc # "melt"
    BY DEF Plain, HandPcs, Loops, Saving, Coming
  <1>6. CallPays(t, w2, {})
    BY <1>3, <1>5, NothingPaid, NoHands
  <1>7. CallLocks(t, w2) /\ CallReserves(t, w2)
    BY <1>1, <1>5 DEF CallLocks, CallReserves
  <1> QED
    BY <1>2, <1>4, <1>5, <1>6, <1>7, TameCallKeeps

LEMMA HasLock ==
    ASSUME WalletInv, NEW t \in WCalls, wlWork[t].pc \in Locked
    PROVE  wlTokensMu = t /\ Alone(t)
  BY DEF WalletInv, LockInv, Alone

-----------------------------------------------------------------------------
(* Beginnings, edits and nutzaps *)

LEMMA SendStartsKeeps == ASSUME WalletInv, "send" \in WCalls, NEW amount, NEW from, SendStarts(amount, from) PROVE WalletInv'
  <1> DEFINE w2 == SendWork(amount, from, <<>>)
  <1>1. /\ Become("send", w2) /\ ~wlPanic /\ wlWork["send"].pc = "idle" /\ UNCHANGED wlTokensMu
        /\ UNCHANGED <<wlTokens, wlBehind, wlPending, wlRelay, wlEcho, wlIssued, wlSpent, wlGiven, wlFaults, wlPanic>>
    BY DEF SendStarts, wlLoad, wlMoney, CallStarts, At
  <1>2. "pc" \in DOMAIN w2 /\ w2.pc \in Plain
    BY DEF SendWork, Plain
  <1> HIDE DEF w2
  <1> QED
    BY <1>1, <1>2, QuietKeeps DEF HandPcs, Saving, Coming, Loops

LEMMA SendLocksKeeps == ASSUME WalletInv, NEW t \in WCalls, SendLocks(t) PROVE WalletInv'
  <1>1. /\ Become(t, ChooseWork(wlWork[t])) /\ ~wlPanic /\ wlWork[t].pc = "lock" /\ wlTokensMu' = t /\ Alone(t)
        /\ UNCHANGED <<wlTokens, wlBehind, wlPending, wlRelay, wlEcho, wlIssued, wlSpent, wlGiven, wlFaults, wlPanic>>
    BY DEF SendLocks, wlLoad, wlMoney, At, Alone
  <1> QED
    BY <1>1, ChooseKeeps DEF Plain

LEMMA PayStartsKeeps ==
    ASSUME WalletInv, "pay" \in WCalls, NEW invoice, NEW from, NEW to, PayStarts(invoice, from, to) PROVE WalletInv'
  <1> DEFINE x == [pays |-> TRUE, amount |-> invoice, from |-> from, to |-> to, next |-> <<>>, abs |-> 1, excluded |-> {}, tries |-> 5]
  <1>1. /\ ~wlPanic /\ wlWork["pay"].pc = "idle" /\ Alone("pay")
        /\ UNCHANGED <<wlTokens, wlBehind, wlPending, wlRelay, wlEcho, wlIssued, wlSpent, wlGiven, wlPanic>>
        /\ \/ wlTokensMu' = "pay" /\ Become("pay", ChooseWork(x)) /\ UNCHANGED wlFaults
           \/ Fails(1) /\ Goto2("pay", "ended") /\ UNCHANGED wlTokensMu
    BY DEF PayStarts, wlLoad, CallStarts, At, PayWork, Alone
  <1>2. CASE wlTokensMu' = "pay" /\ Become("pay", ChooseWork(x)) /\ UNCHANGED wlFaults
    <2> HIDE DEF x
    <2> QED
      BY <1>1, <1>2, ChooseKeeps DEF Plain
  <1>3. CASE Fails(1) /\ Goto2("pay", "ended") /\ UNCHANGED wlTokensMu
    <2>1. PICK w2 : Become("pay", w2) /\ "pc" \in DOMAIN w2 /\ w2.pc = "ended"
      BY <1>3, GotoIs
    <2> QED
      BY <1>1, <1>3, <2>1, QuietKeeps DEF Plain, Loops
  <1> QED
    BY <1>1, <1>2, <1>3

LEMMA ZapStartsKeeps == ASSUME WalletInv, "zap" \in WCalls, NEW amount, NEW theirs, ZapStarts(amount, theirs) PROVE WalletInv'
  <1> DEFINE el == EligibleMints(ToSet(theirs), amount)
             next == [k \in DOMAIN el |-> <<"internal", el[k]>>] \o [k \in DOMAIN theirs |-> <<"external", theirs[k]>>]
             w2 == [pc |-> "zap", amount |-> amount, next |-> next]
  <1>1. /\ Become("zap", w2) /\ ~wlPanic /\ wlWork["zap"].pc = "idle" /\ UNCHANGED wlTokensMu
        /\ UNCHANGED <<wlTokens, wlBehind, wlPending, wlRelay, wlEcho, wlIssued, wlSpent, wlGiven, wlFaults, wlPanic>>
    BY DEF ZapStarts, wlLoad, wlMoney, CallStarts, At
  <1>2. "pc" \in DOMAIN w2 /\ w2.pc \in Plain
    BY DEF Plain
  <1> HIDE DEF w2, next
  <1> QED
    BY <1>1, <1>2, QuietKeeps DEF HandPcs, Saving, Coming, Loops

LEMMA ZapTriesKeeps == ASSUME WalletInv, "zap" \in WCalls, ZapTries PROVE WalletInv'
  <1> DEFINE w == wlWork["zap"]
             send == SendWork(w.amount, Head(w.next)[2], Tail(w.next))
             x == [pays |-> TRUE, amount |-> w.amount, from |-> "any", to |-> Head(w.next)[2], next |-> Tail(w.next), abs |-> 1,
                   excluded |-> {}, tries |-> 5]
             skip == [w EXCEPT !.next = Tail(@)]
  <1>1. /\ w.pc = "zap" /\ "pc" \in DOMAIN w /\ ~wlPanic
        /\ UNCHANGED <<wlTokens, wlBehind, wlPending, wlRelay, wlEcho, wlIssued, wlSpent, wlGiven, wlPanic>>
        /\ \/ Goto2("zap", "ended") /\ UNCHANGED <<wlTokensMu, wlFaults>>
           \/ Become("zap", send) /\ UNCHANGED <<wlTokensMu, wlFaults>>
           \/ Fails(1) /\ Become("zap", skip) /\ UNCHANGED wlTokensMu
           \/ wlTokensMu = "free" /\ wlTokensMu' = "zap" /\ UNCHANGED wlFaults /\ Become("zap", ChooseWork(x))
    BY CallFacts DEF ZapTries, wlLoad, At, PayWork
  <1>2. "pc" \in DOMAIN send /\ send.pc \in Plain
    BY DEF SendWork, Plain
  <1>3. "pc" \in DOMAIN skip /\ skip.pc \in Plain
    BY <1>1 DEF Plain
  <1> HIDE DEF send, x, skip
  <1>4. wlWork["zap"].pc \notin HandPcs /\ wlWork["zap"].pc \notin Loops /\ wlWork["zap"].pc # "melt"
    BY <1>1 DEF HandPcs, Saving, Coming, Loops
  <1>5. ASSUME NEW w2, Become("zap", w2), "pc" \in DOMAIN w2, w2.pc \in Plain, UNCHANGED wlTokensMu, Fails(1) \/ UNCHANGED wlFaults
        PROVE  WalletInv'
    BY <1>1, <1>4, <1>5, QuietKeeps
  <1>6. CASE Goto2("zap", "ended") /\ UNCHANGED <<wlTokensMu, wlFaults>>
    <2>1. PICK w2 : Become("zap", w2) /\ "pc" \in DOMAIN w2 /\ w2.pc = "ended"
      BY <1>6, GotoIs
    <2> QED
      BY <1>5, <1>6, <2>1 DEF Plain
  <1>7. CASE wlTokensMu = "free" /\ wlTokensMu' = "zap" /\ UNCHANGED wlFaults /\ Become("zap", ChooseWork(x))
    BY <1>1, <1>7, ChooseKeeps DEF Plain, Alone
  <1> QED
    BY <1>1, <1>2, <1>3, <1>5, <1>6, <1>7

LEMMA CloseWalletKeeps == ASSUME WalletInv, "close" \in WCalls, CloseWallet PROVE WalletInv'
  <1>1. /\ Goto2("close", "ended") /\ ~wlPanic /\ wlWork["close"].pc = "idle" /\ UNCHANGED wlTokensMu
        /\ UNCHANGED <<wlTokens, wlBehind, wlPending, wlRelay, wlEcho, wlIssued, wlSpent, wlGiven, wlFaults, wlPanic>>
    BY DEF CloseWallet, wlLoad, wlMoney, CallStarts, At
  <1>2. PICK w2 : Become("close", w2) /\ "pc" \in DOMAIN w2 /\ w2.pc = "ended"
    BY <1>1, GotoIs
  <1> QED
    BY <1>1, <1>2, QuietKeeps DEF Plain, HandPcs, Saving, Coming, Loops

LEMMA EditMintsKeeps == ASSUME WalletInv, "edit" \in WCalls, NEW mints, EditMints(mints) PROVE WalletInv'
  <1> DEFINE w2 == [pc |-> "publish", evt |-> WalletEvent(1 + Max(DOMAIN WVersions), mints)]
  <1>1. /\ UNCHANGED <<wlTokens, wlBehind, wlTokensMu, wlPending, wlRelay, wlEcho, wlIssued, wlSpent, wlGiven, wlPanic>>
        /\ ~wlPanic /\ wlWork["edit"].pc = "idle"
        /\ (Become("edit", w2) /\ UNCHANGED wlFaults) \/ (Goto2("edit", "ended") /\ Fails(1))
    BY DEF EditMints, CallStarts, At
  <1>2. w2.pc = "publish" /\ w2.evt.kind = "wallet" /\ "pc" \in DOMAIN w2
    BY DEF WalletEvent
  <1> HIDE DEF w2
  <1>3. wlWork["edit"].pc \notin HandPcs /\ wlWork["edit"].pc \notin Loops /\ wlWork["edit"].pc # "melt"
    BY <1>1 DEF HandPcs, Saving, Coming, Loops
  <1>4. CASE Become("edit", w2) /\ UNCHANGED wlFaults
    <2>1. w2.pc \notin Locked /\ WorkOk(w2, wlIssued')
      BY <1>2 DEF WorkOk, Locked, Chosen, Saving, Coming
    <2>2. CallStep("edit", w2, {}, {})
      BY <1>1, <1>4, <2>1, NoneAdded, NoneSigned, CallFacts DEF CallStep
    <2>3. CallPays("edit", w2, {})
      BY <1>1, <1>3, <1>4, NothingPaid, NoHands, CallFacts
    <2>4. CallLocks("edit", w2) /\ CallReserves("edit", w2)
      BY <1>1, <1>2, <1>3, <2>1 DEF CallLocks, CallReserves
    <2>5. PlacesIn(w2, Arr', wlSpent', Doomed)
      BY <2>1, FreeForAll
    <2> QED
      BY <1>1, <1>3, <2>2, <2>3, <2>4, <2>5, TameCallKeeps
  <1>5. CASE Goto2("edit", "ended") /\ Fails(1)
    <2>1. PICK x : Become("edit", x) /\ "pc" \in DOMAIN x /\ x.pc = "ended"
      BY <1>5, GotoIs
    <2> QED
      BY <1>1, <1>3, <1>5, <2>1, QuietKeeps DEF Plain
  <1> QED
    BY <1>1, <1>4, <1>5

LEMMA EditPublishesKeeps == ASSUME WalletInv, "edit" \in WCalls, EditPublishes PROVE WalletInv'
  <1> DEFINE e == wlWork["edit"].evt
  <1>1. /\ Goto2("edit", "ended") /\ Publish({e}) /\ wlWork["edit"].pc = "publish" /\ ~wlPanic
        /\ UNCHANGED <<wlTokens, wlBehind, wlTokensMu, wlPending, wlIssued, wlSpent, wlGiven, wlFaults, wlPanic>>
    BY DEF EditPublishes, At, wlLoad, wlMoney
  <1>2. e.kind = "wallet"
    BY <1>1, CallFacts DEF WorkOk
  <1>3. PICK w2 : Become("edit", w2) /\ "pc" \in DOMAIN w2 /\ w2.pc = "ended"
    BY <1>1, GotoIs
  <1> HIDE DEF e
  <1>4. Adds({e})
    BY <1>1, <1>2, CallFacts DEF Adds, Publish, RelayInv, EventOk
  <1>5. /\ (\A S : WorkOk(w2, S)) /\ (\A arr, spent, doomed : PlacesIn(w2, arr, spent, doomed)) /\ w2.pc \notin Locked
    BY <1>3, PlainIsOk DEF Plain
  <1>6. CallStep("edit", w2, {}, {e})
    BY <1>1, <1>3, <1>4, <1>5, NoneSigned, CallFacts DEF CallStep
  <1>7. wlWork["edit"].pc \notin HandPcs /\ wlWork["edit"].pc \notin Loops /\ wlWork["edit"].pc # "melt"
    BY <1>1 DEF HandPcs, Saving, Coming, Loops
  <1>8. CallPays("edit", w2, {})
    BY <1>1, <1>7, NothingPaid, NoHands, CallFacts
  <1>9. CallLocks("edit", w2) /\ CallReserves("edit", w2)
    BY <1>1, <1>3, <1>5, <1>7 DEF CallLocks, CallReserves
  <1> QED
    BY <1>1, <1>2, <1>5, <1>6, <1>7, <1>8, <1>9, TameCallKeeps DEF Harmless

-----------------------------------------------------------------------------
(* Choosing tokens *)

\* The places that are left, with the same notes, are as safe.
LEMMA PlacesStay ==
    ASSUME NEW w, NEW arr, NEW arr2, NEW spent, NEW doomed, PlacesIn(w, arr, spent, doomed), DOMAIN arr2 \subseteq DOMAIN arr,
           \A i \in DOMAIN arr2 : arr2[i].notes = arr[i].notes /\ arr2[i].id = arr[i].id
    PROVE  PlacesIn(w, arr2, spent, doomed)
  <1>1. w.pc = "choose" => \A p \in w.picked :
          p.token.notes \cap spent # {} \/ (p.place \in DOMAIN arr2 => arr2[p.place].notes = p.token.notes)
    BY DEF PlacesIn
  <1>2. ASSUME w.pc \in Chosen, w.notes \cap spent = {}
        PROVE  /\ \A i \in w.idx \cap DOMAIN arr2 : arr2[i].notes \subseteq w.notes
               /\ w.repeats \/ \A i, j \in w.idx \cap DOMAIN arr2 : i # j => arr2[i].notes \cap arr2[j].notes = {}
    <2>1. \A i \in w.idx \cap DOMAIN arr : arr[i].notes \subseteq w.notes
      BY <1>2 DEF PlacesIn
    <2>2. w.repeats \/ \A i, j \in w.idx \cap DOMAIN arr : i # j => arr[i].notes \cap arr[j].notes = {}
      BY <1>2 DEF PlacesIn
    <2>3. \A i \in w.idx \cap DOMAIN arr2 : arr2[i].notes \subseteq w.notes
      BY <2>1
    <2>4. ASSUME ~w.repeats, NEW i \in w.idx \cap DOMAIN arr2, NEW j \in w.idx \cap DOMAIN arr2, i # j
          PROVE  arr2[i].notes \cap arr2[j].notes = {}
      <3>1. arr[i].notes \cap arr[j].notes = {}
        BY <2>2, <2>4
      <3>2. arr2[i].notes = arr[i].notes /\ arr2[j].notes = arr[j].notes
        OBVIOUS
      <3> QED
        BY <3>1, <3>2
    <2> QED
      BY <2>3, <2>4
  <1>3. ASSUME w.pc = "save"
        PROVE  /\ \A i \in w.idx \cap DOMAIN arr2 : i >= w.at => arr2[i].notes \subseteq spent /\ arr2[i].id \notin doomed
               /\ \A i, j \in w.idx \cap DOMAIN arr2 : i >= w.at /\ j >= w.at /\ i # j => arr2[i].id # arr2[j].id
    BY <1>3 DEF PlacesIn
  <1> QED
    BY <1>1, <1>2, <1>3 DEF PlacesIn

\* What is at the next place is added to what was chosen.
LEMMA PickedIs ==
    ASSUME NEW w, NEW arr, NEW spent, NEW doomed, w.pc = "choose", PlacesIn(w, arr, spent, doomed), w.at \in DOMAIN arr,
           NEW w2, w2.pc = "choose", w2.picked = w.picked \/ w2.picked = w.picked \cup {[place |-> w.at, token |-> arr[w.at]]}
    PROVE  PlacesIn(w2, arr, spent, doomed)
  <1> DEFINE here == [place |-> w.at, token |-> arr[w.at]]
  <1>1. here.place = w.at /\ here.token = arr[w.at]
    OBVIOUS
  <1> HIDE DEF here
  <1>2. \A p \in w2.picked : p \in w.picked \/ p = here
    BY DEF here
  <1>3. \A p \in w2.picked :
          p.token.notes \cap spent # {} \/ (p.place \in DOMAIN arr => arr[p.place].notes = p.token.notes)
    BY <1>1, <1>2 DEF PlacesIn
  <1> QED
    BY <1>3 DEF PlacesIn, Chosen

\* What is chosen is there, or the mint will refuse it.
LEMMA ChosenIs ==
    ASSUME NEW w, NEW arr, NEW spent, NEW doomed, NEW mint, NEW part,
           \A p \in part : p.token.notes \cap spent # {} \/ (p.place \in DOMAIN arr => arr[p.place].notes = p.token.notes)
    PROVE  PlacesIn(Chose(w, mint, part), arr, spent, doomed)
  <1> DEFINE w2 == Chose(w, mint, part)
  <1>1. /\ w2.pc \in {"quote", "swap"} /\ w2.idx = {p.place : p \in part} /\ w2.notes = NotesOf(part) /\ w2.repeats = Repeats(part)
    BY DEF Chose
  <1> HIDE DEF w2
  <1>2. \A p \in part : p.token.notes \subseteq w2.notes
    BY <1>1 DEF NotesOf
  <1>3. ASSUME w2.notes \cap spent = {}
        PROVE  /\ \A i \in w2.idx \cap DOMAIN arr : arr[i].notes \subseteq w2.notes
               /\ w2.repeats \/ \A i, j \in w2.idx \cap DOMAIN arr : i # j => arr[i].notes \cap arr[j].notes = {}
    <2>1. \A p \in part : p.token.notes \cap spent = {}
      BY <1>2, <1>3
    <2>2. \A p \in part : p.place \in DOMAIN arr => arr[p.place].notes = p.token.notes
      BY <2>1
    <2>3. ASSUME NEW i \in w2.idx \cap DOMAIN arr PROVE arr[i].notes \subseteq w2.notes
      <3>1. PICK p \in part : p.place = i
        BY <1>1
      <3> QED
        BY <1>2, <2>2, <3>1
    <2>4. ASSUME ~w2.repeats, NEW i \in w2.idx \cap DOMAIN arr, NEW j \in w2.idx \cap DOMAIN arr, i # j
          PROVE  arr[i].notes \cap arr[j].notes = {}
      <3>1. PICK p \in part : p.place = i
        BY <1>1
      <3>2. PICK q \in part : q.place = j
        BY <1>1
      <3>3. p # q
        BY <2>4, <3>1, <3>2
      <3>4. p.token.notes \cap q.token.notes = {}
        BY <1>1, <2>4, <3>3 DEF Repeats
      <3> QED
        BY <2>2, <3>1, <3>2, <3>4
    <2> QED
      BY <2>3, <2>4
  <1> QED
    BY <1>1, <1>3 DEF PlacesIn, w2

LEMMA ChooseNextKeeps == ASSUME WalletInv, NEW t \in WCalls, ChooseNext(t) PROVE WalletInv'
  <1> DEFINE w == wlWork[t]
             token == Slot(w.at)
             here == [place |-> w.at, token |-> token]
             part == {p \in w.picked : p.token.mint = token.mint} \cup {here}
             skip == [w EXCEPT !.at = @ + 1]
             pick == [w EXCEPT !.at = @ + 1, !.picked = @ \cup {here}]
             chose == Chose(w, token.mint, part)
  <1>1. /\ w.pc = "choose" /\ ~wlPanic
        /\ UNCHANGED <<wlTokens, wlPending, wlRelay, wlEcho, wlIssued, wlSpent, wlGiven, wlPanic>>
        /\ \/ Ended(t, ~w.pays) /\ wlBehind' = <<>> /\ (Fails(1) \/ UNCHANGED wlFaults)
           \/ /\ w.at \in Places /\ UNCHANGED <<wlFaults, wlTokensMu>>
              /\ \/ Become(t, skip) /\ UNCHANGED wlBehind
                 \/ Become(t, pick) /\ UNCHANGED wlBehind
                 \/ Become(t, chose) /\ wlBehind' = <<>>
    BY DEF ChooseNext, wlLoad, At
  <1>2. /\ WorkOk(w, wlIssued) /\ wlFaults \in Nat /\ TypesInv /\ wlTokensMu = t /\ Alone(t)
    BY <1>1, CallFacts, HasLock DEF Locked
  <1>3. w.pc \notin HandPcs
    BY <1>1 DEF HandPcs, Saving, Coming
  <1>4. CASE Ended(t, ~w.pays) /\ wlBehind' = <<>> /\ (Fails(1) \/ UNCHANGED wlFaults)
    <2>1. PICK w2 : Become(t, w2) /\ "pc" \in DOMAIN w2 /\ w2.pc \in Plain
      BY <1>4, EndedIs
    <2>2. wlWork[t].pc # "melt" /\ wlWork[t].pc \notin HandPcs
      BY <1>1, <1>3
    <2> QED
      BY <1>1, <1>2, <1>4, <2>1, <2>2, QuietKeeps
  <1>5. /\ {"pc", "at", "picked"} \subseteq DOMAIN w /\ w.at \in Nat /\ \A p \in w.picked : p.token \in TokensOf(wlIssued)
    BY <1>1, <1>2 DEF WorkOk
  <1>6. PlacesIn(w, Arr, wlSpent, Doomed)
    BY DEF WalletInv, SafeInv
  <1>7. CASE w.at \in Places /\ UNCHANGED <<wlFaults, wlTokensMu>>
             /\ \/ Become(t, skip) /\ UNCHANGED wlBehind
                \/ Become(t, pick) /\ UNCHANGED wlBehind
                \/ Become(t, chose) /\ wlBehind' = <<>>
    <2>1. w.at \in DOMAIN Arr /\ token = Arr[w.at]
      BY <1>7, SlotsAre
    <2>2. token \in TokensOf(wlIssued)
      BY <1>2, <2>1, ArrIs DEF Arr, TypesInv, TokensInv
    <2>3. token.mint \in WMints
      BY <2>2, TokenIs
    <2>4. here.token = token /\ here.place = w.at
      OBVIOUS
    <2>5. ASSUME NEW w2, Become(t, w2), WorkOk(w2, wlIssued), w2.pc \in {"choose", "quote", "swap"},
                 (UNCHANGED wlBehind /\ w2.pc = "choose") \/ wlBehind' = <<>>, PlacesIn(w2, Arr, wlSpent, Doomed)
          PROVE  WalletInv'
      <3>1. CallStep(t, w2, {}, {})
        BY <1>1, <1>2, <1>7, <2>5, NoneAdded, NoneSigned DEF CallStep, TypesInv
      <3>2. CallPays(t, w2, {})
        BY <1>1, <1>2, <1>3, <1>7, NothingPaid, NoHands
      <3>3. CallLocks(t, w2)
        BY <1>2, <1>7 DEF CallLocks
      <3>4. CallReserves(t, w2)
        BY <1>1, <2>5 DEF CallReserves
      <3>5. PlacesIn(w2, Arr', wlSpent', Doomed)
        <4>1. DOMAIN Arr' \subseteq DOMAIN Arr /\ \A i \in DOMAIN Arr' : Arr'[i] = Arr[i]
          BY <1>1, <1>2, <2>5, CutIs
        <4> QED
          BY <1>1, <2>5, <4>1, PlacesStay
      <3> QED
        BY <1>2, <2>5, <3>1, <3>2, <3>3, <3>4, <3>5, TameCallKeeps DEF Loops
    <2>6. CASE Become(t, skip) /\ UNCHANGED wlBehind
      <3>1. /\ {"pc", "at", "picked"} \subseteq DOMAIN skip /\ skip.pc = "choose" /\ skip.at = w.at + 1 /\ skip.picked = w.picked
        BY <1>1, <1>5
      <3> HIDE DEF skip
      <3>2. WorkOk(skip, wlIssued)
        BY <1>5, <3>1 DEF WorkOk, Chosen, Saving, Coming
      <3>3. PlacesIn(skip, Arr, wlSpent, Doomed)
        <4> HIDE DEF w
        <4> QED
          BY <1>1, <1>6, <2>1, <3>1, PickedIs
      <3> QED
        BY <2>5, <2>6, <3>1, <3>2, <3>3
    <2>7. CASE Become(t, pick) /\ UNCHANGED wlBehind
      <3>1. /\ {"pc", "at", "picked"} \subseteq DOMAIN pick /\ pick.pc = "choose" /\ pick.at = w.at + 1
            /\ pick.picked = w.picked \cup {here}
        BY <1>1, <1>5
      <3>2. \A p \in w.picked \cup {here} : p.token \in TokensOf(wlIssued)
        BY <1>5, <2>2, <2>4
      <3>3. pick.picked = w.picked \cup {[place |-> w.at, token |-> Arr[w.at]]}
        BY <2>1, <3>1
      <3> HIDE DEF pick, here
      <3>4. WorkOk(pick, wlIssued)
        BY <1>5, <3>1, <3>2 DEF WorkOk, Chosen, Saving, Coming
      <3>5. PlacesIn(pick, Arr, wlSpent, Doomed)
        <4> HIDE DEF w
        <4> QED
          BY <1>1, <1>6, <2>1, <3>1, <3>3, PickedIs
      <3> QED
        BY <2>5, <2>7, <3>1, <3>4, <3>5
    <2>8. CASE Become(t, chose) /\ wlBehind' = <<>>
      <3>1. \A p \in part : p \in w.picked \/ p = here
        OBVIOUS
      <3>2. \A p \in w.picked :
              p.token.notes \cap wlSpent # {} \/ (p.place \in DOMAIN Arr => Arr[p.place].notes = p.token.notes)
        BY <1>1, <1>6 DEF PlacesIn
      <3> HIDE DEF here, part, w
      <3>5. PlacesIn(chose, Arr, wlSpent, Doomed)
        <4>1. \A p \in part :
                p.token.notes \cap wlSpent # {} \/ (p.place \in DOMAIN Arr => Arr[p.place].notes = p.token.notes)
          BY <2>1, <2>4, <3>1, <3>2
        <4> HIDE DEF token
        <4> QED
          BY <4>1, ChosenIs
      <3>6. /\ {"pc", "idx", "notes", "repeats", "mint"} \subseteq DOMAIN chose /\ chose.pc \in {"quote", "swap"}
            /\ chose.mint = token.mint
        BY DEF Chose
      <3> HIDE DEF chose
      <3>7. WorkOk(chose, wlIssued)
        BY <2>3, <3>6 DEF WorkOk, Chosen, Saving, Coming
      <3> QED
        BY <2>5, <2>8, <3>5, <3>6, <3>7
    <2> QED
      BY <1>7, <2>6, <2>7, <2>8
  <1> QED
    BY <1>1, <1>4, <1>7

-----------------------------------------------------------------------------
(* Swaps, and what is saved *)

\* A swap or a melt makes one note or none of each amount.
LEMMA MadeNote ==
    ASSUME NEW m, NEW a, NEW k
    PROVE  Made(m, a, k) = {} \/ (Made(m, a, k) = {Note(m, a, k)} /\ Note(m, a, k).n = Cardinality(wlIssued) + k)
  BY DEF Made, Note

LEMMA MadeNotesIs ==
    ASSUME NEW m, NEW a, NEW k, NEW S, Made(m, a, k) \subseteq S
    PROVE  AtMostOne(Made(m, a, k), S)
  BY DEF Made, AtMostOne

\* A mint has accepted what a call chose: it is there, it is not deleted, and
\* it is deleted once.
LEMMA SaveIs ==
    ASSUME WalletInv, NEW t \in WCalls, wlWork[t].pc \in Chosen, wlWork[t].notes \cap wlSpent = {}, ~wlWork[t].repeats,
           UNCHANGED <<wlTokens, wlBehind>>, wlSpent' = wlSpent \cup wlWork[t].notes, wlIssued \subseteq wlIssued',
           NEW principal, NEW change, NEW claim, AtMostOne(principal, wlIssued'), AtMostOne(change, wlIssued'),
           AtMostOne(claim, wlIssued'), wlWork[t].to = "nobody" => claim = {}
    PROVE  LET w2 == SaveWork(wlWork[t], principal, change, claim) IN
           /\ w2.pc = "save" /\ w2.updated = <<>> /\ Held(w2) = principal \cup change \cup claim
           /\ WorkOk(w2, wlIssued') /\ PlacesIn(w2, Arr', wlSpent', Doomed)
  <1> DEFINE w == wlWork[t]
             w2 == SaveWork(w, principal, change, claim)
  <1>1. /\ {"pc", "at", "idx", "updated", "mint", "change", "principal", "claim", "to"} \subseteq DOMAIN w2
        /\ w2.pc = "save" /\ w2.mint = w.mint /\ w2.principal = principal /\ w2.change = change /\ w2.claim = claim
        /\ w2.to = w.to /\ w2.idx = w.idx /\ w2.at = 1 /\ w2.updated = <<>>
    BY DEF SaveWork
  <1>2. w.mint \in WMints
    BY CallFacts DEF WorkOk
  <1>3. PlacesIn(w, Arr, wlSpent, Doomed) /\ Arr' = Arr /\ DoomedAreSpent(wlIssued, wlSpent, Doomed)
    BY DEF WalletInv, SafeInv, Arr
  <1>4. /\ \A i \in w.idx \cap DOMAIN Arr : Arr[i].notes \subseteq w.notes
        /\ \A i, j \in w.idx \cap DOMAIN Arr : i # j => Arr[i].notes \cap Arr[j].notes = {}
    BY <1>3 DEF PlacesIn
  <1>5. \A i \in DOMAIN Arr : Arr[i] \in TokensOf(wlIssued)
    BY ArrIs DEF Arr, WalletInv, TypesInv, TokensInv
  <1>6. \A i \in DOMAIN Arr : \E n \in wlIssued : Arr[i].notes = {n} /\ Arr[i].id = n.n
    BY <1>5, TokenIs
  <1>7. ASSUME NEW i \in w.idx \cap DOMAIN Arr PROVE Arr[i].notes \subseteq wlSpent' /\ Arr[i].id \notin Doomed
    <2>1. PICK n \in wlIssued : Arr[i].notes = {n} /\ Arr[i].id = n.n
      BY <1>6
    <2>2. n \in w.notes /\ n \notin wlSpent
      BY <1>4, <2>1
    <2> QED
      BY <1>3, <2>1, <2>2 DEF DoomedAreSpent
  <1>8. ASSUME NEW i \in w.idx \cap DOMAIN Arr, NEW j \in w.idx \cap DOMAIN Arr, i # j PROVE Arr[i].id # Arr[j].id
    <2>1. PICK n \in wlIssued : Arr[i].notes = {n} /\ Arr[i].id = n.n
      BY <1>6
    <2>2. PICK m \in wlIssued : Arr[j].notes = {m} /\ Arr[j].id = m.n
      BY <1>6
    <2>3. Arr[i].notes \cap Arr[j].notes = {}
      BY <1>4, <1>8
    <2>4. n # m
      BY <2>1, <2>2, <2>3
    <2> QED
      BY <2>1, <2>2, <2>4 DEF WalletInv, TypesInv, IssuedOk
  <1>9. <<>> \in Seq(TokensOf(wlIssued'))
    OBVIOUS
  <1>10. w.to = "nobody" => claim = {}
    OBVIOUS
  <1> HIDE DEF w2
  <1>11. SavingOk(w2, wlIssued')
    BY <1>1, <1>10 DEF SavingOk
  <1> HIDE DEF w
  <1>12. WorkOk(w2, wlIssued')
    BY <1>1, <1>2, <1>9, <1>11 DEF WorkOk, Chosen, Coming, Saving
  <1>13. PlacesIn(w2, Arr', wlSpent', Doomed)
    BY <1>1, <1>3, <1>7, <1>8 DEF PlacesIn, Chosen
  <1>14. Held(w2) = principal \cup change \cup claim
    BY <1>1 DEF Held, Saving, Coming
  <1> QED
    BY <1>1, <1>12, <1>13, <1>14 DEF w2, w

LEMMA SendSwapsKeeps == ASSUME WalletInv, NEW t \in WCalls, SendSwaps(t) PROVE WalletInv'
  <1> DEFINE w == wlWork[t]
             principal == Made(w.mint, SplitPrincipal(w.total, w.fee, w.amount), 1)
             change == Made(w.mint, SplitChange(w.total, w.fee, w.amount), 2)
             w2 == SaveWork(w, principal, change, {})
             done == /\ MintAccepts(w, w.amount) /\ wlSpent' = wlSpent \cup w.notes
                     /\ wlIssued' = wlIssued \cup principal \cup change
  <1>1. /\ w.pc = "swap" /\ ~wlPanic
        /\ UNCHANGED <<wlTokens, wlBehind, wlPending, wlRelay, wlEcho, wlGiven, wlPanic>>
        /\ \/ done /\ UNCHANGED <<wlFaults, wlTokensMu>> /\ Become(t, w2)
           \/ done /\ Fails(1) /\ Ended(t, TRUE)
           \/ (Fails(1) \/ UNCHANGED wlFaults) /\ Ended(t, TRUE) /\ UNCHANGED <<wlSpent, wlIssued>>
    BY DEF SendSwaps, wlLoad, At
  <1>2. /\ WorkOk(w, wlIssued) /\ wlFaults \in Nat /\ TypesInv /\ wlTokensMu = t /\ Alone(t)
    BY <1>1, CallFacts, HasLock DEF Locked, Chosen
  <1>3. w.pc \notin HandPcs /\ w.pc # "melt" /\ w.pc \notin Loops
    BY <1>1 DEF HandPcs, Saving, Coming, Loops
  <1>4. done => Issues(principal \cup change)
    <2> HAVE done
    <2> DEFINE x == Note(w.mint, SplitPrincipal(w.total, w.fee, w.amount), 1)
               y == Note(w.mint, SplitChange(w.total, w.fee, w.amount), 2)
    <2>1. principal = {x} /\ x.n = Cardinality(wlIssued) + 1 /\ y.n = Cardinality(wlIssued) + 2
      BY DEF MintAccepts, Made, Note
    <2>2. change = {} \/ change = {y}
      BY MadeNote
    <2> HIDE DEF x, y, change, principal
    <2>3. principal \cup change = {x} \/ principal \cup change = {x, y}
      BY <2>1, <2>2
    <2> QED
      BY <2>1, <2>3 DEF Signed, Issues
  <1>5. CASE done /\ UNCHANGED <<wlFaults, wlTokensMu>> /\ Become(t, w2)
    <2>1. AtMostOne(principal, wlIssued') /\ AtMostOne(change, wlIssued') /\ AtMostOne({}, wlIssued')
      <3>1. principal \subseteq wlIssued' /\ change \subseteq wlIssued'
        BY <1>5
      <3>2. AtMostOne({}, wlIssued')
        BY DEF AtMostOne
      <3> QED
        BY <3>1, <3>2, MadeNotesIs
    <2>2. w.notes \cap wlSpent = {} /\ ~w.repeats /\ wlSpent' = wlSpent \cup w.notes /\ wlIssued \subseteq wlIssued'
      BY <1>5 DEF MintAccepts
    <2>3. Issues(principal \cup change)
      BY <1>4, <1>5
    <2> HIDE DEF principal, change
    <2>4. /\ w2.pc = "save" /\ w2.updated = <<>> /\ Held(w2) = principal \cup change \cup {}
          /\ WorkOk(w2, wlIssued') /\ PlacesIn(w2, Arr', wlSpent', Doomed)
      BY <1>1, <2>1, <2>2, SaveIs DEF Chosen
    <2> HIDE DEF w2
    <2>5. CallStep(t, w2, principal \cup change, {})
      BY <1>1, <1>2, <1>5, <2>2, <2>3, <2>4, NoneAdded DEF CallStep, TypesInv
    <2>6. CallPays(t, w2, principal \cup change)
      <3>1. Held(wlWork[t]) = {}
        BY <1>3, NoHands
      <3> QED
        BY <1>1, <1>5, <2>4, <3>1 DEF CallPays
    <2>7. CallLocks(t, w2) /\ CallReserves(t, w2)
      BY <1>1, <1>2, <1>3, <1>5, <2>4 DEF CallLocks, CallReserves
    <2> QED
      BY <1>1, <1>3, <2>4, <2>5, <2>6, <2>7, TameCallKeeps
  <1>6. CASE Ended(t, TRUE) /\ Fails(1) /\ done
    <2>1. PICK x : Become(t, x) /\ "pc" \in DOMAIN x /\ x.pc \in Plain
      BY <1>6, EndedIs
    <2>2. Issues(principal \cup change) /\ wlSpent \subseteq wlSpent' /\ wlFaults' \in Nat
      BY <1>2, <1>4, <1>6, FaultsAre
    <2>3. CallPays(t, x, principal \cup change)
      BY <1>2, <1>6, FaultPays
    <2> HIDE DEF principal, change
    <2> QED
      BY <1>1, <1>2, <1>3, <2>1, <2>2, <2>3, PlainKeeps
  <1>7. CASE Ended(t, TRUE) /\ (Fails(1) \/ UNCHANGED wlFaults) /\ UNCHANGED <<wlSpent, wlIssued>>
    <2>1. PICK x : Become(t, x) /\ "pc" \in DOMAIN x /\ x.pc \in Plain
      BY <1>7, EndedIs
    <2> QED
      BY <1>1, <1>2, <1>3, <1>7, <2>1, QuietKeeps
  <1> QED
    BY <1>1, <1>5, <1>6, <1>7

\* A deletion dooms its token.
LEMMA DeletionDooms ==
    ASSUME NEW id, wlRelay' = wlRelay \cup {Deletion(id)}
    PROVE  Doomed' = Doomed \cup {id}
  <1>1. Deletion(id).kind = "deletion" /\ Deletion(id).id = id
    BY DEF Deletion
  <1> QED
    BY <1>1 DEF Doomed, TokenEvents

\* The place is passed.
LEMMA PassedIs ==
    ASSUME NEW w, NEW arr, NEW spent, NEW doomed, w.pc = "save", w.at \in Nat, DOMAIN arr \subseteq Nat,
           PlacesIn(w, arr, spent, doomed), NEW w2, w2.pc = "save", w2.idx = w.idx, w2.at = w.at + 1,
           NEW doomed2, doomed2 = doomed \/ (w.at \in w.idx \cap DOMAIN arr /\ doomed2 = doomed \cup {arr[w.at].id})
    PROVE  PlacesIn(w2, arr, spent, doomed2)
  <1>1. /\ \A i \in w.idx \cap DOMAIN arr : i >= w.at => arr[i].notes \subseteq spent /\ arr[i].id \notin doomed
        /\ \A i, j \in w.idx \cap DOMAIN arr : i >= w.at /\ j >= w.at /\ i # j => arr[i].id # arr[j].id
    BY DEF PlacesIn
  <1>2. \A i \in DOMAIN arr : i >= w2.at => i >= w.at /\ i # w.at
    OBVIOUS
  <1>3. w.at >= w.at
    OBVIOUS
  <1>4. ASSUME NEW i \in w2.idx \cap DOMAIN arr, i >= w2.at PROVE arr[i].notes \subseteq spent /\ arr[i].id \notin doomed2
    BY <1>1, <1>2, <1>3, <1>4
  <1>5. \A i, j \in w2.idx \cap DOMAIN arr : i >= w2.at /\ j >= w2.at /\ i # j => arr[i].id # arr[j].id
    BY <1>1, <1>2
  <1> QED
    BY <1>4, <1>5 DEF PlacesIn, Chosen

LEMMA SaveDeletesKeeps == ASSUME WalletInv, NEW t \in WCalls, SaveDeletes(t) PROVE WalletInv'
  <1> DEFINE w == wlWork[t]
             pass == [w EXCEPT !.at = @ + 1]
             keep == [w EXCEPT !.at = @ + 1, !.updated = Append(@, Slot(w.at))]
  <1>1. /\ w.pc = "save" /\ ~wlPanic
        /\ UNCHANGED <<wlTokens, wlTokensMu, wlPending, wlIssued, wlSpent, wlGiven, wlFaults, wlPanic>>
        /\ \/ Goto2(t, "change") /\ wlBehind' = <<>> /\ UNCHANGED <<wlRelay, wlEcho>>
           \/ w.at \in Places /\ w.at \in w.idx /\ Publish({Deletion(Slot(w.at).id)}) /\ Become(t, pass) /\ UNCHANGED wlBehind
           \/ w.at \in Places /\ Become(t, keep) /\ UNCHANGED <<wlBehind, wlRelay, wlEcho>>
    BY DEF SaveDeletes, wlLoad, wlMoney, At
  <1>2. /\ WorkOk(w, wlIssued) /\ wlFaults \in Nat /\ TypesInv /\ RelayInv /\ wlTokensMu = t /\ Alone(t)
    BY <1>1, CallFacts, HasLock DEF Locked, Saving
  <1>3. /\ {"pc", "at", "idx", "updated", "mint"} \subseteq DOMAIN w /\ w.at \in Nat /\ SavingOk(w, wlIssued)
        /\ w.updated \in Seq(TokensOf(wlIssued)) /\ w.mint \in WMints
    BY <1>1, <1>2 DEF WorkOk, Saving
  <1>4. \A i \in DOMAIN w.updated : w.updated[i].reserved => w.updated[i].notes \subseteq wlSpent
    BY <1>1 DEF WalletInv, ReservedInv
  <1>5. /\ {"change", "principal", "claim", "to"} \subseteq DOMAIN w
    BY <1>3 DEF SavingOk
  <1>6. PlacesIn(w, Arr, wlSpent, Doomed) /\ DoomedAreSpent(wlIssued, wlSpent, Doomed)
    BY DEF WalletInv, SafeInv
  <1>7. DOMAIN Arr \subseteq Nat /\ \A i \in DOMAIN Arr : Arr[i] \in TokensOf(wlIssued)
    BY <1>2, ArrIs DEF Arr, TypesInv, TokensInv
  \* What the next of it must be like.
  <1>8. ASSUME NEW w2, {"pc", "at", "idx", "updated", "mint", "change", "principal", "claim", "to"} \subseteq DOMAIN w2,
               w2.pc \in {"save", "change"}, w2.at \in Nat, w2.mint = w.mint, w2.to = w.to, w2.change = w.change,
               w2.principal = w.principal, w2.claim = w.claim, w2.updated \in Seq(TokensOf(wlIssued))
        PROVE  WorkOk(w2, wlIssued) /\ Held(w2) = Held(w) /\ w2.pc \in Locked
    <2> HIDE DEF w
    <2>1. SavingOk(w2, wlIssued)
      BY <1>3, <1>8 DEF SavingOk
    <2>2. WorkOk(w2, wlIssued)
      BY <1>3, <1>8, <2>1 DEF WorkOk, Chosen, Coming, Saving
    <2> QED
      BY <1>1, <1>8, <2>2 DEF Held, Saving, Coming, Locked
  <1>9. CASE Goto2(t, "change") /\ wlBehind' = <<>> /\ UNCHANGED <<wlRelay, wlEcho>>
    <2>1. PICK w2 : /\ Become(t, w2) /\ "pc" \in DOMAIN w2 /\ w2.pc = "change" /\ DOMAIN w2 = DOMAIN w
                    /\ \A f \in DOMAIN w2 : f # "pc" => w2[f] = w[f]
      BY <1>9, GotoIs
    <2>2. /\ {"pc", "at", "idx", "updated", "mint", "change", "principal", "claim", "to"} \subseteq DOMAIN w2
          /\ w2.at = w.at /\ w2.mint = w.mint /\ w2.to = w.to /\ w2.change = w.change
          /\ w2.principal = w.principal /\ w2.claim = w.claim /\ w2.updated = w.updated
      BY <1>3, <1>5, <2>1
    <2>3. WorkOk(w2, wlIssued) /\ Held(w2) = Held(w) /\ w2.pc \in Locked
      BY <1>3, <1>8, <2>1, <2>2
    <2>4. CallStep(t, w2, {}, {})
      BY <1>1, <1>2, <1>9, <2>1, <2>3, NoneAdded, NoneSigned DEF CallStep
    <2>5. CallPays(t, w2, {})
      BY <1>1, <2>3 DEF CallPays
    <2>6. CallLocks(t, w2) /\ CallReserves(t, w2)
      BY <1>1, <1>2, <1>4, <1>9, <2>2 DEF CallLocks, CallReserves
    <2>7. PlacesIn(w2, Arr', wlSpent', Doomed)
      BY <2>1 DEF PlacesIn, Chosen
    <2> QED
      BY <1>2, <1>9, <2>4, <2>5, <2>6, <2>7, TameCallKeeps
  <1>10. CASE w.at \in Places /\ w.at \in w.idx /\ Publish({Deletion(Slot(w.at).id)}) /\ Become(t, pass) /\ UNCHANGED wlBehind
    <2> DEFINE id == Slot(w.at).id
    <2>1. w.at \in w.idx \cap DOMAIN Arr /\ id = Arr[w.at].id
      BY <1>10, SlotsAre
    <2>2. /\ {"pc", "at", "idx", "updated", "mint", "change", "principal", "claim", "to"} \subseteq DOMAIN pass
          /\ pass.pc = "save" /\ pass.at = w.at + 1 /\ pass.idx = w.idx /\ pass.mint = w.mint /\ pass.to = w.to /\ pass.change = w.change
          /\ pass.principal = w.principal /\ pass.claim = w.claim /\ pass.updated = w.updated
      BY <1>1, <1>3, <1>5
    <2> HIDE DEF pass
    <2>3. WorkOk(pass, wlIssued) /\ Held(pass) = Held(w) /\ pass.pc \in Locked
      BY <1>3, <1>8, <2>2
    <2>4. PICK n \in wlIssued : Arr[w.at].id = n.n /\ Arr[w.at].notes = {n} /\ Arr[w.at].id \in IdsOf(wlIssued)
      BY <1>7, <2>1, TokenIs
    <2>5. n \in wlSpent
      <3>1. w.at >= w.at
        BY <1>3
      <3>2. Arr[w.at].notes \subseteq wlSpent
        BY <1>1, <1>6, <2>1, <3>1 DEF PlacesIn
      <3> QED
        BY <2>4, <3>2
    <2>6. wlRelay' = wlRelay \cup {Deletion(id)} /\ wlEcho' \subseteq wlRelay'
      BY <1>2, <1>10 DEF Publish, RelayInv
    <2>7. Adds({Deletion(id)})
      <3>1. EventOk(Deletion(id), wlIssued')
        BY <1>1, <2>1, <2>4 DEF EventOk, Deletion
      <3> QED
        BY <1>1, <2>6, <3>1 DEF Adds
    <2>8. Doomed' = Doomed \cup {Arr[w.at].id}
      BY <2>1, <2>6, DeletionDooms
    <2> HIDE DEF id
    <2>9. CallStep(t, pass, {}, {Deletion(id)})
      BY <1>1, <1>2, <1>10, <2>3, <2>7, NoneSigned DEF CallStep
    <2>10. CallPays(t, pass, {})
      BY <1>1, <2>3 DEF CallPays
    <2>11. CallLocks(t, pass) /\ CallReserves(t, pass)
      BY <1>1, <1>2, <1>4, <1>10, <2>2 DEF CallLocks, CallReserves
    <2>12. CallTouches(t, pass)
      <3>1. Arr' = Arr
        BY <1>1, <1>10 DEF Arr
      <3>2. PlacesIn(pass, Arr, wlSpent, Doomed')
        <4> HIDE DEF w
        <4> QED
          BY <1>1, <1>3, <1>6, <1>7, <2>1, <2>2, <2>8, PassedIs
      <3>3. DoomedAreSpent(wlIssued', wlSpent', Doomed')
        BY <1>1, <1>2, <1>6, <2>4, <2>5, <2>8 DEF DoomedAreSpent, TypesInv, IssuedOk
      <3> QED
        BY <1>1, <1>2, <1>10, <2>2, <3>1, <3>2, <3>3 DEF CallTouches, Loops
    <2> QED
      BY <2>9, <2>10, <2>11, <2>12, QuietCallKeeps
  <1>11. CASE w.at \in Places /\ Become(t, keep) /\ UNCHANGED <<wlBehind, wlRelay, wlEcho>>
    <2> DEFINE x == Slot(w.at)
    <2>1. w.at \in DOMAIN Arr /\ x = Arr[w.at]
      BY <1>11, SlotsAre
    <2>2. /\ {"pc", "at", "idx", "updated", "mint", "change", "principal", "claim", "to"} \subseteq DOMAIN keep
          /\ keep.pc = "save" /\ keep.at = w.at + 1 /\ keep.idx = w.idx /\ keep.mint = w.mint /\ keep.to = w.to /\ keep.change = w.change
          /\ keep.principal = w.principal /\ keep.claim = w.claim /\ keep.updated = Append(w.updated, x)
      BY <1>1, <1>3, <1>5
    <2> HIDE DEF keep
    <2>3. x \in TokensOf(wlIssued)
      BY <1>7, <2>1
    <2>4. x.reserved => x.notes \subseteq wlSpent
      <3> HAVE x.reserved
      <3>1. Arr[w.at].notes \subseteq wlSpent \/ \E c \in WCalls : ReservedBy(wlWork[c], w.at)
        BY <1>1, <2>1 DEF WalletInv, ReservedInv
      <3>2. \A c \in WCalls : wlWork[c].pc # "melt"
        <4>1. \A c \in WCalls : c # t => wlWork[c].pc \notin Locked
          BY <1>2, AloneIs DEF WalletInv
        <4> QED
          BY <1>1, <4>1 DEF Locked, Chosen
      <3> QED
        BY <2>1, <3>1, <3>2 DEF ReservedBy
    <2> HIDE DEF x
    <2>5. Append(w.updated, x) \in Seq(TokensOf(wlIssued))
      BY <1>3, <2>3
    <2>6. \A i \in DOMAIN keep.updated : keep.updated[i].reserved => keep.updated[i].notes \subseteq wlSpent'
      <3>1. w.updated \in Seq(TokensOf(wlIssued)) /\ \A i \in DOMAIN w.updated : w.updated[i].reserved => w.updated[i].notes \subseteq wlSpent
        BY <1>3, <1>4
      <3> HIDE DEF w
      <3> DEFINE s == w.updated
      <3>2. keep.updated = Append(s, x)
        BY <2>2
      <3> HIDE DEF s
      <3>3. \A i \in DOMAIN Append(s, x) : Append(s, x)[i] = x \/ (i \in DOMAIN s /\ Append(s, x)[i] = s[i])
        BY <3>1 DEF s
      <3> QED
        BY <1>1, <2>4, <3>1, <3>2, <3>3 DEF s
    <2>7. WorkOk(keep, wlIssued) /\ Held(keep) = Held(w) /\ keep.pc \in Locked
      <3>1. keep.updated \in Seq(TokensOf(wlIssued)) /\ keep.at \in Nat
        BY <1>3, <2>2, <2>5
      <3> QED
        BY <1>8, <2>2, <3>1
    <2>8. CallStep(t, keep, {}, {})
      BY <1>1, <1>2, <1>11, <2>7, NoneAdded, NoneSigned DEF CallStep
    <2>9. CallPays(t, keep, {})
      BY <1>1, <2>7 DEF CallPays
    <2>10. CallLocks(t, keep) /\ CallReserves(t, keep)
      BY <1>1, <1>2, <1>11, <2>2, <2>6 DEF CallLocks, CallReserves
    <2>11. PlacesIn(keep, Arr', wlSpent', Doomed)
      <3>1. Arr' = Arr
        BY <1>1, <1>11 DEF Arr
      <3> HIDE DEF w
      <3> QED
        BY <1>1, <1>3, <1>6, <1>7, <2>2, <3>1, PassedIs
    <2> QED
      BY <1>1, <1>11, <2>2, <2>8, <2>9, <2>10, <2>11, TameCallKeeps DEF Loops
  <1> QED
    BY <1>1, <1>9, <1>10, <1>11

\* The token of the change, once it is published, keeps the change.
LEMMA KeptToken ==
    ASSUME WalletInv, NEW n \in wlIssued, NEW m \in WMints, Publish({TokenEvent(NewToken(m, {n}))}), UNCHANGED <<wlIssued, wlPending>>,
           SafeInv'
    PROVE  n \in KeptNotes' \/ n \in wlSpent'
  <1> DEFINE e == TokenEvent(NewToken(m, {n}))
  <1>1. e.kind = "token" /\ e.id = n.n /\ e.notes = {n}
    BY NewTokenIs
  <1>2. e \in wlRelay'
    BY DEF Publish
  <1> HIDE DEF e
  <1>3. CASE Deletion(e.id) \in wlRelay'
    <2>1. n.n \in Doomed'
      <3>1. Deletion(e.id).kind = "deletion" /\ Deletion(e.id).id = n.n
        BY <1>1 DEF Deletion
      <3> QED
        BY <1>3, <3>1 DEF Doomed
    <2> QED
      BY <2>1 DEF SafeInv, DoomedAreSpent
  <1>4. CASE Deletion(e.id) \notin wlRelay'
    BY <1>1, <1>2, <1>4 DEF KeptNotes, TokenEvents
  <1> QED
    BY <1>3, <1>4

LEMMA NobodyMelts ==
    ASSUME WalletInv, NEW t, Alone(t), t \in WCalls => wlWork[t].pc # "melt"
    PROVE  /\ \A c \in WCalls : wlWork[c].pc # "melt"
           /\ ~wlPanic => \A i \in DOMAIN Arr : Arr[i].reserved => Arr[i].notes \subseteq wlSpent
  <1>1. \A c \in WCalls : c # t => wlWork[c].pc \notin Locked
    BY AloneIs DEF WalletInv
  <1>2. \A c \in WCalls : wlWork[c].pc # "melt"
    BY <1>1 DEF Locked, Chosen
  <1> QED
    BY <1>2 DEF WalletInv, ReservedInv, ReservedBy

LEMMA NoLoops ==
    ASSUME WalletInv, NEW t, Alone(t), t \in WCalls => wlWork[t].pc \notin Loops
    PROVE  wlBehind = <<>> /\ DOMAIN Arr = DOMAIN wlTokens /\ \A i \in DOMAIN wlTokens : Arr[i] = wlTokens[i]
  <1>1. \A c \in WCalls : c # t => wlWork[c].pc \notin Locked
    BY AloneIs DEF WalletInv
  <1>2. wlBehind = <<>>
    BY <1>1 DEF WalletInv, TypesInv, TokensInv, Locked, Loops, Saving
  <1> DEFINE T == TokensOf(wlIssued)
  <1>3. wlTokens \in Seq(T) /\ <<>> \in Seq(T)
    BY DEF WalletInv, TypesInv, TokensInv
  <1> HIDE DEF T
  <1>4. Arr = ArrOf(wlTokens, <<>>)
    BY <1>2 DEF Arr
  <1>5. DOMAIN ArrOf(wlTokens, <<>>) = DOMAIN wlTokens
    BY <1>3, ArrIs
  <1>6. \A i \in DOMAIN wlTokens : ArrOf(wlTokens, <<>>)[i] = wlTokens[i]
    BY <1>5 DEF ArrOf
  <1> QED
    BY <1>2, <1>4, <1>5, <1>6

\* Nothing is behind the end.
LEMMA ArrNext ==
    ASSUME NEW S, wlTokens' \in Seq(S), wlBehind' = <<>>
    PROVE  /\ DOMAIN Arr' = DOMAIN wlTokens' /\ DOMAIN wlTokens' \subseteq Nat
           /\ \A i \in DOMAIN wlTokens' : Arr'[i] = wlTokens'[i]
  <1>1. wlBehind' \in Seq(S)
    OBVIOUS
  <1>2. Arr' = ArrOf(wlTokens', wlBehind')
    BY DEF Arr
  <1>3. /\ DOMAIN ArrOf(wlTokens', wlBehind') = DOMAIN wlTokens' /\ DOMAIN wlTokens' \subseteq Nat
        /\ \A i \in DOMAIN wlTokens' : ArrOf(wlTokens', wlBehind')[i] = wlTokens'[i]
    BY <1>1, ArrIs
  <1> QED
    BY <1>2, <1>3

LEMMA SaveChangeKeeps == ASSUME WalletInv, NEW t \in WCalls, SaveChange(t) PROVE WalletInv'
  <1> DEFINE w == wlWork[t]
             token == NewToken(w.mint, w.change)
  <1>1. /\ w.pc = "change" /\ ~wlPanic
        /\ UNCHANGED <<wlBehind, wlPending, wlIssued, wlSpent, wlGiven, wlPanic>>
        /\ \/ w.change = {} /\ Goto2(t, "history") /\ UNCHANGED <<wlTokens, wlTokensMu, wlRelay, wlEcho, wlFaults>>
           \/ Fails(1) /\ Ended(t, TRUE) /\ UNCHANGED <<wlTokens, wlRelay, wlEcho>>
           \/ /\ w.change # {} /\ Publish({TokenEvent(token)}) /\ wlTokens' = Append(w.updated, token)
              /\ Goto2(t, "history") /\ UNCHANGED <<wlTokensMu, wlFaults>>
    BY DEF SaveChange, wlLoad, At
  <1>2. /\ WorkOk(w, wlIssued) /\ wlFaults \in Nat /\ TypesInv /\ RelayInv /\ wlTokensMu = t /\ Alone(t)
    BY <1>1, CallFacts, HasLock DEF Locked, Saving
  <1>3. /\ {"pc", "updated", "mint", "change", "principal", "claim", "to"} \subseteq DOMAIN w /\ SavingOk(w, wlIssued)
        /\ w.updated \in Seq(TokensOf(wlIssued)) /\ w.mint \in WMints
    BY <1>1, <1>2 DEF WorkOk, Saving, SavingOk
  <1>4. w.pc \notin Loops /\ w.pc # "melt"
    BY <1>1 DEF Loops
  <1>5. ASSUME Goto2(t, "history")
        PROVE  \E w2 : /\ Become(t, w2) /\ w2.pc = "history" /\ WorkOk(w2, wlIssued) /\ Held(w) = Held(w2) \cup w.change
    <2>1. PICK w2 : /\ Become(t, w2) /\ "pc" \in DOMAIN w2 /\ w2.pc = "history" /\ DOMAIN w2 = DOMAIN w
                    /\ \A f \in DOMAIN w2 : f # "pc" => w2[f] = w[f]
      BY <1>5, GotoIs
    <2>2. w2.mint = w.mint /\ w2.to = w.to /\ w2.change = w.change /\ w2.principal = w.principal /\ w2.claim = w.claim
      BY <1>3, <2>1
    <2> HIDE DEF w
    <2>3. SavingOk(w2, wlIssued)
      BY <1>3, <2>1, <2>2 DEF SavingOk
    <2>4. WorkOk(w2, wlIssued)
      BY <1>3, <2>1, <2>2, <2>3 DEF WorkOk, Chosen, Coming, Saving
    <2>5. Held(w) = Held(w2) \cup w.change
      BY <1>1, <2>1, <2>2 DEF Held, Saving, Coming
    <2> QED
      BY <2>1, <2>4, <2>5
  <1>6. CASE Fails(1) /\ Ended(t, TRUE) /\ UNCHANGED <<wlTokens, wlRelay, wlEcho>>
    <2>1. PICK w2 : Become(t, w2) /\ "pc" \in DOMAIN w2 /\ w2.pc \in Plain
      BY <1>6, EndedIs
    <2> QED
      BY <1>1, <1>2, <1>4, <1>6, <2>1, QuietKeeps
  <1>7. CASE w.change = {} /\ Goto2(t, "history") /\ UNCHANGED <<wlTokens, wlTokensMu, wlRelay, wlEcho, wlFaults>>
    <2>1. PICK w2 : Become(t, w2) /\ w2.pc = "history" /\ WorkOk(w2, wlIssued) /\ Held(w) = Held(w2) \cup w.change
      BY <1>5, <1>7
    <2>2. CallStep(t, w2, {}, {})
      BY <1>1, <1>2, <1>7, <2>1, NoneAdded, NoneSigned DEF CallStep
    <2>3. CallPays(t, w2, {})
      BY <1>1, <1>7, <2>1 DEF CallPays
    <2>4. CallLocks(t, w2) /\ CallReserves(t, w2)
      BY <1>1, <1>2, <1>7, <2>1 DEF CallLocks, CallReserves
    <2>5. PlacesIn(w2, Arr', wlSpent', Doomed)
      BY <2>1 DEF PlacesIn, Chosen
    <2> QED
      BY <1>1, <1>4, <2>2, <2>3, <2>4, <2>5, TameCallKeeps
  <1>8. CASE /\ w.change # {} /\ Publish({TokenEvent(token)}) /\ wlTokens' = Append(w.updated, token)
             /\ Goto2(t, "history") /\ UNCHANGED <<wlTokensMu, wlFaults>>
    <2>1. PICK w2 : Become(t, w2) /\ w2.pc = "history" /\ WorkOk(w2, wlIssued) /\ Held(w) = Held(w2) \cup w.change
      BY <1>5, <1>8
    <2>2. PICK n \in wlIssued : w.change = {n}
      BY <1>3, <1>8 DEF SavingOk, AtMostOne
    <2>4. token = NewToken(w.mint, {n})
      BY <2>2
    <2> HIDE DEF token
    <2>3. /\ token \in TokensOf(wlIssued) /\ token.reserved = FALSE /\ EventOk(TokenEvent(token), wlIssued)
          /\ TokenEvent(token).deletes = {} /\ TokenEvent(token).kind = "token"
      <3> HIDE DEF w
      <3> QED
        BY <1>3, <2>4, NewTokenIs
    <2>5. Append(w.updated, token) \in Seq(TokensOf(wlIssued))
      <3> HIDE DEF w
      <3> QED
        BY <1>3, <2>3
    <2>6. wlTokens' \in Seq(TokensOf(wlIssued'))
      BY <1>1, <1>8, <2>5
    <2>7. Adds({TokenEvent(token)})
      BY <1>1, <1>2, <1>8, <2>3 DEF Adds, Publish, RelayInv
    <2>8. CallStep(t, w2, {}, {TokenEvent(token)})
      BY <1>1, <1>2, <1>8, <2>1, <2>7, NoneSigned DEF CallStep
    <2>9. Doomed' = Doomed
      <3> DEFINE events == {TokenEvent(token)}
      <3>1. \A e \in events : Harmless(e)
        BY <2>3 DEF Harmless
      <3>2. wlRelay' = wlRelay \cup events
        BY <2>7 DEF Adds
      <3> HIDE DEF events
      <3> QED
        BY <3>1, <3>2, HarmlessIs
    <2>10. CallTouches(t, w2)
      <3>1. DoomedAreSpent(wlIssued', wlSpent', Doomed')
        BY <1>1, <1>2, <2>9, StillDoomed, NoneSigned DEF WalletInv
      <3>2. PlacesIn(w2, Arr', wlSpent', Doomed')
        BY <2>1 DEF PlacesIn, Chosen
      <3> QED
        BY <1>1, <1>2, <1>4, <3>1, <3>2 DEF CallTouches
    <2>11. CallPays(t, w2, {})
      <3>1. SafeInv'
        BY <1>1, <1>2, <2>1, <2>10, CallSafe DEF WalletInv
      <3>2. n \in KeptNotes' \/ n \in wlSpent'
        BY <1>1, <1>3, <1>8, <2>4, <3>1, KeptToken
      <3> QED
        BY <1>1, <1>8, <2>1, <2>2, <3>2 DEF CallPays
    <2>12. CallLocks(t, w2)
      BY <1>2, <1>8 DEF CallLocks
    <2>13. TypesInv' /\ LockInv' /\ SafeInv' /\ MoneyInv'
      BY <2>6, <2>8, <2>10, <2>11, <2>12, CallKeeps
    <2>14. ReservedInv'
      <3>1. \A i \in DOMAIN w.updated : w.updated[i].reserved => w.updated[i].notes \subseteq wlSpent
        BY <1>1 DEF WalletInv, ReservedInv
      <3>2. wlBehind' = <<>>
        BY <1>1, <1>2, <1>4, NoLoops
      <3>3. DOMAIN Arr' = DOMAIN wlTokens' /\ \A i \in DOMAIN wlTokens' : Arr'[i] = wlTokens'[i]
        BY <2>6, <3>2, ArrNext
      <3>4. \A i \in DOMAIN Append(w.updated, token) :
               Append(w.updated, token)[i] = token \/ (i \in DOMAIN w.updated /\ Append(w.updated, token)[i] = w.updated[i])
        <4> HIDE DEF w
        <4> QED
          BY <1>3
      <3>5. \A i \in DOMAIN Arr' : Arr'[i].reserved => Arr'[i].notes \subseteq wlSpent'
        BY <1>1, <1>8, <2>3, <3>1, <3>3, <3>4
      <3>6. wlWork'[t] = w2 /\ \A c \in WCalls : c # t => wlWork'[c] = wlWork[c]
        BY <1>2, <2>1, BecomeIs, ThreadsDiffer DEF TypesInv
      <3>7. \A c \in WCalls : wlWork'[c].pc \notin {"save", "change"}
        <4>1. \A c \in WCalls : c # t => wlWork[c].pc \notin Locked
          BY <1>2, AloneIs DEF WalletInv
        <4> QED
          BY <2>1, <3>6, <4>1 DEF Locked, Saving
      <3> QED
        BY <1>1, <3>5, <3>7 DEF ReservedInv
    <2> QED
      BY <2>13, <2>14 DEF WalletInv
  <1> QED
    BY <1>1, <1>6, <1>7, <1>8

LEMMA SaveHistoryKeeps == ASSUME WalletInv, NEW t \in WCalls, SaveHistory(t) PROVE WalletInv'
  <1> DEFINE w == wlWork[t]
             end == [pc |-> "ended"]
             redeem == [pc |-> "redeem", claim |-> w.claim, amount |-> w.amount, next |-> w.next]
  <1>1. /\ w.pc = "history" /\ ~wlPanic /\ wlGiven' = wlGiven \cup w.principal /\ (Fails(1) \/ UNCHANGED wlFaults)
        /\ UNCHANGED <<wlTokens, wlBehind, wlPending, wlRelay, wlEcho, wlIssued, wlSpent, wlPanic>>
        /\ (w.to = "nobody" /\ Become(t, end)) \/ Become(t, redeem)
    BY DEF SaveHistory, wlLoad, At
  <1>2. /\ WorkOk(w, wlIssued) /\ wlFaults \in Nat /\ wlFaults' \in Nat /\ TypesInv /\ Alone(t)
    BY <1>1, CallFacts, HasLock, FaultsAre DEF Locked, Saving
  <1>3. SavingOk(w, wlIssued) /\ w.pc \notin Loops /\ w.pc # "melt"
    BY <1>1, <1>2 DEF WorkOk, Saving, Loops
  <1>4. Held(w) = w.principal \cup w.claim
    <2> HIDE DEF w
    <2> QED
      BY <1>1 DEF Held, Saving, Coming
  <1>5. CASE w.to = "nobody" /\ Become(t, end)
    <2>1. w.claim = {}
      BY <1>3, <1>5 DEF SavingOk
    <2>2. CallPays(t, end, {})
      BY <1>1, <1>2, <1>4, <2>1, FaultsAre DEF CallPays
    <2>3. "pc" \in DOMAIN end /\ end.pc \in Plain
      BY DEF Plain
    <2> HIDE DEF end
    <2> QED
      BY <1>1, <1>2, <1>3, <1>5, <2>2, <2>3, PlainKeeps, NoneSigned
  <1>6. CASE Become(t, redeem)
    <2>1. {"pc", "claim"} \subseteq DOMAIN redeem /\ redeem.pc = "redeem" /\ redeem.claim = w.claim
      OBVIOUS
    <2>2. AtMostOne(w.claim, wlIssued)
      BY <1>3 DEF SavingOk
    <2> HIDE DEF redeem
    <2>3. WorkOk(redeem, wlIssued) /\ Held(redeem) = w.claim /\ redeem.pc \notin Locked
      BY <2>1, <2>2 DEF WorkOk, Held, Chosen, Saving, Coming, Locked
    <2>4. CallPays(t, redeem, {})
      BY <1>1, <1>2, <1>4, <2>3, FaultsAre DEF CallPays
    <2>5. CallStep(t, redeem, {}, {})
      BY <1>1, <1>2, <1>6, <2>3, NoneAdded, NoneSigned DEF CallStep, TypesInv
    <2>6. CallLocks(t, redeem) /\ CallReserves(t, redeem)
      BY <1>1, <1>2, <1>3, <2>1, <2>3 DEF CallLocks, CallReserves
    <2>7. PlacesIn(redeem, Arr', wlSpent', Doomed)
      BY <2>3, FreeForAll
    <2> QED
      BY <1>1, <1>3, <2>4, <2>5, <2>6, <2>7, TameCallKeeps
  <1> QED
    BY <1>1, <1>5, <1>6

LEMMA PayRedeemsKeeps == ASSUME WalletInv, NEW t \in WCalls, PayRedeems(t) PROVE WalletInv'
  <1> DEFINE w == wlWork[t]
  <1>1. /\ w.pc = "redeem" /\ ~wlPanic /\ Ended(t, FALSE)
        /\ UNCHANGED <<wlTokens, wlBehind, wlTokensMu, wlPending, wlRelay, wlEcho, wlIssued, wlSpent, wlPanic>>
        /\ (wlGiven' = wlGiven \cup w.claim /\ UNCHANGED wlFaults) \/ (Fails(1) /\ UNCHANGED wlGiven)
    BY DEF PayRedeems, wlLoad, At
  <1>2. PICK w2 : Become(t, w2) /\ "pc" \in DOMAIN w2 /\ w2.pc \in Plain
    BY <1>1, EndedIs
  <1>3. Held(w) = w.claim
    <2> HIDE DEF w
    <2> QED
      BY <1>1 DEF Held, Saving, Coming
  <1>4. wlFaults \in Nat /\ wlFaults' \in Nat
    BY <1>1, CallFacts, FaultsAre
  <1>5. CallPays(t, w2, {})
    BY <1>1, <1>3, <1>4, FaultPays DEF CallPays
  <1>6. w.pc \notin Loops /\ w.pc # "melt"
    BY <1>1 DEF Loops
  <1> QED
    BY <1>1, <1>2, <1>4, <1>5, <1>6, PlainKeeps, NoneSigned

-----------------------------------------------------------------------------
(* Payments *)

LEMMA SamePlaces ==
    ASSUME NEW w, NEW w2, w.pc \in Chosen, w2.pc \in Chosen, w2.idx = w.idx, w2.notes = w.notes, w2.repeats = w.repeats,
           NEW arr, NEW spent, NEW doomed, PlacesIn(w, arr, spent, doomed)
    PROVE  PlacesIn(w2, arr, spent, doomed)
  BY DEF PlacesIn, Chosen

LEMMA PayQuotesKeeps == ASSUME WalletInv, NEW t \in WCalls, PayQuotes(t) PROVE WalletInv'
  <1> DEFINE w == wlWork[t]
             z(r) == [w EXCEPT !.pc = "reserve", !.reserve = r]
  <1>1. /\ w.pc = "quote" /\ ~wlPanic
        /\ UNCHANGED <<wlTokens, wlBehind, wlPending, wlRelay, wlEcho, wlIssued, wlSpent, wlGiven, wlPanic>>
        /\ (Fails(1) \/ UNCHANGED wlFaults)
        /\ \/ Ended(t, FALSE)
           \/ UNCHANGED wlTokensMu /\ \E u : Become(t, ChooseWork(u))
           \/ UNCHANGED <<wlFaults, wlTokensMu>> /\ \E r : Become(t, z(r))
    BY DEF PayQuotes, wlLoad, At
  <1>2. /\ WorkOk(w, wlIssued) /\ wlFaults \in Nat /\ TypesInv /\ wlTokensMu = t /\ Alone(t)
    BY <1>1, CallFacts, HasLock DEF Locked, Chosen
  <1>3. w.pc \notin HandPcs /\ w.pc # "melt" /\ w.pc \notin Loops
    BY <1>1 DEF HandPcs, Saving, Coming, Loops
  <1>4. CASE Ended(t, FALSE)
    <2>1. PICK w2 : Become(t, w2) /\ "pc" \in DOMAIN w2 /\ w2.pc \in Plain
      BY <1>4, EndedIs
    <2> QED
      BY <1>1, <1>2, <1>3, <2>1, QuietKeeps
  <1>5. CASE UNCHANGED wlTokensMu /\ \E u : Become(t, ChooseWork(u))
    <2>1. PICK u : Become(t, ChooseWork(u))
      BY <1>5
    <2> QED
      BY <1>1, <1>2, <1>5, <2>1, ChooseKeeps
  <1>6. CASE UNCHANGED <<wlFaults, wlTokensMu>> /\ \E r : Become(t, z(r))
    <2>1. PICK r : Become(t, z(r))
      BY <1>6
    <2> DEFINE w2 == z(r)
    <2>2. {"pc", "idx", "notes", "repeats", "mint"} \subseteq DOMAIN w /\ w.mint \in WMints
      BY <1>1, <1>2 DEF WorkOk, Chosen
    <2>3. /\ {"pc", "idx", "notes", "repeats", "mint"} \subseteq DOMAIN w2 /\ w2.pc = "reserve"
          /\ w2.idx = w.idx /\ w2.notes = w.notes /\ w2.repeats = w.repeats /\ w2.mint = w.mint
      BY <2>2
    <2>4. Become(t, w2)
      BY <2>1
    <2> HIDE DEF w2, z
    <2>5. WorkOk(w2, wlIssued')
      BY <2>2, <2>3 DEF WorkOk, Chosen, Saving, Coming
    <2>6. PlacesIn(w2, Arr', wlSpent', Doomed)
      <3>1. PlacesIn(w, Arr, wlSpent, Doomed) /\ Arr' = Arr
        BY <1>1 DEF WalletInv, SafeInv, Arr
      <3> HIDE DEF w
      <3> QED
        BY <1>1, <2>3, <3>1, SamePlaces DEF Chosen
    <2>7. CallStep(t, w2, {}, {})
      BY <1>1, <1>2, <1>6, <2>4, <2>5, NoneAdded, NoneSigned DEF CallStep, TypesInv
    <2>8. CallPays(t, w2, {})
      BY <1>1, <1>2, <1>3, <1>6, NothingPaid, NoHands
    <2>9. CallLocks(t, w2) /\ CallReserves(t, w2)
      BY <1>1, <1>2, <1>3, <1>6, <2>3 DEF CallLocks, CallReserves
    <2> QED
      BY <1>1, <1>3, <2>6, <2>7, <2>8, <2>9, TameCallKeeps
  <1> QED
    BY <1>1, <1>4, <1>5, <1>6

\* Reserving and releasing change nothing else about a token.
LEMMA ReserveIs ==
    ASSUME NEW S, wlTokens \in Seq(TokensOf(S)), NEW idx, NEW yes \in BOOLEAN, Reserve(idx, yes)
    PROVE  /\ wlTokens' \in Seq(TokensOf(S)) /\ DOMAIN wlTokens' = DOMAIN wlTokens
           /\ \A i \in DOMAIN wlTokens :
                 /\ wlTokens'[i].notes = wlTokens[i].notes /\ wlTokens'[i].id = wlTokens[i].id
                 /\ wlTokens'[i].reserved = IF i \in idx THEN yes ELSE wlTokens[i].reserved
  <1> DEFINE new(i) == [wlTokens[i] EXCEPT !.reserved = IF i \in idx THEN yes ELSE @]
  <1>1. wlTokens' = [i \in DOMAIN wlTokens |-> new(i)]
    BY DEF Reserve
  <1>2. ASSUME NEW i \in DOMAIN wlTokens
        PROVE  /\ new(i) \in TokensOf(S) /\ new(i).notes = wlTokens[i].notes /\ new(i).id = wlTokens[i].id
               /\ new(i).reserved = IF i \in idx THEN yes ELSE wlTokens[i].reserved
    <2>1. wlTokens[i] \in TokensOf(S)
      OBVIOUS
    <2>2. PICK n \in S, m \in WMints, r \in BOOLEAN : wlTokens[i] = [id |-> n.n, mint |-> m, notes |-> {n}, reserved |-> r]
      BY <2>1 DEF TokensOf
    <2> DEFINE r2 == IF i \in idx THEN yes ELSE r
    <2>3. new(i) = [id |-> n.n, mint |-> m, notes |-> {n}, reserved |-> r2] /\ r2 \in BOOLEAN
      <3>1. new(i) = [[id |-> n.n, mint |-> m, notes |-> {n}, reserved |-> r] EXCEPT !.reserved = r2]
        BY <2>2
      <3>2. r2 \in BOOLEAN
        OBVIOUS
      <3> HIDE DEF new, r2
      <3> QED
        BY <3>1, <3>2
    <2>4. wlTokens[i].reserved = r /\ wlTokens[i].notes = {n} /\ wlTokens[i].id = n.n
      BY <2>2
    <2>5. new(i).reserved = r2 /\ new(i).notes = {n} /\ new(i).id = n.n
      BY <2>3
    <2>6. new(i) \in TokensOf(S)
      BY <2>3, TokenMade
    <2> QED
      BY <2>4, <2>5, <2>6
  <1> HIDE DEF new
  <1>3. DOMAIN wlTokens = 1..Len(wlTokens) /\ Len(wlTokens) \in Nat
    OBVIOUS
  <1>4. wlTokens' = [i \in 1..Len(wlTokens) |-> new(i)] /\ \A i \in 1..Len(wlTokens) : new(i) \in TokensOf(S)
    BY <1>1, <1>2, <1>3
  <1>5. wlTokens' \in Seq(TokensOf(S))
    BY <1>3, <1>4
  <1> QED
    BY <1>1, <1>2, <1>5

\* What a step keeps that reserves or releases places, or leaves them.
LEMMA MeltKeeps ==
    ASSUME WalletInv, NEW t \in WCalls, ~wlPanic, wlWork[t].pc \in {"reserve", "melt"}, NEW w2, Become(t, w2), WorkOk(w2, wlIssued'),
           NEW new, Issues(new), UNCHANGED <<wlBehind, wlPending, wlRelay, wlEcho>>, wlSpent \subseteq wlSpent', wlFaults' \in Nat,
           NEW idx, NEW yes \in BOOLEAN, Reserve(idx, yes) \/ UNCHANGED wlTokens,
           w2.pc \in Locked => wlTokensMu' = t, CallPays(t, w2, new), PlacesIn(w2, Arr, wlSpent', Doomed),
           w2.pc \in {"save", "change"} => w2.updated = <<>>, wlPanic' => w2.pc = "panicked",
           ~wlPanic' => \A i \in DOMAIN wlTokens' : wlTokens'[i].reserved =>
              \/ wlTokens'[i].notes \subseteq wlSpent'
              \/ /\ w2.pc = "melt" /\ i \in w2.idx
                 /\ w2.notes \cap wlSpent' # {} \/ wlTokens'[i].notes \subseteq w2.notes
    PROVE  WalletInv'
  <1>1. wlTokensMu = t /\ Alone(t)
    BY HasLock DEF Locked, Chosen
  <1>2. /\ TypesInv /\ wlTokens \in Seq(TokensOf(wlIssued)) /\ RelayInv
    BY DEF WalletInv, TypesInv, TokensInv
  <1>3. wlTokens' \in Seq(TokensOf(wlIssued)) /\ DOMAIN wlTokens' = DOMAIN wlTokens
        /\ \A i \in DOMAIN wlTokens : wlTokens'[i].notes = wlTokens[i].notes /\ wlTokens'[i].id = wlTokens[i].id
    <2>1. CASE Reserve(idx, yes)
      BY <1>2, <2>1, ReserveIs
    <2>2. CASE UNCHANGED wlTokens
      BY <1>2, <2>2
    <2> QED
      BY <2>1, <2>2
  <1>4. wlBehind = <<>> /\ DOMAIN Arr = DOMAIN wlTokens /\ \A i \in DOMAIN wlTokens : Arr[i] = wlTokens[i]
    BY <1>1, NoLoops DEF Loops
  <1>5. DOMAIN Arr' = DOMAIN wlTokens' /\ \A i \in DOMAIN wlTokens' : Arr'[i] = wlTokens'[i]
    <2>1. wlBehind' = <<>>
      BY <1>4
    <2> QED
      BY <1>3, <2>1, ArrNext
  <1>6. wlTokens' \in Seq(TokensOf(wlIssued'))
    <2>1. wlIssued \subseteq wlIssued'
      BY DEF Issues
    <2> QED
      BY <1>3, <2>1, MoreIssued
  <1>7. CallStep(t, w2, new, {})
    BY <1>2, NoneAdded DEF CallStep
  <1>8. Doomed' = Doomed
    BY DEF Doomed, TokenEvents
  <1>9. CallTouches(t, w2)
    <2>1. DOMAIN Arr' \subseteq DOMAIN Arr /\ \A i \in DOMAIN Arr' : Arr'[i].notes = Arr[i].notes /\ Arr'[i].id = Arr[i].id
      BY <1>3, <1>4, <1>5
    <2>2. PlacesIn(w2, Arr', wlSpent', Doomed')
      BY <1>8, <2>1, PlacesStay
    <2>3. DoomedAreSpent(wlIssued', wlSpent', Doomed')
      BY <1>8, StillDoomed DEF WalletInv
    <2> QED
      BY <1>1, <1>4, <2>2, <2>3 DEF CallTouches
  <1>10. CallLocks(t, w2)
    BY <1>1 DEF CallLocks
  <1>11. TypesInv' /\ LockInv' /\ SafeInv' /\ MoneyInv'
    BY <1>6, <1>7, <1>9, <1>10, CallKeeps
  <1>12. ReservedInv'
    <2>1. wlWork'[t] = w2 /\ \A c \in WCalls : c # t => wlWork'[c] = wlWork[c]
      BY <1>2, BecomeIs, ThreadsDiffer DEF TypesInv
    <2>2. \A c \in WCalls : c # t => wlWork[c].pc \notin Locked
      BY <1>1, AloneIs DEF WalletInv
    <2>3. ASSUME ~wlPanic', NEW i \in DOMAIN Arr', Arr'[i].reserved
          PROVE  Arr'[i].notes \subseteq wlSpent' \/ \E c \in WCalls : ReservedBy(wlWork[c], i)'
      <3>1. CASE Arr'[i].notes \subseteq wlSpent'
        BY <3>1
      <3>2. CASE w2.pc = "melt" /\ i \in w2.idx /\ (w2.notes \cap wlSpent' # {} \/ Arr'[i].notes \subseteq w2.notes)
        BY <2>1, <3>2 DEF ReservedBy
      <3> QED
        BY <1>5, <2>3, <3>1, <3>2
    <2>4. ASSUME NEW c \in WCalls, wlWork'[c].pc \in {"save", "change"}, NEW i \in DOMAIN wlWork'[c].updated
          PROVE  FALSE
      <3>1. c = t
        BY <2>1, <2>2, <2>4 DEF Locked, Saving
      <3>2. wlWork'[c].updated = <<>>
        BY <2>1, <2>4, <3>1
      <3> QED
        BY <2>4, <3>2
    <2> QED
      BY <2>1, <2>3, <2>4 DEF ReservedInv
  <1> QED
    BY <1>11, <1>12 DEF WalletInv

LEMMA PanicsIs ==
    ASSUME NEW t, Panics(t)
    PROVE  wlPanic' /\ \E w2 : Become(t, w2) /\ "pc" \in DOMAIN w2 /\ w2.pc = "panicked"
  <1> DEFINE w2 == [pc |-> "panicked"]
  <1>1. wlPanic' /\ Become(t, w2) /\ "pc" \in DOMAIN w2 /\ w2.pc = "panicked"
    BY DEF Panics
  <1> QED
    BY <1>1

LEMMA PayReservesKeeps == ASSUME WalletInv, NEW t \in WCalls, PayReserves(t) PROVE WalletInv'
  <1> DEFINE w == wlWork[t]
             z == [w EXCEPT !.pc = "melt"]
  <1>1. /\ w.pc = "reserve" /\ ~wlPanic
        /\ UNCHANGED <<wlBehind, wlPending, wlRelay, wlEcho, wlIssued, wlSpent, wlGiven>>
        /\ \/ Fails(1) /\ Ended(t, FALSE) /\ UNCHANGED <<wlTokens, wlPanic>>
           \/ /\ UNCHANGED wlFaults /\ Reserve(w.idx, TRUE)
              /\ \/ w.idx \subseteq DOMAIN wlTokens /\ Become(t, z) /\ UNCHANGED <<wlTokensMu, wlPanic>>
                 \/ Panics(t)
    BY DEF PayReserves, wlLoad, At
  <1>2. /\ WorkOk(w, wlIssued) /\ wlFaults \in Nat /\ TypesInv /\ wlTokensMu = t /\ Alone(t)
    BY <1>1, CallFacts, HasLock DEF Locked, Chosen
  <1>3. w.pc \notin HandPcs /\ w.pc # "melt" /\ w.pc \notin Loops
    BY <1>1 DEF HandPcs, Saving, Coming, Loops
  <1>4. \A w2 : UNCHANGED wlFaults => CallPays(t, w2, {})
    BY <1>1, <1>2, <1>3, NothingPaid, NoHands
  <1>5. CASE Fails(1) /\ Ended(t, FALSE) /\ UNCHANGED <<wlTokens, wlPanic>>
    <2>1. PICK w2 : Become(t, w2) /\ "pc" \in DOMAIN w2 /\ w2.pc \in Plain
      BY <1>5, EndedIs
    <2> QED
      BY <1>1, <1>2, <1>3, <1>5, <2>1, QuietKeeps
  <1>6. CASE UNCHANGED wlFaults /\ Reserve(w.idx, TRUE) /\ Panics(t)
    <2>1. PICK w2 : wlPanic' /\ Become(t, w2) /\ "pc" \in DOMAIN w2 /\ w2.pc = "panicked"
      BY <1>6, PanicsIs
    <2>2. (\A S : WorkOk(w2, S)) /\ (\A arr, spent, doomed : PlacesIn(w2, arr, spent, doomed)) /\ w2.pc \notin Locked
      BY <2>1, PlainIsOk DEF Plain
    <2>3. Issues({})
      BY <1>1, NoneSigned
    <2>4. CallPays(t, w2, {})
      BY <1>4, <1>6
    <2> QED
      BY <1>1, <1>2, <1>6, <2>1, <2>2, <2>3, <2>4, MeltKeeps
  <1>7. CASE UNCHANGED wlFaults /\ Reserve(w.idx, TRUE) /\ w.idx \subseteq DOMAIN wlTokens /\ Become(t, z) /\ UNCHANGED <<wlTokensMu, wlPanic>>
    <2>2. {"pc", "idx", "notes", "repeats", "mint"} \subseteq DOMAIN w /\ w.mint \in WMints
      BY <1>1, <1>2 DEF WorkOk, Chosen
    <2>3. /\ {"pc", "idx", "notes", "repeats", "mint"} \subseteq DOMAIN z /\ z.pc = "melt"
          /\ z.idx = w.idx /\ z.notes = w.notes /\ z.repeats = w.repeats /\ z.mint = w.mint
      BY <2>2
    <2> HIDE DEF z
    <2>4. WorkOk(z, wlIssued')
      BY <2>2, <2>3 DEF WorkOk, Chosen, Saving, Coming
    <2>5. PlacesIn(w, Arr, wlSpent, Doomed)
      BY DEF WalletInv, SafeInv
    <2>6. PlacesIn(z, Arr, wlSpent', Doomed)
      <3> HIDE DEF w
      <3> QED
        BY <1>1, <2>3, <2>5, SamePlaces DEF Chosen
    <2>7. ASSUME NEW i \in DOMAIN wlTokens', wlTokens'[i].reserved
          PROVE  \/ wlTokens'[i].notes \subseteq wlSpent'
                 \/ i \in z.idx /\ (z.notes \cap wlSpent' # {} \/ wlTokens'[i].notes \subseteq z.notes)
      <3>1. wlTokens \in Seq(TokensOf(wlIssued))
        BY <1>2 DEF TypesInv, TokensInv
      <3>2. /\ DOMAIN wlTokens' = DOMAIN wlTokens /\ wlTokens'[i].notes = wlTokens[i].notes
            /\ wlTokens'[i].reserved = IF i \in w.idx THEN TRUE ELSE wlTokens[i].reserved
        BY <1>7, <2>7, <3>1, ReserveIs
      <3>3. DOMAIN Arr = DOMAIN wlTokens /\ \A j \in DOMAIN wlTokens : Arr[j] = wlTokens[j]
        BY <1>2, <1>3, NoLoops
      <3>4. CASE i \in w.idx
        <4>1. w.notes \cap wlSpent # {} \/ Arr[i].notes \subseteq w.notes
          BY <1>1, <2>5, <2>7, <3>2, <3>3, <3>4 DEF PlacesIn, Chosen
        <4> QED
          BY <1>1, <2>3, <2>7, <3>2, <3>3, <3>4, <4>1
      <3>5. CASE i \notin w.idx
        <4>1. Arr[i].reserved
          BY <2>7, <3>2, <3>3, <3>5
        <4>2. Arr[i].notes \subseteq wlSpent
          BY <1>1, <1>2, <1>3, <2>7, <3>2, <3>3, <4>1, NobodyMelts
        <4> QED
          BY <1>1, <2>7, <3>2, <3>3, <4>2
      <3> QED
        BY <3>4, <3>5
    <2>8. Issues({}) /\ CallPays(t, z, {})
      BY <1>1, <1>4, <1>7, NoneSigned
    <2> QED
      BY <1>1, <1>2, <1>7, <2>3, <2>4, <2>6, <2>7, <2>8, MeltKeeps
  <1> QED
    BY <1>1, <1>5, <1>6, <1>7

LEMMA PayMeltsKeeps == ASSUME WalletInv, NEW t \in WCalls, PayMelts(t) PROVE WalletInv'
  <1> DEFINE w == wlWork[t]
             claim == IF w.to = "nobody" THEN {} ELSE {Note(w.to, w.amount, 1)}
             outputs == Outputs(SplitChange(w.total, w.fee, w.amount + w.fee))
             over(cost) == TopBits[w.total - w.fee - w.amount - cost, outputs]
             change(cost) == Made(w.mint, over(cost), IF w.to = "nobody" THEN 1 ELSE 2)
             accepted == w.notes \cap wlSpent = {} /\ ~w.repeats
             paid(c) == accepted /\ wlSpent' = wlSpent \cup w.notes /\ wlIssued' = wlIssued \cup claim \cup c
  <1>1. /\ w.pc = "melt" /\ ~wlPanic
        /\ UNCHANGED <<wlBehind, wlPending, wlRelay, wlEcho, wlGiven>>
        /\ \/ \E cost : /\ paid(change(cost))
                        /\ \/ UNCHANGED <<wlFaults, wlTokens, wlTokensMu, wlPanic>> /\ Become(t, SaveWork(w, {}, change(cost), claim))
                           \/ Fails(1) /\ Unreserve(t)
                           \/ Fails(1) /\ Ended(t, FALSE) /\ UNCHANGED <<wlTokens, wlPanic>>
           \/ /\ (Fails(1) \/ UNCHANGED wlFaults) /\ Unreserve(t) /\ UNCHANGED <<wlSpent, wlIssued>>
    BY Zenon DEF PayMelts, wlLoad, At
  <1> HIDE DEF over
  <1>2. /\ WorkOk(w, wlIssued) /\ wlFaults \in Nat /\ TypesInv /\ wlTokensMu = t /\ Alone(t)
    BY <1>1, CallFacts, HasLock DEF Locked, Chosen
  <1>3. w.pc \notin HandPcs /\ w.pc \notin Loops
    BY <1>1 DEF HandPcs, Saving, Coming, Loops
  <1>4. Held(w) = {}
    BY <1>3, NoHands
  <1>5. DOMAIN Arr = DOMAIN wlTokens /\ \A j \in DOMAIN wlTokens : Arr[j] = wlTokens[j]
    BY <1>2, <1>3, NoLoops
  \* Only this payment reserves anything.
  <1>6. ASSUME NEW i \in DOMAIN wlTokens, wlTokens[i].reserved
        PROVE  \/ wlTokens[i].notes \subseteq wlSpent
               \/ /\ w.notes \cap wlSpent # {} \/ wlTokens[i].notes \subseteq w.notes
                  /\ w.idx \subseteq DOMAIN wlTokens => i \in w.idx
    <2>1. Arr[i].notes \subseteq wlSpent \/ \E c \in WCalls : ReservedBy(wlWork[c], i)
      BY <1>1, <1>5, <1>6 DEF WalletInv, ReservedInv
    <2>2. \A c \in WCalls : c # t => wlWork[c].pc \notin Locked
      BY <1>2, AloneIs DEF WalletInv
    <2>3. \A c \in WCalls : ReservedBy(wlWork[c], i) => c = t
      BY <2>2 DEF ReservedBy, Locked, Chosen
    <2> QED
      BY <1>5, <2>1, <2>3 DEF ReservedBy
  <1>7. ASSUME NEW w2, Become(t, w2), "pc" \in DOMAIN w2, w2.pc \in Plain, NEW new, Issues(new), wlSpent \subseteq wlSpent',
               Reserve(w.idx, FALSE) \/ UNCHANGED wlTokens,
               Fails(1) \/ (UNCHANGED wlFaults /\ new = {}), wlPanic' => w2.pc = "panicked",
               ~wlPanic' => \A i \in DOMAIN wlTokens' : wlTokens'[i].reserved => wlTokens'[i].notes \subseteq wlSpent'
        PROVE  WalletInv'
    <2>1. (\A S : WorkOk(w2, S)) /\ (\A arr, spent, doomed : PlacesIn(w2, arr, spent, doomed)) /\ w2.pc \notin Locked
      BY <1>7, PlainIsOk
    <2>2. CallPays(t, w2, new)
      BY <1>1, <1>2, <1>4, <1>7, NothingPaid, FaultPays
    <2>3. wlFaults' \in Nat
      BY <1>2, <1>7, FaultsAre
    <2>4. w2.pc \notin {"save", "change"}
      BY <1>7 DEF Plain
    <2> QED
      BY <1>1, <1>7, <2>1, <2>2, <2>3, <2>4, MeltKeeps
  \* The reservations are taken back.
  <1>8. ASSUME Unreserve(t), NEW new, Issues(new), wlSpent \subseteq wlSpent', Fails(1) \/ (UNCHANGED wlFaults /\ new = {})
        PROVE  WalletInv'
    <2>1. /\ Reserve(w.idx, FALSE)
          /\ \/ w.idx \subseteq DOMAIN wlTokens /\ Ended(t, FALSE) /\ UNCHANGED wlPanic
             \/ Panics(t)
      BY <1>8 DEF Unreserve
    <2>2. CASE Panics(t)
      <3>1. PICK w2 : wlPanic' /\ Become(t, w2) /\ "pc" \in DOMAIN w2 /\ w2.pc = "panicked"
        BY <2>2, PanicsIs
      <3>2. w2.pc \in Plain
        BY <3>1 DEF Plain
      <3> QED
        BY <1>7, <1>8, <2>1, <3>1, <3>2
    <2>3. CASE w.idx \subseteq DOMAIN wlTokens /\ Ended(t, FALSE) /\ UNCHANGED wlPanic
      <3>1. PICK w2 : Become(t, w2) /\ "pc" \in DOMAIN w2 /\ w2.pc \in Plain
        BY <2>3, EndedIs
      <3>2. ASSUME NEW i \in DOMAIN wlTokens', wlTokens'[i].reserved PROVE wlTokens'[i].notes \subseteq wlSpent'
        <4>1. wlTokens \in Seq(TokensOf(wlIssued))
          BY <1>2 DEF TypesInv, TokensInv
        <4>2. /\ DOMAIN wlTokens' = DOMAIN wlTokens /\ wlTokens'[i].notes = wlTokens[i].notes
              /\ wlTokens'[i].reserved = IF i \in w.idx THEN FALSE ELSE wlTokens[i].reserved
          BY <2>1, <3>2, <4>1, ReserveIs
        <4>3. i \in DOMAIN wlTokens /\ i \notin w.idx /\ wlTokens[i].reserved
          BY <3>2, <4>2
        <4>4. wlTokens[i].notes \subseteq wlSpent
          BY <1>6, <2>3, <4>3
        <4> QED
          BY <1>8, <4>2, <4>4
      <3>3. ~wlPanic'
        BY <1>1, <2>3
      <3> QED
        BY <1>7, <1>8, <2>1, <3>1, <3>2, <3>3
    <2> QED
      BY <2>1, <2>2, <2>3
  <1>9. ASSUME NEW cost, paid(change(cost)) PROVE Issues(claim \cup change(cost)) /\ wlSpent \subseteq wlSpent' /\ wlIssued \subseteq wlIssued'
    <2> DEFINE a == over(cost)
               x == Note(w.to, w.amount, 1)
               y(k) == Note(w.mint, a, k)
    <2>1. x.n = Cardinality(wlIssued) + 1 /\ y(1).n = Cardinality(wlIssued) + 1 /\ y(2).n = Cardinality(wlIssued) + 2
      BY DEF Note
    <2>2. w.to = "nobody" => change(cost) = {} \/ change(cost) = {y(1)}
      <3>1. w.to = "nobody" => change(cost) = Made(w.mint, a, 1)
        OBVIOUS
      <3> HIDE DEF a, change
      <3> QED
        BY <3>1, MadeNote
    <2>3. w.to # "nobody" => change(cost) = {} \/ change(cost) = {y(2)}
      <3>1. w.to # "nobody" => change(cost) = Made(w.mint, a, 2)
        OBVIOUS
      <3> HIDE DEF a, change
      <3> QED
        BY <3>1, MadeNote
    <2>4. (w.to = "nobody" => claim = {}) /\ (w.to # "nobody" => claim = {x})
      OBVIOUS
    <2>5. wlIssued' = wlIssued \cup claim \cup change(cost) /\ wlSpent' = wlSpent \cup w.notes
      BY <1>9
    <2> HIDE DEF x, y, a, change, claim
    <2>6. \/ claim \cup change(cost) = {} \/ claim \cup change(cost) = {y(1)} \/ claim \cup change(cost) = {x}
          \/ claim \cup change(cost) = {x, y(2)}
      BY <2>2, <2>3, <2>4
    <2>7. Signed(claim \cup change(cost))
      BY <2>1, <2>6 DEF Signed
    <2> QED
      BY <2>5, <2>7 DEF Issues
  <1>10. CASE (Fails(1) \/ UNCHANGED wlFaults) /\ Unreserve(t) /\ UNCHANGED <<wlSpent, wlIssued>>
    BY <1>8, <1>10, NoneSigned
  <1>11. ASSUME NEW cost, paid(change(cost)), Fails(1) /\ Unreserve(t) PROVE WalletInv'
    <2>1. Issues(claim \cup change(cost)) /\ wlSpent \subseteq wlSpent'
      BY <1>9, <1>11
    <2> HIDE DEF claim, change
    <2> QED
      BY <1>8, <1>11, <2>1
  \* What was reserved has been spent.
  <1>12. ASSUME NEW cost, paid(change(cost)), UNCHANGED wlTokens, NEW i \in DOMAIN wlTokens', wlTokens'[i].reserved
         PROVE  wlTokens'[i].notes \subseteq wlSpent'
    <2>1. w.notes \cap wlSpent = {} /\ wlSpent' = wlSpent \cup w.notes
      BY <1>12
    <2> QED
      BY <1>6, <1>12, <2>1
  <1>13. ASSUME NEW cost, paid(change(cost)), Fails(1) /\ Ended(t, FALSE) /\ UNCHANGED <<wlTokens, wlPanic>> PROVE WalletInv'
    <2>1. PICK w2 : Become(t, w2) /\ "pc" \in DOMAIN w2 /\ w2.pc \in Plain
      BY <1>13, EndedIs
    <2>2. Issues(claim \cup change(cost)) /\ wlSpent \subseteq wlSpent'
      BY <1>9, <1>13
    <2>3. \A i \in DOMAIN wlTokens' : wlTokens'[i].reserved => wlTokens'[i].notes \subseteq wlSpent'
      BY <1>12, <1>13
    <2> HIDE DEF claim, change
    <2> QED
      BY <1>1, <1>7, <1>13, <2>1, <2>2, <2>3
  <1>14. ASSUME NEW cost, paid(change(cost)), UNCHANGED <<wlFaults, wlTokens, wlTokensMu, wlPanic>>,
                Become(t, SaveWork(w, {}, change(cost), claim)) PROVE WalletInv'
    <2> DEFINE c == change(cost)
               w2 == SaveWork(w, {}, c, claim)
    <2>1. AtMostOne({}, wlIssued') /\ AtMostOne(c, wlIssued') /\ AtMostOne(claim, wlIssued')
      <3>1. c \subseteq wlIssued' /\ claim \subseteq wlIssued'
        BY <1>14
      <3>2. claim = {} \/ claim = {Note(w.to, w.amount, 1)}
        OBVIOUS
      <3>3. AtMostOne({}, wlIssued') /\ AtMostOne(claim, wlIssued')
        BY <3>1, <3>2 DEF AtMostOne
      <3> QED
        BY <3>1, <3>3, MadeNotesIs
    <2>2. w.notes \cap wlSpent = {} /\ ~w.repeats /\ wlSpent' = wlSpent \cup w.notes
      BY <1>14
    <2>3. Issues(claim \cup c) /\ wlSpent \subseteq wlSpent' /\ wlIssued \subseteq wlIssued'
      BY <1>9, <1>14
    <2>4. w.to = "nobody" => claim = {}
      OBVIOUS
    <2>5. \A i \in DOMAIN wlTokens' : wlTokens'[i].reserved => wlTokens'[i].notes \subseteq wlSpent'
      BY <1>12, <1>14
    <2>6. Become(t, w2)
      BY <1>14
    <2> HIDE DEF c, claim, change
    <2>7. Arr' = Arr /\ UNCHANGED <<wlTokens, wlBehind>>
      BY <1>1, <1>14 DEF Arr
    <2>8. /\ w2.pc = "save" /\ w2.updated = <<>> /\ Held(w2) = {} \cup c \cup claim
          /\ WorkOk(w2, wlIssued') /\ PlacesIn(w2, Arr', wlSpent', Doomed)
      BY <1>1, <2>1, <2>2, <2>3, <2>4, <2>7, SaveIs DEF Chosen
    <2> HIDE DEF w2
    <2>9. CallPays(t, w2, claim \cup c)
      BY <1>1, <1>4, <1>14, <2>8 DEF CallPays
    <2>10. wlFaults' \in Nat /\ wlTokensMu' = t /\ ~wlPanic'
      BY <1>1, <1>2, <1>14
    <2> QED
      BY <1>1, <2>3, <2>5, <2>6, <2>7, <2>8, <2>9, <2>10, MeltKeeps
  <1> HIDE DEF claim, change, outputs, accepted, paid
  <1> QED
    BY <1>1, <1>10, <1>11, <1>13, <1>14

-----------------------------------------------------------------------------
(* Receiving *)

\* A step without tokensMu, which leaves tokens and events alone.
LEMMA LooseKeeps ==
    ASSUME WalletInv, ~wlPanic, NEW t \in WCalls, NEW w2, Become(t, w2), WorkOk(w2, wlIssued'), w2.pc \notin Locked,
           wlWork[t].pc \notin Locked, NEW new, Issues(new), wlSpent \subseteq wlSpent', wlFaults' \in Nat,
           UNCHANGED <<wlTokens, wlBehind, wlTokensMu, wlPending, wlRelay, wlEcho, wlPanic>>, CallPays(t, w2, new)
    PROVE  WalletInv'
  <1>1. CallStep(t, w2, new, {})
    BY NoneAdded, CallFacts DEF CallStep
  <1>2. wlWork[t].pc # "melt" /\ wlWork[t].pc \notin Loops /\ w2.pc \notin {"save", "change"}
    BY DEF Locked, Loops, Chosen, Saving
  <1>3. CallLocks(t, w2) /\ CallReserves(t, w2)
    BY <1>2 DEF CallLocks, CallReserves
  <1>4. PlacesIn(w2, Arr', wlSpent', Doomed)
    BY FreeForAll
  <1> QED
    BY <1>1, <1>2, <1>3, <1>4, TameCallKeeps

\* It returns, or there is a fault.
LEMMA LooseEnds ==
    ASSUME WalletInv, ~wlPanic, NEW t \in WCalls, Goto2(t, "ended"), wlWork[t].pc \notin Locked, NEW new, Issues(new),
           wlSpent \subseteq wlSpent', UNCHANGED <<wlTokens, wlBehind, wlTokensMu, wlPending, wlRelay, wlEcho, wlPanic>>,
           Fails(1) \/ UNCHANGED wlFaults, wlFaults' = 0 /\ AcceptSource => \A w2 : CallPays(t, w2, new)
    PROVE  WalletInv'
  <1>1. PICK w2 : Become(t, w2) /\ "pc" \in DOMAIN w2 /\ w2.pc = "ended"
    BY GotoIs
  <1>2. (\A S : WorkOk(w2, S)) /\ w2.pc \notin Locked
    BY <1>1, PlainIsOk DEF Plain
  <1>3. wlFaults' \in Nat
    BY CallFacts, FaultsAre
  <1>4. CallPays(t, w2, new)
    BY DEF CallPays
  <1> QED
    BY <1>1, <1>2, <1>3, <1>4, LooseKeeps

LEMMA ReceiveStartsKeeps ==
    ASSUME WalletInv, "receive" \in WCalls, NEW amount, NEW source \in WMints, NEW into \in Seq(WMints),
           ReceiveStarts(amount, source, into)
    PROVE  WalletInv'
  <1> DEFINE note == Note(source, amount, 1)
             w2 == [pc |-> "swapin", notes |-> {note}, mint |-> source, targets |-> into]
  <1>1. /\ ~wlPanic /\ wlWork["receive"].pc = "idle" /\ wlIssued' = wlIssued \cup {note} /\ wlGiven' = wlGiven \cup {note}
        /\ UNCHANGED <<wlTokens, wlBehind, wlTokensMu, wlPending, wlRelay, wlEcho, wlSpent, wlPanic>>
        /\ (UNCHANGED wlFaults /\ Become("receive", w2)) \/ (Fails(1) /\ Goto2("receive", "ended"))
    BY DEF ReceiveStarts, CallStarts, At, wlLoad
  <1>2. note.n = Cardinality(wlIssued) + 1
    BY DEF Note
  <1>3. {"pc", "mint", "targets"} \subseteq DOMAIN w2 /\ w2.pc = "swapin" /\ w2.mint = source /\ w2.targets = into
    OBVIOUS
  <1> HIDE DEF note, w2
  <1>4. Issues({note})
    BY <1>1, <1>2 DEF Issues, Signed
  <1>5. wlWork["receive"].pc \notin Locked /\ wlWork["receive"].pc \notin HandPcs
    BY <1>1 DEF Locked, Chosen, HandPcs, Saving, Coming
  <1>6. Held(wlWork["receive"]) = {}
    BY <1>5, NoHands
  <1>7. CASE UNCHANGED wlFaults /\ Become("receive", w2)
    <2>1. CallPays("receive", w2, {note})
      BY <1>1, <1>6, <1>7 DEF CallPays
    <2>2. w2.pc \notin Locked /\ WorkOk(w2, wlIssued')
      BY <1>3 DEF Locked, Chosen, Saving, Coming, WorkOk
    <2>3. wlFaults' \in Nat
      BY <1>7, CallFacts
    <2> QED
      BY <1>1, <1>4, <1>5, <1>7, <2>1, <2>2, <2>3, LooseKeeps
  <1>8. CASE Fails(1) /\ Goto2("receive", "ended")
    <2>1. wlFaults' # 0
      BY <1>8, CallFacts, FaultsAre
    <2> QED
      BY <1>1, <1>4, <1>5, <1>8, <2>1, LooseEnds
  <1> QED
    BY <1>1, <1>7, <1>8

LEMMA ReceiveFacts ==
    ASSUME WalletInv, "receive" \in WCalls
    PROVE  LET w == wlWork["receive"] IN
           /\ w.pc \in Coming \cup {"swapin"} => "pc" \in DOMAIN w /\ "mint" \in DOMAIN w /\ w.mint \in WMints /\ w.pc \notin Locked
           /\ w.pc \in Coming => "notes" \in DOMAIN w /\ (\E n \in wlIssued : w.notes = {n}) /\ Held(w) = w.notes
           /\ w.pc \in {"swapin", "lightning", "move"} => "targets" \in DOMAIN w /\ w.targets \in Seq(WMints)
           /\ w.pc = "move" => w.targets # <<>>
           /\ w.pc \in {"idle", "swapin"} => Held(w) = {}
  <1> DEFINE w == wlWork["receive"]
  <1>1. WorkOk(w, wlIssued)
    BY CallFacts
  <1> HIDE DEF w
  <1>2. w.pc \in Coming \cup {"swapin"} => w.pc \notin Locked
    BY DEF Coming, Locked, Chosen, Saving
  <1>3. w.pc \in Coming => Held(w) = w.notes
    BY DEF Held, Coming, Saving
  <1>4. w.pc \in {"idle", "swapin"} => Held(w) = {}
    BY NoHands DEF HandPcs, Saving, Coming
  <1>5. w.pc \in Coming \cup {"swapin"} => "pc" \in DOMAIN w /\ "mint" \in DOMAIN w /\ w.mint \in WMints
    BY <1>1 DEF WorkOk
  <1>6. /\ w.pc \in Coming => "notes" \in DOMAIN w /\ (\E n \in wlIssued : w.notes = {n})
        /\ w.pc \in {"swapin", "lightning", "move"} => "targets" \in DOMAIN w /\ w.targets \in Seq(WMints)
        /\ w.pc = "move" => w.targets # <<>>
    BY <1>1 DEF WorkOk
  <1> QED
    BY <1>2, <1>3, <1>4, <1>5, <1>6 DEF w

LEMMA ComingIsOk ==
    ASSUME NEW w, w.pc \in Coming, NEW S, {"pc", "mint", "notes"} \subseteq DOMAIN w, w.mint \in WMints, \E n \in S : w.notes = {n},
           w.pc \in {"lightning", "move"} => "targets" \in DOMAIN w /\ w.targets \in Seq(WMints),
           w.pc = "move" => w.targets # <<>>
    PROVE  WorkOk(w, S) /\ w.pc \notin Locked /\ Held(w) = w.notes
  <1>1. w.pc \notin Locked /\ w.pc \notin Chosen /\ w.pc \notin Saving
    BY DEF Coming, Locked, Chosen, Saving
  <1>2. WorkOk(w, S)
    BY <1>1 DEF WorkOk, Coming
  <1>3. Held(w) = w.notes
    BY <1>1 DEF Held, Coming, Saving
  <1> QED
    BY <1>1, <1>2, <1>3

LEMMA ReceiveSwapsKeeps == ASSUME WalletInv, "receive" \in WCalls, ReceiveSwaps PROVE WalletInv'
  <1> DEFINE w == wlWork["receive"]
             total == AmountOf(w.notes)
             given == [notes |-> w.notes, repeats |-> FALSE, total |-> total, fee |-> CalculateFee(w.mint, w.notes)]
             amount == SplitPrincipal(total, given.fee, total)
             new == Made(w.mint, amount, 1)
             accepted == MintAccepts(given, total)
             done == accepted /\ wlSpent' = wlSpent \cup w.notes /\ wlIssued' = wlIssued \cup new
             p == IF w.mint \in ToSet(w.targets) THEN "keep" ELSE "lightning"
             w2 == [pc |-> p, notes |-> new, mint |-> w.mint, targets |-> w.targets]
  <1>1. /\ ~wlPanic /\ w.pc = "swapin"
        /\ UNCHANGED <<wlTokens, wlBehind, wlTokensMu, wlPending, wlRelay, wlEcho, wlGiven, wlPanic>>
        /\ \/ done /\ UNCHANGED wlFaults /\ Become("receive", w2)
           \/ done /\ Fails(1) /\ Goto2("receive", "ended")
           \/ (Fails(1) \/ UNCHANGED wlFaults) /\ Goto2("receive", "ended") /\ UNCHANGED <<wlSpent, wlIssued>>
    BY Zenon DEF ReceiveSwaps, At, wlLoad
  <1>2. w.pc \notin Locked /\ Held(w) = {} /\ w.mint \in WMints /\ w.targets \in Seq(WMints)
    BY <1>1, ReceiveFacts
  <1>3. accepted => amount > 0
    <2>1. given.total = total
      OBVIOUS
    <2> HIDE DEF total, given
    <2> QED
      BY <2>1 DEF MintAccepts
  <1>4. accepted => \E n : n.n = Cardinality(wlIssued) + 1 /\ new = {n}
    BY <1>3 DEF Made, Note
  <1>5. done => Issues(new) /\ wlSpent \subseteq wlSpent' /\ new \subseteq wlIssued'
    <2> HIDE DEF new, accepted
    <2> QED
      BY <1>4 DEF Issues, Signed
  <1>6. wlFaults \in Nat
    BY CallFacts
  <1>7. CASE done /\ UNCHANGED wlFaults /\ Become("receive", w2)
    <2>1. PICK n : new = {n}
      BY <1>4, <1>7
    <2>2. n \in wlIssued' /\ Issues(new) /\ wlSpent \subseteq wlSpent'
      BY <1>5, <1>7, <2>1
    <2>3. p \in {"keep", "lightning"}
      OBVIOUS
    <2> HIDE DEF new, w, p
    <2>4. {"pc", "mint", "notes", "targets"} \subseteq DOMAIN w2 /\ w2.pc \in {"keep", "lightning"} /\ w2.mint = w.mint
          /\ w2.notes = new /\ w2.targets = w.targets
      BY <2>3
    <2>5. Become("receive", w2)
      BY <1>7
    <2> HIDE DEF w2
    <2>6. WorkOk(w2, wlIssued') /\ w2.pc \notin Locked /\ Held(w2) = new
      <3>1. w2.pc \in Coming /\ w2.pc # "move" /\ (\E x \in wlIssued' : w2.notes = {x}) /\ w2.mint \in WMints
            /\ w2.targets \in Seq(WMints)
        BY <1>2, <2>1, <2>2, <2>4 DEF Coming
      <3> QED
        BY <2>4, <3>1, ComingIsOk
    <2>7. CallPays("receive", w2, new)
      BY <1>1, <1>2, <1>7, <2>6 DEF CallPays, w
    <2>8. wlFaults' \in Nat
      BY <1>6, <1>7
    <2> QED
      BY <1>1, <1>2, <2>2, <2>5, <2>6, <2>7, <2>8, LooseKeeps DEF w
  <1>8. CASE done /\ Fails(1) /\ Goto2("receive", "ended")
    <2>1. wlFaults' # 0
      BY <1>6, <1>8, FaultsAre
    <2>2. Issues(new) /\ wlSpent \subseteq wlSpent'
      BY <1>5, <1>8
    <2> HIDE DEF new
    <2> QED
      BY <1>1, <1>2, <1>8, <2>1, <2>2, LooseEnds
  <1>9. CASE (Fails(1) \/ UNCHANGED wlFaults) /\ Goto2("receive", "ended") /\ UNCHANGED <<wlSpent, wlIssued>>
    <2>1. Issues({})
      BY <1>9, NoneSigned
    <2>2. \A x : CallPays("receive", x, {})
      BY <1>1, <1>2, <1>6, <1>9, NothingPaid
    <2> QED
      BY <1>1, <1>2, <1>9, <2>1, <2>2, LooseEnds
  <1> HIDE DEF done, w2
  <1> QED
    BY <1>1, <1>7, <1>8, <1>9

\* The notes stay where they are, or are given up.
LEMMA InSourceIs ==
    ASSUME WalletInv, "receive" \in WCalls, wlWork["receive"].pc \in {"lightning", "move"}, InSource(wlWork["receive"])
    PROVE  \E w2 : /\ Become("receive", w2) /\ WorkOk(w2, wlIssued) /\ w2.pc \notin Locked
                   /\ AcceptSource => Held(w2) = Held(wlWork["receive"])
  <1> DEFINE w == wlWork["receive"]
             keep == [w EXCEPT !.pc = "keep"]
             end == [pc |-> "ended"]
  <1>1. /\ {"pc", "mint", "notes"} \subseteq DOMAIN w /\ w.mint \in WMints /\ (\E n \in wlIssued : w.notes = {n}) /\ Held(w) = w.notes
    BY ReceiveFacts DEF Coming
  <1>2. CASE AcceptSource
    <2>1. Become("receive", keep)
      BY <1>2 DEF InSource
    <2>2. {"pc", "mint", "notes"} \subseteq DOMAIN keep /\ keep.pc = "keep" /\ keep.mint = w.mint /\ keep.notes = w.notes
      BY <1>1
    <2> HIDE DEF keep
    <2>3. WorkOk(keep, wlIssued) /\ keep.pc \notin Locked /\ Held(keep) = keep.notes
      <3>1. keep.pc \in Coming /\ keep.pc \notin {"lightning", "move"} /\ (\E x \in wlIssued : keep.notes = {x}) /\ keep.mint \in WMints
        BY <1>1, <2>2 DEF Coming
      <3> QED
        BY <2>2, <3>1, ComingIsOk
    <2> QED
      BY <1>1, <2>1, <2>2, <2>3
  <1>3. CASE ~AcceptSource
    <2>1. Become("receive", end) /\ "pc" \in DOMAIN end /\ end.pc = "ended"
      BY <1>3 DEF InSource
    <2> HIDE DEF end
    <2>2. WorkOk(end, wlIssued) /\ end.pc \notin Locked
      BY <2>1, PlainIsOk DEF Plain
    <2> QED
      BY <1>3, <2>1, <2>2
  <1> QED
    BY <1>2, <1>3

\* With the notes in hand, it goes on.
LEMMA ComingKeeps ==
    ASSUME WalletInv, "receive" \in WCalls, ~wlPanic, wlWork["receive"].pc \in Coming, NEW w2, Become("receive", w2),
           WorkOk(w2, wlIssued), w2.pc \notin Locked, AcceptSource => Held(w2) = Held(wlWork["receive"]),
           UNCHANGED <<wlTokens, wlBehind, wlTokensMu, wlPending, wlRelay, wlEcho, wlIssued, wlGiven, wlPanic>>,
           wlSpent \subseteq wlSpent', Fails(1) \/ UNCHANGED wlFaults
    PROVE  WalletInv'
  <1>1. wlFaults \in Nat /\ wlFaults' \in Nat
    BY CallFacts, FaultsAre
  <1>2. CallPays("receive", w2, {})
    BY <1>1, FaultsAre DEF CallPays
  <1>3. Issues({}) /\ WorkOk(w2, wlIssued')
    BY NoneSigned
  <1>4. wlWork["receive"].pc \notin Locked
    BY ReceiveFacts
  <1> QED
    BY <1>1, <1>2, <1>3, <1>4, LooseKeeps

LEMMA ReceiveQuotesKeeps == ASSUME WalletInv, "receive" \in WCalls, ReceiveQuotes PROVE WalletInv'
  <1> DEFINE w == wlWork["receive"]
             total == AmountOf(w.notes)
             fee == CalculateFee(w.mint, w.notes)
             skip == [w EXCEPT !.targets = Tail(@)]
             move(a) == [pc |-> "move", notes |-> w.notes, mint |-> w.mint, targets |-> w.targets, amount |-> a, quoted |-> a - fee]
  <1>1. /\ ~wlPanic /\ w.pc = "lightning"
        /\ UNCHANGED <<wlTokens, wlBehind, wlTokensMu, wlPending, wlRelay, wlEcho, wlIssued, wlSpent, wlGiven, wlPanic>>
        /\ Fails(1) \/ UNCHANGED wlFaults
        /\ \/ InSource(w)
           \/ w.targets # <<>> /\ Become("receive", skip)
           \/ w.targets # <<>> /\ \E a : Become("receive", move(a))
    <2> HIDE DEF fee, total
    <2> QED
      BY DEF ReceiveQuotes, At, wlLoad, fee, total
  <1>2. /\ {"pc", "mint", "notes", "targets"} \subseteq DOMAIN w /\ w.mint \in WMints /\ (\E n \in wlIssued : w.notes = {n})
        /\ Held(w) = w.notes /\ w.targets \in Seq(WMints)
    BY <1>1, ReceiveFacts DEF Coming
  <1>3. w.pc \in Coming
    BY <1>1 DEF Coming
  <1>4. CASE InSource(w)
    <2>1. PICK w2 : /\ Become("receive", w2) /\ WorkOk(w2, wlIssued) /\ w2.pc \notin Locked /\ (AcceptSource => Held(w2) = Held(w))
      BY <1>1, <1>4, InSourceIs
    <2> QED
      BY <1>1, <1>3, <2>1, ComingKeeps
  <1>5. CASE w.targets # <<>> /\ Become("receive", skip)
    <2>1. /\ {"pc", "mint", "notes", "targets"} \subseteq DOMAIN skip /\ skip.pc = "lightning" /\ skip.mint = w.mint
          /\ skip.notes = w.notes /\ skip.targets = Tail(w.targets)
      BY <1>1, <1>2
    <2>2. Tail(w.targets) \in Seq(WMints)
      <3> HIDE DEF w
      <3> QED
        BY <1>2, <1>5
    <2> HIDE DEF skip
    <2>3. skip.pc \in Coming /\ skip.pc # "move" /\ (\E x \in wlIssued : skip.notes = {x}) /\ skip.mint \in WMints
          /\ skip.targets \in Seq(WMints)
      BY <1>2, <2>1, <2>2 DEF Coming
    <2>4. WorkOk(skip, wlIssued) /\ skip.pc \notin Locked /\ Held(skip) = skip.notes
      BY <2>1, <2>3, ComingIsOk
    <2> QED
      BY <1>1, <1>2, <1>3, <1>5, <2>1, <2>4, ComingKeeps
  <1>6. CASE w.targets # <<>> /\ \E a : Become("receive", move(a))
    <2>1. PICK a : Become("receive", move(a))
      BY <1>6
    <2> DEFINE w2 == move(a)
    <2>2. /\ {"pc", "mint", "notes", "targets"} \subseteq DOMAIN w2 /\ w2.pc = "move" /\ w2.mint = w.mint
          /\ w2.notes = w.notes /\ w2.targets = w.targets /\ Become("receive", w2)
      BY <2>1
    <2> HIDE DEF w2, move
    <2>3. w2.pc \in Coming /\ (\E x \in wlIssued : w2.notes = {x}) /\ w2.mint \in WMints
          /\ w2.targets \in Seq(WMints) /\ w2.targets # <<>>
      BY <1>2, <1>6, <2>2 DEF Coming
    <2>4. WorkOk(w2, wlIssued) /\ w2.pc \notin Locked /\ Held(w2) = w2.notes
      BY <2>2, <2>3, ComingIsOk
    <2> QED
      BY <1>1, <1>2, <1>3, <2>2, <2>4, ComingKeeps
  <1> QED
    BY <1>1, <1>4, <1>5, <1>6

LEMMA ReceiveMeltsKeeps == ASSUME WalletInv, "receive" \in WCalls, ReceiveMelts PROVE WalletInv'
  <1> DEFINE w == wlWork["receive"]
             n == [n |-> Cardinality(wlIssued) + 1, mint |-> Head(w.targets), amount |-> w.quoted, asked |-> w.amount]
             w2 == [pc |-> "minted", notes |-> {n}, mint |-> Head(w.targets), targets |-> <<>>]
  <1>1. /\ ~wlPanic /\ w.pc = "move"
        /\ UNCHANGED <<wlTokens, wlBehind, wlTokensMu, wlPending, wlRelay, wlEcho, wlGiven, wlPanic>>
        /\ \/ wlSpent' = wlSpent \cup w.notes /\ wlIssued' = wlIssued \cup {n} /\ UNCHANGED wlFaults /\ Become("receive", w2)
           \/ /\ wlSpent' \in {wlSpent, wlSpent \cup w.notes} /\ Fails(1) /\ UNCHANGED wlIssued
              /\ InSource(w) \/ Goto2("receive", "ended")
    BY DEF ReceiveMelts, At, wlLoad
  <1>2. /\ Held(w) = w.notes /\ w.targets \in Seq(WMints) /\ w.targets # <<>> /\ w.pc \notin Locked
    BY <1>1, ReceiveFacts DEF Coming
  <1>3. w.pc \in Coming /\ wlFaults \in Nat
    BY <1>1, CallFacts DEF Coming
  <1>4. CASE wlSpent' = wlSpent \cup w.notes /\ wlIssued' = wlIssued \cup {n} /\ UNCHANGED wlFaults /\ Become("receive", w2)
    <2>1. Head(w.targets) \in WMints
      <3> HIDE DEF w
      <3> QED
        BY <1>2
    <2>2. n.n = Cardinality(wlIssued) + 1
      OBVIOUS
    <2>3. /\ {"pc", "mint", "notes"} \subseteq DOMAIN w2 /\ w2.pc = "minted" /\ w2.mint = Head(w.targets) /\ w2.notes = {n}
      OBVIOUS
    <2> HIDE DEF n, w2
    <2>4. Issues({n})
      BY <1>4, <2>2 DEF Issues, Signed
    <2>5. w2.pc \in Coming /\ w2.pc \notin {"lightning", "move"} /\ (\E x \in wlIssued' : w2.notes = {x}) /\ w2.mint \in WMints
      BY <1>4, <2>1, <2>3 DEF Coming
    <2>6. WorkOk(w2, wlIssued') /\ w2.pc \notin Locked /\ Held(w2) = w2.notes
      BY <2>3, <2>5, ComingIsOk
    <2>7. CallPays("receive", w2, {n})
      BY <1>1, <1>2, <1>4, <2>3, <2>6 DEF CallPays
    <2>8. wlFaults' \in Nat /\ wlSpent \subseteq wlSpent'
      BY <1>3, <1>4
    <2> QED
      BY <1>1, <1>2, <1>4, <2>4, <2>6, <2>7, <2>8, LooseKeeps
  <1>5. CASE wlSpent' \in {wlSpent, wlSpent \cup w.notes} /\ Fails(1) /\ UNCHANGED wlIssued /\ InSource(w)
    <2>1. PICK x : /\ Become("receive", x) /\ WorkOk(x, wlIssued) /\ x.pc \notin Locked /\ (AcceptSource => Held(x) = Held(w))
      BY <1>1, <1>5, InSourceIs
    <2>2. wlSpent \subseteq wlSpent'
      BY <1>5
    <2> QED
      BY <1>1, <1>3, <1>5, <2>1, <2>2, ComingKeeps
  <1>6. CASE wlSpent' \in {wlSpent, wlSpent \cup w.notes} /\ Fails(1) /\ UNCHANGED wlIssued /\ Goto2("receive", "ended")
    <2>1. wlSpent \subseteq wlSpent' /\ wlFaults' # 0 /\ Issues({})
      BY <1>3, <1>6, FaultsAre, NoneSigned
    <2> QED
      BY <1>1, <1>2, <1>6, <2>1, LooseEnds
  <1> QED
    BY <1>1, <1>4, <1>5, <1>6

LEMMA ReceiveRedeemsKeeps == ASSUME WalletInv, "receive" \in WCalls, ReceiveRedeems PROVE WalletInv'
  <1> DEFINE w == wlWork["receive"]
             refused == \E n \in w.notes : Overasked(n)
  <1>1. /\ ~wlPanic /\ w.pc = "minted"
        /\ UNCHANGED <<wlTokens, wlBehind, wlTokensMu, wlPending, wlRelay, wlEcho, wlIssued, wlSpent, wlGiven, wlPanic>>
        /\ \/ UNCHANGED wlFaults /\ Goto2("receive", "keep")
           \/ (Fails(1) \/ (refused /\ UNCHANGED wlFaults)) /\ Goto2("receive", "ended")
    BY DEF ReceiveRedeems, At, wlLoad
  <1>2. /\ {"pc", "mint", "notes"} \subseteq DOMAIN w /\ w.mint \in WMints /\ (\E n \in wlIssued : w.notes = {n})
        /\ Held(w) = w.notes /\ w.pc \notin Locked
    BY <1>1, ReceiveFacts DEF Coming
  <1>3. w.pc \in Coming /\ wlFaults \in Nat
    BY <1>1, CallFacts DEF Coming
  <1>4. CASE UNCHANGED wlFaults /\ Goto2("receive", "keep")
    <2>1. PICK w2 : /\ Become("receive", w2) /\ "pc" \in DOMAIN w2 /\ w2.pc = "keep" /\ DOMAIN w2 = DOMAIN w
                    /\ \A f \in DOMAIN w2 : f # "pc" => w2[f] = w[f]
      BY <1>4, GotoIs
    <2>2. {"pc", "mint", "notes"} \subseteq DOMAIN w2 /\ w2.mint = w.mint /\ w2.notes = w.notes
      BY <1>2, <2>1
    <2>3. w2.pc \in Coming /\ w2.pc \notin {"lightning", "move"} /\ (\E x \in wlIssued : w2.notes = {x}) /\ w2.mint \in WMints
      BY <1>2, <2>1, <2>2 DEF Coming
    <2>4. WorkOk(w2, wlIssued) /\ w2.pc \notin Locked /\ Held(w2) = w2.notes
      BY <2>2, <2>3, ComingIsOk
    <2> QED
      BY <1>1, <1>2, <1>3, <1>4, <2>1, <2>2, <2>4, ComingKeeps
  <1>5. CASE (Fails(1) \/ (refused /\ UNCHANGED wlFaults)) /\ Goto2("receive", "ended")
    <2>1. Issues({})
      BY <1>1, NoneSigned
    <2>2. wlFaults' = 0 => \A x : CallPays("receive", x, {})
      <3>1. wlFaults' = 0 => refused /\ UNCHANGED wlFaults
        BY <1>3, <1>5, FaultsAre
      <3>2. refused => \A n \in w.notes : Overasked(n)
        BY <1>2
      <3> QED
        BY <1>1, <1>2, <3>1, <3>2 DEF CallPays
    <2> QED
      BY <1>1, <1>2, <1>5, <2>1, <2>2, LooseEnds
  <1> QED
    BY <1>1, <1>4, <1>5

LEMMA ReceiveKeepsKeeps == ASSUME WalletInv, "receive" \in WCalls, ReceiveKeeps PROVE WalletInv'
  <1> DEFINE w == wlWork["receive"]
             token == NewToken(w.mint, w.notes)
             w2 == [pc |-> "append", token |-> token]
  <1>1. /\ ~wlPanic /\ w.pc = "keep"
        /\ UNCHANGED <<wlTokens, wlBehind, wlTokensMu, wlPending, wlIssued, wlSpent, wlGiven, wlPanic>>
        /\ \/ Fails(1) /\ Goto2("receive", "ended") /\ UNCHANGED <<wlRelay, wlEcho>>
           \/ Publish({TokenEvent(token)}) /\ (Fails(1) \/ UNCHANGED wlFaults) /\ Become("receive", w2)
    BY DEF ReceiveKeeps, At, wlLoad
  <1>2. /\ w.mint \in WMints /\ (\E n \in wlIssued : w.notes = {n}) /\ Held(w) = w.notes /\ w.pc \notin Locked
    BY <1>1, ReceiveFacts DEF Coming
  <1>3. wlFaults \in Nat /\ TypesInv /\ RelayInv
    BY CallFacts
  <1>4. CASE Fails(1) /\ Goto2("receive", "ended") /\ UNCHANGED <<wlRelay, wlEcho>>
    <2>1. wlFaults' # 0 /\ Issues({})
      BY <1>1, <1>3, <1>4, FaultsAre, NoneSigned
    <2> QED
      BY <1>1, <1>2, <1>4, <2>1, LooseEnds
  <1>5. CASE Publish({TokenEvent(token)}) /\ (Fails(1) \/ UNCHANGED wlFaults) /\ Become("receive", w2)
    <2>1. PICK n \in wlIssued : w.notes = {n}
      BY <1>2
    <2>2. token = NewToken(w.mint, {n})
      BY <2>1
    <2>3. "pc" \in DOMAIN w2 /\ w2.pc = "append" /\ w2.token = token
      OBVIOUS
    <2> HIDE DEF token, w2
    <2>4. /\ token \in TokensOf(wlIssued) /\ token.reserved = FALSE /\ EventOk(TokenEvent(token), wlIssued)
          /\ TokenEvent(token).deletes = {} /\ TokenEvent(token).kind = "token"
      <3> HIDE DEF w
      <3> QED
        BY <1>2, <2>2, NewTokenIs
    <2> DEFINE events == {TokenEvent(token)}
    <2>5. Adds(events) /\ wlRelay' = wlRelay \cup events
      BY <1>1, <1>3, <1>5, <2>4 DEF Adds, Publish, RelayInv
    <2>6. \A e \in events : Harmless(e)
      BY <2>4 DEF Harmless
    <2> HIDE DEF events
    <2>7. WorkOk(w2, wlIssued') /\ w2.pc \notin Locked
      BY <1>1, <2>3, <2>4 DEF WorkOk, Locked, Chosen, Saving, Coming
    <2>8. wlFaults' \in Nat
      BY <1>3, <1>5, FaultsAre
    <2>9. CallStep("receive", w2, {}, events)
      BY <1>1, <1>5, <2>5, <2>7, <2>8, NoneSigned DEF CallStep
    <2>10. Doomed' = Doomed
      BY <2>5, <2>6, HarmlessIs
    <2>11. w.pc # "melt" /\ w.pc \notin Loops /\ w2.pc \notin {"save", "change"}
      BY <1>1, <2>3 DEF Loops
    <2>12. \A arr, spent, doomed : PlacesIn(w2, arr, spent, doomed)
      BY <2>7, FreeForAll
    <2>13. SafeInv'
      <3>1. DoomedAreSpent(wlIssued', wlSpent', Doomed')
        BY <1>1, <1>3, <2>10, StillDoomed, NoneSigned DEF WalletInv
      <3>2. CallTouches("receive", w2)
        BY <1>1, <2>10, <2>11, <2>12, <3>1 DEF CallTouches
      <3> QED
        BY <1>1, <1>5, <3>2, CallSafe DEF WalletInv
    <2>14. CallPays("receive", w2, {})
      <3>1. n \in KeptNotes' \/ n \in wlSpent'
        BY <1>1, <1>2, <1>5, <2>2, <2>13, KeptToken
      <3> QED
        BY <1>1, <1>2, <1>3, <1>5, <2>1, <3>1, FaultsAre DEF CallPays
    <2>15. CallLocks("receive", w2) /\ CallReserves("receive", w2)
      BY <1>1, <2>7, <2>11 DEF CallLocks, CallReserves
    <2> QED
      BY <1>1, <2>6, <2>9, <2>11, <2>12, <2>14, <2>15, TameCallKeeps
  <1> HIDE DEF w2, token
  <1> QED
    BY <1>1, <1>4, <1>5

LEMMA ReceiveAppendsKeeps == ASSUME WalletInv, "receive" \in WCalls, ReceiveAppends PROVE WalletInv'
  <1> DEFINE token == wlWork["receive"].token
  <1>1. /\ ~wlPanic /\ wlWork["receive"].pc = "append" /\ Alone("receive") /\ wlTokens' = Append(wlTokens, token)
        /\ Goto2("receive", "ended")
        /\ UNCHANGED <<wlBehind, wlTokensMu, wlPending, wlRelay, wlEcho, wlIssued, wlSpent, wlGiven, wlFaults, wlPanic>>
    BY DEF ReceiveAppends, At, wlLoad, wlMoney, Alone
  <1>2. token \in TokensOf(wlIssued) /\ ~token.reserved
    BY <1>1, CallFacts DEF WorkOk
  <1>3. PICK w2 : Become("receive", w2) /\ "pc" \in DOMAIN w2 /\ w2.pc = "ended"
    BY <1>1, GotoIs
  <1>4. /\ (\A S : WorkOk(w2, S)) /\ (\A arr, spent, doomed : PlacesIn(w2, arr, spent, doomed)) /\ w2.pc \notin Locked
    BY <1>3, PlainIsOk DEF Plain
  <1>5. wlWork["receive"].pc \notin HandPcs /\ wlWork["receive"].pc \notin Loops /\ wlWork["receive"].pc # "melt"
    BY <1>1 DEF HandPcs, Saving, Coming, Loops
  <1> HIDE DEF token
  <1>6. /\ wlTokens \in Seq(TokensOf(wlIssued)) /\ wlFaults \in Nat /\ RelayInv /\ TypesInv
    BY CallFacts DEF TokensInv
  <1>7. wlTokens' \in Seq(TokensOf(wlIssued'))
    BY <1>1, <1>2, <1>6
  <1>8. wlBehind = <<>> /\ DOMAIN Arr = DOMAIN wlTokens /\ \A i \in DOMAIN wlTokens : Arr[i] = wlTokens[i]
    BY <1>1, <1>5, NoLoops
  <1>9. DOMAIN Arr' = DOMAIN wlTokens' /\ \A i \in DOMAIN wlTokens' : Arr'[i] = wlTokens'[i]
    <2>1. wlBehind' = <<>>
      BY <1>1, <1>8
    <2> QED
      BY <1>7, <2>1, ArrNext
  <1>10. CallStep("receive", w2, {}, {})
    BY <1>1, <1>3, <1>4, <1>6, NoneAdded, NoneSigned DEF CallStep
  <1>11. CallPays("receive", w2, {})
    BY <1>1, <1>5, <1>6, NothingPaid, NoHands
  <1>12. Doomed' = Doomed
    BY <1>1 DEF Doomed, TokenEvents
  <1>13. CallTouches("receive", w2)
    <2>1. DoomedAreSpent(wlIssued', wlSpent', Doomed')
      BY <1>1, <1>12, StillDoomed, NoneSigned DEF WalletInv
    <2> QED
      BY <1>1, <1>4, <1>8, <2>1 DEF CallTouches
  <1>14. CallLocks("receive", w2)
    BY <1>1, <1>4 DEF CallLocks
  <1>15. TypesInv' /\ LockInv' /\ SafeInv' /\ MoneyInv'
    BY <1>7, <1>10, <1>11, <1>13, <1>14, CallKeeps
  <1>16. ReservedInv'
    <2>1. \A i \in DOMAIN wlTokens : wlTokens[i].reserved => wlTokens[i].notes \subseteq wlSpent
      BY <1>1, <1>5, <1>8, NobodyMelts
    <2>2. \A i \in DOMAIN Append(wlTokens, token) :
            Append(wlTokens, token)[i] = token \/ (i \in DOMAIN wlTokens /\ Append(wlTokens, token)[i] = wlTokens[i])
      BY <1>6
    <2>3. \A i \in DOMAIN Arr' : Arr'[i].reserved => Arr'[i].notes \subseteq wlSpent'
      BY <1>1, <1>2, <1>9, <2>1, <2>2
    <2>4. wlWork'["receive"] = w2 /\ \A c \in WCalls : c # "receive" => wlWork'[c] = wlWork[c]
      BY <1>3, <1>6, BecomeIs, ThreadsDiffer DEF TypesInv
    <2>5. \A c \in WCalls : wlWork'[c].pc \notin {"save", "change"}
      <3>1. \A c \in WCalls : c # "receive" => wlWork[c].pc \notin Locked
        BY <1>1, AloneIs DEF WalletInv
      <3> QED
        BY <1>3, <2>4, <3>1 DEF Locked, Saving
    <2> QED
      BY <1>1, <2>3, <2>5 DEF ReservedInv
  <1> QED
    BY <1>15, <1>16 DEF WalletInv

-----------------------------------------------------------------------------
(* The loader *)

LoaderThreads == {"events", "deletions", "eose"}

\* A goroutine of the loader goes on, and the calls do not.
LEMMA LoaderIs ==
    ASSUME WalletInv, NEW thread \in LoaderThreads, NEW w2, Become(thread, w2), "pc" \in DOMAIN w2, UNCHANGED wlIssued
    PROVE  /\ WorkInv' /\ wlWork'[thread] = w2 /\ \A t \in WCalls : wlWork'[t] = wlWork[t]
           /\ \A x \in LoaderThreads : x # thread => wlWork'[x] = wlWork[x]
  <1>1. thread \in Threads /\ thread \notin WCalls /\ WCalls \subseteq Threads /\ LoaderThreads \subseteq Threads
    BY ThreadsDiffer DEF Threads, LoaderThreads
  <1>2. WorkInv
    BY DEF WalletInv, TypesInv
  <1>3. /\ wlWork' = [c \in Threads |-> wlWork'[c]] /\ wlWork'[thread] = w2
        /\ \A c \in Threads : c # thread => wlWork'[c] = wlWork[c]
    BY <1>1, <1>2, BecomeIs
  <1>4. \A t \in WCalls : wlWork'[t] = wlWork[t]
    BY <1>1, <1>3
  <1>5. (\A t \in Threads : "pc" \in DOMAIN wlWork'[t]) /\ (\A t \in WCalls : WorkOk(wlWork'[t], wlIssued'))
    BY <1>2, <1>3, <1>4 DEF WorkInv
  <1> QED
    BY <1>1, <1>3, <1>4, <1>5 DEF WorkInv

\* What it keeps that may change Tokens, the rest being what it was.
LEMMA ArrayKeeps ==
    ASSUME WalletInv, UNCHANGED <<wlTokensMu, wlRelay, wlIssued, wlSpent, wlGiven, wlFaults, wlPanic>>,
           WorkInv', RelayInv', TokensInv', \A t \in WCalls : wlWork'[t] = wlWork[t],
           \A t \in WCalls : PlacesIn(wlWork[t], Arr', wlSpent, Doomed),
           ~wlPanic => \A i \in DOMAIN Arr' : Arr'[i].reserved =>
                          Arr'[i].notes \subseteq wlSpent \/ \E t \in WCalls : ReservedBy(wlWork[t], i)'
    PROVE  WalletInv'
  <1>1. TypesInv'
    BY DEF WalletInv, TypesInv, IssuedOk
  <1>2. LockInv'
    BY DEF WalletInv, LockInv
  <1>3. Doomed' = Doomed /\ KeptNotes' = KeptNotes
    BY DEF Doomed, TokenEvents, KeptNotes
  <1>4. SafeInv'
    BY <1>3 DEF WalletInv, SafeInv
  <1>5. ReservedInv'
    <2>1. wlPanic' => \E t \in WCalls : wlWork'[t].pc = "panicked"
      BY DEF WalletInv, ReservedInv
    <2>2. ~wlPanic' => \A t \in WCalls : wlWork'[t].pc \in {"save", "change"} =>
              \A i \in DOMAIN wlWork'[t].updated :
                  wlWork'[t].updated[i].reserved => wlWork'[t].updated[i].notes \subseteq wlSpent'
      BY DEF WalletInv, ReservedInv
    <2> QED
      BY <2>1, <2>2 DEF ReservedInv
  <1>6. MoneyInv'
    BY <1>3 DEF WalletInv, MoneyInv
  <1> QED
    BY <1>1, <1>2, <1>4, <1>5, <1>6 DEF WalletInv

LEMMA LoaderKeeps ==
    ASSUME WalletInv, UNCHANGED <<wlTokens, wlBehind, wlTokensMu, wlRelay, wlIssued, wlSpent, wlGiven, wlFaults, wlPanic>>,
           WorkInv', RelayInv', \A t \in WCalls : wlWork'[t] = wlWork[t]
    PROVE  WalletInv'
  <1>1. TokensInv'
    BY DEF WalletInv, TypesInv, TokensInv
  <1>2. Arr' = Arr
    BY DEF Arr
  <1>3. \A t \in WCalls : PlacesIn(wlWork[t], Arr', wlSpent, Doomed)
    BY <1>2 DEF WalletInv, SafeInv
  <1>4. ASSUME ~wlPanic, NEW i \in DOMAIN Arr', Arr'[i].reserved
        PROVE  Arr'[i].notes \subseteq wlSpent \/ \E t \in WCalls : ReservedBy(wlWork[t], i)'
    <2>1. Arr[i].notes \subseteq wlSpent \/ \E t \in WCalls : ReservedBy(wlWork[t], i)
      BY <1>2, <1>4 DEF WalletInv, ReservedInv
    <2>2. \A t \in WCalls : ReservedBy(wlWork[t], i) => ReservedBy(wlWork[t], i)'
      BY <1>2 DEF ReservedBy
    <2> QED
      BY <1>2, <2>1, <2>2
  <1> QED
    BY <1>1, <1>3, <1>4, ArrayKeeps

\* What an event deletes is doomed.
LEMMA GoneIsDoomed ==
    ASSUME NEW e \in wlRelay PROVE Gone(e) \subseteq Doomed
  <1>1. CASE e.kind = "deletion"
    <2>1. Gone(e) = {e.id}
      BY <1>1 DEF Gone
    <2> QED
      BY <1>1, <2>1 DEF Doomed
  <1>2. CASE e.kind = "token"
    <2>1. Gone(e) = e.deletes
      BY <1>2 DEF Gone
    <2> QED
      BY <1>2, <2>1 DEF Doomed, TokenEvents
  <1>3. CASE e.kind \notin {"deletion", "token"}
    BY <1>3 DEF Gone
  <1> QED
    BY <1>1, <1>2, <1>3

LEMMA RelayFacts ==
    ASSUME WalletInv
    PROVE  /\ wlEcho \subseteq wlRelay /\ (\A e \in wlRelay : EventOk(e, wlIssued)) /\ wlPending \subseteq Doomed
           /\ \A t \in {"events", "deletions"} : wlWork[t].pc # "idle" => wlWork[t].evt \in wlRelay
           /\ wlWork["events"].pc = "append" => wlWork["events"].evt.kind = "token"
           /\ \A t \in LoaderThreads : "pc" \in DOMAIN wlWork[t]
  BY ThreadsDiffer DEF WalletInv, TypesInv, RelayInv, WorkInv, LoaderThreads, Threads

LEMMA ArrivesKeeps ==
    ASSUME WalletInv, NEW thread \in {"events", "deletions"}, NEW evt \in wlEcho, Arrives(thread, evt) PROVE WalletInv'
  <1> DEFINE w2 == [pc |-> "lock", evt |-> evt]
  <1>1. /\ Become(thread, w2) /\ wlEcho' \subseteq wlEcho
        /\ UNCHANGED <<wlTokens, wlBehind, wlTokensMu, wlPending, wlRelay, wlIssued, wlSpent, wlGiven, wlFaults, wlPanic>>
    BY DEF Arrives, wlLoad, wlMoney
  <1>2. "pc" \in DOMAIN w2 /\ w2.pc = "lock" /\ w2.evt = evt
    OBVIOUS
  <1> HIDE DEF w2
  <1>3. /\ WorkInv' /\ wlWork'[thread] = w2 /\ (\A t \in WCalls : wlWork'[t] = wlWork[t])
        /\ \A x \in LoaderThreads : x # thread => wlWork'[x] = wlWork[x]
    BY <1>1, <1>2, LoaderIs DEF LoaderThreads
  <1>4. Doomed' = Doomed
    BY <1>1 DEF Doomed, TokenEvents
  <1>5. RelayInv'
    BY <1>1, <1>2, <1>3, <1>4, RelayFacts DEF RelayInv, LoaderThreads
  <1> QED
    BY <1>1, <1>3, <1>5, LoaderKeeps

LEMMA EventLocksKeeps == ASSUME WalletInv, NEW thread, EventLocks(thread) PROVE WalletInv'
  <1> DEFINE w == wlWork[thread]
             w2 == [pc |-> IF w.evt.kind = "token" THEN "append" ELSE "apply", evt |-> w.evt, eosed |-> wlEosed]
  <1>1. /\ thread \in {"events", "deletions"} /\ w.pc = "lock" /\ Become(thread, w2)
        /\ UNCHANGED <<wlTokens, wlBehind, wlTokensMu, wlPending, wlRelay, wlEcho, wlIssued, wlSpent, wlGiven, wlFaults, wlPanic>>
    BY DEF EventLocks, At, wlLoad, wlMoney
  <1>2. "pc" \in DOMAIN w2 /\ w2.evt = w.evt /\ (w2.pc = "append" => w.evt.kind = "token")
    OBVIOUS
  <1> HIDE DEF w2
  <1>3. /\ WorkInv' /\ wlWork'[thread] = w2 /\ (\A t \in WCalls : wlWork'[t] = wlWork[t])
        /\ \A x \in LoaderThreads : x # thread => wlWork'[x] = wlWork[x]
    BY <1>1, <1>2, LoaderIs DEF LoaderThreads
  <1>4. Doomed' = Doomed
    BY <1>1 DEF Doomed, TokenEvents
  <1>5. RelayInv'
    BY <1>1, <1>2, <1>3, <1>4, RelayFacts DEF RelayInv, LoaderThreads
  <1> QED
    BY <1>1, <1>3, <1>5, LoaderKeeps

LEMMA EventAppliesKeeps == ASSUME WalletInv, NEW thread, EventApplies(thread) PROVE WalletInv'
  <1> DEFINE w == wlWork[thread]
  <1>1. /\ thread \in {"events", "deletions"} /\ w.pc = "apply" /\ Become(thread, Idle)
        /\ wlPending' = wlPending \/ wlPending' = wlPending \cup Gone(w.evt)
        /\ UNCHANGED <<wlTokens, wlBehind, wlTokensMu, wlRelay, wlEcho, wlIssued, wlSpent, wlGiven, wlFaults, wlPanic>>
    BY DEF EventApplies, At, wlMoney
  <1>2. "pc" \in DOMAIN Idle /\ Idle.pc = "idle"
    BY DEF Idle
  <1>3. /\ WorkInv' /\ wlWork'[thread] = Idle /\ (\A t \in WCalls : wlWork'[t] = wlWork[t])
        /\ \A x \in LoaderThreads : x # thread => wlWork'[x] = wlWork[x]
    BY <1>1, <1>2, LoaderIs DEF LoaderThreads
  <1>4. Doomed' = Doomed
    BY <1>1 DEF Doomed, TokenEvents
  <1>5. w.evt \in wlRelay
    BY <1>1, RelayFacts
  <1>6. wlPending' \subseteq Doomed'
    BY <1>1, <1>4, <1>5, GoneIsDoomed, RelayFacts
  <1>7. RelayInv'
    BY <1>1, <1>2, <1>3, <1>6, RelayFacts DEF RelayInv, LoaderThreads
  <1> QED
    BY <1>1, <1>3, <1>7, LoaderKeeps

LEMMA EoseKeeps ==
    ASSUME WalletInv, NEW p, Goto2("eose", p), wlPending' \in {wlPending, {}},
           UNCHANGED <<wlTokens, wlBehind, wlTokensMu, wlRelay, wlEcho, wlIssued, wlSpent, wlGiven, wlFaults, wlPanic>>
    PROVE  WalletInv'
  <1> DEFINE w2 == [wlWork["eose"] EXCEPT !.pc = p]
  <1>1. "pc" \in DOMAIN w2 /\ Become("eose", w2)
    BY RelayFacts DEF LoaderThreads, Goto2
  <1> HIDE DEF w2
  <1>2. /\ WorkInv' /\ (\A t \in WCalls : wlWork'[t] = wlWork[t])
        /\ \A x \in LoaderThreads : x # "eose" => wlWork'[x] = wlWork[x]
    BY <1>1, LoaderIs DEF LoaderThreads
  <1>3. Doomed' = Doomed
    BY DEF Doomed, TokenEvents
  <1>4. RelayInv'
    BY <1>2, <1>3, RelayFacts DEF RelayInv, LoaderThreads
  <1> QED
    BY <1>2, <1>4, LoaderKeeps

LEMMA EoseStepsKeep == ASSUME WalletInv, EoseComes \/ EoseApplies \/ WalletStable PROVE WalletInv'
  <1>1. CASE EoseComes
    BY <1>1, EoseKeeps DEF EoseComes, wlMoney
  <1>2. CASE EoseApplies
    BY <1>2, EoseKeeps DEF EoseApplies, wlMoney
  <1>3. CASE WalletStable
    BY <1>3, EoseKeeps DEF WalletStable, wlMoney
  <1> QED
    BY <1>1, <1>2, <1>3

\* Nobody has tokensMu, so no call knows a place of Tokens.
LEMMA EventAppendsKeeps == ASSUME WalletInv, EventAppends PROVE WalletInv'
  <1> DEFINE w == wlWork["events"]
             e == w.evt
             token == [id |-> e.id, mint |-> e.mint, notes |-> e.notes, reserved |-> FALSE]
             w2 == [w EXCEPT !.pc = "apply", !.eosed = wlEosed]
  <1>1. /\ w.pc = "append" /\ wlTokensMu = "free" /\ Become("events", w2) /\ (wlTokens' = wlTokens \/ wlTokens' = Append(wlTokens, token))
        /\ UNCHANGED <<wlBehind, wlTokensMu, wlPending, wlRelay, wlEcho, wlIssued, wlSpent, wlGiven, wlFaults, wlPanic>>
    BY DEF EventAppends, At, wlLoad, wlMoney
  <1>2. "pc" \in DOMAIN w /\ e \in wlRelay /\ e.kind = "token"
    BY <1>1, RelayFacts DEF LoaderThreads
  <1>3. "pc" \in DOMAIN w2 /\ w2.pc = "apply" /\ w2.evt = e
    BY <1>2
  <1>4. token \in TokensOf(wlIssued) /\ ~token.reserved
    <2>1. e.mint \in WMints /\ \E n \in wlIssued : e.id = n.n /\ e.notes = {n}
      BY <1>2, RelayFacts DEF EventOk
    <2> QED
      BY <2>1, TokenMade
  <1> HIDE DEF w2, token
  <1>5. /\ WorkInv' /\ wlWork'["events"] = w2 /\ (\A t \in WCalls : wlWork'[t] = wlWork[t])
        /\ \A x \in LoaderThreads : x # "events" => wlWork'[x] = wlWork[x]
    BY <1>1, <1>3, LoaderIs DEF LoaderThreads
  <1>6. RelayInv'
    <2>1. Doomed' = Doomed
      BY <1>1 DEF Doomed, TokenEvents
    <2> QED
      BY <1>1, <1>2, <1>3, <1>5, <2>1, RelayFacts DEF RelayInv, LoaderThreads
  <1>7. Alone("events") /\ "events" \notin WCalls
    BY <1>1, ThreadsDiffer DEF Alone
  <1>8. wlBehind = <<>> /\ DOMAIN Arr = DOMAIN wlTokens /\ \A i \in DOMAIN wlTokens : Arr[i] = wlTokens[i]
    BY <1>7, NoLoops
  <1>9. wlTokens \in Seq(TokensOf(wlIssued))
    BY DEF WalletInv, TypesInv, TokensInv
  <1>10. wlTokens' \in Seq(TokensOf(wlIssued')) /\ wlBehind' = <<>>
    BY <1>1, <1>4, <1>8, <1>9
  <1>11. TokensInv'
    BY <1>10 DEF TokensInv
  <1>12. DOMAIN Arr' = DOMAIN wlTokens' /\ \A i \in DOMAIN wlTokens' : Arr'[i] = wlTokens'[i]
    BY <1>10, ArrNext
  <1>13. \A t \in WCalls : PlacesIn(wlWork[t], Arr', wlSpent, Doomed)
    <2>1. \A t \in WCalls : wlWork[t].pc \notin Locked
      BY <1>7, AloneIs DEF WalletInv
    <2> QED
      BY <2>1, FreeForAll
  <1>14. ASSUME ~wlPanic PROVE \A i \in DOMAIN Arr' : Arr'[i].reserved => Arr'[i].notes \subseteq wlSpent
    <2>1. \A i \in DOMAIN wlTokens : wlTokens[i].reserved => wlTokens[i].notes \subseteq wlSpent
      BY <1>7, <1>8, <1>14, NobodyMelts
    <2>2. \A i \in DOMAIN Append(wlTokens, token) :
            Append(wlTokens, token)[i] = token \/ (i \in DOMAIN wlTokens /\ Append(wlTokens, token)[i] = wlTokens[i])
      BY <1>9
    <2> QED
      BY <1>1, <1>4, <1>12, <2>1, <2>2
  <1> QED
    BY <1>1, <1>5, <1>6, <1>11, <1>13, <1>14, ArrayKeeps

\* A token goes that is doomed: no call relied on what was at its place.
LEMMA PlacesGo ==
    ASSUME NEW w, NEW arr, NEW arr2, NEW spent, NEW doomed, PlacesIn(w, arr, spent, doomed), DOMAIN arr2 \subseteq DOMAIN arr,
           NEW i \in DOMAIN arr, \A j \in DOMAIN arr2 : j # i => arr2[j] = arr[j], arr[i].id \in doomed,
           arr[i].notes \cap spent # {}
    PROVE  PlacesIn(w, arr2, spent, doomed)
  <1>1. ASSUME w.pc = "choose", NEW p \in w.picked
        PROVE  p.token.notes \cap spent # {} \/ (p.place \in DOMAIN arr2 => arr2[p.place].notes = p.token.notes)
    <2>1. p.token.notes \cap spent # {} \/ (p.place \in DOMAIN arr => arr[p.place].notes = p.token.notes)
      BY <1>1 DEF PlacesIn
    <2> QED
      BY <2>1
  <1>2. ASSUME w.pc \in Chosen, w.notes \cap spent = {}
        PROVE  /\ \A j \in w.idx \cap DOMAIN arr2 : arr2[j].notes \subseteq w.notes
               /\ w.repeats \/ \A j, k \in w.idx \cap DOMAIN arr2 : j # k => arr2[j].notes \cap arr2[k].notes = {}
    <2>1. /\ \A j \in w.idx \cap DOMAIN arr : arr[j].notes \subseteq w.notes
          /\ w.repeats \/ \A j, k \in w.idx \cap DOMAIN arr : j # k => arr[j].notes \cap arr[k].notes = {}
      BY <1>2 DEF PlacesIn
    <2>2. i \notin w.idx
      BY <1>2, <2>1
    <2>3. \A j \in w.idx \cap DOMAIN arr2 : j \in DOMAIN arr /\ arr2[j] = arr[j]
      BY <2>2
    <2> QED
      BY <2>1, <2>3
  <1>3. ASSUME w.pc = "save"
        PROVE  /\ \A j \in w.idx \cap DOMAIN arr2 : j >= w.at => arr2[j].notes \subseteq spent /\ arr2[j].id \notin doomed
               /\ \A j, k \in w.idx \cap DOMAIN arr2 : j >= w.at /\ k >= w.at /\ j # k => arr2[j].id # arr2[k].id
    <2>1. /\ \A j \in w.idx \cap DOMAIN arr : j >= w.at => arr[j].notes \subseteq spent /\ arr[j].id \notin doomed
          /\ \A j, k \in w.idx \cap DOMAIN arr : j >= w.at /\ k >= w.at /\ j # k => arr[j].id # arr[k].id
      BY <1>3 DEF PlacesIn
    <2>2. i \in w.idx => ~(i >= w.at)
      BY <2>1
    <2>3. \A j \in w.idx \cap DOMAIN arr2 : j >= w.at => j \in DOMAIN arr /\ arr2[j] = arr[j]
      BY <2>2
    <2> QED
      BY <2>1, <2>3
  <1> QED
    BY <1>1, <1>2, <1>3 DEF PlacesIn

\* The last token takes the place of the removed one; in the array that a loop
\* goes through, it stays where it was as well.
LEMMA SwapIs ==
    ASSUME NEW T, NEW tokens \in Seq(T), NEW behind \in Seq(T), NEW i \in DOMAIN tokens, NEW behind2,
           behind2 = <<tokens[Len(tokens)]>> \o behind \/ (behind2 = <<>> /\ behind = <<>>)
    PROVE  LET tokens2 == SwapDelete(tokens, i)
               arr == ArrOf(tokens, behind)
               arr2 == ArrOf(tokens2, behind2)
               last == Len(tokens) IN
           /\ tokens2 \in Seq(T) /\ behind2 \in Seq(T) /\ DOMAIN tokens2 = 1..(last - 1) /\ last \in DOMAIN tokens
           /\ DOMAIN tokens = 1..last /\ last \in Nat
           /\ DOMAIN arr2 \subseteq DOMAIN arr /\ i \in DOMAIN arr /\ last \in DOMAIN arr
           /\ \A j \in DOMAIN arr2 : arr2[j] = arr[j] \/ (j = i /\ arr2[j] = arr[last])
           /\ \A j \in DOMAIN arr2 : j # i => arr2[j] = arr[j]
  <1> DEFINE tokens2 == SwapDelete(tokens, i)
             arr == ArrOf(tokens, behind)
             arr2 == ArrOf(tokens2, behind2)
             last == Len(tokens)
  <1>1. last \in Nat /\ DOMAIN tokens = 1..last /\ i \in 1..last /\ last \in DOMAIN tokens /\ Len(behind) \in Nat
    OBVIOUS
  <1>2. tokens2 = [j \in 1..(last - 1) |-> tokens[IF j = i THEN last ELSE j]]
    BY DEF SwapDelete
  <1>3. \A j \in 1..(last - 1) : tokens[IF j = i THEN last ELSE j] \in T
    BY <1>1
  <1> HIDE DEF last, tokens2
  <1>4. last - 1 \in Nat
    BY <1>1
  <1>5. tokens2 \in Seq(T) /\ DOMAIN tokens2 = 1..(last - 1) /\ Len(tokens2) = last - 1
    <2>1. tokens2 \in [1..(last - 1) -> T]
      BY <1>2, <1>3
    <2> QED
      BY <1>4, <2>1
  <1>6. \A j \in 1..(last - 1) : tokens2[j] = IF j = i THEN tokens[last] ELSE tokens[j]
    BY <1>2
  <1>7. arr = [j \in 1..(last + Len(behind)) |-> IF j \in 1..last THEN tokens[j] ELSE behind[j - last]]
    BY <1>1 DEF ArrOf, last
  <1>8. arr2 = [j \in 1..(last - 1 + Len(behind2)) |-> IF j \in 1..(last - 1) THEN tokens2[j] ELSE behind2[j - (last - 1)]]
    BY <1>5 DEF ArrOf
  <1> HIDE DEF arr, arr2
  <1>9. CASE behind2 = <<tokens[last]>> \o behind
    <2>1. tokens[last] \in T
      BY <1>1
    <2> DEFINE x == tokens[last]
    <2>2. <<x>> \o behind \in Seq(T) /\ Len(<<x>> \o behind) = Len(behind) + 1
          /\ \A k \in 1..(Len(behind) + 1) : (<<x>> \o behind)[k] = IF k = 1 THEN x ELSE behind[k - 1]
      <3> HIDE DEF x
      <3> QED
        BY <2>1 DEF x
    <2>3. behind2 \in Seq(T) /\ Len(behind2) = Len(behind) + 1
          /\ \A k \in 1..(Len(behind) + 1) : behind2[k] = IF k = 1 THEN tokens[last] ELSE behind[k - 1]
      BY <1>9, <2>2
    <2>4. last - 1 + Len(behind2) = last + Len(behind)
      BY <1>1, <2>3
    <2>5. DOMAIN arr2 = 1..(last + Len(behind)) /\ DOMAIN arr = 1..(last + Len(behind))
      BY <1>7, <1>8, <2>4
    <2>6. ASSUME NEW j \in 1..(last + Len(behind)), j # i PROVE arr2[j] = arr[j]
      <3>1. CASE j \in 1..(last - 1)
        <4>1. arr2[j] = tokens2[j] /\ arr[j] = tokens[j]
          BY <1>1, <1>7, <1>8, <2>4, <3>1
        <4> QED
          BY <1>6, <2>6, <3>1, <4>1
      <3>2. CASE j = last
        <4>1. j - (last - 1) = 1 /\ j \notin 1..(last - 1) /\ j \in 1..last
          BY <1>1, <3>2
        <4>2. arr2[j] = behind2[1] /\ arr[j] = tokens[last]
          BY <1>7, <1>8, <2>4, <3>2, <4>1
        <4> QED
          BY <1>1, <2>3, <4>2
      <3>3. CASE j > last
        <4>1. j \notin 1..last /\ j \notin 1..(last - 1) /\ j - last \in 1..Len(behind)
              /\ j - (last - 1) \in 1..(Len(behind) + 1) /\ j - (last - 1) # 1 /\ j - (last - 1) - 1 = j - last
          BY <1>1, <3>3
        <4>2. arr2[j] = behind2[j - (last - 1)] /\ arr[j] = behind[j - last]
          BY <1>7, <1>8, <2>4, <4>1
        <4> QED
          BY <2>3, <4>1, <4>2
      <3> QED
        BY <1>1, <3>1, <3>2, <3>3
    <2>7. arr2[i] = arr[last]
      <3>1. arr[last] = tokens[last]
        BY <1>1, <1>7
      <3>2. CASE i = last
        <4>1. i - (last - 1) = 1 /\ i \notin 1..(last - 1)
          BY <1>1, <3>2
        <4>2. arr2[i] = behind2[1]
          BY <1>1, <1>8, <2>4, <4>1
        <4> QED
          BY <1>1, <2>3, <3>1, <4>2
      <3>3. CASE i # last
        <4>1. i \in 1..(last - 1) /\ i \in 1..(last + Len(behind))
          BY <1>1, <3>3
        <4>2. arr2[i] = tokens2[i]
          BY <1>8, <2>4, <4>1
        <4>3. tokens2[i] = tokens[last]
          BY <1>6, <4>1
        <4> QED
          BY <3>1, <4>2, <4>3
      <3> QED
        BY <3>2, <3>3
    <2> QED
      BY <1>1, <1>5, <2>3, <2>5, <2>6, <2>7 DEF arr, arr2, last, tokens2
  <1>10. CASE behind2 = <<>> /\ behind = <<>>
    <2>1. Len(behind2) = 0 /\ Len(behind) = 0 /\ behind2 \in Seq(T)
      BY <1>10
    <2>2. DOMAIN arr2 = 1..(last - 1) /\ DOMAIN arr = 1..last
      BY <1>1, <1>7, <1>8, <2>1
    <2>3. \A j \in 1..(last - 1) : arr2[j] = (IF j = i THEN tokens[last] ELSE tokens[j]) /\ arr[j] = tokens[j]
      BY <1>1, <1>6, <1>7, <1>8, <2>1
    <2>4. arr[last] = tokens[last]
      BY <1>1, <1>7, <2>1
    <2>5. 1..(last - 1) \subseteq 1..last
      BY <1>1
    <2> QED
      BY <1>1, <1>5, <2>1, <2>2, <2>3, <2>4, <2>5 DEF arr, arr2, last, tokens2
  <1> QED
    BY <1>9, <1>10 DEF last

LEMMA RemoveKeeps ==
    ASSUME WalletInv, NEW ids, ids \subseteq Doomed, RemoveDeletedToken(ids),
           UNCHANGED <<wlTokensMu, wlWork, wlPending, wlRelay, wlEcho, wlIssued, wlSpent, wlGiven, wlFaults, wlPanic>>
    PROVE  WalletInv'
  <1> DEFINE last == Len(wlTokens)
             T == TokensOf(wlIssued)
  <1>1. wlTokens \in Seq(T) /\ wlBehind \in Seq(T) /\ (Ranging \/ wlBehind = <<>>)
    BY DEF WalletInv, TypesInv, TokensInv, Ranging, Loops
  <1>2. PICK i \in DOMAIN wlTokens :
          /\ wlTokens[i].id \in ids /\ wlTokens' = SwapDelete(wlTokens, i)
          /\ wlBehind' = IF Ranging THEN <<wlTokens[last]>> \o wlBehind ELSE <<>>
    BY DEF RemoveDeletedToken
  <1> HIDE DEF T
  <1>3. wlBehind' = <<wlTokens[Len(wlTokens)]>> \o wlBehind \/ (wlBehind' = <<>> /\ wlBehind = <<>>)
    BY <1>1, <1>2
  <1>4. /\ wlTokens' \in Seq(T) /\ wlBehind' \in Seq(T) /\ DOMAIN wlTokens' = 1..(last - 1) /\ last \in DOMAIN wlTokens
        /\ DOMAIN wlTokens = 1..last /\ last \in Nat
        /\ DOMAIN Arr' \subseteq DOMAIN Arr /\ i \in DOMAIN Arr /\ last \in DOMAIN Arr
        /\ \A j \in DOMAIN Arr' : Arr'[j] = Arr[j] \/ (j = i /\ Arr'[j] = Arr[last])
        /\ \A j \in DOMAIN Arr' : j # i => Arr'[j] = Arr[j]
    <2> DEFINE x == wlBehind'
               y == SwapDelete(wlTokens, i)
    <2>1. Arr = ArrOf(wlTokens, wlBehind) /\ Arr' = ArrOf(wlTokens', x)
      BY DEF Arr
    <2>2. x = <<wlTokens[Len(wlTokens)]>> \o wlBehind \/ (x = <<>> /\ wlBehind = <<>>)
      BY <1>3
    <2> HIDE DEF x
    <2>5. wlTokens \in Seq(T) /\ wlBehind \in Seq(T) /\ i \in DOMAIN wlTokens
      BY <1>1, <1>2
    <2>3. /\ y \in Seq(T) /\ x \in Seq(T) /\ DOMAIN y = 1..(Len(wlTokens) - 1) /\ Len(wlTokens) \in DOMAIN wlTokens
          /\ DOMAIN wlTokens = 1..Len(wlTokens) /\ Len(wlTokens) \in Nat
          /\ DOMAIN ArrOf(y, x) \subseteq DOMAIN ArrOf(wlTokens, wlBehind)
          /\ i \in DOMAIN ArrOf(wlTokens, wlBehind) /\ Len(wlTokens) \in DOMAIN ArrOf(wlTokens, wlBehind)
          /\ \A j \in DOMAIN ArrOf(y, x) :
                ArrOf(y, x)[j] = ArrOf(wlTokens, wlBehind)[j] \/ (j = i /\ ArrOf(y, x)[j] = ArrOf(wlTokens, wlBehind)[Len(wlTokens)])
          /\ \A j \in DOMAIN ArrOf(y, x) : j # i => ArrOf(y, x)[j] = ArrOf(wlTokens, wlBehind)[j]
      BY <2>2, <2>5, SwapIs
    <2>4. wlTokens' = y
      BY <1>2
    <2> HIDE DEF y
    <2> QED
      BY <2>1, <2>3, <2>4 DEF x
  <1> HIDE DEF last
  <1>5. Arr[i].id \in Doomed /\ Arr[i].notes \cap wlSpent # {}
    <2>1. Arr[i] = wlTokens[i] /\ wlTokens[i] \in T
      BY <1>1, <1>2, ArrIs DEF Arr
    <2>2. PICK n \in wlIssued : Arr[i].id = n.n /\ Arr[i].notes = {n}
      BY <2>1, TokenIs DEF T
    <2>3. Arr[i].id \in Doomed
      BY <1>2, <2>1
    <2>4. n \in wlSpent
      BY <2>2, <2>3 DEF WalletInv, SafeInv, DoomedAreSpent
    <2> QED
      BY <2>2, <2>3, <2>4
  <1>6. \A t \in WCalls : PlacesIn(wlWork[t], Arr', wlSpent, Doomed)
    <2>1. \A t \in WCalls : PlacesIn(wlWork[t], Arr, wlSpent, Doomed)
      BY DEF WalletInv, SafeInv
    <2> QED
      BY <1>4, <1>5, <2>1, PlacesGo
  <1>7. ASSUME ~wlPanic, NEW j \in DOMAIN Arr', Arr'[j].reserved
        PROVE  Arr'[j].notes \subseteq wlSpent \/ \E t \in WCalls : ReservedBy(wlWork[t], j)'
    <2>1. PICK k \in DOMAIN Arr : Arr'[j] = Arr[k] /\ (k = j \/ k = last)
      BY <1>4
    <2>2. Arr[k].notes \subseteq wlSpent \/ \E t \in WCalls : ReservedBy(wlWork[t], k)
      BY <1>7, <2>1 DEF WalletInv, ReservedInv
    <2>3. ASSUME NEW t \in WCalls, ReservedBy(wlWork[t], k) PROVE ReservedBy(wlWork[t], j)'
      <3>1. DOMAIN wlTokens' \subseteq DOMAIN wlTokens /\ last \notin DOMAIN wlTokens'
        BY <1>4
      <3>2. wlWork[t].idx \subseteq DOMAIN wlTokens' => j \in wlWork[t].idx
        BY <2>1, <2>3, <3>1 DEF ReservedBy
      <3> QED
        BY <2>1, <2>3, <3>2 DEF ReservedBy
    <2> QED
      BY <2>1, <2>2, <2>3
  <1>8. TokensInv'
    <2>1. wlBehind' = <<>> \/ Ranging
      BY <1>2
    <2> QED
      BY <1>4, <2>1 DEF TokensInv, Ranging, Loops, T
  <1>9. WorkInv' /\ RelayInv'
    BY DEF WalletInv, TypesInv, WorkInv, RelayInv, Doomed, TokenEvents
  <1> QED
    BY <1>6, <1>7, <1>8, <1>9, ArrayKeeps

LEMMA EventRemovesKeeps == ASSUME WalletInv, NEW thread, EventRemoves(thread) PROVE WalletInv'
  <1>1. /\ thread \in {"events", "deletions"} /\ wlWork[thread].pc = "apply" /\ RemoveDeletedToken(Gone(wlWork[thread].evt))
        /\ UNCHANGED <<wlTokensMu, wlWork, wlPending, wlRelay, wlEcho, wlIssued, wlSpent, wlGiven, wlFaults, wlPanic>>
    BY DEF EventRemoves, At, wlLoad, wlMoney
  <1>2. Gone(wlWork[thread].evt) \subseteq Doomed
    BY <1>1, RelayFacts, GoneIsDoomed
  <1> QED
    BY <1>1, <1>2, RemoveKeeps

LEMMA EoseRemovesKeeps == ASSUME WalletInv, EoseRemoves PROVE WalletInv'
  <1>1. /\ RemoveDeletedToken(wlPending)
        /\ UNCHANGED <<wlTokensMu, wlWork, wlPending, wlRelay, wlEcho, wlIssued, wlSpent, wlGiven, wlFaults, wlPanic>>
    BY DEF EoseRemoves, wlLoad, wlMoney
  <1> QED
    BY <1>1, RelayFacts, RemoveKeeps

LEMMA LoaderStepKeeps == ASSUME WalletInv, LoaderStep PROVE WalletInv'
  BY ArrivesKeeps, EventLocksKeeps, EventAppendsKeeps, EventRemovesKeeps, EventAppliesKeeps, EoseStepsKeep, EoseRemovesKeeps
     DEF LoaderStep

-----------------------------------------------------------------------------
(* Every step, and the start *)

LEMMA WalletStepKeeps == ASSUME "drop" \notin WCalls, WalletInv, WalletNext PROVE WalletInv'
  <1>1. CASE LoaderStep
    BY <1>1, LoaderStepKeeps
  <1>2. CASE \E t \in WCalls \cap {"send", "zap"} : SendStep(t)
    BY <1>2, SendLocksKeeps, SendSwapsKeeps DEF SendStep
  <1>3. CASE \E t \in WCalls \cap {"pay", "zap"} : PayStep(t)
    BY <1>3, PayQuotesKeeps, PayReservesKeeps, PayMeltsKeeps, PayRedeemsKeeps DEF PayStep
  <1>4. CASE \E t \in WCalls \cap {"send", "pay", "zap"} : SaveStep(t)
    BY <1>4, ChooseNextKeeps, SaveDeletesKeeps, SaveChangeKeeps, SaveHistoryKeeps DEF SaveStep
  <1>5. CASE "send" \in WCalls /\ \E a \in SendAmounts, from \in WMints \cup {"any"} : SendStarts(a, from)
    BY <1>5, SendStartsKeeps
  <1>6. CASE "pay" \in WCalls /\ \E a \in Invoices, to \in WMints \cup {"nobody"} : PayStarts(a, "any", to)
    BY <1>6, PayStartsKeeps
  <1>7. CASE "receive" \in WCalls /\ ReceiveStep
    BY <1>7, ReceiveSwapsKeeps, ReceiveQuotesKeeps, ReceiveMeltsKeeps, ReceiveRedeemsKeeps, ReceiveKeepsKeeps, ReceiveAppendsKeeps
       DEF ReceiveStep
  <1>8. CASE "receive" \in WCalls /\ \E a \in ReceiveAmounts, m \in WMints, into \in IntoMints : ReceiveStarts(a, m, into)
    <2>1. IntoMints \subseteq Seq(WMints)
      BY WalletAssumption
    <2> QED
      BY <1>8, <2>1, ReceiveStartsKeeps
  <1>9. CASE "edit" \in WCalls /\ (EditPublishes \/ \E mints \in SUBSET WMints : EditMints(mints))
    BY <1>9, EditPublishesKeeps, EditMintsKeeps
  <1>10. CASE "zap" \in WCalls /\ (ZapTries \/ \E a \in SendAmounts, m \in WMints : ZapStarts(a, <<m>>))
    BY <1>10, ZapTriesKeeps, ZapStartsKeeps
  <1>11. CASE "close" \in WCalls /\ CloseWallet
    BY <1>11, CloseWalletKeeps
  <1> QED
    BY <1>1, <1>2, <1>3, <1>4, <1>5, <1>6, <1>7, <1>8, <1>9, <1>10, <1>11 DEF WalletNext

LEMMA WalletStutters == ASSUME WalletInv, UNCHANGED wlVars PROVE WalletInv'
  <1>1. WorkInv'
    BY DEF WalletInv, TypesInv, WorkInv, wlVars
  <1>2. RelayInv'
    BY DEF WalletInv, TypesInv, RelayInv, Doomed, TokenEvents, wlVars
  <1>3. \A t \in WCalls : wlWork'[t] = wlWork[t]
    BY DEF wlVars
  <1> QED
    BY <1>1, <1>2, <1>3, LoaderKeeps DEF wlVars

\* The notes of the tokens that the relay has are numbered by their places.
LEMMA FirstNotes ==
    LET notes == {FirstNote(id) : id \in DOMAIN WTokens} IN
    /\ IssuedOk(notes) /\ IdsOf(notes) = DOMAIN WTokens
    /\ \A id \in DOMAIN WTokens : FirstNote(id) \in notes /\ FirstNote(id).n = id
  <1> DEFINE D == DOMAIN WTokens
             notes == {FirstNote(id) : id \in D}
             f == [id \in D |-> FirstNote(id)]
  <1>1. D = 1..Len(WTokens) /\ Len(WTokens) \in Nat
    BY WalletAssumption
  <1>2. \A id : FirstNote(id).n = id
    BY DEF FirstNote
  <1>3. IsFiniteSet(D) /\ Cardinality(D) = Len(WTokens)
    <2> HIDE DEF D
    <2>1. IsFiniteSet(1..Len(WTokens)) /\ Cardinality(1..Len(WTokens)) = IF 1 > Len(WTokens) THEN 0 ELSE Len(WTokens) - 1 + 1
      BY <1>1, FS_Interval
    <2> QED
      BY <1>1, <2>1
  <1>4. f \in Bijection(D, notes)
    <2>1. \A id \in D : f[id] = FirstNote(id)
      OBVIOUS
    <2>2. f \in [D -> notes] /\ \A n \in notes : \E id \in D : f[id] = n
      OBVIOUS
    <2>3. \A a, b \in D : f[a] = f[b] => a = b
      BY <1>2, <2>1
    <2> HIDE DEF f, notes, D
    <2> QED
      BY <2>2, <2>3 DEF Bijection, Injection, Surjection, IsInjective
  <1>5. IsFiniteSet(notes) /\ Cardinality(notes) = Len(WTokens)
    <2> HIDE DEF f, notes, D
    <2> QED
      BY <1>3, <1>4, FS_Bijection DEF ExistsBijection
  <1>6. \A n \in notes : n.n \in D /\ n = FirstNote(n.n)
    BY <1>2
  <1>7. IdsOf(notes) = D
    BY <1>2, <1>6 DEF IdsOf
  <1> HIDE DEF notes
  <1>8. IssuedOk(notes)
    BY <1>1, <1>5, <1>6 DEF IssuedOk
  <1> QED
    BY <1>2, <1>7, <1>8 DEF notes

LEMMA FirstEventsOk ==
    \A e \in FirstEvents : EventOk(e, {FirstNote(id) : id \in DOMAIN WTokens})
  <1> DEFINE notes == {FirstNote(id) : id \in DOMAIN WTokens}
             tok(id) == [kind |-> "token", id |-> id, mint |-> WTokens[id].mint, notes |-> {FirstNote(id)}, deletes |-> WTokens[id].deletes]
  <1>1. IdsOf(notes) = DOMAIN WTokens /\ \A id \in DOMAIN WTokens : FirstNote(id) \in notes /\ FirstNote(id).n = id
    BY FirstNotes
  <1>2. ASSUME NEW id \in DOMAIN WTokens PROVE EventOk(tok(id), notes)
    <2> DEFINE S == [mint : WMints, amount : Nat \ {0}, deletes : SUBSET DOMAIN WTokens]
    <2>0. WTokens \in Seq(S)
      BY WalletAssumption
    <2>1. WTokens[id] \in S
      <3> HIDE DEF S
      <3> QED
        BY <2>0
    <2>2. WTokens[id].mint \in WMints /\ WTokens[id].deletes \subseteq DOMAIN WTokens
      BY <2>1
    <2>3. /\ tok(id).kind = "token" /\ tok(id).mint = WTokens[id].mint /\ tok(id).deletes = WTokens[id].deletes
          /\ tok(id).id = id /\ tok(id).notes = {FirstNote(id)}
      OBVIOUS
    <2> HIDE DEF tok, notes
    <2> QED
      BY <1>1, <2>2, <2>3 DEF EventOk
  <1>3. ASSUME NEW id \in WDeleted PROVE EventOk(Deletion(id), notes)
    <2>1. id \in DOMAIN WTokens
      BY WalletAssumption
    <2> HIDE DEF notes
    <2> QED
      BY <1>1, <2>1 DEF EventOk, Deletion
  <1>4. ASSUME NEW at PROVE EventOk(WalletEvent(at, WVersions[at]), notes)
    BY DEF EventOk, WalletEvent
  <1> HIDE DEF notes
  <1>5. \A e \in FirstEvents : EventOk(e, notes)
    BY <1>2, <1>3, <1>4 DEF FirstEvents
  <1> QED
    BY <1>5 DEF notes

LEMMA FirstTypes == WalletInit => TypesInv
  <1> SUFFICES ASSUME WalletInit PROVE TypesInv
    OBVIOUS
  <1>1. IssuedOk(wlIssued) /\ \A e \in wlRelay : EventOk(e, wlIssued)
    BY FirstNotes, FirstEventsOk DEF WalletInit
  <1>2. /\ wlWork = [t \in Threads |-> wlWork[t]]
        /\ \A t \in Threads : "pc" \in DOMAIN wlWork[t] /\ wlWork[t].pc = "idle"
    BY DEF WalletInit, Idle
  <1>3. WCalls \subseteq Threads /\ {"events", "deletions"} \subseteq Threads
    BY ThreadsDiffer DEF Threads
  <1>4. \A t \in WCalls : WorkOk(wlWork[t], wlIssued)
    BY <1>2, <1>3, PlainIsOk DEF Plain
  <1>5. RelayInv
    BY <1>1, <1>2, <1>3 DEF WalletInit, RelayInv
  <1>6. TokensInv
    BY DEF WalletInit, TokensInv
  <1>7. wlFaults \in Nat
    BY DEF WalletInit
  <1> QED
    BY <1>1, <1>2, <1>4, <1>5, <1>6, <1>7 DEF TypesInv, WorkInv

LEMMA WalletStarts == WalletInit => WalletInv
  <1> SUFFICES ASSUME WalletInit PROVE WalletInv
    OBVIOUS
  <1>1. /\ wlRelay = FirstEvents /\ wlIssued = {FirstNote(id) : id \in DOMAIN WTokens}
        /\ wlSpent = {FirstNote(id) : id \in FirstGone}
        /\ \A id \in DOMAIN WTokens : FirstNote(id).n = id
    BY FirstNotes DEF WalletInit
  <1>2. \A t \in WCalls : wlWork[t].pc = "idle"
    BY ThreadsDiffer DEF WalletInit, Idle
  <1> DEFINE tok(id) == [kind |-> "token", id |-> id, mint |-> WTokens[id].mint, notes |-> {FirstNote(id)}, deletes |-> WTokens[id].deletes]
  <1>3. \A id : /\ tok(id).kind = "token" /\ tok(id).id = id /\ tok(id).notes = {FirstNote(id)}
                /\ tok(id).deletes = WTokens[id].deletes
                /\ Deletion(id).kind = "deletion" /\ Deletion(id).id = id
                /\ \A mints : WalletEvent(id, mints).kind = "wallet"
    BY DEF Deletion, WalletEvent
  <1>4. \A e : e \in wlRelay <=> \/ \E id \in DOMAIN WTokens : e = tok(id)
                                 \/ \E id \in WDeleted : e = Deletion(id)
                                 \/ \E at \in DOMAIN WVersions : e = WalletEvent(at, WVersions[at])
    BY <1>1 DEF FirstEvents
  <1> HIDE DEF tok
  <1>5. \A e \in wlRelay : e.kind = "deletion" => e.id \in WDeleted
    BY <1>3, <1>4
  <1>6. \A e \in wlRelay : e.kind = "token" => \E id \in DOMAIN WTokens : e.deletes = WTokens[id].deletes
    BY <1>3, <1>4
  <1>7. \A id \in Doomed : id \in FirstGone
    BY <1>5, <1>6 DEF FirstGone, Doomed, TokenEvents
  <1>8. DoomedAreSpent(wlIssued, wlSpent, Doomed)
    BY <1>1, <1>7 DEF DoomedAreSpent
  <1>9. ASSUME NEW n \in wlIssued, n \notin wlSpent PROVE n \in KeptNotes
    <2>1. PICK id \in DOMAIN WTokens : n = FirstNote(id)
      BY <1>1
    <2>2. id \notin FirstGone
      BY <1>1, <1>9, <2>1
    <2>3. tok(id) \in wlRelay /\ tok(id).kind = "token" /\ tok(id).id = id /\ n \in tok(id).notes
      BY <1>3, <1>4, <2>1
    <2>4. Deletion(id) \notin wlRelay
      BY <1>3, <1>5, <2>2 DEF FirstGone
    <2>5. tok(id) \in {e \in TokenEvents : Deletion(e.id) \notin wlRelay}
      BY <2>3, <2>4 DEF TokenEvents
    <2> QED
      BY <2>3, <2>5 DEF KeptNotes
  <1>10. \A t \in WCalls : PlacesIn(wlWork[t], Arr, wlSpent, Doomed)
    BY <1>2 DEF PlacesIn, Chosen
  <1>11. LockInv
    BY <1>2 DEF LockInv, Locked, Chosen, Saving
  <1>12. ReservedInv
    <2>1. wlPanic = FALSE /\ wlTokens = <<>> /\ wlBehind = <<>>
      BY DEF WalletInit
    <2>2. DOMAIN Arr = {}
      BY <2>1 DEF Arr, ArrOf
    <2> QED
      BY <1>2, <2>1, <2>2 DEF ReservedInv
  <1>13. MoneyInv
    BY <1>9 DEF MoneyInv
  <1> QED
    BY <1>8, <1>10, <1>11, <1>12, <1>13, FirstTypes DEF WalletInv, SafeInv

(***************************************************************************)
(* While the wallet runs, a token that is reserved and not spent belongs   *)
(* to a payment whose melt is open: whatever way a payment ends, by an     *)
(* error, a refusal, an answer that is lost or change that it cannot use,  *)
(* what it reserved is released (pay.go).  It chooses tokens, reserves     *)
(* them and releases them by their places, with requests to the mint       *)
(* between, while deletions move other tokens there: what it reserved by   *)
(* mistake it releases as well, or moved to a place that is gone, and then *)
(* the index past the end has ended the program, which is the other case   *)
(* of the property.  The assumption is that the application drops no       *)
(* tokens: one that is dropped and comes back with its echo is deleted     *)
(* while it is reserved, and another takes over its place.                 *)
(***************************************************************************)
THEOREM WalletReleasesTokens ==
  ASSUME "drop" \notin WCalls
  PROVE  WalletInit /\ [][WalletNext]_wlVars => []ReservedIsReleased
  <1>1. WalletInit => WalletInv
    BY WalletStarts
  <1>2. WalletInv /\ [WalletNext]_wlVars => WalletInv'
    BY WalletStepKeeps, WalletStutters
  <1>3. WalletInv => ReservedIsReleased
    <2> SUFFICES ASSUME WalletInv, ~wlPanic, NEW i \in DOMAIN wlTokens, wlTokens[i].reserved, ~(wlTokens[i].notes \subseteq wlSpent)
                 PROVE  \E t \in WCalls : wlWork[t].pc = "melt"
      BY DEF ReservedIsReleased, WalletInv, ReservedInv
    <2> DEFINE T == TokensOf(wlIssued)
    <2>1. wlTokens \in Seq(T) /\ wlBehind \in Seq(T)
      BY DEF WalletInv, TypesInv, TokensInv
    <2>2. i \in DOMAIN Arr /\ Arr[i] = wlTokens[i]
      <3> HIDE DEF T
      <3> QED
        BY <2>1, ArrIs DEF Arr
    <2> QED
      BY <2>2 DEF WalletInv, ReservedInv, ReservedBy
  <1> QED
    BY <1>1, <1>2, <1>3, PTL

LEMMA HandsAreNotes ==
    ASSUME WalletInv, NEW t \in WCalls, NEW n \in Held(wlWork[t])
    PROVE  CallRuns(t) /\ n \in NotesIn(wlWork[t])
  <1> DEFINE w == wlWork[t]
  <1>1. WorkOk(w, wlIssued)
    BY CallFacts
  <1>2. w.pc \in HandPcs
    BY NoHands
  <1>3. \/ "principal" \in DOMAIN w /\ n \in w["principal"]
        \/ "change" \in DOMAIN w /\ n \in w["change"]
        \/ "notes" \in DOMAIN w /\ n \in w["notes"]
        \/ "claim" \in DOMAIN w /\ n \in w["claim"]
    <2> HIDE DEF w
    <2>1. n \in Held(w)
      BY DEF w
    <2>2. w.pc \in Saving => {"change", "principal", "claim"} \subseteq DOMAIN w
      BY <1>1 DEF WorkOk, SavingOk
    <2>3. (w.pc = "redeem" => "claim" \in DOMAIN w) /\ (w.pc \in Coming => "notes" \in DOMAIN w)
      BY <1>1 DEF WorkOk
    <2> QED
      BY <2>1, <2>2, <2>3 DEF Held, Saving
  <1>4. n \in NotesIn(w)
    <2> HIDE DEF w
    <2> QED
      BY <1>3 DEF NotesIn
  <1> QED
    BY <1>2, <1>4 DEF HandPcs, CallRuns, Saving, Coming

(***************************************************************************)
(* While no mint and no signer fails, money is lost in one way only: every *)
(* unspent note is in a token event that no deletion names, was given to a *)
(* caller, or is in the hands of a call that runs, whatever the sends,     *)
(* payments, zaps, receipts and echoes of the wallet's own events that     *)
(* interleave; the exception is a swap by lightning that asks the target   *)
(* for more than it quoted.  A call remembers the tokens that it chose by  *)
(* their places, and others are deleted meanwhile, also from under a loop  *)
(* over Tokens: the proof is that a place then leads to the token that was *)
(* chosen, or past the end, or that the mint will refuse the notes.  Two   *)
(* assumptions: what is received at a mint that no target mint takes over  *)
(* is accepted where it is (otherwise receive.go gives it up), and the     *)
(* application drops no tokens (a token that is dropped and comes back     *)
(* with its echo is deleted while a send counts on its place).             *)
(***************************************************************************)
THEOREM WalletKeepsMoney ==
  ASSUME AcceptSource, "drop" \notin WCalls
  PROVE  WalletInit /\ [][WalletNext]_wlVars => []MoneyKept
  <1>1. WalletInit => WalletInv
    BY WalletStarts
  <1>2. WalletInv /\ [WalletNext]_wlVars => WalletInv'
    BY WalletStepKeeps, WalletStutters
  <1>3. WalletInv => MoneyKept
    <2> SUFFICES ASSUME WalletInv, wlFaults = 0, NEW n \in wlIssued, n \notin wlSpent, ~Overasked(n), n \notin wlGiven, n \notin KeptNotes
                 PROVE  \E t \in WCalls : CallRuns(t) /\ n \in NotesIn(wlWork[t])
      BY DEF MoneyKept
    <2>1. PICK t \in WCalls : n \in Held(wlWork[t])
      BY DEF WalletInv, MoneyInv
    <2> QED
      BY <2>1, HandsAreNotes
  <1> QED
    BY <1>1, <1>2, <1>3, PTL
=============================================================================
