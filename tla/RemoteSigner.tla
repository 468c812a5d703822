---------------------------- MODULE RemoteSigner ----------------------------
(***************************************************************************)
(* Remote signing (nip46): BunkerClient, which sends its requests through  *)
(* several relays and hands the answers to the callers, the two signers,   *)
(* DynamicSigner and StaticKeySigner, with their sessions, and the two     *)
(* ways to connect, a bunker address and a nostrconnect:// URL.  A request *)
(* is [id, method, arg]; encryption, signatures and JSON are left out:     *)
(* only the two ends of a conversation can read or write its events.       *)
(***************************************************************************)
EXTENDS Naturals, Sequences, FiniteSets, Functions

NoText == ""

\* The methods of the signers, and "unknown" for all others.
Secretive == {"nip44_encrypt", "nip44_decrypt", "nip04_encrypt", "nip04_decrypt"}
WithoutParams == {"get_public_key", "ping", "switch_relays"}
Methods == {"connect", "sign_event", "unknown"} \cup WithoutParams \cup Secretive

CONSTANTS
    RsClients,      \* clients, each a BunkerClient with its own key
    RsRelays,       \* the relays that clients and signer use
    RsRequests,     \* the calls an application may make: [method, arg]
    SignerKinds,    \* subset of {"dynamic", "static", "external"}
    Ways,           \* how a client is set up: subset of {"plain", "bunker", "nip05", "nostrconnect"}
    RingSize,       \* length of a session's duplicatesBuf (6 in the code)
    HandlerThreads, \* goroutines that call HandleRequest of a StaticKeySigner
    MaxRpcs,        \* bound: RPC calls of a client
    RsMaxFaults     \* bound: relays that fail and contexts that end, in all

ASSUME RemoteSignerBounds ==
    {RingSize, HandlerThreads} \subseteq Nat \ {0} /\ {MaxRpcs, RsMaxFaults} \subseteq Nat
ASSUME RequestsAssumption ==
    \A req \in RsRequests : req.method \in Methods /\ (req.method \in WithoutParams => req.arg = NoText)

VARIABLES
    rsSigner,   \* which signer answers
    rsClient,   \* client -> its BunkerClient and the progress of its set up
    rsCalls,    \* client -> sequence of its RPC calls
    rsAt,       \* copies of requests that a relay will bring to the signer: [c, k, relay]
    rsInbox,    \* client -> responses on their way to it
    rsSession,  \* client -> the signer's Session for it
    rsThread,   \* thread of a StaticKeySigner -> the request in its hands
    rsParsed,   \* history: client -> ids that the signer went on to serve, in order
    rsFaults    \* number of faults so far

rsVars == <<rsSigner, rsClient, rsCalls, rsAt, rsInbox, rsSession, rsThread, rsParsed, rsFaults>>

NoId == <<0, NoText>>
Nothing == [method |-> NoText, arg |-> NoText]
NoThread == [at |-> "idle", c |-> NoText, k |-> 0]
NoLoop == [call |-> 0, resp |-> [id |-> NoId, kind |-> "none", value |-> Nothing]]
Threads46 == 1..HandlerThreads

NewSession == [made |-> FALSE, ring |-> [i \in 0..RingSize - 1 |-> NoId], serial |-> 0]

RemoteSignerInit ==
    /\ rsSigner \in SignerKinds
    /\ rsClient \in [RsClients -> {[way |-> w, at |-> "new", target |-> NoText, serial |-> 0,
            listeners |-> <<>>, loop |-> NoLoop, live |-> FALSE, known |-> FALSE, asked |-> 0] : w \in Ways}]
    /\ rsCalls = [c \in RsClients |-> <<>>]
    /\ rsAt = {}
    /\ rsInbox = [c \in RsClients |-> {}]
    /\ rsSession = [c \in RsClients |-> NewSession]
    /\ rsThread = [t \in Threads46 |-> NoThread]
    /\ rsParsed = [c \in RsClients |-> <<>>]
    /\ rsFaults = 0

Call46(c, k) == rsCalls[c][k]

-----------------------------------------------------------------------------
(* The client: RPC *)

\* Variant: the id of a request leaves its number out.
RequestIdByMethod(serial, method) == <<1, method>>

RequestId(serial, method) == <<serial, method>>

\* listeners.Store
Listen(listeners, id, k) == [i \in DOMAIN listeners \cup {id} |-> IF i = id THEN k ELSE listeners[i]]

\* RPC up to its first select: the listener is stored before any relay has the request.
RpcBegins(c, req, why, client) ==
    LET id == RequestId(client.serial + 1, req.method)
        k  == Len(rsCalls[c]) + 1
    IN  /\ k <= MaxRpcs
        /\ rsClient' = [rsClient EXCEPT ![c] =
               [client EXCEPT !.serial = @ + 1, !.listeners = Listen(@, id, k)]]
        /\ rsCalls' = [rsCalls EXCEPT ![c] = Append(@, [id |-> id, method |-> req.method,
               arg |-> req.arg, why |-> why, at |-> "publish", ended |-> FALSE,
               sent |-> FALSE, pub |-> [r \in RsRelays |-> "begin"], out |-> NoLoop.resp])]

SetCall(c, k, call) == rsCalls' = [rsCalls EXCEPT ![c][k] = call]

\* One of the goroutines of RPC: EnsureRelay and Publish, up to the relay's OK, which may come
\* after the signer has the request, or never.
RpcPublishes(c, k, r) ==
    /\ Call46(c, k).pub[r] = "begin"
    /\ ~Call46(c, k).ended
    /\ SetCall(c, k, [Call46(c, k) EXCEPT !.pub[r] = "taken"])
    /\ rsAt' = rsAt \cup (IF rsClient[c].target = "signer" THEN {[c |-> c, k |-> k, relay |-> r]} ELSE {})
    /\ UNCHANGED <<rsSigner, rsClient, rsInbox, rsSession, rsThread, rsParsed, rsFaults>>

RpcPublishEnds(c, k, r) ==
    /\ \/ /\ Call46(c, k).pub[r] = "taken"
          /\ ~Call46(c, k).ended
          /\ SetCall(c, k, [Call46(c, k) EXCEPT !.pub[r] = "done", !.sent = TRUE])
          /\ UNCHANGED rsFaults
       \/ /\ Call46(c, k).pub[r] \in {"begin", "taken"}
          /\ rsFaults < RsMaxFaults
          /\ rsFaults' = rsFaults + 1
          /\ SetCall(c, k, [Call46(c, k) EXCEPT !.pub[r] = "failed"])
    /\ UNCHANGED <<rsSigner, rsClient, rsAt, rsInbox, rsSession, rsThread, rsParsed>>

\* The selects on relayConnectionWorked and bunkerConnectionWorked, which closes after it.
RpcGoesOn(c, k) ==
    /\ Call46(c, k).at = "publish"
    /\ Call46(c, k).sent
    /\ SetCall(c, k, [Call46(c, k) EXCEPT !.at = "answer"])
    /\ UNCHANGED <<rsSigner, rsClient, rsAt, rsInbox, rsSession, rsThread, rsParsed, rsFaults>>

\* The caller's context ends: its timeout, or the caller cancels it.
RpcContextEnds(c, k) ==
    /\ Call46(c, k).at \in {"publish", "answer"}
    /\ ~Call46(c, k).ended
    /\ rsFaults < RsMaxFaults
    /\ rsFaults' = rsFaults + 1
    /\ SetCall(c, k, [Call46(c, k) EXCEPT !.ended = TRUE])
    /\ UNCHANGED <<rsSigner, rsClient, rsAt, rsInbox, rsSession, rsThread, rsParsed>>

\* What the caller of the RPC does with its end: NewBunker and NewBunkerFromNostrConnect go on
\* whatever switch_relays gave (SwitchRelays never fills in the list it returns, so they never
\* switch), ConnectBunker reports an error, GetPublicKey keeps a key.
AfterSwitch(at) == IF at = "switching" THEN "eose" ELSE "ready"
AfterConnect(resp) == IF resp.kind = "result" THEN "ready" ELSE "failed"

AfterRpc(client, call, resp) ==
    CASE call.why = "switch"  -> [client EXCEPT !.at = AfterSwitch(@)]
      [] call.why = "connect" -> [client EXCEPT !.at = AfterConnect(resp)]
      [] call.why = "app" /\ call.method = "get_public_key" /\ resp.kind = "result" -> [client EXCEPT !.known = TRUE]
      [] OTHER -> client

RpcReturns(c, k, client, resp) ==
    LET call == Call46(c, k)
    IN  /\ SetCall(c, k, [call EXCEPT !.at = "end", !.ended = TRUE, !.out = resp])
        /\ rsClient' = [rsClient EXCEPT ![c] = AfterRpc([client EXCEPT !.listeners =
               Restrict(@, DOMAIN @ \ {call.id})], call, resp)]

\* A select takes ctx.Done().
RpcGivesUp(c, k) ==
    /\ Call46(c, k).at \in {"publish", "answer"}
    /\ Call46(c, k).ended
    /\ RpcReturns(c, k, rsClient[c], [NoLoop.resp EXCEPT !.kind = "error"])
    /\ UNCHANGED <<rsSigner, rsAt, rsInbox, rsSession, rsThread, rsParsed, rsFaults>>

\* The loop's send and the last select meet.
RpcAnswered(c, k) ==
    /\ Call46(c, k).at = "answer"
    /\ rsClient[c].loop.call = k
    /\ RpcReturns(c, k, [rsClient[c] EXCEPT !.loop = NoLoop], rsClient[c].loop.resp)
    /\ UNCHANGED <<rsSigner, rsAt, rsInbox, rsSession, rsThread, rsParsed, rsFaults>>

Heard(client, resp) ==
    IF resp.kind = "auth_url" THEN [client EXCEPT !.asked = @ + 1]
    ELSE IF resp.id \in DOMAIN client.listeners
         THEN [client EXCEPT !.loop = [call |-> client.listeners[resp.id], resp |-> resp],
                             !.listeners = Restrict(@, DOMAIN @ \ {resp.id})]
         ELSE client

\* The goroutine of NewBunker: one event after the other; it stays in its send until an RPC
\* takes the response.
LoopReads(c, resp) ==
    /\ rsClient[c].at \notin {"new", "listening"}
    /\ rsClient[c].loop = NoLoop
    /\ resp \in rsInbox[c]
    /\ rsInbox' = [rsInbox EXCEPT ![c] = @ \ {resp}]
    /\ rsClient' = [rsClient EXCEPT ![c] = Heard(@, resp)]
    /\ UNCHANGED <<rsSigner, rsCalls, rsAt, rsSession, rsThread, rsParsed, rsFaults>>

-----------------------------------------------------------------------------
(* The client: setting up *)

\* queryWellKnownNostrJson returns the zero key whatever the server says.
QueryWellKnown == "zero"
ParseBunkerInput(way) == IF way = "nip05" THEN QueryWellKnown ELSE "signer"

SwitchRelays == [method |-> "switch_relays", arg |-> NoText]

\* NewBunker: the subscription is under way; one time in ten it asks for other relays first.
NewBunkerAt(client, target) ==
    {[client EXCEPT !.at = at, !.target = target, !.live = FALSE] : at \in {"eose", "switching"}}

SetUpBegins(c) ==
    /\ rsClient[c].at = "new"
    /\ \E client \in IF rsClient[c].way = "nostrconnect" THEN {[rsClient[c] EXCEPT !.at = "listening"]}
                     ELSE NewBunkerAt(rsClient[c], ParseBunkerInput(rsClient[c].way)) :
           IF client.at = "switching"
           THEN RpcBegins(c, SwitchRelays, "switch", client)
           ELSE rsClient' = [rsClient EXCEPT ![c] = client] /\ UNCHANGED rsCalls
    /\ UNCHANGED <<rsSigner, rsAt, rsInbox, rsSession, rsThread, rsParsed, rsFaults>>

\* The relays answer the client's subscription: from now on no response is missed.
SubscriptionLives(c) ==
    /\ rsClient[c].at # "new" /\ ~rsClient[c].live
    /\ rsClient' = [rsClient EXCEPT ![c].live = TRUE]
    /\ UNCHANGED <<rsSigner, rsCalls, rsAt, rsInbox, rsSession, rsThread, rsParsed, rsFaults>>

\* NewBunker returns, to the application, or to ConnectBunker, which sends "connect", or to
\* NewBunkerFromNostrConnect, which sends switch_relays.
EoseSeen(c) ==
    /\ rsClient[c].at = "eose" /\ rsClient[c].live
    /\ CASE rsClient[c].way = "plain" ->
                rsClient' = [rsClient EXCEPT ![c].at = "ready"] /\ UNCHANGED rsCalls
         [] rsClient[c].way = "nostrconnect" ->
                RpcBegins(c, SwitchRelays, "switch", [rsClient[c] EXCEPT !.at = "last"])
         [] OTHER -> \E secret \in {"good", "refused"} :
                RpcBegins(c, [method |-> "connect", arg |-> secret], "connect", [rsClient[c] EXCEPT !.at = "connecting"])
    /\ UNCHANGED <<rsSigner, rsAt, rsInbox, rsSession, rsThread, rsParsed, rsFaults>>

\* NewBunkerFromNostrConnect waits for a response with its secret and takes its author as target.
NostrConnectReads(c, resp) ==
    /\ rsClient[c].at = "listening"
    /\ resp \in rsInbox[c]
    /\ rsInbox' = [rsInbox EXCEPT ![c] = @ \ {resp}]
    /\ IF resp.kind = "result" /\ resp.value = [method |-> "imagined-nostrconnect", arg |-> "good"]
       THEN \E client \in NewBunkerAt(rsClient[c], "signer") :
                IF client.at = "switching"
                THEN RpcBegins(c, SwitchRelays, "switch", client)
                ELSE rsClient' = [rsClient EXCEPT ![c] = client] /\ UNCHANGED rsCalls
       ELSE UNCHANGED <<rsClient, rsCalls>>
    /\ UNCHANGED <<rsSigner, rsAt, rsSession, rsThread, rsParsed, rsFaults>>

\* An application calls a method of the client; GetPublicKey answers a second call itself.
AppCalls(c, req) ==
    /\ rsClient[c].at = "ready"
    /\ ~(req.method = "get_public_key" /\ rsClient[c].known)
    /\ RpcBegins(c, req, "app", rsClient[c])
    /\ UNCHANGED <<rsSigner, rsAt, rsInbox, rsSession, rsThread, rsParsed, rsFaults>>

-----------------------------------------------------------------------------
(* The signer *)

\* ParseRequest, without what does not decrypt.
Repeated(session, id) == id \in Range(session.ring)

\* Variant: the index of the buffer is not advanced.
RememberInPlace(session, id) == [session EXCEPT !.ring[session.serial % RingSize] = id]

Remember(session, id) ==
    [session EXCEPT !.ring[session.serial % RingSize] = id, !.serial = @ + 1]

OfUser(req) == [method |-> req.method, arg |-> req.arg]
Refusal == [kind |-> "error", value |-> Nothing]
Success(v) == [kind |-> "result", value |-> v]

\* The switch of DynamicSigner.HandleRequest, whose hooks refuse the argument "refused"; a method
\* it does not know ends it with no response.
DynamicAnswer(req) ==
    CASE req.method \in {"connect", "imagined-nostrconnect"} ->
             IF req.arg = "refused" THEN Refusal ELSE Success(OfUser(req))
      [] req.method \in WithoutParams -> Success(OfUser(req))
      [] req.method = "sign_event" ->
             IF req.arg \in {"malformed", "refused"} THEN Refusal ELSE Success(OfUser(req))
      [] req.method \in Secretive ->
             IF req.arg \in {"malformed", "refused"} THEN Refusal
             ELSE IF req.arg = "empty" THEN Success(Nothing) ELSE Success(OfUser(req))
      [] OTHER -> [kind |-> "silence", value |-> Nothing]

\* StaticKeySigner.HandleRequest: AuthorizeRequest is asked after the work, of every method.
StaticAnswer(req) ==
    LET done == IF req.method \in Secretive \cup {"sign_event"} /\ req.arg = "malformed" THEN Refusal
                ELSE IF req.method \in Secretive /\ req.arg = "empty" THEN Success(Nothing)
                ELSE Success(OfUser(req))
    IN  IF req.method = "unknown" THEN [kind |-> "silence", value |-> Nothing]
        ELSE IF req.arg = "refused" THEN Refusal ELSE done

AnswerOf(req) == IF rsSigner = "static" THEN StaticAnswer(req) ELSE DynamicAnswer(req)

\* An empty result leaves the whole response empty, its id too.
MakeResponse(id, answer) ==
    IF answer.kind = "error" \/ answer.value # Nothing THEN [id |-> id, kind |-> answer.kind, value |-> answer.value]
    ELSE [id |-> NoId, kind |-> "none", value |-> Nothing]

\* The responses to a request, which reach the client unless its subscription is not up yet.
\* An external signer may ask for a visit to a page first (here: when it is to sign "e2").
Responses(req) ==
    LET answer == AnswerOf(req)
    IN  IF answer.kind = "silence" THEN {}
        ELSE {MakeResponse(req.id, answer)}
             \cup (IF rsSigner = "external" /\ req.arg = "e2" THEN {[id |-> req.id, kind |-> "auth_url", value |-> Nothing]} ELSE {})

Responds(c, req) ==
    \/ rsInbox' = [rsInbox EXCEPT ![c] = @ \cup Responses(req)]
    \/ ~rsClient[c].live /\ UNCHANGED rsInbox

\* DynamicSigner.HandleRequest, under the signer's lock.
DynamicHandles(copy) ==
    LET req  == Call46(copy.c, copy.k)
        sess == [rsSession[copy.c] EXCEPT !.made = TRUE]
    IN  /\ rsSigner # "static"
        /\ copy \in rsAt
        /\ rsAt' = rsAt \ {copy}
        /\ IF Repeated(sess, req.id)
           THEN rsSession' = [rsSession EXCEPT ![copy.c] = sess] /\ UNCHANGED <<rsInbox, rsParsed>>
           ELSE /\ rsSession' = [rsSession EXCEPT ![copy.c] = Remember(sess, req.id)]
                /\ rsParsed' = [rsParsed EXCEPT ![copy.c] = Append(@, req.id)]
                /\ Responds(copy.c, req)
        /\ UNCHANGED <<rsSigner, rsClient, rsCalls, rsThread, rsFaults>>

\* StaticKeySigner: the session is found under the lock, the rest runs without it.
GetOrCreateSession(t, copy) ==
    /\ rsSigner = "static"
    /\ rsThread[t].at = "idle"
    /\ copy \in rsAt
    /\ rsAt' = rsAt \ {copy}
    /\ rsSession' = [rsSession EXCEPT ![copy.c].made = TRUE]
    /\ rsThread' = [rsThread EXCEPT ![t] = [at |-> "parse", c |-> copy.c, k |-> copy.k]]
    /\ UNCHANGED <<rsSigner, rsClient, rsCalls, rsInbox, rsParsed, rsFaults>>

StaticParses(t) ==
    LET th == rsThread[t]
        id == Call46(th.c, th.k).id
    IN  /\ th.at = "parse"
        /\ rsThread' = [rsThread EXCEPT ![t] =
               IF Repeated(rsSession[th.c], id) THEN NoThread ELSE [th EXCEPT !.at = "remember"]]
        /\ UNCHANGED <<rsSigner, rsClient, rsCalls, rsAt, rsInbox, rsSession, rsParsed, rsFaults>>

StaticHandles(t) ==
    LET th == rsThread[t]
        id == Call46(th.c, th.k).id
    IN  /\ th.at = "remember"
        /\ rsThread' = [rsThread EXCEPT ![t] = NoThread]
        /\ rsSession' = [rsSession EXCEPT ![th.c] = Remember(@, id)]
        /\ rsParsed' = [rsParsed EXCEPT ![th.c] = Append(@, id)]
        /\ Responds(th.c, Call46(th.c, th.k))
        /\ UNCHANGED <<rsSigner, rsClient, rsCalls, rsAt, rsFaults>>

\* HandleNostrConnectURI: the signer imagines a request and answers it; the user may give the
\* signer a URL with another secret, and may be refused.
HandlesNostrConnectURI(c) ==
    LET id == <<MaxRpcs + 1, "imagined-nostrconnect">>
    IN  /\ rsClient[c].at = "listening"
        /\ ~Repeated(rsSession[c], id)
        /\ rsSession' = [rsSession EXCEPT ![c] = Remember([@ EXCEPT !.made = TRUE], id)]
        /\ rsParsed' = [rsParsed EXCEPT ![c] = Append(@, id)]
        /\ \E secret \in {"good", "other", "refused"} :
               Responds(c, [id |-> id, method |-> "imagined-nostrconnect", arg |-> secret])
        /\ UNCHANGED <<rsSigner, rsClient, rsCalls, rsAt, rsThread, rsFaults>>

RpcStep(c, k) ==
    \/ \E r \in RsRelays : RpcPublishes(c, k, r) \/ RpcPublishEnds(c, k, r)
    \/ RpcGoesOn(c, k) \/ RpcContextEnds(c, k) \/ RpcGivesUp(c, k) \/ RpcAnswered(c, k)

RemoteSignerNext ==
    \/ \E c \in RsClients :
        \/ SetUpBegins(c) \/ SubscriptionLives(c) \/ EoseSeen(c) \/ HandlesNostrConnectURI(c)
        \/ \E req \in RsRequests : AppCalls(c, req)
        \/ \E resp \in rsInbox[c] : LoopReads(c, resp) \/ NostrConnectReads(c, resp)
        \/ \E k \in 1..Len(rsCalls[c]) : RpcStep(c, k)
    \/ \E copy \in rsAt : DynamicHandles(copy) \/ \E t \in Threads46 : GetOrCreateSession(t, copy)
    \/ \E t \in Threads46 : StaticParses(t) \/ StaticHandles(t)

-----------------------------------------------------------------------------
(* Properties *)

\* An RPC that ends with a result has the result of its own request, whatever other requests of
\* the same client are under way, repeated by the relays or given up; and no result comes of a
\* request that the signer's hooks refuse (BunkerClient.RPC, the loop of NewBunker, HandleRequest).
OwnAnswer ==
    \A c \in RsClients : \A k \in 1..Len(rsCalls[c]) :
        LET call == Call46(c, k)
        IN  call.at = "end" /\ call.out.kind = "result" =>
                /\ call.out.value = [method |-> call.method, arg |-> call.arg]
                /\ call.arg # "refused"

\* However many relays bring a request to the signer, and in whatever order, it is served once as
\* long as fewer than RingSize other requests of that client come in between (Session.ParseRequest,
\* one goroutine at a time).
ServedOnce ==
    \A c \in RsClients : \A i, j \in 1..Len(rsParsed[c]) :
        i < j /\ rsParsed[c][i] = rsParsed[c][j] => j - i > RingSize

\* When nothing is on its way any more, every RPC that reached the signer has returned, or asked
\* for what the signer answers with silence: a method it does not know, or an empty plaintext.
SilentlyDropped(req) ==
    req.method = "unknown" \/ (req.method \in Secretive /\ req.arg = "empty")

AtRest(c) ==
    /\ rsClient[c].live /\ rsClient[c].loop = NoLoop /\ rsInbox[c] = {}
    /\ \A copy \in rsAt : copy.c # c
    /\ \A t \in Threads46 : rsThread[t].c # c
    /\ \A k \in 1..Len(rsCalls[c]) : \A r \in RsRelays : Call46(c, k).pub[r] \notin {"begin", "taken"}

AnsweredAtRest ==
    \A c \in RsClients : AtRest(c) /\ rsClient[c].target = "signer" =>
        \A k \in 1..Len(rsCalls[c]) :
            Call46(c, k).at = "answer" /\ Call46(c, k).why # "switch" => SilentlyDropped(Call46(c, k))

\* BunkerClient.RPC against the signers: a request that several relays bring is served once, an
\* answer is to the request it names, and it comes.
RpcsAreAnswered == ServedOnce /\ OwnAnswer /\ AnsweredAtRest
=============================================================================
