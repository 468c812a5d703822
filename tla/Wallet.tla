------------------------------- MODULE Wallet -------------------------------
(***************************************************************************)
(* The Cashu wallet (nip60) and nutzaps (nip61): the goroutines that load  *)
(* it from relays and keep it up to date, and the calls that send, pay,    *)
(* receive, drop and edit, over its two mutexes.  The proofs that one      *)
(* request makes are one note, with the number of proofs of its amount;    *)
(* blinding, signatures and encryption are left out, except that a signer  *)
(* may fail.  Mints and relays are external: a mint refuses spent notes    *)
(* and outputs that do not add up, and its answer may be lost; the relay   *)
(* gives every event of the wallet back, in any order.                     *)
(***************************************************************************)
EXTENDS Integers, Sequences, FiniteSets, SequencesExt, FiniteSetsExt

CONSTANTS
    WMints,          \* mints
    WTokens,         \* token events at the relay when the wallet is loaded, by id: [mint, amount, deletes]
    WDeleted,        \* ids of them that a deletion at the relay names
    WVersions,       \* wallet events at the relays: created_at -> set of mints
    FeePpk,          \* mint -> fee per proof, in thousandths
    WCalls,          \* what the application may call: send, pay, external, receive, drop, edit, zap, close
    SendAmounts, Invoices, ReceiveAmounts,  \* amounts of the calls
    IntoMints,       \* what ReceiveOptions.IntoMint may be: sequences of mints
    AcceptSource,    \* AcceptTokensInSourceMintInTheWorseCase
    MaxReserve,      \* bound: fee reserve that a mint quotes
    MaxCalls,        \* bound: calls of the application
    WMaxFaults       \* bound: failures of mints and of the signer

ASSUME WalletBounds == /\ {MaxReserve, MaxCalls, WMaxFaults} \subseteq Nat /\ AcceptSource \in BOOLEAN
                       /\ SendAmounts \cup Invoices \cup ReceiveAmounts \subseteq Nat \ {0}
ASSUME WalletAssumption == /\ WCalls \subseteq {"send", "pay", "receive", "drop", "edit", "zap", "close"}
                           /\ WTokens \in Seq([mint : WMints, amount : Nat \ {0}, deletes : SUBSET DOMAIN WTokens])
                           /\ WDeleted \subseteq DOMAIN WTokens /\ IntoMints \subseteq Seq(WMints)

VARIABLES
    wlTokens,     \* Tokens: a sequence of [id, mint, notes, reserved]
    wlBehind,     \* tokens cut off its end, which a loop over Tokens still finds in the array
    wlMutex, wlTokensMu,  \* who holds them, or "free"
    wlWork,       \* thread -> what it is doing
    wlEosed, wlPending, wlStable,   \* eosed, pendingDeletions, Stable is closed
    wlMints, wlVersion,  \* Mints, and the created_at of w.event
    wlRelay,      \* token events, deletions and wallet events published so far
    wlEcho,       \* those of them that the wallet has not got yet
    wlIssued, wlSpent,   \* notes the mints have signed or were paid for, and the spent ones
    wlGiven,      \* notes that callers were given
    wlHistory,    \* balance of the history entries: what came in, minus what went out
    wlFaults, wlPanic

wlVars == <<wlTokens, wlBehind, wlMutex, wlTokensMu, wlWork, wlEosed, wlPending, wlStable, wlMints, wlVersion, wlRelay,
            wlEcho, wlIssued, wlSpent, wlGiven, wlHistory, wlFaults, wlPanic>>
wlLoad == <<wlEosed, wlPending, wlStable, wlMints, wlVersion>>
wlMoney == <<wlIssued, wlSpent, wlGiven, wlHistory, wlFaults>>

Threads == {"events", "deletions", "eose"} \cup WCalls
Idle == [pc |-> "idle"]
Become(t, w) == wlWork' = [wlWork EXCEPT ![t] = w]
At(t, pc) == ~wlPanic /\ wlWork[t].pc = pc
CallRuns(t) == wlWork[t].pc \notin {"idle", "ended"}
\* The application drops tokens, which takes no lock, only while no other call runs.
CallStarts(t) ==
    /\ At(t, "idle") /\ wlStable /\ Cardinality({c \in WCalls : wlWork[c] # Idle}) < MaxCalls
    /\ \A c \in WCalls : CallRuns(c) => "drop" \notin {c, t}
Goto2(t, pc) == Become(t, [wlWork[t] EXCEPT !.pc = pc])
Fails(n) == wlFaults + n <= WMaxFaults /\ wlFaults' = wlFaults + n

-----------------------------------------------------------------------------
(* Notes *)

\* cashu.AmountSplit: one proof for each bit of the amount.
Bits[n \in Nat] == IF n = 0 THEN 0 ELSE (n % 2) + Bits[n \div 2]
AmountOf(notes) == MapThenSumSet(LAMBDA n : n.amount, notes)
Proofs(notes) == MapThenSumSet(LAMBDA n : Bits[n.amount], notes)
FeeOf(mint, proofs) == (proofs * FeePpk[mint] + 999) \div 1000
CalculateFee(mint, notes) == FeeOf(mint, Proofs(notes))
Note(mint, amount, k) == [n |-> Cardinality(wlIssued) + k, mint |-> mint, amount |-> amount]
Made(mint, amount, k) == IF amount > 0 THEN {Note(mint, amount, k)} ELSE {}

\* splitIntoPrincipalAndChange; a change below zero wraps around.
SplitChange(total, fee, target) == IF target < total THEN total - target - fee ELSE 0
SplitPrincipal(total, fee, target) == IF target < total THEN target ELSE target - fee

\* What a mint signs: outputs, at least one, that add up, for notes that are
\* not spent and are there once.
MintAccepts(w, target) ==
    /\ w.notes \cap wlSpent = {} /\ ~w.repeats /\ target <= w.total
    /\ SplitPrincipal(w.total, w.fee, target) > 0 /\ SplitChange(w.total, w.fee, target) >= 0

\* NUT-08: of the overpaid amount, as many powers of two as there are outputs.
TopBits[n \in Nat, outputs \in Nat] ==
    IF n = 0 \/ outputs = 0 THEN 0
    ELSE LET top == CHOOSE p \in {2^i : i \in 0..10} : p <= n /\ 2 * p > n IN top + TopBits[n - top, outputs - 1]
\* Outputs of a change that wrapped around below zero: more than enough.
Outputs(change) == IF change >= 0 THEN Bits[change] ELSE 64

-----------------------------------------------------------------------------
(* Loading, and events from relays *)

Deletion(id) == [kind |-> "deletion", id |-> id]
TokenEvent(t) == [kind |-> "token", id |-> t.id, mint |-> t.mint, notes |-> t.notes, deletes |-> {}]
WalletEvent(at, mints) == [kind |-> "wallet", id |-> at, mints |-> mints]
Publish(events) == wlRelay' = wlRelay \cup events /\ wlEcho' = wlEcho \cup (events \ wlRelay)

Gone(evt) == CASE evt.kind = "deletion" -> {evt.id} [] evt.kind = "token" -> evt.deletes [] OTHER -> {}

\* removeDeletedToken, of the token at one place: the last one takes the place.
\* There is no lock between this and a loop over Tokens, which goes on in the
\* array as it was, to its old end.
SwapDelete(tokens, t) == [i \in 1..(Len(tokens) - 1) |-> tokens[IF i = t THEN Len(tokens) ELSE i]]
Ranging == \E t \in WCalls : wlWork[t].pc \in {"choose", "save"}
Remains(ids) == \E i \in DOMAIN wlTokens : wlTokens[i].id \in ids
RemoveDeletedToken(ids) ==
    \E i \in DOMAIN wlTokens :
        /\ wlTokens[i].id \in ids /\ \A j \in DOMAIN wlTokens : j > i => wlTokens[j].id # wlTokens[i].id
        /\ wlTokens' = SwapDelete(wlTokens, i)
        /\ wlBehind' = IF Ranging THEN <<wlTokens[Len(wlTokens)]>> \o wlBehind ELSE <<>>

\* The tokens at other places, in their order.
WithoutPlaces(tokens, places) ==
    LET rest == DOMAIN tokens \ places
        nth(j) == CHOOSE i \in rest : Cardinality({k \in rest : k < i}) = j - 1 IN
    [j \in 1..Cardinality(rest) |-> tokens[nth(j)]]

\* A subscription hands an event over.
Arrives(thread, evt) ==
    /\ At(thread, "idle") /\ evt \in wlEcho
    /\ (evt.kind = "deletion") = (thread = "deletions")
    /\ wlEcho' = wlEcho \ {evt} /\ Become(thread, [pc |-> "lock", evt |-> evt])
    /\ UNCHANGED <<wlTokens, wlBehind, wlMutex, wlTokensMu, wlLoad, wlRelay, wlMoney, wlPanic>>

\* w.Lock, and the look at eosed (which is not under a lock).
EventLocks(thread) ==
    /\ thread \in {"events", "deletions"} /\ At(thread, "lock") /\ wlMutex = "free"
    /\ wlMutex' = thread
    /\ Become(thread, [pc |-> IF wlWork[thread].evt.kind = "token" THEN "append" ELSE "apply",
                       evt |-> wlWork[thread].evt, eosed |-> wlEosed])
    /\ UNCHANGED <<wlTokens, wlBehind, wlTokensMu, wlLoad, wlRelay, wlEcho, wlMoney, wlPanic>>

\* A token is appended, under the second mutex, unless it is there.
EventAppends ==
    /\ At("events", "append") /\ wlTokensMu = "free"
    /\ LET e == wlWork["events"].evt IN
       wlTokens' = IF \E i \in DOMAIN wlTokens : wlTokens[i].id = e.id THEN wlTokens
                   ELSE Append(wlTokens, [id |-> e.id, mint |-> e.mint, notes |-> e.notes, reserved |-> FALSE])
    /\ Become("events", [wlWork["events"] EXCEPT !.pc = "apply", !.eosed = wlEosed])
    /\ UNCHANGED <<wlBehind, wlMutex, wlTokensMu, wlLoad, wlRelay, wlEcho, wlMoney, wlPanic>>

\* What the event deletes goes now, one token after the other...
EventRemoves(thread) ==
    /\ thread \in {"events", "deletions"} /\ At(thread, "apply") /\ wlWork[thread].eosed
    /\ RemoveDeletedToken(Gone(wlWork[thread].evt))
    /\ UNCHANGED <<wlMutex, wlTokensMu, wlWork, wlLoad, wlRelay, wlEcho, wlMoney, wlPanic>>

\* ...or after EOSE; a wallet event is parsed (twice, if it is newer), and w.Unlock.
EventApplies(thread) ==
    /\ thread \in {"events", "deletions"} /\ At(thread, "apply")
    /\ LET w == wlWork[thread] IN
       /\ w.eosed => ~Remains(Gone(w.evt))
       /\ wlPending' = IF w.eosed THEN wlPending ELSE wlPending \cup Gone(w.evt)
       /\ IF w.evt.kind = "wallet" THEN wlMints' = w.evt.mints /\ wlVersion' = w.evt.id
          ELSE UNCHANGED <<wlMints, wlVersion>>
    /\ wlMutex' = "free" /\ Become(thread, Idle)
    /\ UNCHANGED <<wlTokens, wlBehind, wlTokensMu, wlEosed, wlStable, wlRelay, wlEcho, wlMoney, wlPanic>>

\* EOSE of both subscriptions: whatever was stored has been handed over.
EoseComes ==
    /\ At("eose", "idle") /\ ~wlEosed /\ wlEcho = {}
    /\ wlEosed' = TRUE /\ Goto2("eose", "apply")
    /\ UNCHANGED <<wlTokens, wlBehind, wlMutex, wlTokensMu, wlPending, wlStable, wlMints, wlVersion, wlRelay, wlEcho, wlMoney, wlPanic>>

\* The pending deletions, under no lock; 100 ms later, time enough for what is
\* in hand, the wallet is stable.
EoseRemoves ==
    /\ At("eose", "apply") /\ RemoveDeletedToken(wlPending)
    /\ UNCHANGED <<wlMutex, wlTokensMu, wlWork, wlLoad, wlRelay, wlEcho, wlMoney, wlPanic>>
EoseApplies ==
    /\ At("eose", "apply") /\ ~Remains(wlPending)
    /\ wlPending' = {} /\ Goto2("eose", "sleep")
    /\ UNCHANGED <<wlTokens, wlBehind, wlMutex, wlTokensMu, wlEosed, wlStable, wlMints, wlVersion, wlRelay, wlEcho, wlMoney, wlPanic>>
WalletStable ==
    /\ At("eose", "sleep") /\ wlWork["events"] = Idle /\ wlWork["deletions"] = Idle
    /\ wlStable' = TRUE /\ Goto2("eose", "ended")
    /\ UNCHANGED <<wlTokens, wlBehind, wlMutex, wlTokensMu, wlEosed, wlPending, wlMints, wlVersion, wlRelay, wlEcho, wlMoney, wlPanic>>

-----------------------------------------------------------------------------
(* Choosing tokens *)

\* The array that a loop over Tokens goes through.
Places == 1..(Len(wlTokens) + Len(wlBehind))
Slot(i) == IF i \in DOMAIN wlTokens THEN wlTokens[i] ELSE wlBehind[i - Len(wlTokens)]

\* chosenTokens: places and the tokens seen there. A token that is in Tokens
\* twice gives its proofs twice.
NotesOf(part) == UNION {p.token.notes : p \in part}
TotalOf(part) == MapThenSumSet(LAMBDA p : AmountOf(p.token.notes), part)
ProofsOf(part) == MapThenSumSet(LAMBDA p : Proofs(p.token.notes), part)
Repeats(part) == \E p, q \in part : p # q /\ p.token.notes \cap q.token.notes # {}
Chose(w, mint, part) ==
    [pc |-> IF w.pays THEN "quote" ELSE "swap", pays |-> w.pays, amount |-> w.amount, from |-> w.from, to |-> w.to,
     next |-> w.next, abs |-> w.abs, excluded |-> w.excluded, tries |-> w.tries, reserve |-> 0,
     mint |-> mint, idx |-> {p.place : p \in part}, notes |-> NotesOf(part), repeats |-> Repeats(part),
     total |-> TotalOf(part), fee |-> FeeOf(mint, ProofsOf(part))]

\* w.Tokens[i].reserved for places that are in Tokens.
Reserve(idx, yes) == wlTokens' = [i \in DOMAIN wlTokens |->
                                    [wlTokens[i] EXCEPT !.reserved = IF i \in idx THEN yes ELSE @]]

\* A call that holds tokensMu returns. A nutzap goes on after a SendInternal
\* that failed, and after an error that it knows to be harmless.
Ended(t, retry) ==
    Become(t, IF t = "zap" /\ retry THEN [pc |-> "zap", amount |-> wlWork[t].amount, next |-> wlWork[t].next] ELSE [pc |-> "ended"])
Unlock2 == wlTokensMu' = "free"

-----------------------------------------------------------------------------
(* getProofsForSending *)

\* What is asked for; a payment wants 1% and a little more.
Asks(w) == IF w.pays THEN (w.amount * 101) \div 100 + w.abs ELSE w.amount
ChooseWork(w) ==
    [pc |-> "choose", pays |-> w.pays, amount |-> w.amount, from |-> w.from, to |-> w.to, next |-> w.next,
     abs |-> w.abs, excluded |-> w.excluded, tries |-> w.tries, at |-> 1, picked |-> {}]

\* The next token: it is not for us, or it is added to those of its mint, after
\* a request for the mint's keysets if it is the first, until the amount and
\* the fee of the proofs are covered.
ChooseNext(t) ==
    /\ At(t, "choose")
    /\ LET w == wlWork[t]
           token == Slot(w.at)
           here == [place |-> w.at, token |-> token]
           mine == {p \in w.picked : p.token.mint = token.mint}
           part == mine \cup {here}
           skip == token.reserved \/ token.mint \in w.excluded \/ w.from \notin {"any", token.mint}
           enough == TotalOf(part) >= Asks(w) + FeeOf(token.mint, ProofsOf(part))
           error == Ended(t, ~w.pays) /\ Unlock2 /\ wlBehind' = <<>> IN
       \/ w.at \notin Places /\ error /\ UNCHANGED wlFaults
       \/ w.at \in Places /\ ~skip /\ mine = {} /\ Fails(1) /\ error
       \/ /\ w.at \in Places /\ UNCHANGED <<wlFaults, wlTokensMu>>
          /\ \/ skip /\ Become(t, [w EXCEPT !.at = @ + 1]) /\ UNCHANGED wlBehind
             \/ ~skip /\ ~enough /\ Become(t, [w EXCEPT !.at = @ + 1, !.picked = @ \cup {here}]) /\ UNCHANGED wlBehind
             \/ ~skip /\ enough /\ Become(t, Chose(w, token.mint, part)) /\ wlBehind' = <<>>
    /\ UNCHANGED <<wlTokens, wlMutex, wlLoad, wlRelay, wlEcho, wlIssued, wlSpent, wlGiven, wlHistory, wlPanic>>

-----------------------------------------------------------------------------
(* SendInternal *)

SendWork(amount, from, next) ==
    [pc |-> "lock", pays |-> FALSE, amount |-> amount, from |-> from, to |-> "nobody", next |-> next, abs |-> 0,
     excluded |-> {}, tries |-> 1]

SendStarts(amount, from) ==
    /\ CallStarts("send")
    /\ Become("send", SendWork(amount, from, <<>>))
    /\ UNCHANGED <<wlTokens, wlBehind, wlMutex, wlTokensMu, wlLoad, wlRelay, wlEcho, wlMoney, wlPanic>>

SendLocks(t) ==
    /\ At(t, "lock") /\ wlTokensMu = "free"
    /\ wlTokensMu' = t /\ Become(t, ChooseWork(wlWork[t]))
    /\ UNCHANGED <<wlTokens, wlBehind, wlMutex, wlLoad, wlRelay, wlEcho, wlMoney, wlPanic>>

SaveWork(w, principal, change, claim) ==
    [pc |-> "save", amount |-> w.amount, to |-> w.to, next |-> w.next, mint |-> w.mint, idx |-> w.idx, notes |-> w.notes,
     total |-> w.total, principal |-> principal, change |-> change, claim |-> claim, at |-> 1, updated |-> <<>>]

\* The mint's info, if there is a spending condition, and swapProofs: done,
\* refused, or done with the answer lost.
SendSwaps(t) ==
    /\ At(t, "swap")
    /\ LET w == wlWork[t]
           accepted == MintAccepts(w, w.amount)
           principal == Made(w.mint, SplitPrincipal(w.total, w.fee, w.amount), 1)
           change == Made(w.mint, SplitChange(w.total, w.fee, w.amount), 2)
           done == accepted /\ wlSpent' = wlSpent \cup w.notes /\ wlIssued' = wlIssued \cup principal \cup change IN
       \/ done /\ UNCHANGED <<wlFaults, wlTokensMu>> /\ Become(t, SaveWork(w, principal, change, {}))
       \/ done /\ Fails(1) /\ Ended(t, TRUE) /\ Unlock2
       \/ /\ IF accepted THEN Fails(1) ELSE UNCHANGED wlFaults
          /\ Ended(t, TRUE) /\ Unlock2 /\ UNCHANGED <<wlSpent, wlIssued>>
    /\ UNCHANGED <<wlTokens, wlBehind, wlMutex, wlLoad, wlRelay, wlEcho, wlGiven, wlHistory, wlPanic>>

-----------------------------------------------------------------------------
(* saveChangeAndDeleteUsedTokens, and the history entry *)

\* The next place of Tokens: a used one is deleted, under the lock for each, and
\* the others are kept; then comes the change.
SaveDeletes(t) ==
    /\ At(t, "save")
    /\ LET w == wlWork[t] IN
       \/ /\ w.at \notin Places /\ Goto2(t, "change") /\ wlBehind' = <<>> /\ UNCHANGED <<wlRelay, wlEcho>>
       \/ /\ w.at \in Places /\ w.at \in w.idx /\ wlMutex = "free"
          /\ Publish({Deletion(Slot(w.at).id)}) /\ Become(t, [w EXCEPT !.at = @ + 1]) /\ UNCHANGED wlBehind
       \/ /\ w.at \in Places /\ w.at \notin w.idx
          /\ Become(t, [w EXCEPT !.at = @ + 1, !.updated = Append(@, Slot(w.at))]) /\ UNCHANGED <<wlBehind, wlRelay, wlEcho>>
    /\ UNCHANGED <<wlTokens, wlMutex, wlTokensMu, wlLoad, wlMoney, wlPanic>>

NewToken(mint, notes) == [id |-> (CHOOSE n \in notes : TRUE).n, mint |-> mint, notes |-> notes, reserved |-> FALSE]

\* Mutant: the used tokens go, and the change is not kept.
SaveChangeUnsaved(t) ==
    /\ At(t, "change") /\ wlMutex = "free"
    /\ wlTokens' = wlWork[t].updated
    /\ Goto2(t, "history")
    /\ UNCHANGED <<wlBehind, wlMutex, wlTokensMu, wlLoad, wlRelay, wlEcho, wlMoney, wlPanic>>

\* A change token is signed, published and kept. With no change Tokens is left
\* as it was, the used tokens included.
SaveChange(t) ==
    LET w == wlWork[t] IN
    /\ At(t, "change")
    /\ \/ /\ w.change = {} /\ Goto2(t, "history")
          /\ UNCHANGED <<wlTokens, wlTokensMu, wlRelay, wlEcho, wlFaults>>
       \/ /\ w.change # {} /\ Fails(1) /\ Ended(t, TRUE) /\ Unlock2
          /\ UNCHANGED <<wlTokens, wlRelay, wlEcho>>
       \/ /\ w.change # {} /\ wlMutex = "free"
          /\ Publish({TokenEvent(NewToken(w.mint, w.change))})
          /\ wlTokens' = Append(w.updated, NewToken(w.mint, w.change))
          /\ Goto2(t, "history") /\ UNCHANGED <<wlTokensMu, wlFaults>>
    /\ UNCHANGED <<wlBehind, wlMutex, wlLoad, wlIssued, wlSpent, wlGiven, wlHistory, wlPanic>>

\* Mutant: the entry has what the recipient got.
HistoryOfPrincipal(w) == AmountOf(w.principal)

\* HistoryEntry.Amount of something sent or paid.
HistoryAmount(w) == w.total - AmountOf(w.change)

\* The history entry, and the call returns; a payment to another mint is redeemed.
SaveHistory(t) ==
    LET w == wlWork[t] IN
    /\ At(t, "history") /\ wlMutex = "free"
    /\ \/ wlHistory' = wlHistory - HistoryAmount(w) /\ UNCHANGED wlFaults
       \/ Fails(1) /\ UNCHANGED wlHistory
    /\ wlGiven' = wlGiven \cup w.principal
    /\ Unlock2
    /\ Become(t, IF w.to = "nobody" THEN [pc |-> "ended"] ELSE [pc |-> "redeem", claim |-> w.claim, amount |-> w.amount, next |-> w.next])
    /\ UNCHANGED <<wlTokens, wlBehind, wlMutex, wlLoad, wlRelay, wlEcho, wlIssued, wlSpent, wlPanic>>

-----------------------------------------------------------------------------
(* PayBolt11, and SendExternal *)

\* The invoice of another mint, if it is SendExternal, and the lock.
PayWork(invoice, from, to, next) ==
    ChooseWork([pays |-> TRUE, amount |-> invoice, from |-> from, to |-> to, next |-> next, abs |-> 1, excluded |-> {}, tries |-> 5])

PayStarts(invoice, from, to) ==
    /\ CallStarts("pay") /\ wlTokensMu = "free"
    /\ \/ wlTokensMu' = "pay" /\ Become("pay", PayWork(invoice, from, to, <<>>)) /\ UNCHANGED wlFaults
       \/ to # "nobody" /\ Fails(1) /\ Goto2("pay", "ended") /\ UNCHANGED wlTokensMu
    /\ UNCHANGED <<wlTokens, wlBehind, wlMutex, wlLoad, wlRelay, wlEcho, wlIssued, wlSpent, wlGiven, wlHistory, wlPanic>>

\* One of five tries, once tokens are chosen: a mint that can give change, and
\* its quote. If the quote is too high, one more is asked for.
PayQuotes(t) ==
    /\ At(t, "quote")
    /\ LET w == wlWork[t]
           error == Ended(t, FALSE) /\ Unlock2
           again(x) == IF w.tries = 1 THEN error ELSE Become(t, ChooseWork(x)) /\ UNCHANGED wlTokensMu IN
       \/ Fails(1) /\ again([w EXCEPT !.excluded = @ \cup {w.mint}, !.tries = @ - 1])
       \/ Fails(1) /\ error
       \/ /\ UNCHANGED wlFaults
          /\ \E reserve \in 0..MaxReserve :
                IF w.amount + reserve + w.fee > w.total
                THEN again([w EXCEPT !.abs = @ + 1, !.tries = @ - 1])
                ELSE Become(t, [w EXCEPT !.pc = "reserve", !.reserve = reserve]) /\ UNCHANGED wlTokensMu
    /\ UNCHANGED <<wlTokens, wlBehind, wlMutex, wlLoad, wlRelay, wlEcho, wlIssued, wlSpent, wlGiven, wlHistory, wlPanic>>

\* An index behind the end ends the program.
Panics(t) == wlPanic' = TRUE /\ Become(t, [pc |-> "panicked"]) /\ UNCHANGED wlTokensMu

\* The mint's keys, and then the chosen places are reserved, whatever tokens
\* are there by now.
PayReserves(t) ==
    /\ At(t, "reserve")
    /\ LET w == wlWork[t] IN
       \/ Fails(1) /\ Ended(t, FALSE) /\ Unlock2 /\ UNCHANGED <<wlTokens, wlPanic>>
       \/ /\ UNCHANGED wlFaults /\ Reserve(w.idx, TRUE)
          /\ IF w.idx \subseteq DOMAIN wlTokens
             THEN Become(t, [w EXCEPT !.pc = "melt"]) /\ UNCHANGED <<wlTokensMu, wlPanic>>
             ELSE Panics(t)
    /\ UNCHANGED <<wlBehind, wlMutex, wlLoad, wlRelay, wlEcho, wlIssued, wlSpent, wlGiven, wlHistory>>

\* Mutant: the tokens of a failed payment stay reserved.
UnreserveNot(t) == Ended(t, FALSE) /\ Unlock2 /\ UNCHANGED <<wlTokens, wlPanic>>

\* A payment that failed takes its reservations back, by their places, and returns.
Unreserve(t) ==
    /\ Reserve(wlWork[t].idx, FALSE)
    /\ IF wlWork[t].idx \subseteq DOMAIN wlTokens THEN Ended(t, FALSE) /\ Unlock2 /\ UNCHANGED wlPanic ELSE Panics(t)

\* The melt: paid, at a cost within the reserve and with change; paid, but we
\* do not hear of it or cannot use the change; or not paid. What SendExternal
\* paid is what the other mint owes.
PayMelts(t) ==
    /\ At(t, "melt")
    /\ LET w == wlWork[t]
           claim == IF w.to = "nobody" THEN {} ELSE {Note(w.to, w.amount, 1)}
           outputs == Outputs(SplitChange(w.total, w.fee, w.amount + w.fee))
           change(cost) == Made(w.mint, TopBits[w.total - w.fee - w.amount - cost, outputs], IF w.to = "nobody" THEN 1 ELSE 2)
           accepted == w.notes \cap wlSpent = {} /\ ~w.repeats IN
       \/ \E cost \in 0..w.reserve :
            /\ accepted /\ wlSpent' = wlSpent \cup w.notes /\ wlIssued' = wlIssued \cup claim \cup change(cost)
            /\ \/ /\ UNCHANGED <<wlFaults, wlTokens, wlTokensMu, wlPanic>>
                  /\ Become(t, SaveWork(w, {}, change(cost), claim))
               \/ Fails(1) /\ Unreserve(t)
               \/ Fails(1) /\ Ended(t, FALSE) /\ Unlock2 /\ UNCHANGED <<wlTokens, wlPanic>>
       \/ /\ IF accepted THEN Fails(1) ELSE UNCHANGED wlFaults
          /\ Unreserve(t) /\ UNCHANGED <<wlSpent, wlIssued>>
    /\ UNCHANGED <<wlBehind, wlMutex, wlLoad, wlRelay, wlEcho, wlGiven, wlHistory>>

\* redeemMinted for SendExternal: the caller gets what was paid for.
PayRedeems(t) ==
    /\ At(t, "redeem")
    /\ \/ wlGiven' = wlGiven \cup wlWork[t].claim /\ UNCHANGED wlFaults
       \/ Fails(1) /\ UNCHANGED wlGiven
    /\ Ended(t, FALSE)
    /\ UNCHANGED <<wlTokens, wlBehind, wlMutex, wlTokensMu, wlLoad, wlRelay, wlEcho, wlIssued, wlSpent, wlHistory, wlPanic>>

-----------------------------------------------------------------------------
(* SendNutzap (nip61) *)

\* getEligibleTokensWeHave: mints of the receiver where we have more than the
\* amount, 1% and 2; once for every token above that.
EligibleMints(theirs, amount) ==
    LET have(i) == MapThenSumSet(LAMBDA j : AmountOf(wlTokens[j].notes),
                                 {j \in 1..i : wlTokens[j].mint = wlTokens[i].mint})
        above == {i \in DOMAIN wlTokens : /\ wlTokens[i].mint \in theirs
                                          /\ have(i) > (amount * 101) \div 100 + 2} IN
    [k \in 1..Cardinality(above) |-> wlTokens[SetToSortSeq(above, <)[k]].mint]

\* The receiver's mints are known: what we have at them comes first, then a
\* payment to one of them.
ZapStarts(amount, theirs) ==
    /\ CallStarts("zap")
    /\ LET el == EligibleMints(ToSet(theirs), amount) IN
       Become("zap", [pc |-> "zap", amount |-> amount,
                      next |-> [k \in DOMAIN el |-> <<"internal", el[k]>>] \o [k \in DOMAIN theirs |-> <<"external", theirs[k]>>]])
    /\ UNCHANGED <<wlTokens, wlBehind, wlMutex, wlTokensMu, wlLoad, wlRelay, wlEcho, wlMoney, wlPanic>>

ZapTries ==
    /\ At("zap", "zap")
    /\ LET w == wlWork["zap"] try == Head(w.next) IN
       IF w.next = <<>> THEN Goto2("zap", "ended") /\ UNCHANGED <<wlTokensMu, wlFaults>>
       ELSE IF try[1] = "internal"
       THEN Become("zap", SendWork(w.amount, try[2], Tail(w.next))) /\ UNCHANGED <<wlTokensMu, wlFaults>>
       ELSE \/ Fails(1) /\ Become("zap", [w EXCEPT !.next = Tail(@)]) /\ UNCHANGED wlTokensMu
            \/ /\ wlTokensMu = "free" /\ wlTokensMu' = "zap" /\ UNCHANGED wlFaults
               /\ Become("zap", PayWork(w.amount, "any", try[2], Tail(w.next)))
    /\ UNCHANGED <<wlTokens, wlBehind, wlMutex, wlLoad, wlRelay, wlEcho, wlIssued, wlSpent, wlGiven, wlHistory, wlPanic>>

-----------------------------------------------------------------------------
(* Receive *)

\* Notes somebody gave to the caller; some are locked and cannot be unlocked.
ReceiveStarts(amount, source, into) ==
    /\ CallStarts("receive")
    /\ wlIssued' = wlIssued \cup {Note(source, amount, 1)} /\ wlGiven' = wlGiven \cup {Note(source, amount, 1)}
    /\ \/ UNCHANGED wlFaults /\ Become("receive", [pc |-> "swapin", notes |-> {Note(source, amount, 1)}, mint |-> source, targets |-> into])
       \/ Fails(1) /\ Goto2("receive", "ended")
    /\ UNCHANGED <<wlTokens, wlBehind, wlMutex, wlTokensMu, wlLoad, wlRelay, wlEcho, wlSpent, wlHistory, wlPanic>>

\* They are swapped for ours, the fee taken from them.
ReceiveSwaps ==
    /\ At("receive", "swapin")
    /\ LET w == wlWork["receive"]
           total == AmountOf(w.notes)
           given == [notes |-> w.notes, repeats |-> FALSE, total |-> total, fee |-> CalculateFee(w.mint, w.notes)]
           new == Made(w.mint, SplitPrincipal(total, given.fee, total), 1)
           accepted == MintAccepts(given, total)
           done == accepted /\ wlSpent' = wlSpent \cup w.notes /\ wlIssued' = wlIssued \cup new IN
       \/ /\ done /\ UNCHANGED wlFaults
          /\ Become("receive", [pc |-> IF w.mint \in ToSet(w.targets) THEN "keep" ELSE "lightning",
                                notes |-> new, mint |-> w.mint, targets |-> w.targets])
       \/ done /\ Fails(1) /\ Goto2("receive", "ended")
       \/ /\ IF accepted THEN Fails(1) ELSE UNCHANGED wlFaults
          /\ Goto2("receive", "ended") /\ UNCHANGED <<wlSpent, wlIssued>>
    /\ UNCHANGED <<wlTokens, wlBehind, wlMutex, wlTokensMu, wlLoad, wlRelay, wlEcho, wlGiven, wlHistory, wlPanic>>

\* lightningMeltMint: from 99% of the amount down to 90%, what the invoice may
\* ask for when the mint holds back a reserve; 0 if every try is too expensive.
LightningAmount(total, fee, reserve) ==
    LET fits == {a \in {(total * pct) \div 100 : pct \in 90..99} : a >= fee /\ a + reserve <= total} IN
    IF fits = {} THEN 0 ELSE Max(fits)

\* The source mint is left at the first target that takes the money; without
\* one, the notes are kept where they are or given up.
InSource(w) == Become("receive", IF AcceptSource THEN [w EXCEPT !.pc = "keep"] ELSE [pc |-> "ended"])
ReceiveQuotes ==
    /\ At("receive", "lightning")
    /\ LET w == wlWork["receive"] total == AmountOf(w.notes) fee == CalculateFee(w.mint, w.notes) IN
       IF w.targets = <<>> THEN InSource(w) /\ UNCHANGED wlFaults
       ELSE \/ Fails(1) /\ Become("receive", [w EXCEPT !.targets = Tail(@)])
            \/ Fails(1) /\ InSource(w)
            \/ /\ UNCHANGED wlFaults
               /\ \E reserve \in 0..MaxReserve :
                     LET amount == LightningAmount(total, fee, reserve) IN
                     Become("receive", IF amount = 0 THEN [w EXCEPT !.targets = Tail(@)]
                                       ELSE [pc |-> "move", notes |-> w.notes, mint |-> w.mint, targets |-> w.targets,
                                             amount |-> amount, quoted |-> amount - fee])
    /\ UNCHANGED <<wlTokens, wlBehind, wlMutex, wlTokensMu, wlLoad, wlRelay, wlEcho, wlIssued, wlSpent, wlGiven, wlHistory, wlPanic>>

\* The melt at the source: paid, so that the target owes what it quoted;
\* unclear; or an error, after which the notes count as unspent.
ReceiveMelts ==
    /\ At("receive", "move")
    /\ LET w == wlWork["receive"]
           owed == {[n |-> Cardinality(wlIssued) + 1, mint |-> Head(w.targets), amount |-> w.quoted, asked |-> w.amount]} IN
       \/ /\ wlSpent' = wlSpent \cup w.notes /\ wlIssued' = wlIssued \cup owed /\ UNCHANGED wlFaults
          /\ Become("receive", [pc |-> "minted", notes |-> owed, mint |-> Head(w.targets), targets |-> <<>>])
       \/ /\ wlSpent' \in {wlSpent, wlSpent \cup w.notes} /\ Fails(1) /\ UNCHANGED wlIssued
          /\ InSource(w) \/ Goto2("receive", "ended")
    /\ UNCHANGED <<wlTokens, wlBehind, wlMutex, wlTokensMu, wlLoad, wlRelay, wlEcho, wlGiven, wlHistory, wlPanic>>

\* redeemMinted at the target, for the amount before the fee of the source: the
\* mint signs what it quoted and no more.
Overasked(n) == "asked" \in DOMAIN n /\ n.asked # n.amount
ReceiveRedeems ==
    /\ At("receive", "minted")
    /\ LET w == wlWork["receive"] refused == \E n \in w.notes : Overasked(n) IN
       \/ ~refused /\ UNCHANGED wlFaults /\ Goto2("receive", "keep")
       \/ /\ IF refused THEN UNCHANGED wlFaults ELSE Fails(1)
          /\ Goto2("receive", "ended")
    /\ UNCHANGED <<wlTokens, wlBehind, wlMutex, wlTokensMu, wlLoad, wlRelay, wlEcho, wlIssued, wlSpent, wlGiven, wlHistory, wlPanic>>

\* The token and the history entry are published...
ReceiveKeeps ==
    /\ At("receive", "keep")
    /\ LET w == wlWork["receive"] token == NewToken(w.mint, w.notes) IN
       \/ Fails(1) /\ Goto2("receive", "ended") /\ UNCHANGED <<wlRelay, wlEcho, wlHistory>>
       \/ /\ wlMutex = "free" /\ Publish({TokenEvent(token)})
          /\ \/ wlHistory' = wlHistory + AmountOf(w.notes) /\ UNCHANGED wlFaults
             \/ Fails(1) /\ UNCHANGED wlHistory
          /\ Become("receive", [pc |-> "append", token |-> token])
    /\ UNCHANGED <<wlTokens, wlBehind, wlMutex, wlTokensMu, wlLoad, wlIssued, wlSpent, wlGiven, wlPanic>>

\* ...and then the token is appended, though the relay may have been faster.
ReceiveAppends ==
    /\ At("receive", "append") /\ wlTokensMu = "free"
    /\ wlTokens' = Append(wlTokens, wlWork["receive"].token)
    /\ Goto2("receive", "ended")
    /\ UNCHANGED <<wlBehind, wlMutex, wlTokensMu, wlLoad, wlRelay, wlEcho, wlMoney, wlPanic>>

-----------------------------------------------------------------------------
(* DropToken, AddMint, RemoveMint, Close *)

\* Without tokensMu: what Tokens was, less the token, is put back at the end.
DropStarts(i) ==
    /\ CallStarts("drop")
    /\ Become("drop", [pc |-> "delete", token |-> wlTokens[i],
                       updated |-> WithoutPlaces(wlTokens, {j \in DOMAIN wlTokens : wlTokens[j].id = wlTokens[i].id})])
    /\ UNCHANGED <<wlTokens, wlBehind, wlMutex, wlTokensMu, wlLoad, wlRelay, wlEcho, wlMoney, wlPanic>>
DropDeletes ==
    /\ At("drop", "delete") /\ wlMutex = "free"
    /\ Publish({Deletion(wlWork["drop"].token.id)}) /\ wlGiven' = wlGiven \cup wlWork["drop"].token.notes
    /\ Goto2("drop", "assign")
    /\ UNCHANGED <<wlTokens, wlBehind, wlMutex, wlTokensMu, wlLoad, wlIssued, wlSpent, wlHistory, wlFaults, wlPanic>>
DropAssigns ==
    /\ At("drop", "assign")
    /\ wlTokens' = wlWork["drop"].updated /\ Goto2("drop", "ended")
    /\ UNCHANGED <<wlBehind, wlMutex, wlTokensMu, wlLoad, wlRelay, wlEcho, wlMoney, wlPanic>>

\* AddMint or RemoveMint: Mints changes under no lock, and what it is then is published.
EditMints(mints) ==
    /\ CallStarts("edit") /\ mints # wlMints
    /\ \/ wlMints' = mints /\ UNCHANGED wlFaults
          /\ Become("edit", [pc |-> "publish", evt |-> WalletEvent(1 + Max(DOMAIN WVersions), mints)])
       \/ Fails(1) /\ Goto2("edit", "ended") /\ UNCHANGED wlMints
    /\ UNCHANGED <<wlTokens, wlBehind, wlMutex, wlTokensMu, wlEosed, wlPending, wlStable, wlVersion, wlRelay, wlEcho,
                   wlIssued, wlSpent, wlGiven, wlHistory, wlPanic>>
EditPublishes ==
    /\ At("edit", "publish") /\ wlMutex = "free"
    /\ Publish({wlWork["edit"].evt}) /\ Goto2("edit", "ended")
    /\ UNCHANGED <<wlTokens, wlBehind, wlMutex, wlTokensMu, wlLoad, wlMoney, wlPanic>>

CloseWallet ==
    /\ CallStarts("close") /\ wlMutex = "free"
    /\ Goto2("close", "ended")
    /\ UNCHANGED <<wlTokens, wlBehind, wlMutex, wlTokensMu, wlLoad, wlRelay, wlEcho, wlMoney, wlPanic>>

-----------------------------------------------------------------------------

FirstNote(id) == [n |-> id, mint |-> WTokens[id].mint, amount |-> WTokens[id].amount]
FirstEvents ==
    {[kind |-> "token", id |-> id, mint |-> WTokens[id].mint, notes |-> {FirstNote(id)}, deletes |-> WTokens[id].deletes]
        : id \in DOMAIN WTokens}
    \cup {Deletion(id) : id \in WDeleted} \cup {WalletEvent(at, WVersions[at]) : at \in DOMAIN WVersions}
FirstGone == WDeleted \cup UNION {WTokens[id].deletes : id \in DOMAIN WTokens}

WalletInit ==
    /\ wlTokens = <<>> /\ wlBehind = <<>> /\ wlMutex = "free" /\ wlTokensMu = "free" /\ wlWork = [t \in Threads |-> Idle]
    /\ wlEosed = FALSE /\ wlPending = {} /\ wlStable = FALSE /\ wlMints = {} /\ wlVersion = 0
    /\ wlRelay = FirstEvents /\ wlEcho = FirstEvents
    /\ wlIssued = {FirstNote(id) : id \in DOMAIN WTokens} /\ wlSpent = {FirstNote(id) : id \in FirstGone}
    /\ wlGiven = {} /\ wlHistory = 0 /\ wlFaults = 0 /\ wlPanic = FALSE

LoaderStep ==
    \/ \E thread \in {"events", "deletions"} : \/ EventLocks(thread) \/ EventRemoves(thread) \/ EventApplies(thread)
                                                \/ \E evt \in wlEcho : Arrives(thread, evt)
    \/ EventAppends \/ EoseComes \/ EoseRemoves \/ EoseApplies \/ WalletStable
SendStep(t) == SendLocks(t) \/ SendSwaps(t)
PayStep(t) == PayQuotes(t) \/ PayReserves(t) \/ PayMelts(t) \/ PayRedeems(t)
SaveStep(t) == ChooseNext(t) \/ SaveDeletes(t) \/ SaveChange(t) \/ SaveHistory(t)
ReceiveStep == ReceiveSwaps \/ ReceiveQuotes \/ ReceiveMelts \/ ReceiveRedeems \/ ReceiveKeeps \/ ReceiveAppends

WalletNext ==
    \/ LoaderStep
    \/ \E t \in WCalls \cap {"send", "zap"} : SendStep(t)
    \/ \E t \in WCalls \cap {"pay", "zap"} : PayStep(t)
    \/ \E t \in WCalls \cap {"send", "pay", "zap"} : SaveStep(t)
    \/ "send" \in WCalls /\ \E a \in SendAmounts, from \in WMints \cup {"any"} : SendStarts(a, from)
    \/ "pay" \in WCalls /\ \E a \in Invoices, to \in WMints \cup {"nobody"} : PayStarts(a, "any", to)
    \/ "receive" \in WCalls /\ (ReceiveStep \/ \E a \in ReceiveAmounts, m \in WMints, into \in IntoMints : ReceiveStarts(a, m, into))
    \/ "drop" \in WCalls /\ (DropDeletes \/ DropAssigns \/ \E i \in DOMAIN wlTokens : DropStarts(i))
    \/ "edit" \in WCalls /\ (EditPublishes \/ \E mints \in SUBSET WMints : EditMints(mints))
    \/ "zap" \in WCalls /\ (ZapTries \/ \E a \in SendAmounts, m \in WMints : ZapStarts(a, <<m>>))
    \/ "close" \in WCalls /\ CloseWallet

-----------------------------------------------------------------------------
(* Properties *)

TokenEvents == {e \in wlRelay : e.kind = "token"}
KeptNotes == UNION {e.notes : e \in {e \in TokenEvents : Deletion(e.id) \notin wlRelay}}
NotesIn(w) ==
    UNION {IF f \in DOMAIN w THEN w[f] ELSE {} : f \in {"notes", "principal", "change", "claim"}}
    \cup (IF "token" \in DOMAIN w THEN w.token.notes ELSE {})

\* While no mint and no signer fails, money is lost in one way only: whatever a
\* mint has signed or was paid for, and nobody has spent, is in a token event
\* that is not deleted, was given to a caller, or is in the hands of a call that
\* is still running, however the calls, the deletions that move tokens under
\* their places and the echoes of their own events interleave. The exception is
\* a swap by lightning out of a mint with fees, which asks the target for more
\* than it quoted (lightning-swap.go:43 and :99), so that nobody redeems what
\* was paid. (A drop and three other calls can break it: a dropped token comes
\* back with its own late echo, a send chooses it, and the drop's deletion then
\* changes what stands at its place. And without AcceptSource what no target
\* takes is given up.)
MoneyKept ==
    wlStable /\ wlFaults = 0 =>
        {n \in wlIssued \ wlSpent : ~Overasked(n)} \subseteq
            wlGiven \cup KeptNotes \cup UNION {NotesIn(wlWork[t]) : t \in {c \in WCalls : CallRuns(c)}}

\* Stronger than the code: nor is it lost in a swap by lightning.
SwapsKeepMoney ==
    wlStable /\ wlFaults = 0 =>
        \A n \in wlIssued \ wlSpent : Overasked(n) => \E t \in WCalls : CallRuns(t) /\ n \in NotesIn(wlWork[t])

\* With no call running and no failure, the history explains the balance: what
\* token events hold unspent is what there was, plus what came in, minus what
\* went out, fees and lost change included.
HistoryExplains ==
    wlStable /\ wlFaults = 0 /\ (\A t \in WCalls : ~CallRuns(t)) =>
        AmountOf(UNION {e.notes : e \in TokenEvents} \ wlSpent)
            = AmountOf({FirstNote(id) : id \in DOMAIN WTokens \ FirstGone}) + wlHistory

\* A token that is reserved and not spent is reserved by a payment that waits
\* for its melt, or that ended in a panic: no payment that returned, however it
\* failed, leaves one behind, though it chooses tokens, reserves them and
\* releases them by their places, others are deleted between those three steps,
\* and what is reserved may not be what was chosen. (A drop and two
\* other calls can break it, as they can MoneyKept.)
ReservedIsReleased ==
    \A i \in DOMAIN wlTokens :
        wlTokens[i].reserved /\ ~(wlTokens[i].notes \subseteq wlSpent) =>
            \E t \in WCalls : wlWork[t].pc \in {"melt", "panicked"}

\* Stronger than the code: no place that a payment chose is behind the end when
\* it reserves or releases it (pay.go:99, :115, :121, :131, :138).
PaymentsNeverPanic == ~wlPanic

\* A deleted token was spent, or is the one that was dropped.
DropsOnlyTheToken ==
    \A e \in TokenEvents : Deletion(e.id) \in wlRelay => e.notes \subseteq wlSpent \cup wlGiven

\* Wallet metadata is only replaced by newer metadata.
NewestMetadata == [][wlVersion' >= wlVersion]_wlVars
=============================================================================
