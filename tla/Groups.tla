------------------------------- MODULE Groups -------------------------------
(***************************************************************************)
(* Groups (nip29): a relay's group, changed by moderation events, the six  *)
(* events that publish it, and a mirror of the group at a client, which    *)
(* merges those events in as they come: late, twice, in any order or not   *)
(* at all.  A tag is a sequence of strings; what a key, an address or a    *)
(* kind looks like is left out, except that it may not parse.              *)
(***************************************************************************)
EXTENDS Naturals, Sequences, FiniteSets, SequencesExt

CONSTANTS
    ModerationEvents,  \* events a relay may be given: [kind, at, tags]
    GroupWatches,      \* sets of kinds of published events that a mirror may follow
    MaxModerations,    \* bound: moderation events that are applied
    MaxMerges          \* bound: events the mirror gets, repetitions included

ASSUME GroupsBounds == {MaxModerations, MaxMerges} \subseteq Nat

VARIABLES
    grGroup,      \* the relay's Group
    grPublished,  \* events the relay has published of it
    grMirror,     \* a client's Group
    grMerged,     \* history: the events the mirror has been given, in order
    grWatch,      \* the kinds the mirror follows
    grApplied     \* number of moderation events applied

grVars == <<grGroup, grPublished, grMirror, grMerged, grWatch, grApplied>>

GroupID == "id"
Unreadable == "unreadable"     \* a key, an id or a kind that does not parse
TextTags == {"name", "about", "picture", "banner", "parent"}
FlagTags == {"private", "restricted", "closed", "hidden", "livekit"}
ListKinds == {"metadata", "admins", "members", "roles", "participants", "pinned"}

\* members: key -> names of its roles; kinds: the tag of SupportedKinds, <<>> if nil.
NewGroup ==
    [text |-> [t \in TextTags |-> IF t = "name" THEN GroupID ELSE ""], flags |-> {},
     kinds |-> <<>>, children |-> <<>>, members |-> <<>>, participants |-> <<>>,
     roles |-> <<>>, codes |-> <<>>, pinned |-> <<>>, last |-> [k \in ListKinds |-> 0]]

Dated(g, ks, at) == [g EXCEPT !.last = [k \in ListKinds |-> IF k \in ks THEN at ELSE @[k]]]
FindAll(evt, name) == SelectSeq(evt.tags, LAMBDA t : Len(t) >= 2 /\ t[1] = name)
Readable(tags) == \A i \in DOMAIN tags : tags[i][2] # Unreadable
WithMember(g, key, roles) ==
    [g EXCEPT !.members = [m \in DOMAIN @ \cup {key} |-> IF m = key THEN roles ELSE @[m]]]

One(condition, tag) == IF condition THEN <<tag>> ELSE <<>>

\* An "e" tag has a relay and an author, an "a" tag a relay; what does not parse
\* of them is passed over.
PointerFromTag(t) ==
    [type |-> t[1], ref |-> t[2],
     relay |-> IF Len(t) > 2 /\ t[3] # Unreadable THEN t[3] ELSE "",
     author |-> IF t[1] = "e" /\ Len(t) > 3 /\ t[4] # Unreadable THEN t[4] ELSE ""]

Pointers(tags) == [i \in DOMAIN tags |-> PointerFromTag(tags[i])]

\* The author has its place behind the relay, and is lost where there is none.
AsTag(p) == <<p.type, p.ref>> \o One(p.relay # "", p.relay) \o One(p.relay # "" /\ p.author # "", p.author)

-----------------------------------------------------------------------------
(* Moderation actions *)

IsMetadata(t) ==
    t[1] \in FlagTags \cup {"supported_kinds"} \/ (Len(t) >= 2 /\ t[1] \in TextTags \cup {"child"})

\* A metadata tag, in an event that edits or publishes the metadata.
MetadataTag(g, t) ==
    CASE t[1] \in FlagTags -> [g EXCEPT !.flags = @ \cup {t[1]}]
      [] t[1] = "supported_kinds" -> [g EXCEPT !.kinds = SelectSeq(t, LAMBDA k : k # Unreadable)]
      [] IsMetadata(t) /\ t[1] \in TextTags -> [g EXCEPT !.text[t[1]] = t[2]]
      [] IsMetadata(t) /\ t[1] = "child" -> [g EXCEPT !.children = Append(@, t[2])]
      [] OTHER -> g

\* The Group of an EditMetadata: what the tags say, and nothing else.
EditedTo(evt) == FoldLeft(MetadataTag, [NewGroup EXCEPT !.text["name"] = ""], evt.tags)

\* PrepareModerationAction: an event that no factory takes, or whose factory
\* fails, changes nothing.
Prepares(evt) ==
    CASE evt.kind \in {"put-user", "remove-user"} ->
            FindAll(evt, "p") # <<>> /\ Readable(FindAll(evt, "p"))
      [] evt.kind = "edit-metadata" ->
            /\ \E i \in DOMAIN evt.tags : IsMetadata(evt.tags[i])
            /\ \A i \in DOMAIN evt.tags :
                  evt.tags[i][1] = "supported_kinds" => Unreadable \notin ToSet(evt.tags[i])
      [] evt.kind = "delete-event" -> FindAll(evt, "e") # <<>> /\ Readable(FindAll(evt, "e"))
      [] evt.kind \in {"create-group", "delete-group"} -> TRUE
      [] evt.kind = "create-invite" -> Len(FindAll(evt, "code")) \in 1..10
      [] evt.kind = "update-pin-list" -> Readable(FindAll(evt, "e")) /\ Readable(FindAll(evt, "a"))
      [] OTHER -> FALSE

\* One copy of a code is taken out; the last one takes its place.
Without(codes, code) ==
    IF code \notin ToSet(codes) THEN codes
    ELSE LET i == CHOOSE i \in DOMAIN codes : codes[i] = code /\ \A j \in 1..(i - 1) : codes[j] # code IN
         Front([codes EXCEPT ![i] = Last(codes)])

Unrepeated(names) == FoldLeft(LAMBDA s, n : IF n \in ToSet(s) THEN s ELSE Append(s, n), <<>>, names)

\* PutUser: every target gets exactly these roles. The list of admins is only
\* dated when there is one.
ApplyPutUser(g, evt) ==
    LET codes == FindAll(evt, "code")
        put(h, t) ==
            LET roles == Unrepeated(SubSeq(t, 3, Len(t)))
                in == [WithMember(h, t[2], roles) EXCEPT
                         !.codes = IF codes # <<>> /\ codes[1][2] # "" THEN Without(@, codes[1][2]) ELSE @] IN
            Dated(in, IF roles # <<>> THEN {"members", "admins"} ELSE {"members"}, evt.at) IN
    FoldLeft(put, g, FindAll(evt, "p"))

ApplyRemoveUser(g, evt) ==
    LET touched(h, key) ==
            IF key \notin DOMAIN h.members THEN {}
            ELSE IF h.members[key] # <<>> THEN {"members", "admins"} ELSE {"members"}
        remove(h, t) ==
            [Dated(h, touched(h, t[2]), evt.at) EXCEPT !.members = [m \in DOMAIN @ \ {t[2]} |-> @[m]]] IN
    FoldLeft(remove, g, FindAll(evt, "p"))

ApplyEditMetadata(g, evt) ==
    LET e == EditedTo(evt) IN
    Dated([g EXCEPT !.text = e.text, !.flags = e.flags, !.kinds = e.kinds, !.children = e.children],
          {"metadata"}, evt.at)

ApplyCreateGroup(g, evt) == Dated(g, ListKinds \ {"roles"}, evt.at)

\* Parent, children, supported kinds, roles and invite codes stay.
ApplyDeleteGroup(g, evt) ==
    Dated([g EXCEPT !.members = <<>>, !.participants = <<>>, !.pinned = <<>>,
                    !.flags = FlagTags \ {"livekit"},
                    !.text = [t \in TextTags |-> CASE t = "name" -> "[deleted]"
                                                   [] t = "parent" -> @[t]
                                                   [] OTHER -> ""]],
          ListKinds \ {"roles"}, evt.at)

Values(tags) == [i \in DOMAIN tags |-> tags[i][2]]

ApplyCreateInvite(g, evt) == [g EXCEPT !.codes = @ \o Values(FindAll(evt, "code"))]

\* Events first, then addresses, whatever their order in the event.
ApplyUpdatePinList(g, evt) ==
    Dated([g EXCEPT !.pinned = Pointers(FindAll(evt, "e") \o FindAll(evt, "a"))], {"pinned"}, evt.at)

Apply(g, evt) ==
    CASE evt.kind = "put-user" -> ApplyPutUser(g, evt)
      [] evt.kind = "remove-user" -> ApplyRemoveUser(g, evt)
      [] evt.kind = "edit-metadata" -> ApplyEditMetadata(g, evt)
      [] evt.kind = "create-group" -> ApplyCreateGroup(g, evt)
      [] evt.kind = "delete-group" -> ApplyDeleteGroup(g, evt)
      [] evt.kind = "create-invite" -> ApplyCreateInvite(g, evt)
      [] evt.kind = "update-pin-list" -> ApplyUpdatePinList(g, evt)
      [] evt.kind = "delete-event" -> g

-----------------------------------------------------------------------------
(* The events that publish a group *)

Published(g, kind, tags) == [kind |-> kind, at |-> g.last[kind], tags |-> <<<<"d", GroupID>>>> \o tags]
\* The order in which Go ranges over a map, or tags of one event, does not matter here.
Each(S) == FoldSet(LAMBDA t, s : Append(s, t), <<>>, S)

ToMetadataEvent(g) ==
    Published(g, "metadata",
        Each({<<t, g.text[t]>> : t \in {t \in TextTags : g.text[t] # ""}} \cup {<<f>> : f \in g.flags})
        \o One(g.kinds # <<>>, g.kinds)
        \o [i \in DOMAIN g.children |-> <<"child", g.children[i]>>])

ToAdminsEvent(g) ==
    Published(g, "admins", Each({<<"p", m>> \o g.members[m] : m \in {m \in DOMAIN g.members : g.members[m] # <<>>}}))

ToMembersEvent(g) == Published(g, "members", Each({<<"p", m>> : m \in DOMAIN g.members}))
ToRolesEvent(g) == Published(g, "roles", [i \in DOMAIN g.roles |-> <<"role">> \o g.roles[i]])
ToLiveKitParticipantsEvent(g) ==
    Published(g, "participants", [i \in DOMAIN g.participants |-> <<"participant", g.participants[i]>>])
ToPinnedEventsEvent(g) == Published(g, "pinned", [i \in DOMAIN g.pinned |-> AsTag(g.pinned[i])])

ToEvent(g, kind) ==
    CASE kind = "metadata" -> ToMetadataEvent(g)
      [] kind = "admins" -> ToAdminsEvent(g)
      [] kind = "members" -> ToMembersEvent(g)
      [] kind = "roles" -> ToRolesEvent(g)
      [] kind = "participants" -> ToLiveKitParticipantsEvent(g)
      [] kind = "pinned" -> ToPinnedEventsEvent(g)

-----------------------------------------------------------------------------
(* Merging them in *)

\* What is there stays, the name excepted.
MergeInMetadataEvent(g, evt) == FoldLeft(MetadataTag, [g EXCEPT !.text["name"] = GroupID], evt.tags)

\* Roles are added to what the member has.
MergeInAdminsEvent(g, evt) ==
    FoldLeft(LAMBDA h, t : WithMember(h, t[2], (IF t[2] \in DOMAIN h.members THEN h.members[t[2]] ELSE <<>>)
                                               \o SubSeq(t, 3, Len(t))),
             g, SelectSeq(evt.tags, LAMBDA t : Len(t) >= 3 /\ t[1] = "p" /\ t[2] # Unreadable))

\* Mutant: the roles of a member are forgotten.
MergeInMembersEventPlain(g, evt) ==
    FoldLeft(LAMBDA h, t : WithMember(h, t[2], <<>>), g, FindAll(evt, "p"))

MergeInMembersEvent(g, evt) ==
    FoldLeft(LAMBDA h, t : IF t[2] \in DOMAIN h.members \cup {Unreadable} THEN h ELSE WithMember(h, t[2], <<>>),
             g, FindAll(evt, "p"))

\* A role is known by its name; its description is the latest one.
MergeInRolesEvent(g, evt) ==
    LET add(h, t) ==
            LET role == <<t[2], IF Len(t) >= 3 THEN t[3] ELSE "">>
                same == {i \in DOMAIN h.roles : h.roles[i][1] = t[2]} IN
            IF same = {} THEN [h EXCEPT !.roles = Append(@, role)]
            ELSE [h EXCEPT !.roles = [i \in DOMAIN @ |-> IF i \in same THEN role ELSE @[i]]] IN
    FoldLeft(add, g, FindAll(evt, "role"))

MergeInLiveKitParticipantsEvent(g, evt) ==
    [g EXCEPT !.participants =
        Unrepeated(SelectSeq(Values(FindAll(evt, "participant")), LAMBDA k : k # Unreadable))]

MergeInPinnedEventsEvent(g, evt) ==
    [g EXCEPT !.pinned = Pointers(SelectSeq(evt.tags,
        LAMBDA t : Len(t) >= 2 /\ t[1] \in {"e", "a"} /\ t[2] # Unreadable))]

Merged(g, evt) ==
    Dated(CASE evt.kind = "metadata" -> MergeInMetadataEvent(g, evt)
            [] evt.kind = "admins" -> MergeInAdminsEvent(g, evt)
            [] evt.kind = "members" -> MergeInMembersEvent(g, evt)
            [] evt.kind = "roles" -> MergeInRolesEvent(g, evt)
            [] evt.kind = "participants" -> MergeInLiveKitParticipantsEvent(g, evt)
            [] evt.kind = "pinned" -> MergeInPinnedEventsEvent(g, evt), {evt.kind}, evt.at)

\* Mutant: an older event is merged in too.
MergeInAny(g, evt) == Merged(g, evt)

\* Every MergeIn: an older event than the last one is refused.
MergeIn(g, evt) == IF evt.at < g.last[evt.kind] THEN g ELSE Merged(g, evt)

-----------------------------------------------------------------------------

\* The relay applies a moderation event, whatever its date, and publishes what
\* the group is now.
Moderate(evt) ==
    /\ grApplied < MaxModerations
    /\ grGroup' = IF Prepares(evt) THEN Apply(grGroup, evt) ELSE grGroup
    /\ grPublished' = grPublished \cup {ToEvent(grGroup', k) : k \in grWatch}
    /\ grApplied' = grApplied + 1
    /\ UNCHANGED <<grMirror, grMerged, grWatch>>

\* The client gets one of the events.
MirrorGets(evt) ==
    /\ Len(grMerged) < MaxMerges
    /\ grMirror' = MergeIn(grMirror, evt) /\ grMerged' = Append(grMerged, evt)
    /\ UNCHANGED <<grGroup, grPublished, grWatch, grApplied>>

GroupsInit ==
    /\ grGroup = [NewGroup EXCEPT !.roles = <<<<"king", "rules">>>>, !.participants = <<"ann">>]
    /\ grPublished = {} /\ grMirror = NewGroup /\ grMerged = <<>>
    /\ grWatch \in GroupWatches /\ grApplied = 0

GroupsNext ==
    \/ \E evt \in ModerationEvents : Moderate(evt)
    \/ \E evt \in grPublished : MirrorGets(evt)

-----------------------------------------------------------------------------
(* Properties *)

MergedAll(g, kinds) == FoldLeft(LAMBDA h, k : MergeIn(h, ToEvent(g, k)), NewGroup, kinds)
AsPublished(g) ==
    [g EXCEPT !.codes = <<>>, !.text["name"] = IF @ = "" THEN GroupID ELSE @,
              !.pinned = [i \in DOMAIN @ |-> IF @[i].relay = "" THEN [@[i] EXCEPT !.author = ""] ELSE @[i]]]

\* After any moderation, a client that starts from nothing and merges in the
\* six events of the group has the group, whichever order they come in: the
\* admins with their roles, though the members come too, the pins in their
\* order with their relays, and every date. Not published are invite codes, a
\* name that was edited away, which reads as the id, and the author of a pin that
\* has no relay.
SnapshotIsWhole ==
    grApplied > 0 =>
        \A order \in {<<"metadata", "roles", "admins", "members", "participants", "pinned">>,
                      <<"pinned", "members", "admins", "participants", "roles", "metadata">>,
                      <<"admins", "participants", "members", "metadata", "pinned", "roles">>} :
            MergedAll(grGroup, order) = AsPublished(grGroup)

\* A mirror that was given the newest event of a kind, with its date to itself,
\* shows the lists that replace each other as that event has them, and at least
\* the members, roles and flags of the others, however late, repeated or out of
\* order the events came. (It never forgets a member, a
\* role or a flag, and repeats the children and the roles it gets again.)
MirrorConverges ==
    \A evt \in ToSet(grMerged) :
        (\A e \in grPublished \ {evt} : e.kind = evt.kind => e.at < evt.at) =>
            LET g == MergeIn(NewGroup, evt) IN
            /\ grMirror.last[evt.kind] = evt.at
            /\ evt.kind = "pinned" => grMirror.pinned = g.pinned
            /\ evt.kind = "participants" => grMirror.participants = g.participants
            /\ DOMAIN g.members \subseteq DOMAIN grMirror.members
            /\ \A m \in DOMAIN g.members : ToSet(g.members[m]) \subseteq ToSet(grMirror.members[m])
            /\ g.flags \subseteq grMirror.flags
=============================================================================
