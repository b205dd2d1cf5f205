--------------------------- MODULE DeliveryTarget ---------------------------
(***************************************************************************)
(* Delivery Target Resolver: resolveDeliveryTarget in                      *)
(* src/cron/isolated-agent/delivery-target.ts, with the collaborators it   *)
(* calls.  A caller (the cron runner) invokes the resolver with a job      *)
(* payload, the job's origin and its delivery mode; the resolver reads one *)
(* snapshot of the agent's session store and returns a DeliveryTarget.     *)
(* Between calls the session store is rewritten by the inbound and         *)
(* delivery paths, which are outside this module's source and modelled    *)
(* from the spec (RecordSession).                                          *)
(*                                                                         *)
(* resolveSessionDeliveryTarget and resolveOutboundTarget live in          *)
(* infra/outbound/targets.ts, which is not in the sources: both are        *)
(* modelled from spec 4.1 step 4 and the normalizer contract of spec 6.   *)
(***************************************************************************)
EXTENDS Naturals, Sequences, FiniteSets

CONSTANTS
    Channels,           \* deliverable channel ids (ChannelId)
    InternalChannels,   \* channels a session may record that cannot deliver
    DefaultChatChannel, \* DEFAULT_CHAT_CHANNEL
    Recipients,         \* recipient ids ("to")
    Threads,            \* thread / topic ids
    Accounts,           \* account ids
    Bindings,           \* channel -> accounts bound to this agent, in order
    Accepts,            \* channel -> recipients its normalizer accepts
    MainKey, ThreadKey, \* the agent's main session key; a thread-scoped key
    Last,               \* the "last" channel sentinel
    SelectionFails,     \* resolveMessageChannelSelection throws
    None                \* an absent optional field (undefined)

ASSUME DefaultChatChannel \in Channels
ASSUME Channels \cap InternalChannels = {}
ASSUME Bindings \in [Channels -> Seq(Accounts)]
ASSUME Accepts \in [Channels -> SUBSET Recipients]

SessionKeys == {MainKey, ThreadKey}

(* The last* fields of a SessionEntry.                                    *)
Entries == [channel : Channels \cup InternalChannels, to : Recipients,
            accountId : Accounts \cup {None}, threadId : Threads \cup {None}]

(* jobPayload: channel is "last" or a ChannelId; to and sessionKey are    *)
(* optional.  An absent channel behaves exactly as "last" and a blank to  *)
(* or sessionKey exactly as an absent one (lines 45-47, 97), so the model *)
(* enumerates only the distinguishable inputs.                            *)
Payloads == [channel : {Last} \cup Channels, to : {None} \cup Recipients,
             sessionKey : {None, ThreadKey}]

(* CronOrigin, captured when the job was created.  An origin with neither *)
(* channel nor to is never used (line 56) and behaves as no origin; its   *)
(* accountId and threadId are read only on the short-circuit that needs   *)
(* both channel and to (lines 58-75; lines 138-139 are commented out).    *)
Origins == { o \in [channel : {None} \cup Channels, to : {None} \cup Recipients,
                    accountId : {None} \cup Accounts,
                    threadId : {None} \cup Threads] :
               /\ o.channel # None \/ o.to # None
               /\ o.accountId # None \/ o.threadId # None
                    => o.channel # None /\ o.to # None }

(* In "current" mode the origin is never read (line 52).                  *)
Calls == { c \in [payload : Payloads, origin : {None} \cup Origins,
                  deliveryMode : {"origin", "current"}] :
             c.deliveryMode = "current" => c.origin = None }

(* resolveOutboundTarget's success value: the recipient in the form       *)
(* addressable on one channel.                                            *)
Addressed == [channel : Channels, id : Recipients]

Targets == [channel : Channels, to : {None} \cup Addressed,
            accountId : {None} \cup Accounts, threadId : {None} \cup Threads,
            mode : {"explicit", "implicit"}, error : {None, "rejected"}]

VARIABLES
    store,      \* the agent's session store: key -> entry or None
    selection,  \* what resolveMessageChannelSelection({cfg}) yields
    last        \* [call, result] of the call whose result the caller holds

vars == <<store, selection, last>>

TypeOK ==
    /\ store \in [SessionKeys -> Entries \cup {None}]
    /\ selection \in Channels \cup {SelectionFails}
    /\ last = None \/ last \in [call : Calls, result : Targets]

-----------------------------------------------------------------------------
(* resolveOutboundTarget({channel, to, ...}) (spec 6): ok with the        *)
(* channel-specific form of the recipient, or an error.                   *)
resolveOutboundTarget(channel, to) ==
    IF to \in Accepts[channel]
    THEN [ok |-> TRUE, to |-> [channel |-> channel, id |-> to]]
    ELSE [ok |-> FALSE, error |-> "rejected"]

DockedTo(docked) == IF docked.ok THEN docked.to ELSE None
DockedError(docked) == IF docked.ok THEN None ELSE docked.error

(* The session's last channel, when it is one that can deliver.           *)
LastChannel(entry) ==
    IF entry # None /\ entry.channel \in Channels THEN entry.channel ELSE None

LastField(entry, f) == IF entry # None THEN entry[f] ELSE None

(* Account and thread of the session belong to the session's channel.     *)
SameChannel(channel, lastChannel) == channel # None /\ channel = lastChannel

(* The explicit recipient overrides the stored one; the stored one is     *)
(* used on its own channel, or on any channel when mismatches are allowed.*)
SessionTo(explicitTo, lastTo, same, allowMismatchedLastTo) ==
    CASE explicitTo # None -> explicitTo
      [] lastTo # None /\ (same \/ allowMismatchedLastTo) -> lastTo
      [] OTHER -> None

(* resolveSessionDeliveryTarget (spec 4.1 step 4).  This caller never     *)
(* passes an explicit thread id, so threadIdExplicit is always false.     *)
resolveSessionDeliveryTarget(entry, requestedChannel, explicitTo, fallbackChannel, allowMismatchedLastTo, mode) ==
    LET lastChannel == LastChannel(entry)
        lastTo == LastField(entry, "to")
        requested == IF requestedChannel = Last THEN lastChannel
                     ELSE requestedChannel
        channel == IF requested = None THEN fallbackChannel ELSE requested
        same == SameChannel(channel, lastChannel)
    IN  [channel |-> channel,
         to |-> SessionTo(explicitTo, lastTo, same, allowMismatchedLastTo),
         accountId |-> IF same THEN LastField(entry, "accountId") ELSE None,
         threadId |-> IF same THEN LastField(entry, "threadId") ELSE None,
         threadIdExplicit |-> FALSE,
         mode |-> IF mode # None THEN mode
                  ELSE IF explicitTo # None THEN "explicit" ELSE "implicit",
         lastChannel |-> lastChannel,
         lastTo |-> lastTo]

-----------------------------------------------------------------------------
(* Lines 45-56: explicit payload fields, and whether the origin is used.  *)
HasExplicitChannel(call) == call.payload.channel \in Channels
HasExplicitTo(call) == call.payload.to \in Recipients

UseOrigin(call) ==
    /\ call.deliveryMode = "origin"
    /\ call.origin # None
    /\ ~HasExplicitChannel(call)
    /\ ~HasExplicitTo(call)

(* Lines 58-75: route straight to a complete origin.                      *)
OriginShortCircuit(call) ==
    UseOrigin(call) /\ call.origin.channel # None /\ call.origin.to # None

(* Mutant: the origin's raw recipient is returned instead of the          *)
(* normalizer's form of it.                                               *)
OriginTarget_raw(origin) ==
    LET docked == resolveOutboundTarget(origin.channel, origin.to)
    IN  [channel |-> origin.channel,
         to |-> IF docked.ok THEN origin.to ELSE None,
         accountId |-> origin.accountId, threadId |-> origin.threadId,
         mode |-> "explicit", error |-> DockedError(docked)]

OriginTarget(origin) ==
    LET docked == resolveOutboundTarget(origin.channel, origin.to)
    IN  [channel |-> origin.channel, to |-> DockedTo(docked),
         accountId |-> origin.accountId, threadId |-> origin.threadId,
         mode |-> "explicit", error |-> DockedError(docked)]

(* Mutant: an origin that names a channel but no recipient is ignored.    *)
RequestedChannel_noOrigin(call) ==
    IF HasExplicitChannel(call) THEN call.payload.channel ELSE Last

(* Lines 78-88.                                                           *)
RequestedChannel(call) ==
    CASE HasExplicitChannel(call) -> call.payload.channel
      [] UseOrigin(call) /\ call.origin.channel # None -> call.origin.channel
      [] OTHER -> Last

ExplicitTo(call) ==
    CASE HasExplicitTo(call) -> call.payload.to
      [] UseOrigin(call) /\ call.origin.to # None -> call.origin.to
      [] OTHER -> None

(* Mutant: the main entry is preferred over the thread-scoped one.        *)
SessionEntry_mainFirst(st, call) ==
    IF st[MainKey] = None /\ call.payload.sessionKey = ThreadKey
    THEN st[ThreadKey] ELSE st[MainKey]

(* Lines 90-99: the thread-scoped entry when the payload names one that   *)
(* exists, else the agent's main entry.                                   *)
SessionEntry(st, call) ==
    IF call.payload.sessionKey = ThreadKey /\ st[ThreadKey] # None
    THEN st[ThreadKey] ELSE st[MainKey]

(* Lines 108-121.                                                         *)
FallbackChannel(call, preliminary, sel) ==
    CASE preliminary.channel # None -> None
      [] UseOrigin(call) /\ call.origin.channel # None -> call.origin.channel
      [] sel \in Channels -> sel
      [] preliminary.lastChannel # None -> preliminary.lastChannel
      [] OTHER -> DefaultChatChannel

(* Mutant: the bindings are looked up for the default chat channel       *)
(* instead of the channel being delivered on.                             *)
AccountId_defaultChannel(channel, resolvedAccountId) ==
    IF resolvedAccountId = None /\ Len(Bindings[DefaultChatChannel]) > 0
    THEN Head(Bindings[DefaultChatChannel]) ELSE resolvedAccountId

(* Lines 145-153: the first account bound to the agent on the channel.    *)
AccountId(channel, resolvedAccountId) ==
    IF resolvedAccountId = None /\ Len(Bindings[channel]) > 0
    THEN Head(Bindings[channel]) ELSE resolvedAccountId

(* Mutant: the session's thread is kept whatever the recipient.           *)
ThreadId_noGuard(resolved) == resolved.threadId

(* Lines 159-163: a session thread is kept only when explicit or when the *)
(* delivery goes to the session's own last recipient.                     *)
ThreadId(resolved) ==
    IF /\ resolved.threadId # None
       /\ \/ resolved.threadIdExplicit
          \/ resolved.to # None /\ resolved.to = resolved.lastTo
    THEN resolved.threadId ELSE None

(* Lines 77-189: the path through the session store.                      *)
SessionTarget(st, call, sel) ==
    LET entry == SessionEntry(st, call)
        requested == RequestedChannel(call)
        explicitTo == ExplicitTo(call)
        allow == requested = Last
        preliminary == resolveSessionDeliveryTarget(entry, requested,
                                                    explicitTo, None, allow, None)
        fallback == FallbackChannel(call, preliminary, sel)
        resolved == IF fallback # None
                    THEN resolveSessionDeliveryTarget(entry, requested, explicitTo,
                                                      fallback, allow,
                                                      preliminary.mode)
                    ELSE preliminary
        channel == CASE resolved.channel # None -> resolved.channel
                     [] fallback # None -> fallback
                     [] OTHER -> DefaultChatChannel
        docked == resolveOutboundTarget(channel, resolved.to)
    IN  [channel |-> channel,
         to |-> IF resolved.to = None THEN None ELSE DockedTo(docked),
         accountId |-> AccountId(channel, resolved.accountId),
         threadId |-> ThreadId(resolved),
         mode |-> resolved.mode,
         error |-> IF resolved.to = None THEN None ELSE DockedError(docked)]

resolveDeliveryTarget(st, call, sel) ==
    IF OriginShortCircuit(call) THEN OriginTarget(call.origin)
    ELSE SessionTarget(st, call, sel)

-----------------------------------------------------------------------------
Init ==
    /\ store = [k \in SessionKeys |-> None]
    /\ selection \in Channels \cup {SelectionFails}
    /\ last = None

(* The inbound and delivery paths rewrite a session's last* fields, or an *)
(* external reset removes it (spec 3).  The resolver reads the store as   *)
(* one snapshot per call, so writes are taken between calls.              *)
RecordSession(k, e) ==
    /\ last = None
    /\ store' = [store EXCEPT ![k] = e]
    /\ UNCHANGED <<selection, last>>

(* One call of resolveDeliveryTarget by the cron runner, which uses the   *)
(* target before it resolves the next one.                                *)
ResolveDeliveryTarget(call) ==
    /\ last = None
    /\ last' = [call |-> call,
                result |-> resolveDeliveryTarget(store, call, selection)]
    /\ UNCHANGED <<store, selection>>

(* The caller has used (sent to, or dropped) the target it was given.     *)
Consume ==
    /\ last # None
    /\ last' = None
    /\ UNCHANGED <<store, selection>>

Next ==
    \/ \E k \in SessionKeys, e \in Entries \cup {None} : RecordSession(k, e)
    \/ \E call \in Calls : ResolveDeliveryTarget(call)
    \/ Consume

Spec == Init /\ [][Next]_vars

-----------------------------------------------------------------------------
(* Properties of the call whose result the caller holds.  They restate    *)
(* the spec's rules from the call's inputs and the store snapshot, not    *)
(* from the resolver's intermediate values.                               *)
call == last.call
result == last.result

OriginField(f) == IF call.origin # None THEN call.origin[f] ELSE None

(* spec 4.1 step 3: the entry a call reads.                               *)
ReadEntry ==
    IF call.payload.sessionKey = ThreadKey /\ store[ThreadKey] # None
    THEN store[ThreadKey] ELSE store[MainKey]

(* spec 4.1 step 1: the payload leaves the destination to the origin.     *)
DefersToOrigin ==
    /\ call.deliveryMode = "origin"
    /\ call.origin # None
    /\ call.payload.channel = Last
    /\ call.payload.to = None

StoredEntries == { store[k] : k \in SessionKeys } \ {None}

(* (channel, recipient, thread) triples some session recorded together.   *)
Conversations == { <<e.channel, e.to, e.threadId>> : e \in StoredEntries }

(* No thread leak (lines 155-163): a delivery that carries a thread goes  *)
(* to the channel and recipient that thread was recorded with, in the     *)
(* session store or in the job's origin; a thread seen with one recipient *)
(* is never attached to a message for another.                            *)
NoThreadLeak ==
    last # None /\ result.threadId # None /\ result.to # None =>
        <<result.channel, result.to.id, result.threadId>>
            \in Conversations
                \cup {<<OriginField("channel"), OriginField("to"),
                        OriginField("threadId")>>}

(* Every recipient handed to a sender passed the normalizer of the        *)
(* channel it goes out on (spec 3), came from the payload or the origin   *)
(* when the mode says "explicit", and from the session store when it says *)
(* "implicit": the last recipient of the very entry the call read, the   *)
(* thread-scoped one when it exists (lines 90-99, 135-136, 175-188).      *)
TargetProvenance ==
    last # None /\ result.to # None =>
        /\ result.error = None
        /\ result.to.channel = result.channel
        /\ result.to.id \in Accepts[result.channel]
        /\ result.mode = "explicit" =>
              result.to.id \in {call.payload.to, OriginField("to")}
        /\ result.mode = "implicit" =>
              ReadEntry # None /\ result.to.id = ReadEntry.to

(* Channel precedence (spec 4.1 steps 2 and 5): the explicit channel,     *)
(* else the origin's, else the deliverable channel of the entry read,     *)
(* else the configured selection, else DEFAULT_CHAT_CHANNEL.              *)
ChannelPrecedence ==
    last # None =>
        result.channel =
            CASE call.payload.channel \in Channels -> call.payload.channel
              [] DefersToOrigin /\ OriginField("channel") # None
                     -> OriginField("channel")
              [] ReadEntry # None /\ ReadEntry.channel \in Channels
                     -> ReadEntry.channel
              [] selection \in Channels -> selection
              [] OTHER -> DefaultChatChannel

(* An account is used on a channel only when the origin that decides the  *)
(* destination carried it, the entry read recorded it on that same        *)
(* channel, or it is the agent's first bound account there: an account    *)
(* (a bot token) of one channel never signs a delivery on another.        *)
AccountBelongsToChannel ==
    last # None /\ result.accountId # None =>
        \/ /\ DefersToOrigin
           /\ OriginField("channel") # None /\ OriginField("to") # None
           /\ result.accountId = OriginField("accountId")
        \/ /\ ReadEntry # None
           /\ ReadEntry.channel = result.channel
           /\ ReadEntry.accountId = result.accountId
        \/ /\ Bindings[result.channel] # <<>>
           /\ result.accountId = Head(Bindings[result.channel])

=============================================================================
