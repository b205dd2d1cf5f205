--------------------------- MODULE ActionDispatch ---------------------------
(***************************************************************************)
(* Channel Action Dispatcher: src/channels/plugins/message-actions.ts.     *)
(*                                                                         *)
(* dispatchChannelMessageAction(ctx) gates privileged actions on a trusted *)
(* requester, hands the action to the plugin registered for ctx.channel    *)
(* when that plugin can perform it, and otherwise falls back to the first  *)
(* other loaded plugin (in registration order) that can, rewriting         *)
(* ctx.channel to that plugin's id.  The plugin registry is static for the *)
(* life of a process, so it is chosen once in Init.  Each Dispatch step is *)
(* one whole call; `outcome` records what the last call did.               *)
(***************************************************************************)
EXTENDS Naturals, Sequences, FiniteSets, Functions

CONSTANTS
    Channels,          \* channel ids: plugin ids and ctx.channel values
    Discord,           \* the channel the trusted-requester table names
    Actions,           \* message action names
    ModerationActions, \* "timeout", "kick", "ban" (abstracted)
    Senders,           \* non-blank requesterSenderId values
    Blank,             \* a requesterSenderId that is whitespace only
    None,              \* an absent optional field (undefined)
    NoCheck            \* a plugin that declares no supportsAction check

ASSUME Discord \in Channels /\ ModerationActions \subseteq Actions
ASSUME None \notin Senders \cup {Blank} /\ Blank \notin Senders

(* The capability surface a plugin's `actions` object may declare that    *)
(* dispatch reads: handleAction present or not, and supportsAction absent *)
(* (NoCheck) or answering true exactly for a set of actions.              *)
NoHandler == [handle |-> FALSE, supports |-> NoCheck]
PluginActions ==
    {NoHandler} \cup [handle : {TRUE}, supports : {NoCheck} \cup SUBSET Actions]

(* Registration orders: sequences of distinct plugin ids.                 *)
Registrations ==
    { s \in UNION { [1..n -> Channels] : n \in 0..Cardinality(Channels) } :
        IsInjective(s) }

Requesters == Senders \cup {Blank, None}

Ctx == [channel : Channels, action : Actions, toolContext : BOOLEAN,
        requesterSenderId : Requesters]

Thrown == [kind |-> "thrown"]
Unsupported == [kind |-> "null"]
Handled(p, c) == [kind |-> "handled", plugin |-> p, ctx |-> c]
NoOutcome == [kind |-> "none"]

VARIABLES
    order,    \* listChannelPlugins(): loaded plugin ids in registration order
    plugins,  \* plugins[id].actions for every loaded id
    outcome   \* [call |-> ctx, result |-> ...] of the last dispatch

vars == <<order, plugins, outcome>>

Loaded == Range(order)

TypeOK ==
    /\ order \in Registrations
    /\ plugins \in [Loaded -> PluginActions]
    /\ outcome = NoOutcome
       \/ /\ outcome.call \in Ctx
          /\ outcome.result \in {Thrown, Unsupported}
                                \cup { Handled(p, c) : p \in Loaded, c \in Ctx }

-----------------------------------------------------------------------------
(* trustedRequesterRequiredByChannel: only discord names actions.         *)
trustedRequesterRequiredByChannel(c) ==
    IF c = Discord THEN ModerationActions ELSE {}

requiresTrustedRequesterSender(ctx) ==
    /\ ctx.action \in trustedRequesterRequiredByChannel(ctx.channel)
    /\ ctx.toolContext

(* ctx.requesterSenderId?.trim() is truthy.                               *)
HasRequesterSenderId(ctx) == ctx.requesterSenderId \notin {None, Blank}

(* A plugin's actions accept an action: it has handleAction, and either   *)
(* declares no supportsAction or supportsAction({action}) is true.        *)
CanHandle(pa, a) ==
    /\ pa.handle
    /\ pa.supports = NoCheck \/ a \in pa.supports

(* Mutant: the fallback loop skips candidates that declare no check.      *)
FallbackAccepts_requireCheck(pa, a) ==
    /\ pa.handle
    /\ pa.supports # NoCheck /\ a \in pa.supports

(* The fallback loop's test of one candidate (lines 94-102).              *)
FallbackAccepts(pa, a) ==
    /\ pa.handle
    /\ ~(pa.supports # NoCheck /\ a \notin pa.supports)

(* Mutant: the candidate plugin object is passed where its id belongs.    *)
FallbackCtx_plugin(ctx, id) == [ctx EXCEPT !.channel = plugins[id]]

(* { ...ctx, channel: candidate.id }                                      *)
FallbackCtx(ctx, id) == [ctx EXCEPT !.channel = id]

(* dispatchChannelMessageAction(ctx) with the registry (order, plugins).  *)
dispatchChannelMessageAction(ctx) ==
    LET primaryOk == ctx.channel \in Loaded
                     /\ CanHandle(plugins[ctx.channel], ctx.action)
        fallback  == { i \in DOMAIN order :
                         /\ order[i] # ctx.channel
                         /\ FallbackAccepts(plugins[order[i]], ctx.action) }
    IN  CASE requiresTrustedRequesterSender(ctx) /\ ~HasRequesterSenderId(ctx)
                 -> Thrown
          [] primaryOk -> Handled(ctx.channel, ctx)
          [] fallback # {} ->
                 LET first == order[CHOOSE i \in fallback :
                                      \A j \in fallback : i <= j]
                 IN  Handled(first, FallbackCtx(ctx, first))
          [] OTHER -> Unsupported

-----------------------------------------------------------------------------
Init ==
    /\ order \in Registrations
    /\ plugins \in [Range(order) -> PluginActions]
    /\ outcome = NoOutcome

(* One call of dispatchChannelMessageAction by a tool or command handler. *)
Dispatch(ctx) ==
    /\ outcome' = [call |-> ctx, result |-> dispatchChannelMessageAction(ctx)]
    /\ UNCHANGED <<order, plugins>>

Next == \E ctx \in Ctx : Dispatch(ctx)

Spec == Init /\ [][Next]_vars

-----------------------------------------------------------------------------
(* Properties.  `call` is the ctx a caller passed, `result` what the call *)
(* did with it.                                                           *)
call == outcome.call
result == outcome.result

(* Capability routing (lines 79-107): a handled call went to a plugin     *)
(* able to perform the action, to the requested channel's plugin whenever *)
(* that one can, else to the earliest capable plugin in registration      *)
(* order; a null result means no loaded plugin can perform it at all.     *)
DispatchToFirstCapable ==
    LET able(p) == p \in Loaded /\ CanHandle(plugins[p], call.action)
    IN  outcome # NoOutcome =>
          /\ result.kind = "handled" =>
               /\ able(result.plugin)
               /\ able(call.channel) => result.plugin = call.channel
               /\ result.plugin # call.channel =>
                    \A i, j \in DOMAIN order :
                       order[j] = result.plugin /\ i < j => ~able(order[i])
          /\ result = Unsupported => \A p \in Loaded : ~able(p)

(* What the gate is for (spec 4.2): a plugin never executes an action its *)
(* own channel lists as privileged on behalf of the tool path without a   *)
(* non-blank requester identity.  The gate tests the requested channel    *)
(* only, and the cross-channel fallback re-targets the call without       *)
(* testing again.                                                         *)
TrustedSenderForExecutedAction ==
    ( /\ outcome # NoOutcome
      /\ result.kind = "handled"
      /\ result.ctx.action \in trustedRequesterRequiredByChannel(result.plugin)
      /\ result.ctx.toolContext )
    => result.ctx.requesterSenderId \in Senders

=============================================================================
