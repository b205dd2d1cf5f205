--------------------------- MODULE ContextFilter ----------------------------
(***************************************************************************)
(* Context filter: filterContextByRetentionAndTurns in                     *)
(* src/agents/pi-embedded-runner/context-filter.ts, a pure function of the *)
(* in-memory messages, the transcript entries, the clock and the config.   *)
(* It drops messages older than the retention window, reading messages[i] *)
(* 's time from the i-th "message" entry (else from the message), and then *)
(* keeps the last maxTurns user turns (limitHistoryTurns).  Its caller is  *)
(* not in the sources; the inputs are those its tests build: the entries  *)
(* are the messages' own entries in order, with entries of other types in *)
(* between.                                                                *)
(*                                                                         *)
(* Time is counted in days.  Each input message carries the day it was     *)
(* written (`at`, None for a legacy message) next to the timestamps the    *)
(* writers stored: a number of milliseconds or of seconds on the message,  *)
(* an ISO string on its entry.  A number is [unit, day]; the code tells     *)
(* the units apart by `value < 1e12`, true exactly for a count of seconds  *)
(* (every instant after September 2001), and a count of seconds read as    *)
(* milliseconds lies in January 1970, day 0.                               *)
(***************************************************************************)
EXTENDS Naturals, Integers, Sequences, FiniteSets, SequencesExt

CONSTANTS
    MaxDay,            \* days are 1..MaxDay; the filter runs on the last
    MaxMsgs,           \* bound on the number of input messages
    ConfigRetention,   \* session.transcriptRetentionDays, or None
    ConfigMaxTurns,    \* session.maxRecentTurns, or None
    ChannelLimit,      \* getHistoryLimitFromSessionKey(...), or None
    None

Days == 1 .. MaxDay
Now == MaxDay
Roles == {"user", "assistant"}

Number(unit, d) == [kind |-> "number", unit |-> unit, day |-> d]
Iso(d) == [kind |-> "iso", day |-> d]

(* A message as the writers leave it: written on day d with its own       *)
(* timestamp in ms or s, or none, and an entry stamped with an ISO string *)
(* or not; at least one of the two is there.  A legacy message has none.  *)
Written(role) ==
    [role : {role}, at : {None}, ts : {None}, entryTs : {None}]
    \cup { m \in [role : {role}, at : Days,
                  ts : {None} \cup {Number(u, d) : u \in {"ms", "s"}, d \in Days},
                  entryTs : {None} \cup {Iso(d) : d \in Days}] :
             /\ m.ts # None => m.ts.day = m.at
             /\ m.entryTs # None => m.entryTs.day = m.at
             /\ m.ts # None \/ m.entryTs # None }

Msg == UNION {Written(r) : r \in Roles}

(* The message entry the transcript holds for m, and another entry.       *)
EntryOf(m) == [type |-> "message", ts |-> m.entryTs, msg |-> m]
OtherEntry == [type |-> "other", ts |-> Iso(Now), msg |-> None]

VARIABLES
    messages,  \* the messages argument, oldest first
    entries,   \* the entries argument, oldest first
    out        \* what the call returned, None before it

vars == <<messages, entries, out>>

-----------------------------------------------------------------------------
(* A value read as milliseconds: a count of seconds is in January 1970.   *)
MsDay(n) == IF n.unit = "ms" THEN n.day ELSE 0

(* Mutant: a number is taken to be milliseconds whatever its size.        *)
normalizeTimestampMs_noScale(value) ==
    CASE value = None -> None
      [] value.kind = "number" -> MsDay(value)
      [] value.kind = "iso" -> value.day

(* Lines 14-29: a finite number below 1e12 is seconds and is scaled by    *)
(* 1000; a string goes through Number(), where an ISO date is NaN, and    *)
(* then Date.parse; anything else is undefined.                           *)
normalizeTimestampMs(value) ==
    CASE value = None -> None
      [] value.kind = "number" ->
           MsDay(IF value.unit = "s" THEN [value EXCEPT !.unit = "ms"] ELSE value)
      [] value.kind = "iso" -> value.day

(* Lines 31-40: the entry's own timestamp, else its message's.            *)
parseEntryTimestampMs(entry) ==
    IF entry = None THEN None
    ELSE IF normalizeTimestampMs(entry.ts) # None
         THEN normalizeTimestampMs(entry.ts)
         ELSE normalizeTimestampMs(entry.msg.ts)

(* Lines 42-48 (configuration values are integers or absent).             *)
toPositiveInt(value) == IF value \in Int /\ value > 0 THEN value ELSE None

(* Lines 50-66: the entries of type "message" that carry a message.       *)
getMessageEntries(ents) ==
    SelectSeq(ents, LAMBDA e : e.type = "message" /\ e.msg # None)

(* Lines 68-72.                                                           *)
resolveTranscriptRetentionDays ==
    IF toPositiveInt(ConfigRetention) # None
    THEN toPositiveInt(ConfigRetention) ELSE 7

(* Lines 74-85: the channel's history limit, else maxRecentTurns, else    *)
(* 100.                                                                   *)
resolveMaxRecentTurns ==
    CASE toPositiveInt(ChannelLimit) # None -> toPositiveInt(ChannelLimit)
      [] toPositiveInt(ConfigMaxTurns) # None -> toPositiveInt(ConfigMaxTurns)
      [] OTHER -> 100

(* limitHistoryTurns (history.ts, spec-modelled): the suffix that starts  *)
(* at the limit-th user message from the end, or everything when there    *)
(* are no more user messages than the limit.                              *)
limitHistoryTurns(msgs, limit) ==
    LET users == { i \in 1 .. Len(msgs) : msgs[i].role = "user" }
    IN  IF Cardinality(users) <= limit THEN msgs
        ELSE LET start == CHOOSE i \in users :
                            Cardinality({ j \in users : j >= i }) = limit
             IN  SubSeq(msgs, start, Len(msgs))

(* Mutant: the kept message is pushed with its entry's timestamp.         *)
Pick_entryStamp(msgs, ents, idx) ==
    [j \in 1 .. Len(idx) |-> [msgs[idx[j]] EXCEPT !.ts = ents[idx[j]].ts]]

(* Line 114: the messages at the kept indices, in order.                  *)
Pick(msgs, ents, idx) == [j \in 1 .. Len(idx) |-> msgs[idx[j]]]

(* Line 113.                                                              *)
KeptByTime(ts, cutoffMs) == ts = None \/ ts >= cutoffMs

(* Lines 87-119.                                                          *)
filterContextByRetentionAndTurns(msgs, ents, nowMs) ==
    IF msgs = <<>> THEN msgs
    ELSE
      LET cutoffMs == nowMs - resolveTranscriptRetentionDays
          messageEntries == getMessageEntries(ents)
          entry(i) == IF i <= Len(messageEntries) THEN messageEntries[i] ELSE None
          ts(i) == IF parseEntryTimestampMs(entry(i)) # None
                   THEN parseEntryTimestampMs(entry(i))
                   ELSE normalizeTimestampMs(msgs[i].ts)
          kept == SelectSeq([i \in 1 .. Len(msgs) |-> i],
                            LAMBDA i : KeptByTime(ts(i), cutoffMs))
      IN  limitHistoryTurns(Pick(msgs, messageEntries, kept), resolveMaxRecentTurns)

-----------------------------------------------------------------------------
(* The transcript of a list of messages: their entries in order, and      *)
(* possibly one entry of another type (a model change) at any place.      *)
Transcripts(msgs) ==
    LET es == [i \in 1 .. Len(msgs) |-> EntryOf(msgs[i])]
    IN  {es} \cup { SubSeq(es, 1, k) \o <<OtherEntry>> \o SubSeq(es, k + 1, Len(es)) :
                      k \in 0 .. Len(es) }

Init ==
    /\ messages \in BoundedSeq(Msg, MaxMsgs)
    /\ entries \in Transcripts(messages)
    /\ out = None

(* The embedded runner calls the filter before a model call.              *)
Filter ==
    /\ out' = filterContextByRetentionAndTurns(messages, entries, Now)
    /\ UNCHANGED <<messages, entries>>

Next == Filter

Spec == Init /\ [][Next]_vars

TypeOK ==
    /\ messages \in Seq(Msg)
    /\ out = None \/ out \in Seq(Msg)

-----------------------------------------------------------------------------
(* What the filter is for, stated over the day each message was written:  *)
(* the context holds the messages written within the retention window or  *)
(* legacy ones, in order, from the limit-th last user message among them  *)
(* on (all of them when they hold no more user messages than the limit),  *)
(* whatever unit the message's timestamp is in and whether it or its      *)
(* entry carries it.  The window is the configured number of days, else   *)
(* 7; the limit the channel's history limit, else maxRecentTurns, else    *)
(* 100.                                                                   *)
RefContext ==
    LET R == IF ConfigRetention = None THEN 7 ELSE ConfigRetention
        T == CASE ChannelLimit # None -> ChannelLimit
               [] ConfigMaxTurns # None -> ConfigMaxTurns
               [] OTHER -> 100
        W == { i \in 1 .. Len(messages) :
                 messages[i].at = None \/ messages[i].at >= Now - R }
        usersFrom(i) == { j \in W : j >= i /\ messages[j].role = "user" }
        K == { i \in W : \/ Cardinality(usersFrom(1)) <= T
                         \/ \E u \in W : /\ u <= i
                                        /\ messages[u].role = "user"
                                        /\ Cardinality(usersFrom(u)) <= T }
    IN  [j \in 1 .. Cardinality(K) |-> messages[SetToSortSeq(K, <)[j]]]

(* Retention and turn limit (lines 105-118): the filter returns exactly   *)
(* the reference context, although it reads each message's time from the  *)
(* entry at the same position among the message entries, and from the     *)
(* message only when that entry has none, and decodes both formats.       *)
ContextMatchesOwnTimestamps == out # None => out = RefContext

=============================================================================
