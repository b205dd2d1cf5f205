---------------------------- MODULE SmartMemory -----------------------------
(***************************************************************************)
(* Smart-memory hook: src/src/hooks/bundled/smart-memory/handler.ts.  On   *)
(* /new the gateway starts a new conversation for the session and runs the *)
(* hook with the previous session entry.  The hook reads the last          *)
(* messageCount user and assistant messages of that transcript (await),    *)
(* classifies them by keyword rules, and, unless they are routine, writes  *)
(* memory/important/<date>-<slug>.md (await mkdir, await writeFile).      *)
(*                                                                         *)
(* Data is abstracted: a message's text is a set of phrases, and which     *)
(* keywords a phrase contains (String.includes) is the constant Includes;  *)
(* a user message's slug is precomputed (None when its text is at most 10  *)
(* characters long).  A file's content is the conversation it was built    *)
(* from, its category and the parsed messages.                             *)
(***************************************************************************)
EXTENDS Naturals, Sequences, FiniteSets, SequencesExt

CONSTANTS
    Sessions,        \* session keys
    Entries,         \* transcript lines that can be written
    Includes,        \* phrase -> the keywords it contains
    RememberKw, ResearchKw, PaperKw, ProjectKw, DecisionKw,
    MessageCount,    \* hooks.smart-memory.messages, or DEFAULT_MESSAGE_COUNT
    MaxDay,          \* days are 1..MaxDay
    MaxConvs,        \* bound on the conversations started
    MaxEntries,      \* bound on the lines of one transcript
    FaultyFs,        \* whether fs calls may reject
    None

Days == 1 .. MaxDay
Convs == 1 .. MaxConvs
Parsed == [role : {"user", "assistant"}, text : SUBSET DOMAIN Includes,
           slug : STRING \cup {None}]
Content == [conv : Convs, category : STRING, msgs : Seq(Parsed)]
Idle == [pc |-> "idle", conv |-> None, at |-> None, msgs |-> <<>>]

VARIABLES
    now,       \* the current day
    tr,        \* conversation id -> its transcript lines
    cur,       \* session key -> the conversation it is in
    started,   \* conversations started so far
    hs,        \* session key -> the hook invocation for its last /new
    files,     \* memory/important: file name -> content, or None
    saved,     \* history: the contents every completed writeFile stored
    lost       \* history: <<conversation, day>> of invocations an fs call failed

vars == <<now, tr, cur, started, hs, files, saved, lost>>

-----------------------------------------------------------------------------
(* Lines 47-160: the rules in priority order.                              *)
CATEGORY_RULES ==
    << [category |-> "remember", keywords |-> RememberKw, minHits |-> 1],
       [category |-> "research", keywords |-> ResearchKw, minHits |-> 2],
       [category |-> "paper",    keywords |-> PaperKw,    minHits |-> 2],
       [category |-> "project",  keywords |-> ProjectKw,  minHits |-> 2],
       [category |-> "decision", keywords |-> DecisionKw, minHits |-> 2] >>

(* Lines 170-176: the rule's keywords the lower-cased text includes.       *)
Matched(rule, text) ==
    { kw \in rule.keywords : \E p \in text : kw \in Includes[p] }

(* Lines 166-189: the first rule with enough hits wins, else "routine".   *)
classifyConversation(text) ==
    LET hit == { i \in DOMAIN CATEGORY_RULES :
                   Cardinality(Matched(CATEGORY_RULES[i], text))
                       >= CATEGORY_RULES[i].minHits }
    IN  IF hit = {} THEN "routine"
        ELSE CATEGORY_RULES[Min(hit)].category

(* Lines 209-221: a message line of user or assistant role with a text   *)
(* not starting with "/".                                                 *)
Kept(e) ==
    /\ e.type = "message"
    /\ e.role \in {"user", "assistant"}
    /\ e.text # {}
    /\ ~e.slash

(* Lines 197-233: the last messageCount kept lines.                       *)
getRecentSessionMessages(lines) ==
    LET all == SelectSeq(lines, Kept)
        msgs == [i \in 1 .. Len(all) |->
                   [role |-> all[i].role, text |-> all[i].text, slug |-> all[i].slug]]
    IN  IF Len(msgs) <= MessageCount THEN msgs
        ELSE SubSeq(msgs, Len(msgs) - MessageCount + 1, Len(msgs))

(* Mutant: the "conversation" fallback for a missing slug is dropped.     *)
generateSlug_noFallback(msgs) ==
    LET long == SelectSeq(msgs, LAMBDA m : m.role = "user" /\ m.slug # None)
    IN  IF long = <<>> THEN None ELSE Head(long).slug

(* Lines 238-255: the slug of the first user message longer than 10       *)
(* characters, else "conversation"; so too when that message has no       *)
(* letter or digit and its slug comes out empty.                          *)
generateSlug(msgs) ==
    LET long == SelectSeq(msgs, LAMBDA m : m.role = "user" /\ m.slug # None)
    IN  IF long = <<>> \/ Head(long).slug = "" THEN "conversation"
        ELSE Head(long).slug

(* Lines 345-346: the classified text is every message's text joined.     *)
FullText(msgs) == UNION { msgs[i].text : i \in DOMAIN msgs }

(* Lines 262-295 and 365-366: the file's name and content.                *)
buildImportantMemoryMarkdown(conv, msgs, at) ==
    [name |-> <<at, generateSlug(msgs)>>,
     content |-> [conv |-> conv, category |-> classifyConversation(FullText(msgs)),
                  msgs |-> msgs]]

-----------------------------------------------------------------------------
Init ==
    /\ now = 1
    /\ cur \in [Sessions -> 1 .. Cardinality(Sessions)]
    /\ \A s, t \in Sessions : cur[s] = cur[t] => s = t
    /\ started = Cardinality(Sessions)
    /\ tr = [c \in Convs |-> <<>>]
    /\ hs = [s \in Sessions |-> Idle]
    /\ files = [n \in {} |-> None]
    /\ saved = {}
    /\ lost = {}

(* The gateway appends a line to the session's current transcript.        *)
Chat(s, e) ==
    /\ Len(tr[cur[s]]) < MaxEntries
    /\ tr' = [tr EXCEPT ![cur[s]] = Append(@, e)]
    /\ UNCHANGED <<now, cur, started, hs, files, saved, lost>>

Tick ==
    /\ now < MaxDay
    /\ now' = now + 1
    /\ UNCHANGED <<tr, cur, started, hs, files, saved, lost>>

(* Mutant: the hook reads context.sessionEntry, the new conversation.     *)
NewCommand_currentEntry(s) ==
    /\ hs[s].pc = "idle"
    /\ started < MaxConvs
    /\ started' = started + 1
    /\ cur' = [cur EXCEPT ![s] = started + 1]
    /\ hs' = [hs EXCEPT ![s] = [Idle EXCEPT !.pc = "read", !.conv = started + 1, !.at = now]]
    /\ UNCHANGED <<now, tr, files, saved, lost>>

(* /new: the session moves to a new conversation and the hook starts with *)
(* the previous session entry (lines 318-328) and the event's day.  Every *)
(* session is in a conversation with a transcript file when /new comes,   *)
(* so the fallbacks to context.sessionEntry and the !sessionFile return   *)
(* are not taken.                                                         *)
NewCommand(s) ==
    /\ hs[s].pc = "idle"
    /\ started < MaxConvs
    /\ started' = started + 1
    /\ cur' = [cur EXCEPT ![s] = started + 1]
    /\ hs' = [hs EXCEPT ![s] = [Idle EXCEPT !.pc = "read", !.conv = cur[s], !.at = now]]
    /\ UNCHANGED <<now, tr, files, saved, lost>>

(* Mutant: a transcript with a single message is taken to be empty.     *)
ReadTranscript_skipSingle(s) ==
    LET msgs == getRecentSessionMessages(tr[hs[s].conv])
        keep == Len(msgs) > 1 /\ classifyConversation(FullText(msgs)) # "routine"
    IN  /\ hs[s].pc = "read"
        /\ \/ /\ ~keep
              /\ hs' = [hs EXCEPT ![s] = Idle]
              /\ UNCHANGED lost
           \/ /\ keep
              /\ hs' = [hs EXCEPT ![s].pc = "write", ![s].msgs = msgs]
              /\ UNCHANGED lost
           \/ /\ FaultyFs
              /\ hs' = [hs EXCEPT ![s] = Idle]
              /\ lost' = lost \cup {<<hs[s].conv, hs[s].at>>}
        /\ UNCHANGED <<now, tr, cur, started, files, saved>>

(* Lines 338-363: fs.readFile settles.  A rejection is caught and yields  *)
(* no messages, and the invocation returns as for an empty transcript; an *)
(* empty or routine conversation returns, else fs.mkdir is awaited.       *)
ReadTranscript(s) ==
    LET msgs == getRecentSessionMessages(tr[hs[s].conv])
        keep == msgs # <<>> /\ classifyConversation(FullText(msgs)) # "routine"
    IN  /\ hs[s].pc = "read"
        /\ \/ /\ ~keep
              /\ hs' = [hs EXCEPT ![s] = Idle]
              /\ UNCHANGED lost
           \/ /\ keep
              /\ hs' = [hs EXCEPT ![s].pc = "write", ![s].msgs = msgs]
              /\ UNCHANGED lost
           \/ /\ FaultyFs
              /\ hs' = [hs EXCEPT ![s] = Idle]
              /\ lost' = lost \cup {<<hs[s].conv, hs[s].at>>}
        /\ UNCHANGED <<now, tr, cur, started, files, saved>>

(* Lines 365-377: fs.writeFile settles, creating or replacing the file.   *)
WriteFile(s) ==
    LET f == buildImportantMemoryMarkdown(hs[s].conv, hs[s].msgs, hs[s].at)
    IN  /\ hs[s].pc = "write"
        /\ files' = [n \in DOMAIN files \cup {f.name} |->
                       IF n = f.name THEN f.content ELSE files[n]]
        /\ saved' = saved \cup {f.content}
        /\ hs' = [hs EXCEPT ![s] = Idle]
        /\ UNCHANGED <<now, tr, cur, started, lost>>

(* Lines 381-383: mkdir or writeFile rejects; the error is logged.         *)
Fail(s) ==
    /\ FaultyFs
    /\ hs[s].pc = "write"
    /\ hs' = [hs EXCEPT ![s] = Idle]
    /\ lost' = lost \cup {<<hs[s].conv, hs[s].at>>}
    /\ UNCHANGED <<now, tr, cur, started, files, saved>>

Step(s) == ReadTranscript(s) \/ WriteFile(s) \/ Fail(s)

Next ==
    \/ \E s \in Sessions, e \in Entries : Chat(s, e)
    \/ Tick
    \/ \E s \in Sessions : NewCommand(s) \/ Step(s)

Spec == Init /\ [][Next]_vars

-----------------------------------------------------------------------------
TypeOK ==
    /\ now \in Days
    /\ tr \in [Convs -> Seq(Entries)]
    /\ cur \in [Sessions -> Convs]
    /\ started \in 1 .. MaxConvs
    /\ DOMAIN files \subseteq Days \X STRING
    /\ \A n \in DOMAIN files : files[n] \in Content
    /\ \A s \in Sessions : hs[s].pc \in {"idle", "read", "write"}
    /\ lost \subseteq Convs \X Days

(* What a memory file holds (lines 318-377): every file in                 *)
(* memory/important was built from a conversation that had ended by /new,  *)
(* from the last messageCount messages of its whole transcript, and is    *)
(* not routine; messages written to the new conversation while the read   *)
(* is pending never reach it.                                              *)
MemoryFromEndedConversation ==
    \A n \in DOMAIN files :
        LET c == files[n] IN
        /\ \A s \in Sessions : cur[s] # c.conv
        /\ c.msgs = getRecentSessionMessages(tr[c.conv])
        /\ c.category = classifyConversation(FullText(c.msgs))
        /\ c.category # "routine"

-----------------------------------------------------------------------------
(* The hook against its abstraction ImportantMemory: a transcript is      *)
(* important when its recent messages exist and are not routine, and its *)
(* memory is the file buildImportantMemoryMarkdown makes of them.  The    *)
(* conversations queued in the abstraction are those whose invocation has  *)
(* not returned.                                                          *)
Important(lines) ==
    LET msgs == getRecentSessionMessages(lines)
    IN  msgs # <<>> /\ classifyConversation(FullText(msgs)) # "routine"

Memory(c, lines, d) == buildImportantMemoryMarkdown(c, getRecentSessionMessages(lines), d)

Ended == { <<hs[s].conv, hs[s].at>> : s \in { s \in Sessions : hs[s].pc # "idle" } }

IM == INSTANCE ImportantMemory WITH ended <- Ended

(* The hook refines the atomic save-on-/new protocol: its reads, mkdir and *)
(* writeFile, interleaved with other sessions, only ever file the memory   *)
(* of a conversation that /new ended and that is still unhandled, once,    *)
(* built from that conversation's whole final transcript; and it drops an  *)
(* important conversation only in an invocation whose readFile, mkdir or   *)
(* writeFile failed (lines 318-383): empty and routine transcripts are the *)
(* only ones it skips.                                                    *)
ImplementsImportantMemory == IM!Spec

=============================================================================
