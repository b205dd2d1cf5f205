--------------------------- MODULE RollingMemory ----------------------------
(***************************************************************************)
(* Rolling memory hook: rollingMemoryHandler and its helpers, lines        *)
(* 191-455 of src/cron/isolated-agent/delivery-target.ts.                  *)
(*                                                                         *)
(* On command:new or session:end a handler invocation awaits               *)
(* fs.mkdir(memory/), then synchronously loads sessions.json, keeps the    *)
(* sessions whose updatedAt is inside the retention window, reads each     *)
(* one's transcript with awaits (fs.access, fs.readFile), groups the       *)
(* parsed messages by date and overwrites memory/rolling-7d.md.  Nothing   *)
(* serialises invocations: two events are two async calls whose awaits     *)
(* interleave with each other and with the gateway appending to            *)
(* transcripts and updating sessions.json.                                 *)
(*                                                                         *)
(* Time is counted in days.  A transcript line is abstracted to whether    *)
(* the parser keeps it (type message, role user or assistant, text present *)
(* and not a "/" command) and its timestamp, if any; a message is named by *)
(* its session and line number.  MaxTranscript counts whole lines: the     *)
(* line cut by raw.slice is malformed JSON and skipped by the parser.      *)
(***************************************************************************)
EXTENDS Naturals, Integers, Sequences, FiniteSets, SequencesExt

CONSTANTS
    Sessions,       \* session keys of sessions.json
    SessionOrder,   \* Object.entries order of those keys
    Handlers,       \* concurrent invocations of the hook
    MaxDay,         \* days are 1..MaxDay
    RetentionDays,  \* `days` from the hook config (default 7)
    MaxTranscript,  \* MAX_TRANSCRIPT_CHARS, in whole lines
    MaxShown,       \* messages shown per date section (50)
    MaxLines,       \* bound on a transcript's length
    MaxChats,       \* bound on the number of appended lines
    FaultyFs,       \* whether fs calls may reject
    None

ASSUME SessionOrder \in Seq(Sessions) /\ ToSet(SessionOrder) = Sessions
ASSUME RetentionDays \in Nat \ {0} /\ MaxShown \in Nat \ {0}

Days == 1 .. MaxDay
Ids == Sessions \X (1 .. MaxLines)
Line == [keep : BOOLEAN, ts : Days \cup {None}]

Idle == [pc |-> "idle", at |-> 1, snap |-> [k \in Sessions |-> None],
         pending |-> <<>>, byDate |-> [d \in Days |-> <<>>],
         snapLen |-> [k \in Sessions |-> 0], version |-> 0, failed |-> {}]

VARIABLES
    now,         \* the current day
    store,       \* sessions.json: key -> updatedAt, or None when absent
    transcript,  \* key -> the session's JSONL lines
    version,     \* number of lines appended so far
    file,        \* memory/rolling-7d.md, or None before the first write
    hs,          \* per invocation: its await point and local variables
    newest       \* the newest snapshot version any invocation has written

vars == <<now, store, transcript, version, file, hs, newest>>

Sections == [Days -> Seq(Ids)]
SummaryOK(f) ==
    /\ f.at \in Days /\ f.version \in 0 .. MaxChats
    /\ DOMAIN f.sections \subseteq Days
    /\ \A d \in DOMAIN f.sections :
         f.sections[d] \in [shown : Seq(Ids), omitted : Nat]

TypeOK ==
    /\ now \in Days
    /\ store \in [Sessions -> Days \cup {None}]
    /\ transcript \in [Sessions -> BoundedSeq(Line, MaxLines)]
    /\ version \in 0 .. MaxChats
    /\ file = None \/ SummaryOK(file)
    /\ newest \in 0 .. MaxChats
    /\ \A h \in Handlers :
         /\ hs[h].pc \in {"idle", "mkdir", "collect"}
         /\ hs[h].at \in Days
         /\ hs[h].snap \in [Sessions -> Days \cup {None}]
         /\ hs[h].pending \in Seq(Sessions)
         /\ hs[h].byDate \in Sections

-----------------------------------------------------------------------------
(* Lines 292-307: sessions.json as readFileSync and JSON.parse see it.    *)
(* A read or parse error (a missing file, or one the gateway is rewriting) *)
(* is caught and the store is taken to be {}.                             *)
loadSessionStoreSimple ==
    {store} \cup (IF FaultyFs THEN {[k \in Sessions |-> None]} ELSE {})

(* Line 319: cutoff = now - days * 24h.                                   *)
Cutoff(at) == at - RetentionDays

(* Mutant: sessions updated exactly at the cutoff are dropped.            *)
InWindow_strict(updatedAt, cutoff) == updatedAt # None /\ updatedAt > cutoff

(* Line 325: a session is skipped without updatedAt or before the cutoff. *)
InWindow(updatedAt, cutoff) == updatedAt # None /\ updatedAt >= cutoff

(* Line 238: only the head of the file is read.                           *)
Truncate(tr) == SubSeq(tr, 1, IF Len(tr) > MaxTranscript
                               THEN MaxTranscript ELSE Len(tr))

(* Lines 232-277: the kept messages of the truncated transcript, dated by *)
(* their timestamp or else by the session's updatedAt.                    *)
parseTranscriptMessages(k, tr, fallbackDate) ==
    LET content == Truncate(tr)
        parsed == [i \in 1 .. Len(content) |->
                     [id |-> <<k, i>>, keep |-> content[i].keep,
                      date |-> IF content[i].ts # None THEN content[i].ts
                               ELSE fallbackDate]]
    IN  SelectSeq(parsed, LAMBDA m : m.keep)

(* Lines 340-344: append each message to its date's bucket.               *)
AddToBuckets(byDate, msgs) ==
    [d \in Days |-> byDate[d] \o
        [i \in 1 .. Len(SelectSeq(msgs, LAMBDA m : m.date = d)) |->
            SelectSeq(msgs, LAMBDA m : m.date = d)[i].id]]

(* Mutant: the omitted count is computed the wrong way round.            *)
buildRollingMarkdown_swapped(byDate) ==
    [d \in { d \in Days : byDate[d] # <<>> } |->
        [shown |-> SubSeq(byDate[d], 1, IF Len(byDate[d]) > MaxShown
                                         THEN MaxShown ELSE Len(byDate[d])),
         omitted |-> MaxShown - Len(byDate[d])]]

(* Lines 354-394: one section per non-empty date, the first 50 messages   *)
(* shown and the rest counted as omitted.  Headings, ordering of the      *)
(* sections and the text of each bullet are layout.                       *)
buildRollingMarkdown(byDate) ==
    [d \in { d \in Days : byDate[d] # <<>> } |->
        [shown |-> SubSeq(byDate[d], 1, IF Len(byDate[d]) > MaxShown
                                         THEN MaxShown ELSE Len(byDate[d])),
         omitted |-> IF Len(byDate[d]) > MaxShown
                     THEN Len(byDate[d]) - MaxShown ELSE 0]]

-----------------------------------------------------------------------------
Init ==
    /\ now = 1
    /\ store = [k \in Sessions |-> None]
    /\ transcript = [k \in Sessions |-> <<>>]
    /\ version = 0
    /\ file = None
    /\ hs = [h \in Handlers |-> Idle]
    /\ newest = 0

(* The gateway records a line of a conversation: appends it to the        *)
(* session's transcript and bumps the session's updatedAt.                *)
Chat(k, keep, stamped) ==
    /\ Len(transcript[k]) < MaxLines /\ version < MaxChats
    /\ transcript' = [transcript EXCEPT
                        ![k] = Append(@, [keep |-> keep,
                                          ts |-> IF stamped THEN now ELSE None])]
    /\ store' = [store EXCEPT ![k] = now]
    /\ version' = version + 1
    /\ UNCHANGED <<now, file, hs, newest>>

Tick ==
    /\ now < MaxDay
    /\ now' = now + 1
    /\ UNCHANGED <<store, transcript, version, file, hs, newest>>

(* Lines 402-419: a command:new or session:end event starts an            *)
(* invocation, which awaits fs.mkdir; other events return at once.        *)
Trigger(h) ==
    /\ hs[h].pc = "idle"
    /\ hs' = [hs EXCEPT ![h] = [Idle EXCEPT !.pc = "mkdir", !.at = now]]
    /\ UNCHANGED <<now, store, transcript, version, file, newest>>

(* Lines 420-438, 318-323: mkdir resolves; the store is loaded and the    *)
(* sessions inside the window are queued in store order.                  *)
LoadStore(h) ==
    LET cutoff == Cutoff(hs[h].at)
    IN  \E st \in loadSessionStoreSimple :
        /\ hs[h].pc = "mkdir"
        /\ hs' = [hs EXCEPT
                    ![h].pc = "collect",
                    ![h].snap = st,
                    ![h].pending = SelectSeq(SessionOrder,
                                             LAMBDA k : InWindow(st[k], cutoff)),
                    ![h].snapLen = [k \in Sessions |-> Len(transcript[k])],
                    ![h].version = version]
        /\ UNCHANGED <<now, store, transcript, version, file, newest>>

(* Lines 327-345: fs.access and fs.readFile of the next queued session    *)
(* resolve; its messages are bucketed by date.  A rejected access or read *)
(* is caught (lines 274-276, 333-335) and the session contributes         *)
(* nothing, as does an entry without sessionFile (line 330).              *)
ReadTranscript(h) ==
    LET k == Head(hs[h].pending)
        msgs == parseTranscriptMessages(k, transcript[k], hs[h].snap[k])
    IN  /\ hs[h].pc = "collect"
        /\ hs[h].pending # <<>>
        /\ \/ hs' = [hs EXCEPT ![h].pending = Tail(@),
                               ![h].byDate = AddToBuckets(@, msgs)]
           \/ FaultyFs /\ hs' = [hs EXCEPT ![h].pending = Tail(@),
                                           ![h].failed = @ \cup {k}]
        /\ UNCHANGED <<now, store, transcript, version, file, newest>>

(* Lines 441-443: the summary is built and fs.writeFile resolves.         *)
Write(h) ==
    /\ hs[h].pc = "collect"
    /\ hs[h].pending = <<>>
    /\ file' = [at |-> hs[h].at, version |-> hs[h].version,
                sections |-> buildRollingMarkdown(hs[h].byDate)]
    /\ newest' = IF hs[h].version > newest THEN hs[h].version ELSE newest
    /\ hs' = [hs EXCEPT ![h] = Idle]
    /\ UNCHANGED <<now, store, transcript, version>>

(* Lines 450-452: mkdir or writeFile rejects; the error is logged and the *)
(* rolling file is left as it was.                                        *)
Fail(h) ==
    /\ FaultyFs
    /\ hs[h].pc \in {"mkdir", "collect"}
    /\ hs[h].pc = "collect" => hs[h].pending = <<>>
    /\ hs' = [hs EXCEPT ![h] = Idle]
    /\ UNCHANGED <<now, store, transcript, version, file, newest>>

Step(h) == LoadStore(h) \/ ReadTranscript(h) \/ Write(h) \/ Fail(h)

Next ==
    \/ \E k \in Sessions, keep, stamped \in BOOLEAN : Chat(k, keep, stamped)
    \/ Tick
    \/ \E h \in Handlers : Trigger(h) \/ Step(h)

Spec == Init /\ [][Next]_vars

-----------------------------------------------------------------------------
(* Collection (lines 313-348): when an invocation has read every queued   *)
(* transcript, it holds, under the right date, every kept message within  *)
(* the read bound of every session its snapshot put inside the window,    *)
(* although transcripts and sessions.json changed under its awaits; and   *)
(* it holds nothing else.  A session whose read was rejected contributes *)
(* nothing (the catch at lines 274-276).                                  *)
CollectsEveryWindowMessage ==
    \A h \in Handlers :
      hs[h].pc = "collect" /\ hs[h].pending = <<>> =>
        LET snap == hs[h].snap
            inWindow(k) == /\ snap[k] # None
                           /\ snap[k] >= hs[h].at - RetentionDays
                           /\ k \notin hs[h].failed
            bound(k) == IF inWindow(k)
                        THEN IF hs[h].snapLen[k] < MaxTranscript
                             THEN hs[h].snapLen[k] ELSE MaxTranscript
                        ELSE 0
            dateOf(k, i) == IF transcript[k][i].ts # None
                            THEN transcript[k][i].ts ELSE snap[k]
        IN  /\ \A k \in Sessions : \A i \in 1 .. bound(k) :
                 transcript[k][i].keep =>
                   <<k, i>> \in ToSet(hs[h].byDate[dateOf(k, i)])
            /\ \A d \in Days : \A j \in 1 .. Len(hs[h].byDate[d]) :
                 LET id == hs[h].byDate[d][j]
                 IN  /\ inWindow(id[1])
                     /\ id[2] <= MaxTranscript
                     /\ transcript[id[1]][id[2]].keep
                     /\ d = dateOf(id[1], id[2])

(* HOOK.md and the test "10-day simulation: only retains last 7 days":    *)
(* the rolling file holds only conversations of the last `days` days.     *)
(* The code filters sessions by updatedAt (line 325), not messages by     *)
(* their date.                                                            *)
RetentionWindow ==
    file # None =>
        \A d \in DOMAIN file.sections : d >= file.at - RetentionDays

(* HOOK.md: rolling-7d.md is overwritten "with the latest" summary: a     *)
(* summary built from an older snapshot of the sessions never replaces    *)
(* one built from a newer snapshot.                                       *)
LatestSummaryWins ==
    file # None => file.version = newest

=============================================================================
