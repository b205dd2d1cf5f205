-------------------------- MODULE ImportantMemory ---------------------------
(***************************************************************************)
(* What the smart-memory hook promises, with no awaits: when a session     *)
(* starts a new conversation the one it leaves is queued; a queued         *)
(* conversation is later either filed in memory/important, atomically and *)
(* once, as the memory of its own transcript dated by the /new event, or   *)
(* dropped, which is allowed only when it is not important, or lost when  *)
(* a file-system call of its handling failed.  Which transcripts are important and what their        *)
(* memory file is are parameters (Important, Memory), so the abstraction  *)
(* fixes the protocol and leaves the classification to the implementation.*)
(***************************************************************************)
EXTENDS Naturals, Sequences, FiniteSets

CONSTANTS
    Sessions, Entries, MaxDay, MaxConvs, MaxEntries, FaultyFs,
    Important(_),   \* whether a transcript is worth a memory file
    Memory(_, _, _) \* conversation, transcript, day -> [name, content]

VARIABLES
    now,      \* the current day
    tr,       \* conversation id -> its transcript lines
    cur,      \* session key -> the conversation it is in
    started,  \* conversations started so far
    files,    \* memory/important: file name -> content
    ended,    \* <<conversation, day>> pairs left by /new and not yet handled
    lost      \* the pairs whose handling failed on a file-system call

vars == <<now, tr, cur, started, files, ended, lost>>

Init ==
    /\ now = 1
    /\ cur \in [Sessions -> 1 .. Cardinality(Sessions)]
    /\ \A s, t \in Sessions : cur[s] = cur[t] => s = t
    /\ started = Cardinality(Sessions)
    /\ tr = [c \in 1 .. MaxConvs |-> <<>>]
    /\ files = [n \in {} |-> {}]
    /\ ended = {}
    /\ lost = {}

Chat(s, e) ==
    /\ Len(tr[cur[s]]) < MaxEntries
    /\ tr' = [tr EXCEPT ![cur[s]] = Append(@, e)]
    /\ UNCHANGED <<now, cur, started, files, ended, lost>>

Tick ==
    /\ now < MaxDay
    /\ now' = now + 1
    /\ UNCHANGED <<tr, cur, started, files, ended, lost>>

(* /new: the session moves on and the conversation it left is queued.     *)
End(s) ==
    /\ started < MaxConvs
    /\ started' = started + 1
    /\ cur' = [cur EXCEPT ![s] = started + 1]
    /\ ended' = ended \cup {<<cur[s], now>>}
    /\ UNCHANGED <<now, tr, files, lost>>

(* A queued important conversation is filed under its memory's name.      *)
Save(c, d) ==
    LET f == Memory(c, tr[c], d)
    IN  /\ <<c, d>> \in ended
        /\ Important(tr[c])
        /\ files' = [n \in DOMAIN files \cup {f.name} |->
                       IF n = f.name THEN f.content ELSE files[n]]
        /\ ended' = ended \ {<<c, d>>}
        /\ UNCHANGED <<now, tr, cur, started, lost>>

(* A queued conversation that is not important is dropped.               *)
Skip(c, d) ==
    /\ <<c, d>> \in ended
    /\ ~Important(tr[c])
    /\ ended' = ended \ {<<c, d>>}
    /\ UNCHANGED <<now, tr, cur, started, files, lost>>

(* A file-system call made for a queued conversation fails: it is lost,   *)
(* and the loss is recorded.                                              *)
Lose(c, d) ==
    /\ FaultyFs
    /\ <<c, d>> \in ended
    /\ ended' = ended \ {<<c, d>>}
    /\ lost' = lost \cup {<<c, d>>}
    /\ UNCHANGED <<now, tr, cur, started, files>>

Next ==
    \/ \E s \in Sessions, e \in Entries : Chat(s, e)
    \/ Tick
    \/ \E s \in Sessions : End(s)
    \/ \E p \in ended : Save(p[1], p[2]) \/ Skip(p[1], p[2]) \/ Lose(p[1], p[2])

Spec == Init /\ [][Next]_vars

=============================================================================
