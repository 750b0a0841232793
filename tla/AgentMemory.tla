---------------------------- MODULE AgentMemory ----------------------------
(***************************************************************************)
(* The agent's memory across sessions (src/src/services/agent_memory.py):  *)
(* a list kept in the process, a JSONL file that store appends to and      *)
(* compact rewrites, and crashes and restarts between their steps.         *)
(*                                                                         *)
(* Memories are numbered as they come.  A line of the file is the number   *)
(* of its memory, Garbage when it does not parse, or Undecodable when it   *)
(* is not UTF-8; torn says that the last line has no newline, so that the  *)
(* next append lengthens it.                                               *)
(***************************************************************************)
EXTENDS Integers, Sequences, FiniteSets

CONSTANTS
  MaxEntries,
  SplitCharacters,        \* whether a torn write may end inside a character
  MaxMemories, MaxFaults  \* bounds of the check

Garbage == 0
Undecodable == -1
Fragments == {Garbage} \cup (IF SplitCharacters THEN {Undecodable} ELSE {})

VARIABLES
  phase,    \* "idle", "compacting" (the file is open for writing) or "down"
  entries,  \* _entries
  disk, torn,
  rest,     \* what a running compaction has still to write
  dirty, index,  \* _dirty, and the entries the similarity index was built from
  stored,   \* the memories whose store returned or whose line is complete, in order
  tears, failures,  \* torn appends, and appends whose failure was swallowed
  cut,      \* whether a compaction was interrupted or failed
  count     \* memories so far
process == <<entries, dirty, index>>
file == <<disk, torn>>
ghosts == <<stored, tears, failures, cut>>
vars == <<phase, process, file, rest, ghosts, count>>

Last(s, n) == SubSeq(s, IF Len(s) > n THEN Len(s) - n + 1 ELSE 1, Len(s))
\* The lines that parse.
Memories(lines) ==
  LET parsed[n \in 0..Len(lines)] ==
        IF n = 0 THEN <<>>
        ELSE IF lines[n] > 0 THEN Append(parsed[n - 1], lines[n]) ELSE parsed[n - 1]
  IN  parsed[Len(lines)]
FirstUndecodable ==
  IF \E i \in DOMAIN disk : disk[i] = Undecodable
  THEN CHOOSE i \in DOMAIN disk :
         disk[i] = Undecodable /\ \A k \in 1..i - 1 : disk[k] # Undecodable
  ELSE 0

Init ==
  /\ phase = "idle"
  /\ entries = <<>> /\ dirty = TRUE /\ index = <<>>
  /\ disk = <<>> /\ torn = FALSE /\ rest = <<>>
  /\ stored = <<>> /\ tears = 0 /\ failures = 0 /\ cut = FALSE
  /\ count = 0

Faults == tears + failures

\* What the file becomes when line is written at its end: a line behind a torn
\* one makes one line with it, which does not parse.
Written(line) ==
  IF ~torn THEN Append(disk, line)
  ELSE [disk EXCEPT ![Len(disk)] =
          IF Undecodable \in {line, disk[Len(disk)]} THEN Undecodable ELSE Garbage]

\* A mutant of AppendLine: a torn line swallows the append and stays torn.
AppendStaysTorn(m) == disk' = Written(m) /\ UNCHANGED torn

\* f.write(json + "\n")
AppendLine(m) == disk' = Written(m) /\ torn' = FALSE

\* A write that ends early leaves one of the given lines, without its newline.
Tear(lines) == \E line \in lines : disk' = Written(line) /\ torn' = TRUE

Remember(m) ==
  /\ entries' = Last(Append(entries, m), MaxEntries)
  /\ dirty' = TRUE
  /\ UNCHANGED index

Store ==
  /\ phase = "idle" /\ count < MaxMemories
  /\ count' = count + 1
  /\ Remember(count')
  /\ \/ AppendLine(count') /\ UNCHANGED failures
        /\ UNCHANGED tears
     \/ /\ Faults < MaxFaults /\ failures' = failures + 1   \* _persist logs and goes on
        /\ \/ UNCHANGED <<file, tears>>
           \/ Tear(Fragments) /\ tears' = tears + 1
  /\ stored' = Append(stored, count')
  /\ UNCHANGED <<phase, rest, cut>>

Recall ==
  /\ phase = "idle" /\ entries # <<>>
  /\ IF dirty THEN index' = entries /\ dirty' = FALSE ELSE UNCHANGED <<index, dirty>>
  /\ UNCHANGED <<phase, entries, file, rest, ghosts, count>>

\* compact: the file is truncated as it is opened, written, and closed.
Compact ==
  /\ phase = "idle" /\ phase' = "compacting"
  /\ disk' = <<>> /\ torn' = FALSE
  /\ rest' = entries
  /\ UNCHANGED <<process, ghosts, count>>

CompactWrites ==
  /\ phase = "compacting" /\ rest # <<>>
  /\ disk' = Append(disk, Head(rest)) /\ rest' = Tail(rest)
  /\ UNCHANGED <<phase, process, torn, ghosts, count>>

CompactReturns ==
  /\ phase = "compacting" /\ rest = <<>>
  /\ phase' = "idle"
  /\ UNCHANGED <<process, file, rest, ghosts, count>>

\* A write fails, is logged, and compact returns the count it meant to write.
CompactFails ==
  /\ phase = "compacting" /\ rest # <<>>
  /\ phase' = "idle" /\ rest' = <<>> /\ cut' = TRUE
  /\ UNCHANGED file \/ Tear(Fragments)
  /\ UNCHANGED <<process, stored, tears, failures, count>>

\* The process dies: idle, in a compaction, or with part of an append written.
Crash ==
  /\ phase # "down" /\ phase' = "down"
  /\ entries' = <<>> /\ dirty' = TRUE /\ index' = <<>>
  /\ cut' = (cut \/ (phase = "compacting" /\ rest # <<>>))
  /\ rest' = <<>>
  /\ UNCHANGED <<file, stored, tears, failures, count>>

CrashInCompact ==
  /\ phase = "compacting" /\ rest # <<>> /\ phase' = "down"
  /\ Tear(Fragments \cup {Head(rest)})
  /\ entries' = <<>> /\ dirty' = TRUE /\ index' = <<>>
  /\ cut' = TRUE /\ rest' = <<>>
  /\ UNCHANGED <<stored, tears, failures, count>>

\* The append reaches the file in part, or whole but for its newline, or whole.
CrashInStore ==
  /\ phase = "idle" /\ phase' = "down"
  /\ count < MaxMemories /\ count' = count + 1
  /\ \/ /\ Faults < MaxFaults /\ tears' = tears + 1
        /\ Tear(Fragments \cup {count'})
        /\ UNCHANGED stored
     \/ AppendLine(count') /\ stored' = Append(stored, count') /\ UNCHANGED tears
  /\ entries' = <<>> /\ dirty' = TRUE /\ index' = <<>>
  /\ UNCHANGED <<rest, failures, cut>>

\* _load: malformed lines are skipped and the last MaxEntries are kept.  Reading
\* past a line that is not UTF-8 raises: what was read before stays, untrimmed.
Loaded(readable) == Last(readable, MaxEntries)
Restart ==
  /\ phase = "down" /\ phase' = "idle"
  /\ IF FirstUndecodable = 0 THEN entries' = Loaded(Memories(disk))
     ELSE \E n \in 0..FirstUndecodable - 1 : entries' = Memories(SubSeq(disk, 1, n))
  /\ dirty' = TRUE
  /\ UNCHANGED <<index, file, rest, ghosts, count>>

Next ==
  \/ Store \/ Recall \/ Compact \/ CompactWrites \/ CompactReturns \/ CompactFails
  \/ Crash \/ CrashInStore \/ CrashInCompact \/ Restart

Spec == Init /\ [][Next]_vars

-----------------------------------------------------------------------------

Ids(s) == {s[i] : i \in DOMAIN s}

\* Only faults lose memories.  Without them the process remembers exactly the
\* latest ones, whatever crashes, restarts and compactions happened in between; a
\* torn append costs at most the memory stored next and an append that fails only
\* itself, so of the latest memories the file lacks no more than there were faults.
OnlyFaultsLose ==
  ~cut =>
    /\ phase # "down" /\ Faults = 0 => entries = Last(stored, MaxEntries)
    /\ phase # "compacting" => Cardinality(Ids(Last(stored, MaxEntries)) \ Ids(disk)) <= Faults

\* agent_memory.py: "persistent memory that survives server restarts".
SurvivesRestarts == phase = "idle" /\ Faults = 0 => entries = Last(stored, MaxEntries)

\* agent_memory.py: "skip malformed entries", of the loop over the lines.
MalformedAreSkipped ==
  [][Restart => Ids(Last(Memories(disk), MaxEntries)) \subseteq Ids(entries')]_vars
=============================================================================
