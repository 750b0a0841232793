---------------------------- MODULE ExperienceBuffer ----------------------------
(***************************************************************************)
(* The ring of past analyses (src/src/services/experience_buffer.py) and   *)
(* the similarity index that find_similar builds when it is asked.         *)
(*                                                                         *)
(* An entry is numbered as it comes; Wordless entries have a query of stop *)
(* words only, of which TF-IDF makes no vocabulary.                        *)
(***************************************************************************)
EXTENDS Integers, Sequences, FiniteSets

CONSTANTS
  MaxEntries,
  MaxAdded     \* bound of the check

VARIABLES
  experiences, \* _entries
  wordless,    \* those of the entries whose query has no words
  embeds,      \* _use_embeddings, which a failed encoding ends for good
  index,       \* the entries whose queries were encoded or vectorised, or none
  stale,       \* _dirty
  answer,      \* of the last search: pairs of an entry and whose similarity it got
  added
vars == <<experiences, wordless, embeds, index, stale, answer, added>>

Init ==
  /\ experiences = <<>> /\ wordless = {} /\ embeds \in BOOLEAN
  /\ index = <<>> /\ stale = TRUE
  /\ answer = {} /\ added = 0

Latest(s, n) == SubSeq(s, IF Len(s) > n THEN Len(s) - n + 1 ELSE 1, Len(s))

\* deque(maxlen): the oldest leaves as the newest comes.
AddExperience(words) ==
  /\ added < MaxAdded /\ added' = added + 1
  /\ experiences' = Latest(Append(experiences, added'), MaxEntries)
  /\ wordless' = IF words THEN wordless ELSE wordless \cup {added'}
  /\ stale' = TRUE
  /\ answer' = {}
  /\ UNCHANGED <<embeds, index>>

\* A mutant of Vectorised: the index counts as fresh before it is built.
VectorisedEarly == stale' = FALSE /\ UNCHANGED index
\* The vectoriser raises on entries without a word: the index stays stale, and
\* the error is the caller's.
Vectorised == UNCHANGED <<stale, index>>

Wordless == \A i \in DOMAIN experiences : experiences[i] \in wordless

\* _rebuild_index: embeddings while encoding succeeds, TF-IDF afterwards.
RebuildIndex ==
  \/ /\ embeds /\ UNCHANGED embeds
     /\ index' = experiences /\ stale' = FALSE
  \/ /\ embeds' = FALSE
     /\ \/ Wordless /\ Vectorised
        \/ ~Wordless /\ index' = experiences /\ stale' = FALSE
        \/ index' = <<>> /\ stale' = FALSE   \* scikit-learn is not installed

\* _rank_results reads the similarities by the position of the entries; a
\* position beyond them ends the search without a result.
Ranked(entries, scored) ==
  IF Len(scored) < Len(entries) THEN {} ELSE {<<entries[i], scored[i]>> : i \in DOMAIN entries}

FindSimilar ==
  /\ experiences # <<>>
  /\ IF stale THEN RebuildIndex ELSE UNCHANGED <<index, stale, embeds>>
  /\ answer' = IF stale' THEN {} ELSE Ranked(experiences, index')
  /\ UNCHANGED <<experiences, wordless, added>>

Clear ==
  /\ experiences' = <<>> /\ index' = <<>> /\ stale' = TRUE /\ answer' = {}
  /\ UNCHANGED <<wordless, embeds, added>>

Next == (\E words \in BOOLEAN : AddExperience(words)) \/ FindSimilar \/ Clear

Spec == Init /\ [][Next]_vars

-----------------------------------------------------------------------------

\* An entry is returned with the similarity of its own query, however often the
\* full ring has moved on, the encoder failed or the vectoriser raised since the
\* index was built.
OwnScores == \A pair \in answer : pair[1] = pair[2]
===============================================================================
