------------------------------ MODULE Chunker -------------------------------
(***************************************************************************)
(* TextChunker.chunk_text: a window slides over the text of a document.    *)
(* Each window is cut after the best separator in its last `overlap'       *)
(* characters, becomes a chunk without the blanks around it, and the next  *)
(* window starts `overlap' characters before the cut.  Positions are       *)
(* Python's: a slice is from its first position to before its last.        *)
(***************************************************************************)
EXTENDS Integers, Sequences

CONSTANTS
  Texts,   \* the texts of documents, as sequences of characters
  Windows  \* configured chunk_size and chunk_overlap

\* the characters the chunker tells apart
Char == {"letter", "dot", "space", "newline"}
Blank == {"space", "newline"}

ASSUME TextAssumption == Texts \subseteq Seq(Char)
\* The constructor refuses an overlap that is not smaller than the window.  It takes a
\* negative one, which is left out: the windows would leave out text between them.
ASSUME WindowAssumption ==
  \A w \in Windows : w.size \in Nat /\ w.overlap \in Nat /\ w.overlap < w.size

VARIABLES
  text,    \* the document
  window,  \* its chunker
  start,   \* where the current window starts
  chunks,  \* made so far
  done     \* has chunk_text returned?

vars == <<text, window, start, chunks, done>>

TextLen == Len(text)
CharAt(p) == text[p + 1]
MaxOf(a, b) == IF a > b THEN a ELSE b
MinOf(a, b) == IF a < b THEN a ELSE b

-----------------------------------------------------------------------------

\* split_candidates, best first
Separators ==
  <<<<"newline", "newline">>, <<"newline">>, <<"dot", "space">>, <<"space">>>>

\* where a separator occurs inside a slice of the text
Occurrences(sep, first, last) ==
  {p \in first .. last - Len(sep) : \A i \in 1 .. Len(sep) : CharAt(p + i - 1) = sep[i]}

WindowEnd == start + window.size

\* mutant: the whole window is searched for a separator
RegionOfWindow == start

\* search_region: the last characters of the window
Region == MaxOf(start, WindowEnd - window.overlap)

\* the end of the last occurrence of the first separator that occurs at all
SplitPoints ==
  {c \in Region + 1 .. WindowEnd : \E i \in DOMAIN Separators :
    LET sep == Separators[i] IN
    /\ c - Len(sep) \in Occurrences(sep, Region, WindowEnd)
    /\ \A p \in Occurrences(sep, Region, WindowEnd) : p <= c - Len(sep)
    /\ \A j \in 1 .. i - 1 : Occurrences(Separators[j], Region, WindowEnd) = {}}

Cut ==
  IF WindowEnd < TextLen /\ SplitPoints # {} THEN CHOOSE c \in SplitPoints : TRUE
  ELSE WindowEnd

\* the positions between first and last that strip() keeps
Inked(first, last) == {p \in first .. MinOf(last, TextLen) - 1 : CharAt(p) \notin Blank}

\* a chunk from one inked position to another
IsStripped(chunk, first, last) ==
  /\ chunk.from \in Inked(first, last) /\ chunk.to - 1 \in Inked(first, last)
  /\ \A p \in Inked(first, last) : chunk.from <= p /\ p < chunk.to

Chunk == [from : 0 .. TextLen, to : 0 .. TextLen]

\* mutant: the next window starts where this one was cut
RestartAtCut == MaxOf(start + 1, Cut)

\* mutant: nothing keeps the next window from starting where this one did
RestartStuck == MaxOf(start, Cut - window.overlap)

Restart == MaxOf(start + 1, Cut - window.overlap)

-----------------------------------------------------------------------------

Init ==
  /\ text \in Texts /\ window \in Windows
  /\ start = 0 /\ chunks = <<>>
  /\ done = FALSE

\* a document without text has no chunks
ReturnNothing ==
  /\ ~done /\ start = 0 /\ chunks = <<>>
  /\ Inked(0, TextLen) = {}
  /\ done' = TRUE
  /\ UNCHANGED <<text, window, start, chunks>>

\* a window is cut; blank ones make no chunk
Slide ==
  /\ ~done /\ start < TextLen
  /\ Inked(0, TextLen) # {}
  /\ IF Inked(start, Cut) = {} THEN chunks' = chunks
     ELSE \E chunk \in Chunk :
            IsStripped(chunk, start, Cut) /\ chunks' = Append(chunks, chunk)
  /\ IF Cut >= TextLen THEN done' = TRUE /\ start' = start
     ELSE done' = FALSE /\ start' = Restart
  /\ UNCHANGED <<text, window>>

Next == ReturnNothing \/ Slide

\* the loop runs to its end on the thread that called it
Spec == Init /\ [][Next]_vars /\ WF_vars(Next)

-----------------------------------------------------------------------------

\* Types, and the number of chunks of a text: every window starts later than the
\* one before it and makes at most one chunk, so a text of n characters has at
\* most n (chunk_text embeds and stores each of them).
TypeOK ==
  /\ text \in Texts /\ window \in Windows
  /\ start \in 0 .. TextLen
  /\ chunks \in Seq(Chunk)
  /\ Len(chunks) <= start + 1
  /\ done \in BOOLEAN

\* where the windows that come next cannot look any more
Passed == IF done THEN TextLen ELSE start

\* A stretch without blanks that is no longer than the overlap.
Phrase(first, last) ==
  /\ last - first \in 1 .. MaxOf(1, window.overlap)
  /\ \A p \in first .. last - 1 : CharAt(p) \notin Blank

Holds(chunk, first, last) == chunk.from <= first /\ last <= chunk.to

\* No word is lost at a cut: every stretch without blanks that is no longer than
\* the overlap and begins before the window lies whole in one chunk, wherever the
\* windows before it were cut and also when the only place to cut is inside a
\* longer word (chunker.py:34-43 and the restart at :69); so a passage that names
\* it can be found.
PhrasesWhole ==
  \A first \in 0 .. Passed - 1, last \in 0 .. TextLen :
    Phrase(first, last) => \E i \in DOMAIN chunks : Holds(chunks[i], first, last)

\* No step starts a window less than one character, or less than the window
\* without two overlaps, after the last one: the split inside the overlap and the
\* restart before the cut never add up to a crawl, so the number of embeddings is
\* proportional to the text (chunker.py:36, :69).
WindowsAdvance ==
  [][start' # start =>
       start' - start >= MaxOf(1, window.size - 2 * window.overlap)]_vars

\* chunk_text returns, whatever the text: a loop that restarts a window before the
\* place where it was cut need not (chunker.py:69).
ChunkingEnds == <>done
=============================================================================
