--------------------------- MODULE ChunkerProofs ----------------------------
(***************************************************************************)
(* Proofs about Chunker, for every text, every window and every overlap.   *)
(***************************************************************************)
EXTENDS Chunker, FiniteSums, TLAPS

-----------------------------------------------------------------------------
(***************************************************************************)
(* Cuts.                                                                   *)
(***************************************************************************)

\* what holds of the parameters and of the position of the window
Placed ==
  /\ text \in Texts /\ window \in Windows
  /\ start \in 0 .. TextLen

\* the parameters are numbers, and the overlap is smaller than the window
LEMMA PlacedNumbers ==
  ASSUME Placed
  PROVE  /\ text \in Seq(Char) /\ TextLen \in Nat /\ start \in Nat
         /\ window.size \in Nat /\ window.overlap \in Nat
         /\ window.overlap < window.size
         /\ start <= TextLen
<1>1. text \in Seq(Char)
  BY TextAssumption DEF Placed
<1>2. TextLen \in Nat
  BY <1>1 DEF TextLen
<1>3. window.size \in Nat /\ window.overlap \in Nat /\ window.overlap < window.size
  BY WindowAssumption DEF Placed
<1> QED
  BY <1>1, <1>2, <1>3 DEF Placed

\* the search region lies inside the window
LEMMA RegionInside ==
  ASSUME Placed
  PROVE  /\ WindowEnd \in Nat /\ Region \in Nat
         /\ start <= Region /\ WindowEnd - window.overlap <= Region /\ Region <= WindowEnd
         /\ start + 1 <= WindowEnd
<1>1. /\ start \in Nat /\ window.size \in Nat /\ window.overlap \in Nat
      /\ window.overlap < window.size
  BY PlacedNumbers
<1> QED
  BY <1>1 DEF WindowEnd, Region, MaxOf

\* every separator ends in a blank
LEMMA SeparatorsEndBlank ==
  ASSUME NEW i \in DOMAIN Separators
  PROVE  /\ Len(Separators[i]) \in {1, 2}
         /\ Separators[i][Len(Separators[i])] \in Blank
BY DEF Separators, Blank

\* a split follows a blank and is inside the window
LEMMA SplitFollowsBlank ==
  ASSUME Placed, NEW c \in SplitPoints
  PROVE  c \in Region + 1 .. WindowEnd /\ CharAt(c - 1) \in Blank
<1>1. PICK i \in DOMAIN Separators :
        c - Len(Separators[i]) \in Occurrences(Separators[i], Region, WindowEnd)
  BY DEF SplitPoints
<1>2. c \in Region + 1 .. WindowEnd
  BY DEF SplitPoints
<1>3. Region \in Nat /\ WindowEnd \in Nat
  BY RegionInside
<1>4. Len(Separators[i]) \in {1, 2}
  BY SeparatorsEndBlank
<1>5. CharAt(c - Len(Separators[i]) + Len(Separators[i]) - 1)
        = Separators[i][Len(Separators[i])]
  <2> DEFINE n == Len(Separators[i])
             p == c - n
  <2>1. \A k \in 1 .. n : CharAt(p + k - 1) = Separators[i][k]
    BY <1>1 DEF Occurrences
  <2>2. n \in 1 .. n
    BY <1>4
  <2> QED
    BY <2>1, <2>2
<1>6. c - Len(Separators[i]) + Len(Separators[i]) - 1 = c - 1
  BY <1>2, <1>3, <1>4
<1> QED
  BY <1>2, <1>5, <1>6, SeparatorsEndBlank

\* a window is cut where it ends, or after a blank among its last characters
LEMMA CutIsPlaced ==
  ASSUME Placed
  PROVE  /\ Cut \in Nat
         /\ start + 1 <= Cut /\ WindowEnd - window.overlap <= Cut
         /\ Cut = WindowEnd \/ CharAt(Cut - 1) \in Blank
<1>1. /\ WindowEnd \in Nat /\ Region \in Nat
      /\ start <= Region /\ WindowEnd - window.overlap <= Region
      /\ start + 1 <= WindowEnd
  BY RegionInside
<1>2. start \in Nat /\ window.overlap \in Nat
  BY PlacedNumbers
<1>3. CASE WindowEnd < TextLen /\ SplitPoints # {}
  <2>1. Cut \in SplitPoints
    BY <1>3 DEF Cut
  <2>2. Cut \in Region + 1 .. WindowEnd /\ CharAt(Cut - 1) \in Blank
    BY <2>1, SplitFollowsBlank
  <2> QED
    BY <2>2, <1>1, <1>2
<1>4. CASE ~(WindowEnd < TextLen /\ SplitPoints # {})
  <2>1. Cut = WindowEnd
    BY <1>4 DEF Cut
  <2> QED
    BY <2>1, <1>1, <1>2
<1> QED
  BY <1>3, <1>4

\* the next window starts later and inside the text
LEMMA RestartAdvances ==
  ASSUME Placed, start < TextLen, Cut < TextLen
  PROVE  /\ Restart \in start + 1 .. TextLen
         /\ Cut - window.overlap <= Restart
         /\ Restart = start + 1 \/ Restart = Cut - window.overlap
<1>1. Cut \in Nat /\ start + 1 <= Cut
  BY CutIsPlaced
<1>2. start \in Nat /\ window.overlap \in Nat /\ TextLen \in Nat
  BY PlacedNumbers
<1> QED
  BY <1>1, <1>2 DEF Restart, MaxOf

-----------------------------------------------------------------------------
(***************************************************************************)
(* Types and advance.                                                      *)
(***************************************************************************)

\* TypeOK, and that an unfinished window has made no chunk yet
ChunkingInv ==
  /\ TypeOK
  /\ ~done => Len(chunks) <= start

\* what a window does to the list of chunks
LEMMA SlideAppends ==
  ASSUME TypeOK, Slide
  PROVE  /\ chunks' \in Seq(Chunk)
         /\ Len(chunks') \in {Len(chunks), Len(chunks) + 1}
<1>1. CASE Inked(start, Cut) = {}
  BY <1>1 DEF Slide, TypeOK
<1>2. CASE Inked(start, Cut) # {}
  <2>1. PICK chunk \in Chunk : chunks' = Append(chunks, chunk)
    BY <1>2 DEF Slide
  <2> QED
    BY <2>1 DEF TypeOK
<1> QED
  BY <1>1, <1>2

\* the types are inductive together with the number of chunks before a window
LEMMA ChunkingStep ==
  ASSUME ChunkingInv, [Next]_vars
  PROVE  ChunkingInv'
<1>1. Placed /\ TypeOK
  BY DEF ChunkingInv, TypeOK, Placed
<1>2. TextLen \in Nat /\ start \in Nat
  BY <1>1, PlacedNumbers
<1>3. CASE Slide
  <2>1. UNCHANGED <<text, window>> /\ TextLen' = TextLen /\ Chunk' = Chunk
    BY <1>3 DEF Slide, TextLen, Chunk
  <2>2. /\ chunks' \in Seq(Chunk) /\ Len(chunks) \in Nat
        /\ Len(chunks') \in {Len(chunks), Len(chunks) + 1}
    BY <1>1, <1>3, SlideAppends DEF TypeOK
  <2>3. Len(chunks) <= start
    BY <1>3 DEF Slide, ChunkingInv
  <2>4. CASE Cut >= TextLen
    <3>1. done' = TRUE /\ start' = start
      BY <1>3, <2>4 DEF Slide
    <3> QED
      BY <1>1, <1>2, <2>1, <2>2, <2>3, <3>1 DEF ChunkingInv, TypeOK
  <2>5. CASE ~(Cut >= TextLen)
    <3>1. done' = FALSE /\ start' = Restart /\ start < TextLen
      BY <1>3, <2>5 DEF Slide
    <3>2. Cut < TextLen
      BY <1>1, <1>2, <2>5, CutIsPlaced
    <3>3. Restart \in start + 1 .. TextLen
      BY <1>1, <3>1, <3>2, RestartAdvances
    <3>4. start' \in 0 .. TextLen /\ Len(chunks') <= start'
      BY <1>2, <2>2, <2>3, <3>1, <3>3
    <3>5. start' \in Nat /\ Len(chunks') \in Nat /\ Len(chunks') <= start' + 1
      BY <1>2, <2>2, <3>4
    <3>6. text' \in Texts /\ window' \in Windows /\ chunks' \in Seq(Chunk)' /\ done' \in BOOLEAN
      BY <1>1, <2>1, <2>2, <3>1 DEF TypeOK
    <3>7. start' \in 0 .. TextLen'
      BY <2>1, <3>4
    <3> QED
      BY <3>4, <3>5, <3>6, <3>7 DEF ChunkingInv, TypeOK
  <2> QED
    BY <2>4, <2>5
<1>4. CASE ReturnNothing
  BY <1>4 DEF ReturnNothing, ChunkingInv, TypeOK, TextLen, Chunk
<1>5. CASE UNCHANGED vars
  BY <1>5 DEF vars, ChunkingInv, TypeOK, TextLen, Chunk
<1> QED
  BY <1>3, <1>4, <1>5 DEF Next

LEMMA ChunkingInit == Init => ChunkingInv
<1> SUFFICES ASSUME Init PROVE ChunkingInv
  OBVIOUS
<1>1. TextLen \in Nat
  BY TextAssumption DEF Init, TextLen
<1>2. start \in 0 .. TextLen
  BY <1>1 DEF Init
<1>3. chunks \in Seq(Chunk) /\ Len(chunks) = 0 /\ start = 0
  BY DEF Init
<1>4. Len(chunks) <= start /\ Len(chunks) <= start + 1
  BY <1>3
<1>5. text \in Texts /\ window \in Windows /\ done \in BOOLEAN
  BY DEF Init
<1> QED
  BY <1>2, <1>3, <1>4, <1>5 DEF ChunkingInv, TypeOK

LEMMA ChunkingAlways == Spec => []ChunkingInv
<1>1. ChunkingInv /\ [Next]_vars => ChunkingInv'
  BY ChunkingStep
<1> QED
  BY ChunkingInit, <1>1, PTL DEF Spec

\* Positions stay inside the text, and a text of n characters has at most n
\* chunks.
THEOREM TypeCorrect == Spec => []TypeOK
<1>1. ChunkingInv => TypeOK
  BY DEF ChunkingInv
<1> QED
  BY <1>1, ChunkingAlways, PTL

\* the next window starts far enough from this one
LEMMA RestartIsFar ==
  ASSUME Placed, start < TextLen, Cut < TextLen
  PROVE  Restart - start >= MaxOf(1, window.size - 2 * window.overlap)
<1>1. /\ TextLen \in Nat /\ start \in Nat
      /\ window.size \in Nat /\ window.overlap \in Nat
  BY PlacedNumbers
<1>2. Cut \in Nat /\ start + window.size - window.overlap <= Cut
  <2>1. Cut \in Nat /\ WindowEnd - window.overlap <= Cut
    BY CutIsPlaced
  <2> QED
    BY <1>1, <2>1 DEF WindowEnd
<1>3. Restart \in start + 1 .. TextLen /\ Cut - window.overlap <= Restart
  BY <1>1, <1>2, RestartAdvances
<1> QED
  BY <1>1, <1>2, <1>3 DEF MaxOf

\* No window starts less than one character, or less than the window without two
\* overlaps, after the last one.
THEOREM WindowsKeepAdvancing == Spec => WindowsAdvance
<1>1. ASSUME ChunkingInv, [Next]_vars
      PROVE  [start' # start =>
                start' - start >= MaxOf(1, window.size - 2 * window.overlap)]_vars
  <2> SUFFICES ASSUME Slide, start' # start
               PROVE  start' - start >= MaxOf(1, window.size - 2 * window.overlap)
    BY <1>1 DEF Next, ReturnNothing, vars
  <2>1. Placed
    BY <1>1 DEF ChunkingInv, TypeOK, Placed
  <2>2. ~(Cut >= TextLen) /\ start' = Restart /\ start < TextLen
    BY DEF Slide
  <2>3. Cut < TextLen
    BY <2>1, <2>2, PlacedNumbers, CutIsPlaced
  <2> QED
    BY <2>1, <2>2, <2>3, RestartIsFar
<1> QED
  BY <1>1, ChunkingAlways, PTL DEF Spec, WindowsAdvance

-----------------------------------------------------------------------------
(***************************************************************************)
(* Phrases.                                                                *)
(***************************************************************************)

\* a phrase lies inside the text or is not one of its own
LEMMA PhraseNumbers ==
  ASSUME Placed, NEW first \in Nat, NEW last \in Nat, Phrase(first, last)
  PROVE  /\ first < last
         /\ last - first <= window.overlap \/ last = first + 1
BY PlacedNumbers DEF Phrase, MaxOf

\* A phrase that begins in the part of the window that the next one does not see
\* ends before the cut: otherwise it would be longer than the overlap, or the
\* cut, which follows a blank, would be inside it.
LEMMA PhraseBeforeCut ==
  ASSUME Placed, start < TextLen,
         NEW first \in start .. TextLen - 1, NEW last \in 0 .. TextLen,
         Phrase(first, last),
         Cut < TextLen => first < Restart
  PROVE  last <= Cut
<1>1. /\ TextLen \in Nat /\ start \in Nat
      /\ window.size \in Nat /\ window.overlap \in Nat /\ window.overlap < window.size
  BY PlacedNumbers
<1>2. /\ Cut \in Nat /\ start + 1 <= Cut
      /\ Cut = start + window.size \/ CharAt(Cut - 1) \in Blank
  BY CutIsPlaced DEF WindowEnd
<1>3. CASE Cut >= TextLen
  BY <1>1, <1>2, <1>3
<1>4. CASE Cut < TextLen
  <2>1. /\ first < last
        /\ last - first <= window.overlap \/ last = first + 1
    BY <1>1, PhraseNumbers
  <2>2. CASE Restart = Cut - window.overlap
    BY <1>1, <1>2, <1>4, <2>1, <2>2
  <2>3. CASE Restart = start + 1
    <3>1. first = start
      BY <1>1, <1>4, <2>3
    <3> SUFFICES ASSUME last > Cut PROVE FALSE
      BY <1>1, <1>2
    <3>2. last - first <= window.overlap
      BY <1>1, <1>2, <2>1, <3>1
    <3>3. Cut < start + window.size
      BY <1>1, <1>2, <3>1, <3>2
    <3>4. CharAt(Cut - 1) \in Blank
      BY <1>1, <1>2, <3>3
    <3>5. Cut - 1 \in first .. last - 1
      BY <1>1, <1>2, <3>1
    <3> QED
      BY <3>4, <3>5 DEF Phrase
  <2> QED
    BY <1>4, <2>2, <2>3, RestartAdvances
<1> QED
  BY <1>1, <1>2, <1>3, <1>4

\* a phrase inside a window is inside its chunk
LEMMA PhraseInChunk ==
  ASSUME Placed,
         NEW first \in start .. TextLen - 1, NEW last \in 0 .. TextLen,
         Phrase(first, last), last <= Cut
  PROVE  /\ Inked(start, Cut) # {}
         /\ \A chunk \in Chunk : IsStripped(chunk, start, Cut) => Holds(chunk, first, last)
<1>1. TextLen \in Nat /\ start \in Nat /\ Cut \in Nat
  BY PlacedNumbers, CutIsPlaced
<1>2. first < last
  BY <1>1, PhraseNumbers
<1>3. first \in Inked(start, Cut) /\ last - 1 \in Inked(start, Cut)
  <2>1. CharAt(first) \notin Blank /\ CharAt(last - 1) \notin Blank
    BY <1>1, <1>2 DEF Phrase
  <2> QED
    BY <1>1, <1>2, <2>1 DEF Inked, MinOf
<1>4. ASSUME NEW chunk \in Chunk, IsStripped(chunk, start, Cut)
      PROVE  Holds(chunk, first, last)
  <2>1. chunk.from <= first /\ last - 1 < chunk.to
    BY <1>3, <1>4 DEF IsStripped
  <2>2. chunk.from \in Nat /\ chunk.to \in Nat
    BY <1>1 DEF Chunk
  <2> QED
    BY <1>1, <2>1, <2>2 DEF Holds
<1> QED
  BY <1>3, <1>4

LEMMA PhrasesStep ==
  ASSUME ChunkingInv, PhrasesWhole, [Next]_vars
  PROVE  PhrasesWhole'
<1>1. Placed /\ TypeOK
  BY DEF ChunkingInv, TypeOK, Placed
<1>2. TextLen \in Nat /\ start \in Nat
  BY <1>1, PlacedNumbers
<1>3. CASE Slide
  <2> SUFFICES ASSUME NEW first \in (0 .. Passed - 1)', NEW last \in (0 .. TextLen)',
                      Phrase(first, last)'
               PROVE  (\E i \in DOMAIN chunks : Holds(chunks[i], first, last))'
    BY DEF PhrasesWhole
  <2>1. /\ text' = text /\ window' = window /\ TextLen' = TextLen /\ Chunk' = Chunk
        /\ start < TextLen /\ ~done
    BY <1>3 DEF Slide, TextLen, Chunk
  <2>2. Phrase(first, last) /\ last \in 0 .. TextLen
    BY <2>1 DEF Phrase, CharAt
  <2>3. /\ chunks \in Seq(Chunk) /\ chunks' \in Seq(Chunk)
        /\ \A i \in DOMAIN chunks : i \in DOMAIN chunks' /\ chunks'[i] = chunks[i]
    <3>1. CASE Inked(start, Cut) = {}
      BY <1>1, <1>3, <3>1 DEF Slide, TypeOK
    <3>2. CASE Inked(start, Cut) # {}
      <4>1. PICK chunk \in Chunk : chunks' = Append(chunks, chunk)
        BY <1>3, <3>2 DEF Slide
      <4> QED
        BY <1>1, <4>1 DEF TypeOK
    <3> QED
      BY <3>1, <3>2
  <2>4. CASE first < start
    <3>1. first \in 0 .. Passed - 1
      BY <1>2, <2>1, <2>4 DEF Passed
    <3>2. PICK i \in DOMAIN chunks : Holds(chunks[i], first, last)
      BY <2>2, <3>1 DEF PhrasesWhole
    <3> QED
      BY <2>3, <3>2 DEF Holds
  <2>5. CASE first >= start
    <3>1. first \in start .. TextLen - 1 /\ (Cut < TextLen => first < Restart)
      <4>1. CASE Cut >= TextLen
        <5>1. Passed' = TextLen
          BY <1>3, <2>1, <4>1 DEF Slide, Passed
        <5> QED
          BY <1>1, <1>2, <2>5, <4>1, <5>1, CutIsPlaced
      <4>2. CASE ~(Cut >= TextLen)
        <5>1. Passed' = Restart
          BY <1>3, <4>2 DEF Slide, Passed
        <5>2. Restart \in start + 1 .. TextLen
          BY <1>1, <1>2, <2>1, <4>2, CutIsPlaced, RestartAdvances
        <5> QED
          BY <1>2, <2>5, <5>1, <5>2
      <4> QED
        BY <4>1, <4>2
    <3>2. last <= Cut
      BY <1>1, <2>1, <2>2, <3>1, PhraseBeforeCut
    <3>3. /\ Inked(start, Cut) # {}
          /\ \A chunk \in Chunk :
               IsStripped(chunk, start, Cut) => Holds(chunk, first, last)
      BY <1>1, <2>2, <3>1, <3>2, PhraseInChunk
    <3>4. PICK chunk \in Chunk :
            IsStripped(chunk, start, Cut) /\ chunks' = Append(chunks, chunk)
      BY <1>3, <3>3 DEF Slide
    <3>5. Len(chunks) + 1 \in DOMAIN chunks' /\ chunks'[Len(chunks) + 1] = chunk
      BY <2>3, <3>4
    <3> QED
      BY <3>3, <3>4, <3>5 DEF Holds
  <2> QED
    <3>1. first \in Int
      BY DEF Passed
    <3> QED
      BY <1>2, <2>4, <2>5, <3>1
<1>4. CASE ReturnNothing
  <2> SUFFICES ASSUME NEW first \in 0 .. TextLen - 1, NEW last \in 0 .. TextLen,
                      Phrase(first, last)
               PROVE  FALSE
    BY <1>4 DEF ReturnNothing, PhrasesWhole, Passed, TextLen, Phrase, CharAt, MaxOf
  <2>1. first < last
    BY <1>1, <1>2, PhraseNumbers
  <2>2. CharAt(first) \notin Blank
    BY <1>2, <2>1 DEF Phrase
  <2>3. first \in Inked(0, TextLen)
    BY <1>2, <2>2 DEF Inked, MinOf
  <2> QED
    BY <1>4, <2>3 DEF ReturnNothing
<1>5. CASE UNCHANGED vars
  BY <1>5 DEF vars, PhrasesWhole, Passed, TextLen, Phrase, CharAt, Holds
<1> QED
  BY <1>3, <1>4, <1>5 DEF Next

\* Every stretch without blanks that is no longer than the overlap and begins
\* before the window lies whole in one chunk.
THEOREM PhrasesStayWhole == Spec => []PhrasesWhole
<1>1. Init => PhrasesWhole
  BY DEF Init, PhrasesWhole, Passed
<1>2. ChunkingInv /\ PhrasesWhole /\ [Next]_vars => PhrasesWhole'
  BY PhrasesStep
<1> QED
  BY <1>1, <1>2, ChunkingAlways, PTL DEF Spec

-----------------------------------------------------------------------------
(***************************************************************************)
(* A window can always be cut and stripped.                                *)
(***************************************************************************)

\* the separator of a split and the place where it occurs last
SplitBy(c, i) ==
  /\ c - Len(Separators[i]) \in Occurrences(Separators[i], Region, WindowEnd)
  /\ \A p \in Occurrences(Separators[i], Region, WindowEnd) : p <= c - Len(Separators[i])
  /\ \A j \in 1 .. i - 1 : Occurrences(Separators[j], Region, WindowEnd) = {}

LEMMA SplitsAreBySeparators ==
  \A c : c \in SplitPoints <=> c \in Region + 1 .. WindowEnd /\ \E i \in DOMAIN Separators : SplitBy(c, i)
BY DEF SplitPoints, SplitBy

\* the window has at most one place to be split at
LEMMA SplitIsUnique ==
  ASSUME Placed, NEW c \in SplitPoints, NEW d \in SplitPoints
  PROVE  c = d
<1>1. PICK i \in DOMAIN Separators : SplitBy(c, i)
  BY SplitsAreBySeparators
<1>2. PICK j \in DOMAIN Separators : SplitBy(d, j)
  BY SplitsAreBySeparators
<1>3. i \in Nat /\ j \in Nat /\ i >= 1 /\ j >= 1
  BY DEF Separators
<1>4. ~(i < j) /\ ~(j < i)
  <2>1. ASSUME i < j PROVE FALSE
    <3>1. i \in 1 .. j - 1
      BY <1>3, <2>1
    <3> QED
      BY <1>1, <1>2, <3>1, Zenon DEF SplitBy
  <2>2. ASSUME j < i PROVE FALSE
    <3>1. j \in 1 .. i - 1
      BY <1>3, <2>2
    <3> QED
      BY <1>1, <1>2, <3>1, Zenon DEF SplitBy
  <2> QED
    BY <2>1, <2>2
<1>5. i = j
  BY <1>3, <1>4
<1>6. /\ c - Len(Separators[i]) <= d - Len(Separators[i])
      /\ d - Len(Separators[i]) <= c - Len(Separators[i])
  BY <1>1, <1>2, <1>5 DEF SplitBy
<1>7. c \in Int /\ d \in Int /\ Len(Separators[i]) \in Int
  BY SplitFollowsBlank, RegionInside, SeparatorsEndBlank
<1> QED
  BY <1>6, <1>7

\* a separator that occurs in the search region gives one
LEMMA SplitExists ==
  ASSUME Placed, NEW k \in DOMAIN Separators,
         Occurrences(Separators[k], Region, WindowEnd) # {}
  PROVE  SplitPoints # {}
<1> DEFINE found == {i \in DOMAIN Separators : Occurrences(Separators[i], Region, WindowEnd) # {}}
<1>1. Region \in Nat /\ WindowEnd \in Nat
  BY RegionInside
<1>2. found \in SUBSET Nat /\ found # {}
  BY DEF Separators
<1>3. PICK i \in found : \A j \in found : ~(j < i)
  <2> HIDE DEF found
  <2> QED BY <1>2, LeastNumber
<1>4. \A j \in 1 .. i - 1 : Occurrences(Separators[j], Region, WindowEnd) = {}
  BY <1>3 DEF Separators
<1> DEFINE n == Len(Separators[i])
           here == Occurrences(Separators[i], Region, WindowEnd)
<1>5. n \in Nat /\ n >= 1
  <2>1. n = 1 \/ n = 2
    BY SeparatorsEndBlank
  <2> HIDE DEF n
  <2> QED
    BY <2>1
<1>6. \A p \in here : p \in Region .. WindowEnd - n
  BY DEF Occurrences
<1>7. /\ here \in SUBSET Int /\ here # {} /\ WindowEnd \in Int
      /\ \A p \in here : p <= WindowEnd
  <2>1. here # {}
    OBVIOUS
  <2> HIDE DEF here, n
  <2> QED
    BY <1>1, <1>5, <1>6, <2>1
<1>8. PICK p \in here : \A o \in here : o <= p
  <2> HIDE DEF here
  <2> QED BY <1>7, GreatestNumber
<1>9. PICK c \in Region + 1 .. WindowEnd : c - n = p
  <2> HIDE DEF here, n
  <2>1. p + n \in Region + 1 .. WindowEnd /\ (p + n) - n = p
    BY <1>1, <1>5, <1>6
  <2> QED
    BY <2>1, Zenon
<1>10. SplitBy(c, i)
  <2>1. c - n \in here /\ \A o \in here : o <= c - n
    BY <1>8, <1>9, Zenon
  <2> QED
    BY <1>4, <2>1, Zenon DEF SplitBy
<1> QED
  BY <1>10, SplitsAreBySeparators

\* a stretch of text that is not all blanks has exactly one chunk
LEMMA StripExists ==
  ASSUME Placed, NEW first \in Nat, NEW last \in Nat, Inked(first, last) # {}
  PROVE  /\ \E chunk \in Chunk : IsStripped(chunk, first, last)
         /\ \A a, b \in Chunk : IsStripped(a, first, last) /\ IsStripped(b, first, last) => a = b
<1> DEFINE inked == Inked(first, last)
<1>1. TextLen \in Nat
  BY PlacedNumbers
<1>2. \A p \in inked : p \in Nat /\ p <= TextLen - 1
  BY <1>1 DEF Inked, MinOf
<1>3. PICK from \in inked : \A p \in inked : ~(p < from)
  <2>1. inked \in SUBSET Nat /\ inked # {}
    BY <1>2
  <2> HIDE DEF inked
  <2> QED BY <2>1, LeastNumber
<1>4. PICK to \in inked : \A p \in inked : p <= to
  <2>1. inked \in SUBSET Int /\ inked # {} /\ TextLen \in Int /\ \A p \in inked : p <= TextLen
    BY <1>1, <1>2
  <2> HIDE DEF inked
  <2> QED BY <2>1, GreatestNumber
<1> DEFINE chunk == [from |-> from, to |-> to + 1]
<1>5. chunk \in Chunk
  BY <1>1, <1>2 DEF Chunk
<1>6. IsStripped(chunk, first, last)
  <2>1. chunk.from = from /\ chunk.to - 1 = to
    BY <1>2
  <2>2. \A p \in inked : chunk.from <= p /\ p < chunk.to
    BY <1>2, <1>3, <1>4
  <2>3. chunk.from \in inked /\ chunk.to - 1 \in inked
    BY <2>1, Zenon
  <2> QED
    BY <2>2, <2>3, Zenon DEF IsStripped
<1>7. ASSUME NEW a \in Chunk, NEW b \in Chunk, IsStripped(a, first, last), IsStripped(b, first, last)
      PROVE  a = b
  <2>1. a.from \in Nat /\ a.to \in Nat /\ b.from \in Nat /\ b.to \in Nat
    BY <1>1 DEF Chunk
  <2>2. a.from <= b.from /\ b.from <= a.from /\ a.to - 1 < b.to /\ b.to - 1 < a.to
    BY <1>7 DEF IsStripped
  <2>3. a.from = b.from /\ a.to = b.to
    BY <2>1, <2>2
  <2> QED
    BY <2>3 DEF Chunk
<1> QED
  BY <1>5, <1>6, <1>7

\* what chunk_text finds when it looks for a separator and strips a window
CutIsDetermined ==
  /\ WindowEnd < TextLen =>
       /\ \A c, d \in SplitPoints : c = d
       /\ SplitPoints = {} <=>
            \A i \in DOMAIN Separators : Occurrences(Separators[i], Region, WindowEnd) = {}
  /\ Inked(start, Cut) # {} =>
       /\ \E chunk \in Chunk : IsStripped(chunk, start, Cut)
       /\ \A a, b \in Chunk : IsStripped(a, start, Cut) /\ IsStripped(b, start, Cut) => a = b

\* Whatever the text, the search for a split finds the end of the last occurrence of
\* the best separator if any of them occurs, that place is the only one, and a window
\* that is not all blanks gives exactly one chunk: chunk_text never has to guess.
THEOREM CutsAreDetermined == Spec => []CutIsDetermined
<1>1. ChunkingInv => CutIsDetermined
  <2> SUFFICES ASSUME ChunkingInv PROVE CutIsDetermined
    OBVIOUS
  <2>1. Placed
    BY DEF ChunkingInv, TypeOK, Placed
  <2>2. start \in Nat /\ Cut \in Nat
    BY <2>1, PlacedNumbers, CutIsPlaced
  <2>3. \A c, d \in SplitPoints : c = d
    BY <2>1, SplitIsUnique
  <2>4. (\E i \in DOMAIN Separators : Occurrences(Separators[i], Region, WindowEnd) # {})
          => SplitPoints # {}
    BY <2>1, SplitExists
  <2>5. SplitPoints # {} =>
          \E i \in DOMAIN Separators : Occurrences(Separators[i], Region, WindowEnd) # {}
    BY SplitsAreBySeparators DEF SplitBy
  <2> QED
    BY <2>1, <2>2, <2>3, <2>4, <2>5, StripExists DEF CutIsDetermined
<1> QED
  BY <1>1, ChunkingAlways, PTL

-----------------------------------------------------------------------------
(***************************************************************************)
(* The loop ends: what ChunkingEnds rests on besides fairness.             *)
(***************************************************************************)

\* the window is inside the text, or the text is blank and nothing was done yet
Unfinished ==
  ~done => \/ start < TextLen /\ Inked(0, TextLen) # {}
           \/ start = 0 /\ chunks = <<>> /\ Inked(0, TextLen) = {}

LEMMA UnfinishedStep == ChunkingInv /\ Unfinished /\ [Next]_vars => Unfinished'
<1> SUFFICES ASSUME ChunkingInv, Unfinished, [Next]_vars PROVE Unfinished'
  OBVIOUS
<1>1. Placed
  BY DEF ChunkingInv, TypeOK, Placed
<1>2. TextLen \in Nat /\ start \in Nat
  BY <1>1, PlacedNumbers
<1>3. CASE Slide
  <2> SUFFICES ASSUME ~done' PROVE start' < TextLen' /\ (Inked(0, TextLen) # {})'
    BY DEF Unfinished
  <2>1. ~(Cut >= TextLen) /\ start' = Restart /\ start < TextLen /\ Inked(0, TextLen) # {}
    BY <1>3 DEF Slide
  <2>2. text' = text /\ TextLen' = TextLen
    BY <1>3 DEF Slide, TextLen
  <2>3. Cut \in Nat /\ start + 1 <= Cut /\ Cut < TextLen
    BY <1>1, <1>2, <2>1, CutIsPlaced
  <2>4. Restart < TextLen
    <3>1. window.overlap \in Nat
      BY <1>1, PlacedNumbers
    <3> QED
      BY <1>2, <2>3, <3>1 DEF Restart, MaxOf
  <2> QED
    BY <2>1, <2>2, <2>4 DEF Inked, CharAt
<1>4. CASE ReturnNothing
  BY <1>4 DEF ReturnNothing, Unfinished
<1>5. CASE UNCHANGED vars
  BY <1>5 DEF vars, Unfinished, Inked, TextLen, CharAt
<1> QED
  BY <1>3, <1>4, <1>5 DEF Next

\* Until chunk_text returns, its window starts inside a text that is not blank, so
\* that it can be cut and stripped as CutsAreDetermined says: the loop is never stuck.
THEOREM ChunkingGoesOn == Spec => []Unfinished
<1>1. Init => Unfinished
  <2> SUFFICES ASSUME Init PROVE Unfinished
    OBVIOUS
  <2>1. start = 0 /\ chunks = <<>> /\ TextLen \in Nat
    BY TextAssumption DEF Init, TextLen
  <2>2. TextLen = 0 => Inked(0, TextLen) = {}
    BY DEF Inked, MinOf
  <2> QED
    BY <2>1, <2>2 DEF Unfinished
<1> QED
  BY <1>1, UnfinishedStep, ChunkingAlways, PTL DEF Spec

\* Every window either is the last or starts after the one before it, so that a text
\* of n characters is read in at most n + 1 windows.
THEOREM EveryWindowCounts == Spec => [][~done /\ (done' \/ start' > start)]_vars
<1>1. ChunkingInv /\ [Next]_vars => [~done /\ (done' \/ start' > start)]_vars
  <2> SUFFICES ASSUME ChunkingInv, Next PROVE ~done /\ (done' \/ start' > start)
    OBVIOUS
  <2>1. Placed
    BY DEF ChunkingInv, TypeOK, Placed
  <2>2. CASE Slide /\ ~(Cut >= TextLen)
    <3>1. start' = Restart /\ start < TextLen /\ ~done
      BY <2>2 DEF Slide
    <3>2. Restart \in start + 1 .. TextLen /\ start \in Nat /\ TextLen \in Nat
      BY <2>1, <2>2, <3>1, PlacedNumbers, CutIsPlaced, RestartAdvances
    <3> QED
      BY <3>1, <3>2
  <2>3. CASE Slide /\ Cut >= TextLen
    BY <2>3 DEF Slide
  <2>4. CASE ReturnNothing
    BY <2>4 DEF ReturnNothing
  <2> QED
    BY <2>2, <2>3, <2>4 DEF Next
<1> QED
  BY <1>1, ChunkingAlways, PTL DEF Spec

\* the fewest characters between two windows
Stride == MaxOf(1, window.size - 2 * window.overlap)

\* each chunk but the last has cost a stride
ChunksPaid ==
  IF done THEN chunks = <<>> \/ (Len(chunks) - 1) * Stride < TextLen
  ELSE Len(chunks) * Stride <= start

LEMMA ChunksPaidStep == ChunkingInv /\ ChunksPaid /\ [Next]_vars => ChunksPaid'
<1> SUFFICES ASSUME ChunkingInv, ChunksPaid, [Next]_vars PROVE ChunksPaid'
  OBVIOUS
<1>1. Placed /\ TypeOK
  BY DEF ChunkingInv, TypeOK, Placed
<1>2. /\ TextLen \in Nat /\ start \in Nat /\ Len(chunks) \in Nat
      /\ window.size \in Nat /\ window.overlap \in Nat
  BY <1>1, PlacedNumbers DEF TypeOK
<1>3. Stride \in Nat
  BY <1>2 DEF Stride, MaxOf
<1>4. CASE Slide
  <2>1. /\ Stride' = Stride /\ TextLen' = TextLen /\ start < TextLen /\ ~done
        /\ Len(chunks) * Stride <= start
    BY <1>4 DEF Slide, Stride, TextLen, ChunksPaid
  <2> DEFINE n == Len(chunks)
             m == Len(chunks')
             k == Stride
  <2>2. m = n \/ m = n + 1
    BY <1>1, <1>4, SlideAppends
  <2>3. n \in Nat /\ k \in Nat /\ n * k \in Nat /\ n * k <= start
    BY <1>2, <1>3, <2>1
  <2>4. m * k <= n * k + k /\ (m - 1) * k <= n * k
    <3> HIDE DEF n, m, k
    <3>1. CASE m = n
      BY <2>3, <3>1
    <3>2. CASE m = n + 1
      BY <2>3, <3>2
    <3> QED
      BY <2>2, <3>1, <3>2
  <2>5. CASE Cut >= TextLen
    <3>1. done' = TRUE
      BY <1>4, <2>5 DEF Slide
    <3>2. (m - 1) * k < TextLen
      <4>1. (m - 1) * k \in Int
        BY <2>2, <2>3
      <4> HIDE DEF n, m, k
      <4> QED
        BY <1>2, <2>1, <2>3, <2>4, <4>1
    <3> QED
      BY <2>1, <3>1, <3>2 DEF ChunksPaid
  <2>6. CASE ~(Cut >= TextLen)
    <3>1. done' = FALSE /\ start' = Restart
      BY <1>4, <2>6 DEF Slide
    <3>2. Cut < TextLen
      BY <1>1, <1>2, <2>6, CutIsPlaced
    <3>3. Restart - start >= k /\ Restart \in Nat
      BY <1>1, <1>2, <2>1, <3>2, RestartIsFar, RestartAdvances DEF Stride
    <3>4. m * k <= start'
      <4>1. m * k \in Int
        BY <2>2, <2>3
      <4> HIDE DEF n, m, k
      <4> QED
        BY <1>2, <2>3, <2>4, <3>1, <3>3, <4>1
    <3> QED
      BY <2>1, <3>1, <3>4 DEF ChunksPaid
  <2> QED
    BY <2>5, <2>6
<1>5. CASE ReturnNothing
  BY <1>5 DEF ReturnNothing, ChunksPaid
<1>6. CASE UNCHANGED vars
  BY <1>6 DEF vars, ChunksPaid, Stride, TextLen
<1> QED
  BY <1>4, <1>5, <1>6 DEF Next

\* A text of n characters has at most one chunk more than fit into it a stride apart
\* (400 characters as configured): what chunk_text leaves to embed and to store is
\* proportional to the document, however its blanks fall.
THEOREM ChunksAreFew == Spec => []ChunksPaid
<1>1. Init => ChunksPaid
  <2> SUFFICES ASSUME Init PROVE ChunksPaid
    OBVIOUS
  <2>1. Placed
    <3>1. TextLen \in Nat
      BY TextAssumption DEF Init, TextLen
    <3> QED
      BY <3>1 DEF Init, Placed
  <2>2. Stride \in Nat
    BY <2>1, PlacedNumbers DEF Stride, MaxOf
  <2>3. Len(chunks) = 0 /\ start = 0 /\ ~done
    BY DEF Init
  <2> QED
    BY <2>2, <2>3 DEF ChunksPaid
<1> QED
  BY <1>1, ChunksPaidStep, ChunkingAlways, PTL DEF Spec
=============================================================================
