----------------------------- MODULE PlainText -----------------------------
(***************************************************************************)
(* The algorithms on texts: the sentences of a proposal and what accepting *)
(* them puts into the document (src/apps/web/src/editor/aiSelection.ts,    *)
(* AiProposal.tsx), their HTML as the text nodes it is cloned from, and    *)
(* the lines of a version's preview                                        *)
(* (src/apps/sync-server/src/extensions/database.ts).  A loop is the       *)
(* function of its rounds.                                                 *)
(*                                                                         *)
(* A text is a sequence of letters, "." for the characters that end a      *)
(* sentence and " " for white space.                                       *)
(***************************************************************************)
EXTENDS Naturals, Sequences, SequencesExt

CONSTANTS
  Letter,    \* letters
  MaxText,   \* bound: length of a plain text
  CharLimit, \* PREVIEW_CHAR_LIMIT
  LineLimit  \* PREVIEW_LINE_LIMIT

ASSUME PlainTextAssumption ==
  /\ MaxText \in Nat /\ CharLimit \in Nat /\ LineLimit \in Nat
  /\ Letter \intersect {".", " "} = {}

VARIABLE answer \* a plain answer of the model, as far as it has arrived

Char == Letter \union {".", " "}

-----------------------------------------------------------------------------
(* White space.                                                            *)

IsSpace(c) == c = " "
Letters(t) == FlattenSeq([i \in DOMAIN t |-> IF t[i] \in Letter THEN <<t[i]>> ELSE <<>>])

\* trimEnd: what white space alone follows.
TrimEnd(t) ==
  SubSeq(t, 1, CHOOSE n \in 0 .. Len(t) :
                 /\ n = 0 \/ ~IsSpace(t[n])
                 /\ \A i \in n + 1 .. Len(t) : IsSpace(t[i]))

\* normalizeText: runs of white space become one, none at the ends.
NormalizeText(t) ==
  LET Solid(i) == ~IsSpace(t[i])
      Stays(i) == \/ Solid(i)
                  \/ i > 1 /\ Solid(i - 1) /\ \E j \in i .. Len(t) : Solid(j)
  IN FlattenSeq([i \in DOMAIN t |-> IF Stays(i) THEN <<t[i]>> ELSE <<>>])

\* The first position from i on with a character of C, or past the end.
First(t, i, C) ==
  CHOOSE j \in i .. Len(t) + 1 :
    /\ j <= Len(t) => t[j] \in C
    /\ \A k \in i .. j - 1 : t[k] \notin C

Trim(t) == TrimEnd(SubSeq(t, First(t, 1, Char \ {" "}), Len(t)))

-----------------------------------------------------------------------------
(* Sentences.                                                              *)

\* Mutant: the pattern ends before the character that ends the sentence.
MatchTight(t, i) == First(t, i, {"."})

\* One match of /[^.!?]+[.!?]?\s*/ that starts at i: the position after it.
Match(t, i) ==
  LET stop == First(t, i, {"."})
  IN IF stop > Len(t) THEN stop ELSE First(t, stop + 1, Char \ {" "})

\* One round of the loop over the matches: one of white space is skipped.
NextMatch(t, s) ==
  LET start == First(t, s.at, Char \ {"."})
      after == Match(t, start)
  IN IF start > Len(t) THEN s
     ELSE [at |-> after,
           ranges |-> IF NormalizeText(SubSeq(t, start, after - 1)) = <<>> THEN s.ranges
                      ELSE Append(s.ranges, [start |-> start, end |-> after - 1])]

\* The rounds: a match has a character, so that no text has more matches.
Scan(t) ==
  LET round[n \in 0 .. Len(t)] ==
        IF n = 0 THEN [at |-> 1, ranges |-> <<>>] ELSE NextMatch(t, round[n - 1])
  IN round[Len(t)].ranges

\* splitTextIntoSentenceRanges: a text that has no match is one sentence.
SplitTextIntoSentenceRanges(t) ==
  IF Scan(t) = <<>> /\ NormalizeText(t) # <<>> THEN <<[start |-> 1, end |-> Len(t)]>> ELSE Scan(t)

\* The matches getSentenceSlices takes of a plain text, none of them blank; only
\* a text of characters that end a sentence has no match and is taken as it is.
PlainRanges(t) ==
  IF t # <<>> /\ \A i \in DOMAIN t : t[i] = "."
  THEN <<[start |-> 1, end |-> Len(t)]>> ELSE Scan(t)

\* getSentenceSlices of a plain text.
GetSentenceSlices(t) ==
  LET ranges == PlainRanges(t)
  IN [k \in DOMAIN ranges |-> Trim(SubSeq(t, ranges[k].start, ranges[k].end))]

\* handleAcceptAll, with the proposed sentences that are kept.
Joined(slices) ==
  FlattenSeq([k \in DOMAIN slices |-> IF k = 1 THEN slices[k] ELSE <<" ">> \o slices[k]])

-----------------------------------------------------------------------------
(* The text nodes of a fragment.                                           *)

\* The end of the k-th text node in the text of all.
End(nodes, k) == Len(FlattenSeq(SubSeq(nodes, 1, k)))

\* Mutant: the offset is not made relative to the node.
ResolveTextPositionGlobal(nodes, offset) ==
  LET k == CHOOSE k \in DOMAIN nodes :
             /\ offset <= End(nodes, k) \/ k = Len(nodes)
             /\ \A j \in 1 .. k - 1 : offset > End(nodes, j)
  IN [node |-> k, offset |-> IF offset < Len(nodes[k]) THEN offset ELSE Len(nodes[k])]

\* resolveTextPosition: at a border the position is the end of the first node.
ResolveTextPosition(nodes, offset) ==
  LET k == CHOOSE k \in DOMAIN nodes :
             /\ offset <= End(nodes, k) \/ k = Len(nodes)
             /\ \A j \in 1 .. k - 1 : offset > End(nodes, j)
  IN [node |-> k, offset |-> offset - End(nodes, k - 1)]

\* cloneHtmlRange: the text its clone holds.
CloneHtmlRange(nodes, start, end) ==
  LET from == ResolveTextPosition(nodes, start)
      to == ResolveTextPosition(nodes, end)
      Part(k) == SubSeq(nodes[k], IF k = from.node THEN from.offset + 1 ELSE 1,
                                  IF k = to.node THEN to.offset ELSE Len(nodes[k]))
  IN FlattenSeq([i \in 1 .. to.node - from.node + 1 |-> Part(from.node + i - 1)])

\* splitHtmlFragmentIntoSentences, the HTML of each by the text it holds.
SplitHtmlFragmentIntoSentences(nodes) ==
  LET content == FlattenSeq(nodes)
      ranges == SplitTextIntoSentenceRanges(content)
  IN [k \in DOMAIN ranges |->
       [text |-> NormalizeText(SubSeq(content, ranges[k].start, ranges[k].end)),
        html |-> CloneHtmlRange(nodes, ranges[k].start - 1, ranges[k].end)]]

\* buildAcceptedHtmlFragment, of all sentences.
BuildAcceptedHtmlFragment(slices) == FlattenSeq([k \in DOMAIN slices |-> slices[k].html])

-----------------------------------------------------------------------------
(* The lines of a preview; "~" stands for the ellipsis.                    *)

\* The characters of a line that are shown.
Shown(line, remaining) ==
  IF Len(line) <= remaining THEN line
  ELSE Append(TrimEnd(SubSeq(line, 1, remaining - 1)), "~")

\* Mutant: the characters of a line that fits are not counted.
TakeLineUncounted(s, line) ==
  IF Len(s.taken) >= LineLimit \/ s.remaining = 0 THEN s
  ELSE [taken |-> Append(s.taken, Shown(line, s.remaining)), remaining |-> s.remaining]

\* One round of the loop of buildVersionPreview; after its break none adds a line.
TakeLine(s, line) ==
  IF Len(s.taken) >= LineLimit \/ s.remaining = 0 THEN s
  ELSE [taken |-> Append(s.taken, Shown(line, s.remaining)),
        remaining |-> s.remaining - Len(Shown(line, s.remaining))]

TakeLines(lines) ==
  LET round[n \in 0 .. Len(lines)] ==
        IF n = 0 THEN [taken |-> <<>>, remaining |-> CharLimit]
        ELSE TakeLine(round[n - 1], lines[n])
  IN round[Len(lines)].taken

-----------------------------------------------------------------------------
(* A text that arrives character by character.                             *)

TextInit == answer = <<>>

\* A chunk of the stream brings one more character.
Arrive(c) == Len(answer) < MaxText /\ answer' = Append(answer, c)

TextNext == \E c \in Char : Arrive(c)

TextSpec == TextInit /\ [][TextNext]_answer

-----------------------------------------------------------------------------
(* Properties.                                                             *)

\* Every character that ends a sentence follows a letter, and white space or
\* the end follows it.
WellPunctuated(t) ==
  \A i \in DOMAIN t : t[i] = "." =>
    /\ i > 1 /\ t[i - 1] \in Letter
    /\ i = Len(t) \/ IsSpace(t[i + 1])

(* Accepting a plain proposal as it is puts the whole of it, its white     *)
(* space normalized, into the document whenever its sentences are well     *)
(* punctuated; of any other it still keeps every letter in order (but      *)
(* "3.5" becomes "3. 5" and the second dot of "a.." is lost).              *)
AcceptKeepsPlainText ==
  LET accepted == Joined(GetSentenceSlices(answer)) IN
  /\ WellPunctuated(answer) => NormalizeText(accepted) = NormalizeText(answer)
  /\ Letters(accepted) = Letters(answer)

(* Whatever sentences of an HTML proposal are kept, what is inserted for   *)
(* each is the sentence the reviewer saw, wherever its ends fall between   *)
(* the text nodes; and the sentences have every letter once and in order.  *)
SentencesKeep(nodes) ==
  LET slices == SplitHtmlFragmentIntoSentences(nodes)
      accepted == BuildAcceptedHtmlFragment(slices)
  IN /\ \A k \in DOMAIN slices : NormalizeText(slices[k].html) = slices[k].text
     /\ Letters(accepted) = Letters(FlattenSeq(nodes))

\* l is the beginning of line m, cut or not.
Begins(l, m) ==
  l = m \/ (Last(l) = "~" /\ IsPrefix(Front(l), m) /\ Len(l) <= Len(m))

(* A preview keeps its limits of lines and characters, its lines begin     *)
(* the first lines of the document in order, and all of a document that    *)
(* fits is shown.                                                          *)
PreviewKeeps(lines) ==
  LET preview == TakeLines(lines) IN
  /\ Len(preview) <= LineLimit /\ Len(FlattenSeq(preview)) <= CharLimit
  /\ Len(preview) <= Len(lines) /\ \A k \in DOMAIN preview : Begins(preview[k], lines[k])
  /\ (Len(lines) <= LineLimit /\ Len(FlattenSeq(lines)) <= CharLimit) => preview = lines
=============================================================================
