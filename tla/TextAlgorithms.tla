--------------------------- MODULE TextAlgorithms ---------------------------
(***************************************************************************)
(* The algorithms on fragments of HTML: what of a proposal replaces a      *)
(* selection and how it is cut into sentences                              *)
(* (src/apps/web/src/editor/aiSelection.ts, AiProposal.tsx) and the        *)
(* preview of a version (src/apps/sync-server/src/extensions/database.ts), *)
(* for every input up to a bound.                                          *)
(*                                                                         *)
(* A fragment is a sequence of nodes: a text (PlainText), or an element    *)
(* with children whose tag is a block ("p", "li"), "br" or another one     *)
(* ("em").                                                                 *)
(***************************************************************************)
EXTENDS PlainText

CONSTANTS
  Leaf,  \* bound: the texts of text nodes
  Marked \* those a document has in bold or another mark

ASSUME TextAssumption ==
  /\ \A leaf \in Leaf : leaf # <<>>
  /\ Marked \subseteq Leaf
  /\ Letter \intersect {"<", "m", "/", ">"} = {}

VARIABLE html \* the answer, if it is HTML

vars == <<answer, html>>

-----------------------------------------------------------------------------
(* Fragments.                                                              *)

BlockTags == {"p", "li"}
Element(tag, kids) == [tag |-> tag, text |-> <<>>, kids |-> kids]
TextNode(t) == [tag |-> "text", text |-> t, kids |-> <<>>]
Elements(f) == SelectSeq(f, LAMBDA n : n.tag # "text")

\* collectTextNodes: the texts in the order of the walk.
RECURSIVE CollectTextNodes(_)
CollectTextNodes(f) ==
  FlattenSeq([i \in DOMAIN f |->
    IF f[i].tag = "text" THEN <<f[i].text>> ELSE CollectTextNodes(f[i].kids)])

TextContent(f) == FlattenSeq(CollectTextNodes(f))

RECURSIVE ContainsBlockElements(_)
ContainsBlockElements(f) ==
  \E i \in DOMAIN f : f[i].tag \in BlockTags \/ ContainsBlockElements(f[i].kids)

\* Mutant: the first node is unwrapped whatever follows it.
RECURSIVE UnwrapAny(_)
UnwrapAny(f) ==
  IF Elements(f) # <<>> /\ NormalizeText(TextContent(f)) # <<>> /\ Elements(f)[1].tag \in BlockTags
  THEN UnwrapAny(Elements(f)[1].kids) ELSE f

\* unwrapSingleBlockWrapper: childElementCount counts no texts.
RECURSIVE UnwrapSingleBlockWrapper(_)
UnwrapSingleBlockWrapper(f) ==
  IF /\ Len(Elements(f)) = 1
     /\ NormalizeText(TextContent(f)) # <<>>
     /\ Elements(f)[1].tag \in BlockTags
  THEN UnwrapSingleBlockWrapper(Elements(f)[1].kids) ELSE f

\* normalizeAiReplacementHtml (white space at the ends of the HTML is left out;
\* fences and entities are gone when the answer is parsed).
NormalizeAiReplacementHtml(inline, proposed, f) ==
  LET fallback == <<TextNode(NormalizeText(proposed))>>
      g == IF inline THEN UnwrapSingleBlockWrapper(f) ELSE f
  IN IF Elements(f) = <<>> THEN fallback
     ELSE IF inline /\ ContainsBlockElements(g) THEN <<TextNode(NormalizeText(TextContent(g)))>>
     ELSE IF Elements(g) = <<>> /\ NormalizeText(TextContent(g)) = <<>> THEN fallback ELSE g

-----------------------------------------------------------------------------
(* The preview of a version.                                               *)

NeedsLineBreak(segments) ==
  segments # <<>> /\ Last(segments) # <<>> /\ Last(Last(segments)) # "nl"

\* toString of a Y.XmlText: a marked run stands between the tags of its mark.
XmlTextString(t) ==
  IF t \in Marked THEN <<"<", "m", ">">> \o t \o <<"<", "/", "m", ">">> ELSE t

\* appendNodePreview.
RECURSIVE AppendNodePreview(_, _)
AppendNodePreview(segments, node) ==
  LET isBlock == node.tag \in BlockTags
      bullet == IF node.tag = "li" THEN Append(segments, <<"*", " ">>) ELSE segments
      opened == IF isBlock /\ NeedsLineBreak(bullet) THEN Append(bullet, <<"nl">>) ELSE bullet
      body == FoldLeft(LAMBDA s, n : AppendNodePreview(s, n), opened, node.kids)
  IN CASE node.tag = "text" -> Append(segments, XmlTextString(node.text))
       [] node.tag = "br" -> Append(segments, <<"nl">>)
       [] OTHER -> IF isBlock THEN Append(body, <<"nl">>) ELSE body

RECURSIVE SplitLines(_)
SplitLines(chars) ==
  LET nl == First(chars, 1, {"nl"})
  IN IF nl > Len(chars) THEN <<chars>>
     ELSE <<SubSeq(chars, 1, nl - 1)>> \o SplitLines(SubSeq(chars, nl + 1, Len(chars)))

\* The normalized lines of a document, none of them empty.
NormalizedLines(f) ==
  LET segments == FoldLeft(LAMBDA s, n : AppendNodePreview(s, n), <<>>, f)
      lines == SplitLines(FlattenSeq(segments))
  IN SelectSeq([k \in DOMAIN lines |-> NormalizeText(lines[k])], LAMBDA l : l # <<>>)

BuildVersionPreview(f) == TakeLines(NormalizedLines(f))

-----------------------------------------------------------------------------
(* The inputs: a text that arrives character by character, or a fragment.  *)

Fragments(nodes) == {<<>>} \union {<<n>> : n \in nodes} \union {<<m, n>> : m, n \in nodes}

\* Nodes over fragments: texts, line breaks and elements.
Nodes(fragments) ==
  {TextNode(t) : t \in Leaf} \union {Element("br", <<>>)}
    \union {Element(tag, f) : tag \in BlockTags \union {"em"}, f \in fragments}

Init == TextInit /\ html = <<>>

\* A plain answer goes on.
Continue == html = <<>> /\ TextNext /\ UNCHANGED html

\* The answer is HTML: any pair of nodes two deep, or one node three deep.
Answer ==
  /\ answer = <<>> /\ html = <<>>
  /\ LET deep == Fragments(Nodes(Fragments(Nodes({<<>>}))))
     IN html' \in deep \union {<<n>> : n \in Nodes(deep)}
  /\ UNCHANGED answer

Next == Answer \/ Continue

Spec == Init /\ [][Next]_vars

-----------------------------------------------------------------------------
(* Properties.                                                             *)

(* The sentences of an HTML proposal (SentencesKeep).                      *)
SentencesKeepHtml == SentencesKeep(CollectTextNodes(html))

\* Text stands beside a block that is unwrapped as the only element.
RECURSIVE TextBesideWrapper(_)
TextBesideWrapper(f) ==
  /\ UnwrapSingleBlockWrapper(f) # f
  /\ \/ \E i \in DOMAIN f : f[i].tag = "text" /\ NormalizeText(f[i].text) # <<>>
     \/ TextBesideWrapper(Elements(f)[1].kids)

(* What replaces the selection has every letter of the proposal in order,  *)
(* and no block inside a line of text; only text beside a lone block is    *)
(* dropped with the wrapper.                                               *)
ReplacementKeepsText ==
  \A inline \in BOOLEAN :
    LET g == NormalizeAiReplacementHtml(inline, TextContent(html), html) IN
    /\ (~inline \/ ~TextBesideWrapper(html)) => Letters(TextContent(g)) = Letters(TextContent(html))
    /\ inline => ~ContainsBlockElements(g)

\* Tags stand in a text.
HasTags(t) == \E i \in DOMAIN t : t[i] \in {"<", "m", "/", ">"}

(* A preview keeps its limits of lines and characters, its lines begin     *)
(* the first lines of the document in order, and all of a document that    *)
(* fits is shown.  The lines have the document's letters in reading order, *)
(* and nothing else but the tags of its marks, which toString leaves in    *)
(* the text and the limits count.                                          *)
PreviewBegins ==
  /\ Letters(FlattenSeq(NormalizedLines(html))) = Letters(TextContent(html))
  /\ HasTags(FlattenSeq(NormalizedLines(html))) <=> \E t \in ToSet(CollectTextNodes(html)) : t \in Marked
  /\ PreviewKeeps(NormalizedLines(html))
=============================================================================
