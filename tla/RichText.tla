------------------------------ MODULE RichText ------------------------------
(***************************************************************************)
(* The text of a rich message (rich.py), and what is read from it: does it *)
(* end a settle window (telegram.py: _has_content), which modules does it  *)
(* list (server.py: _parse_help).                                          *)
(*                                                                         *)
(* A text is a sequence of atoms: words, the sign "*" for an emoji, and    *)
(* the marks and blanks that the code writes or looks for.  A message is a *)
(* tree of blocks over text nodes; Depth bounds how deep a tree nests, so  *)
(* that what is read from it is a recursive function.                      *)
(***************************************************************************)
EXTENDS Naturals, Sequences, SequencesExt

CONSTANTS Word,    \* runs of letters and digits, numbers left out
          Numeral, \* the numbers, from 1 on
          Depth    \* of each text node and block: how deep it nests

Alnum == Word \cup Range(Numeral)
Blank == {" ", "\n"}
Sign  == {"*", ":", "(", ")", "|", ".", "---"} \cup Blank
Atom  == Alnum \cup Sign

Tree   == DOMAIN Depth
Nodes  == {t \in Tree : t.is \in {"absent", "image", "string", "styled", "concat"}}
Blocks == {t \in Tree : t.is \in {"divider", "list", "table", "block"}}

(* Whether a tree is put together as its class is.                         *)
Formed(tree) ==
    \/ tree.is \in {"absent", "image", "divider"}
    \/ tree.is = "string" /\ tree.text \in Seq(Atom)
    \/ tree.is = "styled" /\ tree.node \in Nodes
    \/ tree.is = "concat" /\ tree.texts \in Seq(Nodes)
    \/ /\ tree.is = "list" /\ tree.items \in Seq(Blocks) /\ tree.ordered \in BOOLEAN
       /\ tree.ordered => Len(tree.items) <= Len(Numeral)
    \/ tree.is = "table" /\ tree.rows \in Seq(Seq(Nodes))
    \/ /\ tree.is = "block" /\ tree.blocks \in Seq(Blocks)
       /\ {tree.title, tree.text, tree.caption} \subseteq Nodes

(* The trees that stand in a tree.                                         *)
Inner(tree) ==
    CASE tree.is = "styled" -> {tree.node}
      [] tree.is = "concat" -> Range(tree.texts)
      [] tree.is = "list"   -> Range(tree.items)
      [] tree.is = "table"  -> UNION {Range(row) : row \in Range(tree.rows)}
      [] tree.is = "block"  -> {tree.title, tree.text, tree.caption} \cup Range(tree.blocks)
      [] OTHER              -> {}

ASSUME RichAssumption ==
    /\ Numeral \in Seq(Range(Numeral))
    /\ Word \cap Range(Numeral) = {} /\ Alnum \cap Sign = {}
    /\ Depth \in [Tree -> Nat]
    /\ \A tree \in Tree :
         Formed(tree) /\ \A part \in Inner(tree) : part \in Tree /\ Depth[part] < Depth[tree]

(* A function on each of a sequence; what a text has of S; the parts that *)
(* are not empty.                                                          *)
Mapped(f, s) == [i \in DOMAIN s |-> f[s[i]]]

Only(S, text)   == FlattenSeq([i \in DOMAIN text |-> IF text[i] \in S THEN <<text[i]>> ELSE <<>>])
NonEmpty(parts) == FlattenSeq([i \in DOMAIN parts |-> IF parts[i] # <<>> THEN <<parts[i]>> ELSE <<>>])

Join(parts, mark) ==
    FlattenSeq([i \in DOMAIN parts |-> IF i = 1 THEN parts[i] ELSE mark \o parts[i]])

Strip(text) ==
    LET shown == {i \in DOMAIN text : text[i] \notin Blank}
    IN  IF shown = {} THEN <<>> ELSE SubSeq(text, Min(shown), Max(shown))

(* Constructors of messages: text nodes, and blocks that may lack parts.   *)
Absent         == [is |-> "absent"]
Image          == [is |-> "image"]
Str(text)      == [is |-> "string", text |-> text]
Styled(node)   == [is |-> "styled", node |-> node]
Concat(nodes)  == [is |-> "concat", texts |-> nodes]
Divider        == [is |-> "divider"]
Items(num, bs) == [is |-> "list", ordered |-> num, items |-> bs]
Table(t, rows) == [is |-> "table", title |-> t, rows |-> rows]
Block(title, text, caption, blocks) ==
    [is |-> "block", title |-> title, text |-> text, caption |-> caption, blocks |-> blocks]

(* _text: images and missing nodes are empty.                              *)
NodeText(texts, node) ==
    CASE node.is = "string" -> node.text
      [] node.is = "styled" -> texts[node.node]
      [] node.is = "concat" -> FlattenSeq(Mapped(texts, node.texts))
      [] OTHER              -> <<>>

TextOf[node \in Nodes] == NodeText(TextOf, node)

(* _list_items: an empty item leaves no line, but takes its number.        *)
Item(ordered, i, body) ==
    IF body = <<>> THEN <<>>
    ELSE (IF ordered THEN <<Numeral[i], ".", " ">> ELSE <<"*", " ">>) \o body

(* Mutant of Parts: the caption of a block is left out.                    *)
Parts_NoCaption(block, inner) ==
    NonEmpty(<<TextOf[block.title], TextOf[block.text], Join(NonEmpty(inner), <<"\n">>)>>)

(* The last part of _block: title, text, caption and inner blocks.         *)
Parts(block, inner) ==
    NonEmpty(<<TextOf[block.title], TextOf[block.text], TextOf[block.caption],
               Join(NonEmpty(inner), <<"\n">>)>>)

(* _block.  The title of a table is not rendered.                          *)
OneBlock(texts, block) ==
    CASE block.is = "divider" -> <<"---">>
      [] block.is = "list"  ->
           Join(NonEmpty([i \in DOMAIN block.items |->
                             Item(block.ordered, i, Strip(texts[block.items[i]]))]), <<"\n">>)
      [] block.is = "table" ->
           Join([i \in DOMAIN block.rows |->
                    Join(Mapped(TextOf, block.rows[i]), <<" ", "|", " ">>)], <<"\n">>)
      [] block.is = "block" -> Join(Parts(block, Mapped(texts, block.blocks)), <<"\n">>)

BlockText[block \in Blocks] == OneBlock(BlockText, block)

(* Mutant: the blocks of a message are run together.                       *)
RichToText_OneLine(blocks) ==
    Join(NonEmpty(Mapped(BlockText, blocks)), <<" ">>)

(* rich_to_text, and _blocks.                                              *)
RichToText(blocks) ==
    Join(NonEmpty(Mapped(BlockText, blocks)), <<"\n">>)

(* message_text.                                                           *)
MessageText(plain, blocks) == IF plain # <<>> THEN plain ELSE RichToText(blocks)

(* Mutant of HasContent: any text is content.                              *)
HasContent_Any(text) == text # <<>>

(* _has_content.                                                           *)
HasContent(text) == \E i \in DOMAIN text : text[i] \in Alnum

-----------------------------------------------------------------------------
(* _parse_help.  The first position from i on whose atom is not in S.      *)
Beyond(line, i, S) == Min({j \in i .. Len(line) : line[j] \notin S} \cup {Len(line) + 1})

(* splitlines; an empty line, one behind the last break too, is passed     *)
(* over.                                                                   *)
Lines(text) ==
    LET ends == SetToSortSeq({i \in DOMAIN text : text[i] = "\n"} \cup {Len(text) + 1}, <)
    IN  [k \in DOMAIN ends |->
            SubSeq(text, IF k = 1 THEN 1 ELSE ends[k - 1] + 1, ends[k] - 1)]

(* _rx_line: signs, a name, a colon, and commands in parentheses that      *)
(* close the line.  <<>> when it does not match.                           *)
MatchLine(line) ==
    LET name  == Beyond(line, 1, Range(line) \ Alnum)
        colon == Beyond(line, name, Alnum)
        open  == Beyond(line, colon + 1, Blank)
    IN  IF /\ colon > name /\ colon < Len(line) /\ line[colon] = ":"
           /\ open + 1 < Len(line) /\ line[open] = "(" /\ Last(line) = ")"
        THEN <<[name     |-> SubSeq(line, name, colon - 1),
                commands |-> Strip(SubSeq(line, open + 1, Len(line) - 1))]>>
        ELSE <<>>

ParseHelp(text) ==
    LET lines == Lines(text)
    IN  FlattenSeq([i \in DOMAIN lines |-> MatchLine(Strip(lines[i]))])
=============================================================================
