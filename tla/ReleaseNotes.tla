---------------------------- MODULE ReleaseNotes ----------------------------
(***************************************************************************)
(* parseReleaseNotes: the text of a release, line by line, into the blocks *)
(* the update dialog shows.  A line is known by its kind, which is what    *)
(* the parser's patterns tell apart; a block by its kind, the line it      *)
(* starts at and the lines whose text it holds.  The spans inside a block  *)
(* are left out.  The dialog keys its blocks by where they start.          *)
(***************************************************************************)
EXTENDS Naturals, Sequences, SequencesExt, FiniteSets

CONSTANTS MaxBlocks,    \* RELEASE_NOTE_MAX_BLOCKS
          MaxLines      \* bound

ASSUME NotesAssumption == {MaxBlocks, MaxLines} \subseteq Nat

VARIABLE draft          \* the lines of a release's text

\* A bare fence opens and closes; one with a language only opens; a tilde fence is another mark.
\* A long line takes its block past RELEASE_NOTE_MAX_BLOCK_CHARS.
LineKinds == {"text", "long", "blank", "fence", "language", "tilde", "indented", "heading", "bullet", "numbered"}

Opens(line) == line \in {"fence", "language", "tilde"}
MarkOf(line) == IF line = "tilde" THEN "tildes" ELSE "ticks"
ClosesFence(line, mark) == line = (IF mark = "tildes" THEN "tilde" ELSE "fence")
Alone(line) == line \in {"heading", "bullet", "numbered"}

Block(kind, start, held) == [kind |-> kind, start |-> start, held |-> held]

\* push: past the most blocks, a block is dropped and the notes are capped.
Push(parse, lines, block) ==
    LET cut == \E k \in block.held : lines[k] = "long"
    IN IF Len(parse.blocks) >= MaxBlocks THEN [parse EXCEPT !.capped = TRUE]
       ELSE [parse EXCEPT !.blocks = Append(@, block), !.capped = @ \/ cut]

FlushParagraph(parse, lines) ==
    IF parse.paragraph = {} THEN parse
    ELSE [Push(parse, lines, Block("paragraph", parse.start, parse.paragraph)) EXCEPT !.paragraph = {}]

\* An indented block loses its blank lines at the end.
WithoutBlankEnd(held, lines) ==
    {k \in held : \E j \in held : j >= k /\ lines[j] # "blank"}

\* The end of a run of fenced or of indented lines.
EndCode(parse, lines) ==
    CASE parse.mode = "fenced" ->
            [Push(parse, lines, Block("code", parse.start, parse.held)) EXCEPT !.mode = "plain"]
      [] parse.mode = "indented" ->
            [Push(parse, lines, Block("code", parse.start, WithoutBlankEnd(parse.held, lines))) EXCEPT !.mode = "plain"]
      [] OTHER -> parse

\* Mutation of StartsIndented: an indented line ends the paragraph it is in.
StartsIndentedAnywhere(parse, line) == line = "indented"

\* Inside a paragraph an indented line is more of it.
StartsIndented(parse, line) == line = "indented" /\ parse.paragraph = {}

PlainLine(parse, lines, k) ==
    LET line == lines[k] flushed == FlushParagraph(parse, lines) IN
    CASE Opens(line) ->
            [flushed EXCEPT !.mode = "fenced", !.mark = MarkOf(line), !.start = k, !.held = {}]
      [] line = "blank" -> flushed
      [] StartsIndented(parse, line) ->
            [parse EXCEPT !.mode = "indented", !.start = k, !.held = {k}]
      [] Alone(line) -> Push(flushed, lines, Block(line, k, {k}))
      [] OTHER ->
            [parse EXCEPT !.start = IF parse.paragraph = {} THEN k ELSE @, !.paragraph = @ \cup {k}]

ReadLine(parse, lines, k) ==
    CASE parse.mode = "fenced" /\ ClosesFence(lines[k], parse.mark) -> EndCode(parse, lines)
      [] parse.mode = "fenced" /\ ~ClosesFence(lines[k], parse.mark) -> [parse EXCEPT !.held = @ \cup {k}]
      [] parse.mode = "indented" /\ lines[k] \in {"indented", "blank"} -> [parse EXCEPT !.held = @ \cup {k}]
      [] OTHER -> PlainLine(EndCode(parse, lines), lines, k)

ParseReleaseNotes(lines) ==
    LET begun == [blocks |-> <<>>, capped |-> FALSE, mode |-> "plain", mark |-> "ticks",
                  start |-> 0, held |-> {}, paragraph |-> {}]
        read == FoldLeft(LAMBDA parse, k : ReadLine(parse, lines, k), begun, [k \in 1..Len(lines) |-> k])
        ended == FlushParagraph(EndCode(read, lines), lines)
    IN [blocks |-> ended.blocks, capped |-> ended.capped]

-----------------------------------------------------------------------------
WriteLine ==
    /\ Len(draft) < MaxLines
    /\ \E line \in LineKinds : draft' = Append(draft, line)

NotesInit == draft = <<>>
NotesNext == WriteLine
NotesSpec == NotesInit /\ [][NotesNext]_draft

-----------------------------------------------------------------------------
(* Properties. *)

\* The line that opened the fence a line stands in, by counting from the top; 0 outside one.
FenceOf[k \in 0..MaxLines] ==
    IF k = 0 THEN 0
    ELSE IF FenceOf[k - 1] # 0 /\ ~(FenceOf[k - 1] # k - 1 /\ ClosesFence(draft[k - 1], MarkOf(draft[FenceOf[k - 1]])))
         THEN FenceOf[k - 1]
    ELSE IF Opens(draft[k]) THEN k ELSE 0

\* A line is a fence's own: it opens one, or closes the one it stands in.
Marks(k) == FenceOf[k] = k \/ (FenceOf[k] # 0 /\ ClosesFence(draft[k], MarkOf(draft[FenceOf[k]])))

\* Reading notes loses nothing and shows nothing twice (parseReleaseNotes): every line with text that is
\* not a fence's mark is in exactly one block unless the notes say they are cut, what is inside a fence
\* is code, blocks follow the text in order, and no two start at the same place.
NotesAreWhole ==
    LET parsed == ParseReleaseNotes(draft) blocks == parsed.blocks IN
    /\ \A i, j \in DOMAIN blocks :
         i < j => blocks[i].start < blocks[j].start /\ \A a \in blocks[i].held, b \in blocks[j].held : a < b
    /\ \A k \in DOMAIN draft :
         /\ (draft[k] # "blank" /\ ~Marks(k) /\ ~parsed.capped) => \E i \in DOMAIN blocks : k \in blocks[i].held
         /\ \A i \in DOMAIN blocks : k \in blocks[i].held =>
              /\ ~Marks(k)
              /\ FenceOf[k] # 0 => blocks[i].kind = "code" /\ blocks[i].start = FenceOf[k]
              /\ (FenceOf[k] = 0 /\ blocks[i].kind = "code") => draft[k] \in {"indented", "blank"}
    /\ parsed.capped =>
         \/ \E i \in DOMAIN blocks : \E k \in blocks[i].held : draft[k] = "long"
         \/ Len(blocks) = MaxBlocks
=============================================================================
