---------------------------- MODULE SourceLines ----------------------------
(***************************************************************************)
(* Source lines of a Rust file, the tier with no parser                    *)
(* (crates/engines/static-metrics/src/rustlex.rs, sloc.rs): a scanner      *)
(* finds the comments, and a second scan counts the lines of a range that  *)
(* hold a byte neither whitespace nor comment.                             *)
(*                                                                         *)
(* The file is a sequence of bytes, written token by token; the scanner    *)
(* sees the bytes only.                                                    *)
(***************************************************************************)
EXTENDS Naturals, Sequences, FiniteSets, SequencesExt

CONSTANT MaxTokens       \* tokens in the file

VARIABLES
    tokens,      \* the file, as its tokens
    scan         \* the scanner and the counter

(***************************************************************************)
(* Tokens of Rust.                                                         *)
(***************************************************************************)
NL == "newline"
Quote == "\""
Tick == "'"
Escape == "\\"
Token(kind, bytes) == [kind |-> kind, bytes |-> bytes]

Newline == Token("newline", <<NL>>)
Space == Token("space", <<" ">>)
Word == Token("word", <<"x", "r">>)
LineComment == Token("comment", <<"/", "/", Quote>>)
BlockComment == Token("comment", <<"/", "*", NL, "/", "*", "*", "/", Tick, "*", "/">>)
String == Token("string", <<Quote, Escape, Quote, "/", "/", Quote>>)
RawString == Token("prefixed", <<"r", "#", Quote, Quote, "/", "*", Quote, "#">>)
ByteString == Token("prefixed", <<"b", Quote, "/", "/", Quote>>)
QuoteLiteral == Token("character", <<Tick, Quote, Tick>>)
EscapedTick == Token("character", <<Tick, Escape, Tick, Tick>>)
Lifetime == Token("lifetime", <<Tick, "x">>)
Tokens == {Newline, Space, Word, LineComment, BlockComment, String, RawString,
           ByteString, QuoteLiteral, EscapedTick, Lifetime}

\* Two tokens that may stand next to each other and stay two.
MayFollow(token, after) ==
    /\ after = LineComment => token = Newline
    /\ after.kind \in {"word", "lifetime"} => token.kind \notin {"word", "prefixed"}
    /\ after = Lifetime => token.kind \notin {"character", "lifetime"}

Bytes == FlattenSeq([i \in DOMAIN tokens |-> tokens[i].bytes])
Size == Len(Bytes)
\* Offsets are the program's: the first byte is at 0.
ByteAt(i) == IF i < Size THEN Bytes[i + 1] ELSE "end"
StartOf(n) == Len(FlattenSeq([i \in 1..(n - 1) |-> tokens[i].bytes]))
EndOf(n) == StartOf(n) + Len(tokens[n].bytes)

(***************************************************************************)
(* The scanner.                                                            *)
(***************************************************************************)
NoEnd == 0

ContinuesIdentifier(i) == i > 0 /\ ByteAt(i - 1) \in {"x", "r", "b"}

StringEnd(from) ==
    LET end[i \in 0..(Size + 2)] ==
            IF i >= Size THEN Size
            ELSE CASE ByteAt(i) = Escape -> end[i + 2]
                   [] ByteAt(i) = Quote -> i + 1
                   [] OTHER -> end[i + 1]
    IN end[from]

\* r"...", r#"..."#, b"...", br#"..."#: the hashes are part of the terminator.
RawOrByteStringEnd(start) ==
    LET prefixed == ByteAt(start) = "b"
        r == IF prefixed THEN start + 1 ELSE start
        hashes == CHOOSE n \in 0..Size : /\ \A i \in 1..n : ByteAt(r + i) = "#"
                                         /\ ByteAt(r + n + 1) # "#"
        open == r + hashes + 1
        closings == {i \in (open + 1)..(Size - 1) :
                        ByteAt(i) = Quote /\ \A n \in 1..hashes : ByteAt(i + n) = "#"}
    IN IF ByteAt(r) = "r"
       THEN IF ByteAt(open) # Quote THEN NoEnd
            ELSE IF closings = {} THEN Size
            ELSE (CHOOSE i \in closings : \A j \in closings : i <= j) + 1 + hashes
       ELSE IF prefixed /\ ByteAt(r) = Quote THEN StringEnd(r + 1)
       ELSE NoEnd

CharLiteralEnd(i) ==
    LET after == i + 1
        closings == {j \in (after + 1)..(Size - 1) :
                        ByteAt(j) = Tick /\ \A k \in (after + 1)..j : ByteAt(k) # NL}
    IN CASE ByteAt(after) = Escape /\ closings # {} ->
                (CHOOSE j \in closings : \A k \in closings : j <= k) + 1
         [] ByteAt(after) \notin {Escape, "end"} /\ ByteAt(after + 1) = Tick -> after + 2
         [] OTHER -> NoEnd

LineEnd(from) == CHOOSE i \in from..Size : /\ i = Size \/ ByteAt(i) = NL
                                           /\ \A j \in from..(i - 1) : ByteAt(j) # NL
\* Mutant of BlockEnd: the first */ closes.
BlockEndFlat(from) ==
    LET closings == {i \in from..(Size - 2) : ByteAt(i) = "*" /\ ByteAt(i + 1) = "/"}
    IN IF closings = {} THEN Size ELSE (CHOOSE i \in closings : \A j \in closings : i <= j) + 2

\* The outermost */ closes a nest of block comments.
BlockEnd(from) ==
    LET end[i \in 0..(Size + 1), depth \in 0..(Size + 1)] ==
            IF i >= Size \/ depth = 0 THEN i
            ELSE CASE ByteAt(i) = "/" /\ ByteAt(i + 1) = "*" -> end[i + 2, depth + 1]
                   [] ByteAt(i) = "*" /\ ByteAt(i + 1) = "/" -> end[i + 2, depth - 1]
                   [] OTHER -> end[i + 1, depth]
    IN end[from, 1]

Otherwise(end, i) == IF end = NoEnd THEN i + 1 ELSE end
Skip(i) == [scan EXCEPT !.at = i]
Comment(from, to) == [scan EXCEPT !.at = to, !.comments = Append(@, <<from, to>>)]

\* One turn of comment_ranges.
Scanned ==
    LET i == scan.at
        string == IF ByteAt(i) \in {"r", "b"} /\ ~ContinuesIdentifier(i)
                  THEN RawOrByteStringEnd(i) ELSE NoEnd
    IN IF string # NoEnd THEN Skip(string)
       ELSE CASE ByteAt(i) = "/" /\ ByteAt(i + 1) = "/" -> Comment(i, LineEnd(i))
              [] ByteAt(i) = "/" /\ ByteAt(i + 1) = "*" -> Comment(i, BlockEnd(i + 2))
              [] ByteAt(i) = Quote -> Skip(StringEnd(i + 1))
              [] ByteAt(i) = Tick -> Skip(Otherwise(CharLiteralEnd(i), i))
              [] OTHER -> Skip(i + 1)

(***************************************************************************)
(* sloc_range: the lines of [start, end), with a cursor into the comments. *)
(***************************************************************************)
\* The lines closed by the newlines of [from, to), when the first of them
\* holds code or not.
Closed(from, to, hasCode) ==
    IF hasCode /\ \E i \in from..(to - 1) : ByteAt(i) = NL THEN 1 ELSE 0

PastComments(next, at) ==
    CHOOSE n \in next..(Len(scan.comments) + 1) :
        /\ n > Len(scan.comments) \/ scan.comments[n][2] > at
        /\ \A m \in next..(n - 1) : scan.comments[m][2] <= at

\* One turn of sloc_range: a newline, a whole comment, or a byte.
Counted ==
    LET at == scan.at
        next == PastComments(scan.next, at)
        inComment == /\ next <= Len(scan.comments)
                     /\ scan.comments[next][1] <= at
        stop == IF inComment /\ scan.comments[next][2] < scan.to
                THEN scan.comments[next][2] ELSE scan.to
    IN CASE ByteAt(at) = NL ->
                [scan EXCEPT !.at = at + 1, !.hasCode = FALSE,
                             !.lines = @ + (IF scan.hasCode THEN 1 ELSE 0)]
         [] ByteAt(at) # NL /\ inComment ->
                [scan EXCEPT !.at = stop, !.next = next,
                             !.lines = @ + Closed(at, stop, scan.hasCode),
                             !.hasCode = @ /\ \A i \in at..(stop - 1) : ByteAt(i) # NL]
         [] OTHER ->
                [scan EXCEPT !.at = at + 1, !.next = next, !.hasCode = @ \/ ByteAt(at) # " "]

(***************************************************************************)
(* The file is written, scanned, and a range of it counted.                *)
(***************************************************************************)
Unscanned == [phase |-> "written", at |-> 0, comments |-> <<>>, from |-> 0, to |-> 0,
              next |-> 1, hasCode |-> FALSE, lines |-> 0]

SourceLinesInit == tokens = <<>> /\ scan = Unscanned

WriteToken ==
    /\ scan = Unscanned
    /\ Len(tokens) < MaxTokens
    /\ \E token \in Tokens :
        /\ tokens # <<>> => MayFollow(token, Last(tokens))
        /\ tokens' = Append(tokens, token)
    /\ UNCHANGED scan

StartScan ==
    /\ scan = Unscanned
    /\ scan' = [scan EXCEPT !.phase = "scanning"]
    /\ UNCHANGED tokens

ScanNext ==
    /\ scan.phase = "scanning"
    /\ scan.at < Size
    /\ scan' = Scanned
    /\ UNCHANGED tokens

\* The whole file, or a range of it (a function's) between two tokens.
StartCount ==
    /\ scan.phase = "scanning"
    /\ scan.at >= Size
    /\ \E n \in DOMAIN tokens, last \in DOMAIN tokens :
        /\ n <= last /\ (n = 1 \/ last = Len(tokens))
        /\ scan' = [scan EXCEPT
                    !.phase = "counting", !.at = StartOf(n), !.from = n, !.to = EndOf(last),
                    !.next = 1 + Cardinality({m \in DOMAIN scan.comments :
                                                scan.comments[m][2] <= StartOf(n)})]
    /\ UNCHANGED tokens

CountNext ==
    /\ scan.phase = "counting"
    /\ scan.at < scan.to
    /\ scan' = Counted
    /\ UNCHANGED tokens

SourceLinesNext == WriteToken \/ StartScan \/ ScanNext \/ StartCount \/ CountNext

CountEnded == scan.phase = "counting" /\ scan.at >= scan.to
Sloc == scan.lines + (IF scan.hasCode THEN 1 ELSE 0)

(***************************************************************************)
(* What the count is of, said of the tokens.                               *)
(***************************************************************************)
\* The line a byte is on, and the lines of the range with a byte of code.
LineAt(offset) == Cardinality({i \in 0..(offset - 1) : ByteAt(i) = NL})
CodeLines ==
    {LineAt(i) : i \in {i \in 0..(Size - 1) :
        \E n \in DOMAIN tokens :
            /\ tokens[n].kind \notin {"comment", "space", "newline"}
            /\ n >= scan.from
            /\ StartOf(n) <= i /\ i < EndOf(n) /\ EndOf(n) <= scan.to
            /\ ByteAt(i) \notin {NL, " "}}}

\* An escaped tick, then one byte, then a tick: the scanner ends the literal at
\* the tick it escapes and reads the byte as a literal.
EscapedTickMisread ==
    \E n \in DOMAIN tokens :
        /\ n + 2 \in DOMAIN tokens
        /\ tokens[n] = EscapedTick
        /\ tokens[n + 1].kind \in {"space", "newline"}
        /\ Head(tokens[n + 2].bytes) = Tick

\* The lines counted in a range of a Rust file are those on which a token other
\* than a comment stands: a comment marker in a string, raw, byte or character
\* literal hides nothing, a comment is found after any literal, and the cursor
\* into the comments never loses one (rustlex.rs, sloc.rs).
LinesAreOfCode == CountEnded /\ ~EscapedTickMisread => Sloc = Cardinality(CodeLines)

=============================================================================
