----------------------------- MODULE BlobBatch -----------------------------
(***************************************************************************)
(* Content reads (crates/andon-core/src/git/blob.rs): one long-running     *)
(* `git cat-file --batch` answers every read through a pipe, in order and  *)
(* without saying which read it answers to but in its header, which the    *)
(* reader does not compare.  The process may die at any point.  Work-tree  *)
(* files are read past it, and never into the compared lane.               *)
(***************************************************************************)
EXTENDS Naturals, Sequences, SequencesExt

CONSTANTS
    ObjectKind,   \* the objects of the repository -> blob, commit, tree
    Names,        \* what may be asked for
    Hexadecimal,  \* the names that are hexadecimal; an object's name is
    Ambiguous,    \* hexadecimal names that begin more than one object's
    MaxReads      \* bound: reads asked for

ASSUME BlobAssumption ==
    /\ \A name \in DOMAIN ObjectKind : ObjectKind[name] \in {"blob", "commit", "tree"}
    /\ DOMAIN ObjectKind \subseteq Hexadecimal
    /\ Ambiguous \subseteq Hexadecimal \ DOMAIN ObjectKind

VARIABLES
    asked,     \* lines written to the process that it has not answered
    pipe,      \* what it wrote that has not been read
    alive,
    reader,    \* the read under way
    reads      \* the reads that ended: what was asked, what came of it

blobVars == <<asked, pipe, alive, reader, reads>>

Between == [at |-> "between"]
ReadOutcome(name, result, content, origin) ==
    [asked |-> name, result |-> result, content |-> content, origin |-> origin]
NoContent == "nothing"

BlobInit ==
    /\ asked = <<>> /\ pipe = <<>> /\ alive = TRUE
    /\ reader = Between
    /\ reads = <<>>

Lane(origin) == IF origin = "blob" THEN "compared" ELSE "advisory"

EndRead(result, content) ==
    /\ reads' = Append(reads, ReadOutcome(reader.name, result, content, "blob"))
    /\ reader' = Between

\* BlobBatch::read: only a hexadecimal name is written; a process that is gone
\* refuses the line.
Ask(name) ==
    /\ reader = Between
    /\ Len(reads) < MaxReads
    /\ IF name \in Hexadecimal
       THEN IF alive
            THEN /\ reader' = [at |-> "header", name |-> name]
                 /\ asked' = Append(asked, name)
                 /\ UNCHANGED reads
            ELSE /\ reads' = Append(reads, ReadOutcome(name, "broken", NoContent, "blob"))
                 /\ UNCHANGED <<asked, reader>>
       ELSE /\ reads' = Append(reads, ReadOutcome(name, "protocol", NoContent, "blob"))
            /\ UNCHANGED <<asked, reader>>
    /\ UNCHANGED <<pipe, alive>>

(***************************************************************************)
(* git cat-file --batch, external.                                         *)
(***************************************************************************)
HeaderOf(name) ==
    [part |-> "header", name |-> name,
     says |-> IF name \in Ambiguous THEN "ambiguous"
              ELSE IF name \in DOMAIN ObjectKind THEN ObjectKind[name] ELSE "missing"]
ReplyTo(name) ==
    <<HeaderOf(name)>>
    \o (IF HeaderOf(name).says \in {"missing", "ambiguous"} THEN <<>>
        ELSE <<[part |-> "body", name |-> name, says |-> NoContent],
               [part |-> "newline", name |-> name, says |-> NoContent]>>)

CatFileAnswers ==
    /\ alive /\ asked # <<>>
    /\ pipe' = pipe \o ReplyTo(Head(asked))
    /\ asked' = Tail(asked)
    /\ UNCHANGED <<alive, reader, reads>>

\* It dies, perhaps with its last write half done.
CatFileDies ==
    /\ alive
    /\ alive' = FALSE
    /\ asked' = <<>>
    /\ \E written \in {pipe} \cup (IF pipe = <<>> THEN {} ELSE {Front(pipe)}) : pipe' = written
    /\ UNCHANGED <<reader, reads>>

(***************************************************************************)
(* The rest of BlobBatch::read.  Mutant: the body of what is not a blob is *)
(* left in the pipe.                                                       *)
(***************************************************************************)
ReadHeaderUndrained ==
    /\ reader.at = "header" /\ pipe # <<>>
    /\ pipe' = Tail(pipe)
    /\ CASE Head(pipe).part = "header" /\ Head(pipe).says = "missing" -> EndRead("missing", NoContent)
         [] Head(pipe).part = "header" /\ Head(pipe).says = "blob" ->
                /\ reader' = [at |-> "body", name |-> reader.name, says |-> "blob"]
                /\ UNCHANGED reads
         [] OTHER -> EndRead("not a blob", NoContent)
    /\ UNCHANGED <<asked, alive>>

ReadHeader ==
    /\ reader.at = "header"
    /\ pipe # <<>>
    /\ pipe' = Tail(pipe)
    /\ LET header == Head(pipe) IN
       CASE header.part = "header" /\ header.says = "missing" -> EndRead("missing", NoContent)
         [] header.part = "header" /\ header.says \in {"blob", "commit", "tree"} ->
                /\ reader' = [at |-> "body", name |-> reader.name, says |-> header.says]
                /\ UNCHANGED reads
         [] OTHER -> EndRead("protocol", NoContent)
    /\ UNCHANGED <<asked, alive>>

\* The body is read whatever it is of, and the newline after it.
ReadBody ==
    /\ reader.at = "body"
    /\ Len(pipe) >= 2
    /\ pipe' = Tail(Tail(pipe))
    /\ CASE pipe[2].part # "newline" -> EndRead("protocol", NoContent)
         [] pipe[2].part = "newline" /\ reader.says # "blob" -> EndRead("not a blob", NoContent)
         [] OTHER -> EndRead("content", pipe[1].name)
    /\ UNCHANGED <<asked, alive>>

\* The output ended before the answer did: a protocol error with words of its
\* own in place of the header, a broken pipe after it.
ReadEnds ==
    /\ ~ alive
    /\ \/ reader.at = "header" /\ pipe = <<>>
       \/ reader.at = "body" /\ Len(pipe) < 2
    /\ pipe' = <<>>
    /\ EndRead(IF reader.at = "header" THEN "closed" ELSE "broken", NoContent)
    /\ UNCHANGED <<asked, alive>>

\* Content::from_worktree.
ReadWorktree(name) ==
    /\ reader = Between
    /\ Len(reads) < MaxReads
    /\ reads' = Append(reads, ReadOutcome(name, "content", name, "worktree"))
    /\ UNCHANGED <<asked, pipe, alive, reader>>

BlobNext ==
    \/ \E name \in Names : Ask(name)
    \/ CatFileAnswers
    \/ CatFileDies
    \/ ReadHeader
    \/ ReadBody
    \/ ReadEnds
    \/ \E name \in Names : ReadWorktree(name)

BlobSpec == BlobInit /\ [][BlobNext]_blobVars

------------------------------------------------------------------------------
(* The reads stay in step with the process: bytes handed out as compared    *)
(* content are those of the blob that was asked for, an object is called    *)
(* missing or not a blob only when it is, and after a read that failed the  *)
(* next one finds nothing left of it, as long as the process lives          *)
(* (blob.rs, BlobBatch::read).                                              *)
ReadsStayInStep ==
    /\ \A i \in DOMAIN reads :
        LET r == reads[i] IN
        /\ Lane(r.origin) = "compared" /\ r.result = "content" =>
               /\ r.content = r.asked
               /\ r.asked \in DOMAIN ObjectKind /\ ObjectKind[r.asked] = "blob"
        /\ r.result = "missing" => r.asked \notin DOMAIN ObjectKind
        /\ r.result = "not a blob" =>
               r.asked \in DOMAIN ObjectKind /\ ObjectKind[r.asked] # "blob"
        /\ r.result = "protocol" => r.asked \notin Hexadecimal \/ r.asked \in Ambiguous
    /\ alive /\ reader = Between => pipe = <<>> /\ asked = <<>>
=============================================================================
