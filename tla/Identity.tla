------------------------------ MODULE Identity ------------------------------
(***************************************************************************)
(* The number and the title under which a recording's Markdown document    *)
(* lies (document_identity.py): given once, just before the document is    *)
(* written for the first time, and kept when it is written again.  Jobs    *)
(* write documents, and so does reconcile_markdown_artifacts at each start *)
(* of the worker, which moves the documents of an earlier version of the   *)
(* program to their flat path.                                             *)
(*                                                                         *)
(* A character is one of four: a letter, a blank, a dot, or one that may   *)
(* not be in a file name.                                                  *)
(***************************************************************************)
EXTENDS Naturals, Sequences, FiniteSets, SequencesExt, FiniteSetsExt

CONSTANTS
    Recording,
    Legacy,         \* the recordings whose documents the earlier version wrote
    Text,           \* what the first segment may say: sequences of characters
    Slug,           \* slugs of categories
    MaxTitle,       \* 20 in the program
    None

VARIABLES
    rows,           \* document_sequence (0 is NULL) and document_title
    lastValue,      \* document_sequence_counter.last_value
    files,          \* the document root: path and whose document lies there
    md,             \* the path in the recording's last artifact row
    worker          \* where the worker is; what ensure_document_identity gave it

idVars == <<rows, lastValue, files, md, worker>>

Character == {"letter", "blank", "dot", "forbidden"}

-----------------------------------------------------------------------------
(* Titles *)

\* re.sub(r"\s+", " ", ...)
Collapsed(text) ==
    FoldLeft(LAMBDA out, c :
                 IF c = "blank" /\ out # <<>> /\ Last(out) = "blank"
                 THEN out
                 ELSE Append(out, c),
             <<>>, text)

\* str.strip of some characters
Stripped(text, edge) ==
    LET kept == {i \in DOMAIN text : text[i] \notin edge}
    IN  IF kept = {}
        THEN <<>>
        ELSE SubSeq(text, Min(kept), Max(kept))

\* Mutant of Cleaned: stripped before the forbidden characters are removed.
CleanedEarly(text) ==
    LET single == Stripped(Collapsed(text), {"blank", "dot"})
    IN  SelectSeq(SubSeq(single, 1, Min({MaxTitle, Len(single)})), LAMBDA c : c # "forbidden")

Cleaned(text) ==
    LET single == Stripped(Collapsed(text), {"blank"})
        start == SubSeq(single, 1, Min({MaxTitle, Len(single)}))
    IN  Stripped(SelectSeq(start, LAMBDA c : c # "forbidden"), {"blank", "dot"})

\* A document is only written of a classified recording, so there is a slug.
NormalizedTitle(text, slug) == IF Cleaned(text) # <<>> THEN Cleaned(text) ELSE slug

Titles == {NormalizedTitle(text, slug) : text \in Text, slug \in Slug}

\* the check in document_relative_path
Normalized(title) == Cleaned(title) = title

-----------------------------------------------------------------------------
(* Paths and documents *)

Flat(sequence, title) == [sequence |-> sequence, title |-> title]
Old(r) == [legacy |-> r]
IsOld(path) == path \in {Old(r) : r \in Recording}

\* os.replace
Written(path, r) == {f \in files : f.path # path} \cup {[path |-> path, of |-> r]}

Idle == [pc |-> "idle"]

\* A new process reads which documents it has to move (reconciliation.py:51).
Starting(old) == [pc |-> "starting", old |-> old]
OldDocuments == {r \in Recording : IsOld(md[r])}

\* The job's writing is over, or the recording's reconciliation.
Back == IF worker.move = None THEN Idle ELSE Starting(worker.old)

Init ==
    /\ \E number \in [Legacy -> 1..Cardinality(Legacy)] :
          /\ \A r, s \in Legacy : number[r] = number[s] => r = s
          /\ rows = [r \in Recording |->
                        [sequence |-> IF r \in Legacy THEN number[r] ELSE 0, title |-> None]]
    /\ lastValue = Cardinality(Legacy)
    /\ files = {[path |-> Old(r), of |-> r] : r \in Legacy}
    /\ md = [r \in Recording |-> IF r \in Legacy THEN Old(r) ELSE None]
    /\ worker = Starting(Legacy)

-----------------------------------------------------------------------------
(* ensure_document_identity: one transaction.  The segments may be others  *)
(* than the last time: a recording can be transcribed again.               *)

\* Mutant of Identified: the title follows the segments and the category.
IdentifiedAnew(row, next, title) ==
    [sequence |-> IF row.sequence = 0 THEN next ELSE row.sequence, title |-> title]

Identified(row, next, title) ==
    [sequence |-> IF row.sequence = 0 THEN next ELSE row.sequence,
     title    |-> IF row.title = None THEN title ELSE row.title]

Counted(row) == IF row.sequence = 0 THEN lastValue + 1 ELSE lastValue

Ensure(r, move, old) ==
    \E title \in Titles :
        LET row == Identified(rows[r], lastValue + 1, title)
        IN  /\ rows' = [rows EXCEPT ![r] = row]
            /\ lastValue' = Counted(rows[r])
            /\ worker' = [pc |-> "replace", of |-> r, path |-> Flat(row.sequence, row.title),
                          move |-> move, old |-> old]
            /\ UNCHANGED <<files, md>>

\* a classification or a render, its JSON written, comes to the Markdown
BeginDocument(r) ==
    /\ worker.pc = "idle"
    /\ Ensure(r, None, {})

\* the reconciliation of one document the earlier version wrote
BeginMove(r) ==
    /\ worker.pc = "starting"
    /\ r \in worker.old
    /\ Ensure(r, md[r], worker.old \ {r})

\* its transcript is missing or another: the document stays where it is
MoveFails(r) ==
    /\ worker.pc = "starting"
    /\ r \in worker.old
    /\ worker' = Starting(worker.old \ {r})
    /\ UNCHANGED <<rows, lastValue, files, md>>

EndReconciliation ==
    /\ worker.pc = "starting"
    /\ worker.old = {}
    /\ worker' = Idle
    /\ UNCHANGED <<rows, lastValue, files, md>>

\* document_relative_path raises: the job, or the recording's move, fails
RefuseTitle ==
    /\ worker.pc = "replace"
    /\ ~Normalized(worker.path.title)
    /\ worker' = Back
    /\ UNCHANGED <<rows, lastValue, files, md>>

ReplaceDocument ==
    /\ worker.pc = "replace"
    /\ Normalized(worker.path.title)
    /\ files' = Written(worker.path, worker.of)
    /\ worker' = [worker EXCEPT !.pc = "register"]
    /\ UNCHANGED <<rows, lastValue, md>>

\* the renderer, the replacement or the fsync after it raises
WritingFails ==
    /\ worker.pc \in {"replace", "register"}
    /\ worker' = Back
    /\ UNCHANGED <<rows, lastValue, files, md>>

RegisterDocument ==
    /\ worker.pc = "register"
    /\ md' = [md EXCEPT ![worker.of] = worker.path]
    /\ worker' = IF worker.move = None THEN Idle ELSE [worker EXCEPT !.pc = "unlink"]
    /\ UNCHANGED <<rows, lastValue, files>>

UnlinkOld ==
    /\ worker.pc = "unlink"
    /\ files' = {f \in files : f.path # worker.move}
    /\ worker' = Back
    /\ UNCHANGED <<rows, lastValue, md>>

\* The process dies, or is stopped, and another one starts.
RestartWorker ==
    /\ worker' = Starting(OldDocuments)
    /\ UNCHANGED <<rows, lastValue, files, md>>

IdNext ==
    \/ \E r \in Recording : BeginDocument(r) \/ BeginMove(r) \/ MoveFails(r)
    \/ EndReconciliation
    \/ RefuseTitle
    \/ ReplaceDocument
    \/ WritingFails
    \/ RegisterDocument
    \/ UnlinkOld
    \/ RestartWorker

IdSpec == Init /\ [][IdNext]_idVars

-----------------------------------------------------------------------------
(* Properties *)

\* Whatever was said first, the title is a file name on its own: something is
\* left of it, nothing forbidden, and no blank or dot at its ends
\* (normalize_document_title cuts, removes and strips in this order).
TitleIsName ==
    \A r \in Recording :
        LET title == rows[r].title
        IN  title # None =>
                /\ title # <<>>
                /\ "forbidden" \notin ToSet(title)
                /\ {Head(title), Last(title)} \cap {"blank", "dot"} = {}

\* A document keeps its path when it is written again: after crashes, moves,
\* other first segments and other categories a recording has one flat document,
\* no path or number belongs to two recordings, and a row names a document that
\* is there.  (05_flat_obsidian_markdown_plan.md:76 one of the earlier version is
\* removed after the new one was written and registered, and not before.)
OneDocument ==
    /\ \A f, g \in files :
          /\ f.path = g.path => f.of = g.of
          /\ f.of = g.of /\ ~IsOld(f.path) /\ ~IsOld(g.path) => f = g
    /\ \A r, s \in Recording :
          rows[r].sequence = rows[s].sequence /\ rows[r].sequence # 0 => r = s
    /\ \A r \in Recording : md[r] # None => [path |-> md[r], of |-> r] \in files

\* document_identity.py:47-48: a title is stored normalized, so that
\* document_relative_path accepts it.
TitleAccepted == \A r \in Recording : rows[r].title # None => Normalized(rows[r].title)
=============================================================================
