------------------------- MODULE TechnicalPreflight -------------------------
(* What receiving and inspecting an upload decide, as functions of the bytes:  *)
(* src/app/services/file_ingestion.py.  Bytes are abstracted to the features   *)
(* the code looks at; an inspection that raises has no verdict here.           *)
EXTENDS Naturals, Sequences, SequencesExt

CONSTANTS
    UploadLimit,       \* max_upload_bytes
    ChunkLimit,        \* upload_chunk_bytes
    EntryLimit         \* DOCX_MAX_ENTRY_COUNT, for all three limits of an archive

ASSUME PreflightAssumption == UploadLimit \in Nat \ {0} /\ ChunkLimit \in Nat \ {0}
                              /\ EntryLimit \in Nat

LeastOf(a, b) == IF a <= b THEN a ELSE b

-----------------------------------------------------------------------------
(* Receiving.  A chunk is its number of bytes.                                 *)

(* A chunk is written in pieces of at most ChunkLimit bytes.                   *)
SplitChunk(n) ==
    [i \in 1 .. ((n + ChunkLimit - 1) \div ChunkLimit) |->
        LeastOf(ChunkLimit, n - (i - 1) * ChunkLimit)]

(* (Mutant: what was received before is compared with the limit.)              *)
ReceivePieceLate(piece, sofar) ==
    IF sofar.error # "none" THEN sofar
    ELSE IF sofar.size > UploadLimit
         THEN [sofar EXCEPT !.size = @ + piece, !.error = "too_large"]
         ELSE [sofar EXCEPT !.size = @ + piece, !.written = @ + piece]

(* One piece: counted, compared with the limit, then written.                  *)
ReceivePiece(piece, sofar) ==
    IF sofar.error # "none" THEN sofar
    ELSE IF sofar.size + piece > UploadLimit
         THEN [sofar EXCEPT !.size = @ + piece, !.error = "too_large"]
         ELSE [sofar EXCEPT !.size = @ + piece, !.written = @ + piece]

ReceiveStream(chunks) ==
    LET pieces == FlattenSeq([i \in DOMAIN chunks |-> SplitChunk(chunks[i])])
        end == FoldLeft(LAMBDA acc, piece : ReceivePiece(piece, acc),
                        [size |-> 0, written |-> 0, error |-> "none"], pieces)
    IN  IF end.error = "none" /\ end.size = 0 THEN [end EXCEPT !.error = "empty"] ELSE end

-----------------------------------------------------------------------------
(* Inspection of a received file.                                              *)
Extensions == {".pdf", ".docx", ".txt", ".other"}
Contents == {"pdf", "encrypted_pdf", "corrupted_pdf", "zip", "docx", "bytes"}

(* A file: its extension, what its bytes are, the entries of an archive        *)
(* (distinct names and repetitions), the counts _looks_binary compares, whether*)
(* an encoding is found, and the two oddities that only warn.                  *)
Files == [ext: Extensions, content: Contents, names: Nat, repeated: Nat,
          length: Nat, nul: BOOLEAN, controls: Nat, decodable: BOOLEAN,
          renamed: BOOLEAN, otherMime: BOOLEAN]

Verdict(outcome, reason, flags) == [outcome |-> outcome, reason |-> reason, flags |-> flags]

CommonWarnings(f) == IF f.renamed THEN {"unsafe_filename_sanitized"} ELSE {}
MimeWarning(f) == IF f.otherMime THEN {"declared_mime_mismatch"} ELSE {}
Rejects(f, reason) == Verdict("reject", reason, CommonWarnings(f) \cup {reason})
Passes(f, flags) == Verdict("pass", "none", CommonWarnings(f) \cup flags \cup MimeWarning(f))

IsPdf(f) == f.content \in {"pdf", "encrypted_pdf", "corrupted_pdf"}
IsZip(f) == f.content \in {"zip", "docx"}

InspectPdf(f) ==
    IF ~IsPdf(f) THEN Rejects(f, "format_mismatch")
    ELSE IF f.content = "corrupted_pdf" THEN Rejects(f, "corrupted_pdf")
    ELSE IF f.content = "encrypted_pdf" THEN Rejects(f, "encrypted_pdf")
    ELSE Passes(f, {})

InspectDocx(f) ==
    IF ~IsZip(f) THEN Rejects(f, "format_mismatch")
    ELSE IF f.content # "docx" THEN Rejects(f, "invalid_docx")
    ELSE IF f.names + f.repeated > EntryLimit
         THEN Verdict("quarantine", "suspicious_docx_archive",
                      CommonWarnings(f) \cup {"suspicious_docx_archive"})
    ELSE Passes(f, IF f.repeated > 0 THEN {"duplicate_docx_entries"} ELSE {})

(* Nothing, a NUL, or more than three control bytes in ten.                    *)
LooksBinary(f) == f.length = 0 \/ f.nul \/ 10 * f.controls > 3 * f.length

(* (Mutant: only a PDF is told by its first bytes.)                            *)
InspectTextLoosely(f) ==
    IF IsPdf(f) THEN Rejects(f, "format_mismatch")
    ELSE IF LooksBinary(f) THEN Rejects(f, "binary_text_content")
    ELSE IF ~f.decodable THEN Rejects(f, "encoding_detection_failed")
    ELSE Passes(f, {})

InspectText(f) ==
    IF IsPdf(f) \/ IsZip(f) THEN Rejects(f, "format_mismatch")
    ELSE IF LooksBinary(f) THEN Rejects(f, "binary_text_content")
    ELSE IF ~f.decodable THEN Rejects(f, "encoding_detection_failed")
    ELSE Passes(f, {})

Inspect(f) ==
    IF f.ext = ".pdf" THEN InspectPdf(f)
    ELSE IF f.ext = ".docx" THEN InspectDocx(f)
    ELSE IF f.ext = ".txt" THEN InspectText(f)
    ELSE Rejects(f, "unsupported_extension")

(* The status of the revision and the outcome of its report.                   *)
BlockingFlags == {"format_mismatch", "corrupted_pdf", "encrypted_pdf", "invalid_docx",
                  "suspicious_docx_archive", "binary_text_content",
                  "encoding_detection_failed", "unsupported_extension"}
MapPreflight(v) ==
    IF v.outcome = "reject" THEN [status |-> "rejected", report |-> "reject"]
    ELSE IF v.outcome = "quarantine" THEN [status |-> "quarantined", report |-> "quarantine"]
    ELSE [status |-> "preflight_checking",
          report |-> IF v.flags \ BlockingFlags # {} THEN "warning" ELSE "pass"]

-----------------------------------------------------------------------------
(* Whatever way the bytes are cut into chunks, the upload is accepted exactly  *)
(* when it has between one byte and the limit, and then all of it is written.  *)
ReceivedIsWhole(chunks) ==
    LET total == FoldLeft(+, 0, chunks)
        got == ReceiveStream(chunks)
    IN  /\ got.error = "none" <=> total \in 1 .. UploadLimit
        /\ got.error = "none" => got.written = total
        /\ got.written <= UploadLimit

(* A file reaches admission only if its content is of the kind its extension   *)
(* names and could be read; every verdict that stops it has a blocking flag,   *)
(* and a report only says "pass" when nothing was remarked at all.             *)
VerdictIsSound(f) ==
    LET v == Inspect(f)
        m == MapPreflight(v)
        kind == [e \in Extensions |-> IF e = ".pdf" THEN {"pdf"} ELSE IF e = ".docx" THEN {"docx"}
                                      ELSE IF e = ".txt" THEN {"bytes"} ELSE {}]
    IN  /\ m.status = "preflight_checking" => f.content \in kind[f.ext]
        /\ m.status # "preflight_checking" <=> v.flags \cap BlockingFlags # {}
        /\ m.report = "pass" <=>
              m.status = "preflight_checking" /\ ~f.renamed /\ ~f.otherMime
              /\ ~(f.ext = ".docx" /\ f.repeated > 0)
=============================================================================
