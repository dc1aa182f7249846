-------------------------- MODULE MCDocumentUpload --------------------------
(* Instances of DocumentUpload for TLC.                                        *)
EXTENDS DocumentUpload

(* A text file, and a PDF that is none.                                        *)
PlainText == [ext |-> ".txt", content |-> "bytes", names |-> 0, repeated |-> 0,
              length |-> 10, nul |-> FALSE, controls |-> 0, decodable |-> TRUE,
              renamed |-> FALSE, otherMime |-> FALSE]
MCUploads == {PlainText, [PlainText EXCEPT !.ext = ".pdf"]}
=============================================================================
