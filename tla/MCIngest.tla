------------------------------ MODULE MCIngest ------------------------------
(* Small instances of Ingest.                                               *)
EXTENDS Ingest

Part(head, rows, end) == [head |-> head, rows |-> rows, end |-> end]

(* Three rows in batches of two: one flush inside the loop, one after it.   *)
Good == Part("known", 3, "eof")
Small == Part("known", 1, "eof")

(* One file, two files, a file before a malformed rest, files nobody can    *)
(* parse or read to the end.                                                *)
MixedForms ==
    { <<Good>>, <<Small, Small>>, <<Small, Part("malformed", 0, "eof")>>,
      <<Part("refused", 0, "eof")>>, <<>>,
      <<Part("known", 0, "eof")>>, <<Part("unknown", 1, "eof")>>,
      <<Part("known", 0, "large")>>, <<Part("known", 1, "cut")>> }

(* A file whose limit is passed after the head.                             *)
LargeForms == { <<Part("known", r, "large")>> : r \in 0 .. 3 }
=============================================================================
