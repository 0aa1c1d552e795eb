---------------------------- MODULE MCUploadGate ----------------------------
(* UploadGate on both sides of every limit the four checks know.           *)
EXTENDS UploadGate

Limits == {CLIENT_MAX_FILE_SIZE, MAX_FILE_SIZE, BODY_LIMIT, BODY_LIMIT - Envelope}

Sizes == {0, 1} \cup UNION {{n, n + 1} : n \in Limits}

MCCandidates ==
  [size : Sizes, declared : {"image/png", "image/gif", "text/plain"},
   sniffed : {"image/png", "text/plain"}, hasLength : BOOLEAN]
=============================================================================
