-------------------------- MODULE UploadValidation --------------------------
(***************************************************************************)
(* Which files an upload may carry, decided in four places that keep their *)
(* own limits: the dashboard's file picker, the body-limit middleware, and *)
(* the two validators of the upload service.                               *)
(*                                                                         *)
(* A file is a record: its size in bytes, the type the browser declares    *)
(* for it, the type http.DetectContentType finds in its first 512 bytes,   *)
(* and whether its request states a Content-Length.                        *)
(***************************************************************************)
EXTENDS Naturals

CONSTANT Envelope   (* bytes the multipart encoding adds around the file   *)

ASSUME EnvelopeAssumption == Envelope \in Nat

AllowedTypes == {"image/jpeg", "image/png", "image/gif"}

CLIENT_MAX_FILE_SIZE == 14 * 1024 * 1024

MAX_FILE_SIZE == 15 * 1024 * 1024

(* "14M", meant to match the client's limit, is less than 14 MiB.          *)
LowBodyLimit == 14 * 1000 * 1000

(* The middleware's argument is "20M", which its parser reads as decimal.  *)
BODY_LIMIT == 20 * 1000 * 1000

BodyLength(file) == file.size + Envelope

(* addFiles: what the dashboard lets the user queue. *)
PickerAccepts(file) ==
  file.declared \in AllowedTypes /\ file.size <= CLIENT_MAX_FILE_SIZE

ValidateFileSize(file) == file.size <= MAX_FILE_SIZE

(* The declared type decides instead of the content. *)
TrustDeclaredType(file) == file.size > 0 /\ file.declared \in AllowedTypes

(* Reading the first bytes of an empty file is an error by itself (EOF).   *)
ValidateFileContent(file) == file.size > 0 /\ file.sniffed \in AllowedTypes

(* BodyLimit: by Content-Length before the handler runs, or, without one,  *)
(* when the reader passes the limit while the form is parsed.              *)
WithinBodyLimit(file) == BodyLength(file) <= BODY_LIMIT

(* The checks a request passes before UploadFileImage calls the storage.   *)
AcceptsUpload(file) ==
  WithinBodyLimit(file) /\ ValidateFileSize(file) /\ ValidateFileContent(file)
=============================================================================
