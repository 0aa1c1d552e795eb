----------------------------- MODULE UploadGate -----------------------------
(***************************************************************************)
(* One upload on its way through the four checks, in the order the code    *)
(* makes them, up to the answer the client sees or the call to the storage.*)
(***************************************************************************)
EXTENDS UploadValidation

CONSTANT Candidates   (* the files a user may try to upload *)

ASSUME CandidatesAssumption == \A f \in Candidates : f.size \in Nat

VARIABLES file, origin, stage, answer

vars == <<file, origin, stage, answer>>

Stages == {"picker", "middleware", "bind", "size", "content", "done"}

(* Requests come from the dashboard or from any other HTTP client.         *)
Init ==
  /\ file \in Candidates
  /\ origin \in {"dashboard", "other"}
  /\ stage = IF origin = "dashboard" THEN "picker" ELSE "middleware"
  /\ answer = 0

Step(from, ok, to, code) ==
  /\ stage = from
  /\ stage' = IF ok THEN to ELSE "done"
  /\ answer' = IF ok THEN answer ELSE code
  /\ UNCHANGED <<file, origin>>

(* addFiles skips the file silently: nothing is sent, there is no answer.  *)
AddFiles == Step("picker", PickerAccepts(file), "middleware", 0)

BodyLimit ==
  Step("middleware", file.hasLength => WithinBodyLimit(file), "bind", 413)

(* Bind parses the multipart form, reading the body to its end.            *)
BindForm == Step("bind", WithinBodyLimit(file), "size", 400)

CheckSize == Step("size", ValidateFileSize(file), "content", 500)

(* The content check is the last one before the storage service is called. *)
CheckContent ==
  /\ stage = "content"
  /\ stage' = "done"
  /\ answer' = IF ValidateFileContent(file) THEN 202 ELSE 500
  /\ UNCHANGED <<file, origin>>

Next == AddFiles \/ BodyLimit \/ BindForm \/ CheckSize \/ CheckContent

Spec == Init /\ [][Next]_vars

TypeOK ==
  /\ file \in Candidates
  /\ origin \in {"dashboard", "other"}
  /\ stage \in Stages
  /\ answer \in {0, 202, 400, 413, 500}

(* What the checks a request has behind it tell of its file.               *)
StageInv ==
  /\ answer # 0 => stage = "done"
  /\ stage \in {"size", "content"} => WithinBodyLimit(file)
  /\ stage = "content" => ValidateFileSize(file)

(* A non-empty image whose declared type is its real one and which the     *)
(* dashboard lets the user queue is never turned down by the server: the   *)
(* three size limits (14 MiB in dashboard.js, 15 MiB in validator.go, "20M"*)
(* in security.go) are nested even with the form encoding added.           *)
PickedImageIsNotRefused ==
  /\ origin = "dashboard" /\ stage # "picker"
  /\ PickerAccepts(file) /\ file.size > 0 /\ file.sniffed = file.declared
  => answer \notin {400, 413, 500}

(* Whatever the client declares, only bytes that look like an allowed image*)
(* and fit the service's limit are accepted, whoever sends them.           *)
AcceptedIsImage ==
  answer = 202 => file.sniffed \in AllowedTypes /\ file.size \in 1 .. MAX_FILE_SIZE

GateInv == TypeOK /\ StageInv /\ AcceptedIsImage
=============================================================================
