-------------------------- MODULE UploadGateProofs --------------------------
(***************************************************************************)
(* Proofs about UploadGate, for files of any size and any declared or      *)
(* detected type.                                                          *)
(***************************************************************************)
EXTENDS UploadGate, TLAPS

(* The bytes the form adds fit between the dashboard's limit and the       *)
(* middleware's.                                                           *)
Fits == Envelope <= BODY_LIMIT - CLIENT_MAX_FILE_SIZE

LEMMA Limits ==
  /\ CLIENT_MAX_FILE_SIZE \in Nat /\ MAX_FILE_SIZE \in Nat /\ BODY_LIMIT \in Nat
  /\ CLIENT_MAX_FILE_SIZE <= MAX_FILE_SIZE
BY SMT DEF CLIENT_MAX_FILE_SIZE, MAX_FILE_SIZE, BODY_LIMIT

(* What the picker admits, the size checks of the server admit too.        *)
LEMMA Nested ==
  ASSUME Fits, NEW f, f.size \in Nat, PickerAccepts(f)
  PROVE  WithinBodyLimit(f) /\ ValidateFileSize(f)
BY EnvelopeAssumption, Limits, SMT
   DEF Fits, PickerAccepts, WithinBodyLimit, BodyLength, ValidateFileSize

LEMMA GateInvInit == Init => GateInv
BY SMT DEF Init, GateInv, TypeOK, StageInv, Stages, AcceptedIsImage

LEMMA GateInvStep == GateInv /\ [Next]_vars => GateInv'
<1> SUFFICES ASSUME GateInv, [Next]_vars PROVE GateInv'
  OBVIOUS
<1> USE DEF GateInv, TypeOK, StageInv, Stages, AcceptedIsImage, Step
<1>1. CASE AddFiles \/ BodyLimit \/ BindForm \/ CheckSize
  BY <1>1, SMT DEF AddFiles, BodyLimit, BindForm, CheckSize
<1>2. CASE CheckContent
  <2>1. file.size \in Nat
    BY CandidatesAssumption
  <2>2. ValidateFileContent(file) /\ ValidateFileSize(file) =>
          file.sniffed \in AllowedTypes /\ file.size \in 1 .. MAX_FILE_SIZE
    BY <2>1, Limits, SMT DEF ValidateFileContent, ValidateFileSize
  <2> QED BY <1>2, <2>2, SMT DEF CheckContent
<1>3. CASE UNCHANGED vars
  BY <1>3, SMT DEF vars
<1> QED BY <1>1, <1>2, <1>3 DEF Next

THEOREM GateInvariance == Spec => []GateInv
BY GateInvInit, GateInvStep, PTL DEF Spec

(* Only images within the service's limit are accepted, from anyone and    *)
(* whatever the request claims about its file.                             *)
THEOREM AcceptsImagesOnly == Spec => []AcceptedIsImage
<1>1. GateInv => AcceptedIsImage BY DEF GateInv
<1> QED BY <1>1, GateInvariance, PTL

(* The server does not turn down an image the dashboard let the user queue,*)
(* as long as the form adds less than the difference of the two limits.    *)
THEOREM RefusesNoPickedImage == ASSUME Fits PROVE Spec => []PickedImageIsNotRefused
<1>1. Init => PickedImageIsNotRefused
  BY SMT DEF Init, PickedImageIsNotRefused
<1>2. ASSUME PickedImageIsNotRefused, GateInv, [Next]_vars
      PROVE  PickedImageIsNotRefused'
  <2> USE <1>2 DEF GateInv, TypeOK, Stages, PickedImageIsNotRefused, Step
  <2>1. PickerAccepts(file) => WithinBodyLimit(file) /\ ValidateFileSize(file)
    BY CandidatesAssumption, Nested
  <2>2. PickerAccepts(file) /\ file.size > 0 /\ file.sniffed = file.declared =>
          ValidateFileContent(file)
    BY DEF PickerAccepts, ValidateFileContent
  <2>3. CASE AddFiles
    BY <2>3, SMT DEF AddFiles, StageInv
  <2>4. CASE BodyLimit \/ BindForm \/ CheckSize
    BY <2>1, <2>4, SMT DEF BodyLimit, BindForm, CheckSize
  <2>5. CASE CheckContent
    BY <2>2, <2>5, SMT DEF CheckContent
  <2>6. CASE UNCHANGED vars
    BY <2>6, SMT DEF vars
  <2> QED BY <2>3, <2>4, <2>5, <2>6 DEF Next
<1> QED BY <1>1, <1>2, GateInvariance, PTL DEF Spec

(* UploadService takes AcceptsUpload for the outcome of the checks.  It is:*)
(* a request ends in 202 exactly when the three size and content checks    *)
(* hold of its file, and, coming from the dashboard, its picker's.         *)
GateDecides ==
  stage = "done" =>
    (answer = 202 <=>
       AcceptsUpload(file) /\ (origin = "dashboard" => PickerAccepts(file)))

PassedInv ==
  /\ stage \notin {"picker", "done"} /\ origin = "dashboard" => PickerAccepts(file)
  /\ stage = "picker" => origin = "dashboard"
  /\ GateDecides

(* The order of the checks, and the body limit's being checked twice or    *)
(* once, decide the status of a refusal but not what is refused.           *)
THEOREM ChecksDecide == Spec => []GateDecides
<1>1. Init => PassedInv
  BY SMT DEF Init, PassedInv, GateDecides
<1>2. ASSUME GateInv, PassedInv, [Next]_vars PROVE PassedInv'
  <2> USE <1>2 DEF GateInv, TypeOK, Stages, StageInv, PassedInv, GateDecides, Step, AcceptsUpload
  <2>1. CASE AddFiles
    BY <2>1, SMT DEF AddFiles
  <2>2. CASE BodyLimit
    BY <2>2, SMT DEF BodyLimit
  <2>3. CASE BindForm
    BY <2>3, SMT DEF BindForm
  <2>4. CASE CheckSize
    BY <2>4, SMT DEF CheckSize
  <2>5. CASE CheckContent
    BY <2>5, SMT DEF CheckContent
  <2>6. CASE UNCHANGED vars
    BY <2>6, SMT DEF vars
  <2> QED BY <2>1, <2>2, <2>3, <2>4, <2>5, <2>6 DEF Next
<1>3. PassedInv => GateDecides
  BY DEF PassedInv
<1> QED BY <1>1, <1>2, <1>3, GateInvariance, PTL DEF Spec
=============================================================================
