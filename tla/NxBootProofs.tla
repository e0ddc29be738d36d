---------------------------- MODULE NxBootProofs ----------------------------
(***************************************************************************)
(* Proofs about NxBoot, for every set of images, every image size and      *)
(* every configuration: whatever writes a loss of power interrupts, the    *)
(* board can be booted and an image that has proved itself is kept.        *)
(***************************************************************************)
EXTENDS NxBoot, TLAPS

(* Facts about the operators. *)

\* nxboot_get_state returns a well-formed state whose slots differ.
LEMMA GetStateType ==
  /\ nxboot_get_state \in State
  /\ nxboot_get_state.recovery = recovery_slot
  /\ nxboot_get_state.update = Other(recovery_slot)
  /\ nxboot_get_state.next_boot =
       get_update_type(Other(recovery_slot), recovery_slot)
  /\ nxboot_get_state.recovery_valid = recovery_valid(recovery_slot)
  /\ nxboot_get_state.primary_confirmed = nxboot_get_confirm
<1>1. recovery_slot \in {Secondary, Tertiary}
  BY Zenon DEF recovery_slot
<1>2. Other(recovery_slot) \in {Secondary, Tertiary}
  BY Zenon DEF Other
<1>3. recovery_valid(recovery_slot) \in BOOLEAN
  BY Zenon
  DEF recovery_valid, get_image_flag, validate_image, validate_image_header
<1>4. nxboot_get_confirm \in BOOLEAN
  BY Zenon DEF nxboot_get_confirm, get_image_flag
<1>5. get_update_type(Other(recovery_slot), recovery_slot)
        \in {"none", "update", "revert"}
  BY Zenon DEF get_update_type
<1> QED
  BY <1>1, <1>2, <1>3, <1>4, <1>5, Zenon DEF nxboot_get_state, State

\* The slots a copy works on are slots.
LEMMA CopySlots ==
  ASSUME TypeOK
  PROVE  From \in Slot /\ Where \in Slot
BY Zenon DEF TypeOK, State, From, Where, Slot, Primary, Secondary, Tertiary

\* The body and the checksum of an image are well formed.
LEMMA ContentType ==
  ASSUME NEW i \in Image
  PROVE  Content(i) \in Body
BY Zenon DEF Content, Body

\* So are an erased body and an erased header.
LEMMA BlankType == Blank \in Body /\ NoHeader \in Header
BY Zenon DEF Blank, Body, NoHeader, Header

-----------------------------------------------------------------------------
(* Type correctness. *)

\* The factory state of the flash is well formed.
LEMMA InitType == Init => TypeOK
<1> SUFFICES ASSUME Init PROVE TypeOK
  BY Zenon
<1>1. Factory \in Image
  BY ImageAssumption, Zenon
<1>2. hdr \in [Slot -> Header]
  BY <1>1, BlankType, Zenon DEF Init, Header
<1>3. body \in [Slot -> Body]
  BY <1>1, ContentType, BlankType, Zenon DEF Init
<1>4. check_only \in BOOLEAN
  BY Zenon, OptionAssumption DEF Init
<1>5. flags \in [Slot -> SUBSET Flag]
  BY Zenon DEF Init
<1>6. st \in State
  BY Zenon DEF Init, State, Secondary, Tertiary
<1>7. /\ pc = "off" /\ pc \in PC
      /\ job \in {"revert", "backup", "update"} /\ tried \in BOOLEAN
  BY Zenon DEF Init, PC
<1>8. off \in 0..N /\ faults \in 0..MaxFaults
  BY NAssumption, OptionAssumption DEF Init
<1>9. /\ incoming \in Image
      /\ trusted \subseteq Image \cup {NoImage}
      /\ fresh \subseteq {Secondary, Tertiary}
  BY <1>1, Zenon DEF Init
<1> QED
  BY <1>2, <1>3, <1>4, <1>5, <1>6, <1>7, <1>8, <1>9, Zenon DEF TypeOK

\* An operation that did not complete leaves a well-formed flash.
LEMMA TornType ==
  ASSUME TypeOK, Torn
  PROVE  /\ hdr' \in [Slot -> Header]
         /\ body' \in [Slot -> Body]
         /\ flags' \in [Slot -> SUBSET Flag]
         /\ fresh' \subseteq {Secondary, Tertiary}
<1> USE CopySlots, BlankType
<1>1. st.update \in Slot /\ st.recovery \in Slot
  BY Zenon DEF TypeOK, State, Slot
<1>2. hdr' \in [Slot -> Header]
  BY <1>1, Zenon DEF TypeOK, Torn, TornFlash
<1>3. body' \in [Slot -> Body]
  <2>1. CASE UNCHANGED body
    BY <2>1, Zenon DEF TypeOK
  <2>2. CASE /\ pc = "copy_body"
             /\ body' = [body EXCEPT ![Where][off + 1] = Junk]
    BY Zenon, <2>2 DEF TypeOK, Body
  <2> QED
    BY <2>1, <2>2, Zenon DEF Torn, TornFlash
<1>4. flags' \in [Slot -> SUBSET Flag]
  BY <1>1 DEF TypeOK, Torn, TornFlash
<1>5. fresh' \subseteq {Secondary, Tertiary}
  BY Zenon DEF Torn, TypeOK
<1> QED
  BY <1>2, <1>3, <1>4, <1>5, Zenon

\* One step of each kind keeps the types.
LEMMA NextType == TypeOK /\ [Next]_vars => TypeOK'
<1> SUFFICES ASSUME TypeOK, [Next]_vars PROVE TypeOK'
  BY Zenon
<1> USE CopySlots
<1>1. CASE CopyErase
  BY <1>1, Zenon DEF CopyErase, TypeOK, PC, Flag
<1>2. CASE CopyHeader
  <2>1. CopiedHeader(From) \in Header
    BY Zenon DEF CopiedHeader, calculate_crc, TypeOK, Header
  <2> QED
    BY <1>2, <2>1, NAssumption DEF CopyHeader, TypeOK, PC
<1>3. CASE CopyBody
  <2>1. /\ off + 1 \in Blocks
        /\ off' \in 0..N
        /\ pc' = "copy_body" => off' < N
        /\ pc' \in {"copy_body", "copy_updated"}
    BY <1>3, NAssumption DEF CopyBody, TypeOK, Blocks
  <2>2. body' \in [Slot -> Body]
    BY <1>3, <2>1 DEF CopyBody, TypeOK, Body
  <2> QED
    BY <1>3, <2>1, <2>2, Zenon DEF CopyBody, TypeOK, PC
<1>4. CASE CopyUpdated
  BY <1>4, Zenon DEF CopyUpdated, TypeOK, PC, Flag
<1>5. CASE CopyConfirmed
  BY <1>5, Zenon DEF CopyConfirmed, TypeOK, PC, Flag
<1>6. CASE BootNone
  BY <1>6, GetStateType, Zenon DEF BootNone, Continue, Booting, TypeOK, PC
<1>7. CASE BootRevert
  BY <1>7, GetStateType, NAssumption
  DEF BootRevert, Copy, Continue, Booting, TypeOK, PC
<1>8. CASE BootUpdate
  BY <1>8, GetStateType, NAssumption
  DEF BootUpdate, Install, Copy, Continue, Booting, TypeOK, PC
<1>9. CASE Copied
  <2>1. \/ pc' \in {"launch", "mark"} /\ UNCHANGED <<job, off>>
        \/ /\ pc' \in {"copied", "copy_erase"}
           /\ job' = "update"
           /\ off' = 0
    BY Zenon, <1>9 DEF Copied, Install, Copy, Continue, TypeOK
  <2>2. fresh' \subseteq {Secondary, Tertiary}
    BY <1>9, Zenon DEF Copied, TypeOK
  <2> QED
    BY <1>9, <2>1, <2>2, NAssumption DEF Copied, TypeOK, PC
<1>10. CASE MarkUpdated
  BY <1>10 DEF MarkUpdated, TypeOK, PC, Flag, State, Slot
<1>11. CASE Launch
  BY <1>11, Zenon DEF Launch, TypeOK, PC, nxboot_get_confirm, get_image_flag
<1>12. CASE \E i \in Image : StartUpload(i)
  BY <1>12, GetStateType, Zenon DEF StartUpload, TypeOK, PC
<1>13. CASE UploadErase
  BY <1>13, BlankType DEF UploadErase, TypeOK, PC, State, Slot
<1>14. CASE UploadHeader
  <2>1. [magic |-> "NXOS", crc |-> Content(incoming), img |-> incoming]
          \in Header
    BY ContentType, Zenon DEF TypeOK, Header
  <2> QED
    BY <1>14, <2>1, NAssumption DEF UploadHeader, TypeOK, PC, State, Slot
<1>15. CASE UploadBody
  <2>1. /\ off + 1 \in Blocks
        /\ off' \in 0..N
        /\ pc' \in {"run", "upload_body"}
        /\ pc' = "upload_body" => off' < N
    BY <1>15, NAssumption DEF UploadBody, TypeOK, Blocks
  <2>2. st.update \in {Secondary, Tertiary}
    BY Zenon DEF TypeOK, State
  <2>3. body' \in [Slot -> Body]
    BY <1>15, <2>1, <2>2, Zenon DEF UploadBody, TypeOK, Body, Slot
  <2>4. fresh' \subseteq {Secondary, Tertiary}
    BY <1>15, <2>2, Zenon DEF UploadBody, TypeOK
  <2> QED
    BY <1>15, <2>1, <2>3, <2>4, Zenon DEF UploadBody, TypeOK, PC
<1>16. CASE StartConfirm
  BY <1>16, GetStateType, Zenon DEF StartConfirm, TypeOK, PC
<1>17. CASE ConfirmPrimary
  <2>1. trusted' \subseteq Image \cup {NoImage}
    BY <1>17, Zenon DEF ConfirmPrimary, TypeOK, Header, Slot
  <2> QED
    BY <1>17, <2>1, Zenon DEF ConfirmPrimary, TypeOK, PC, Flag, Slot
<1>18. CASE ConfirmUpdate
  BY <1>18 DEF ConfirmUpdate, TypeOK, PC, Flag, State, Slot
<1>19. CASE RetireErase
  BY <1>19 DEF RetireErase, TypeOK, PC, State, Slot
<1>20. CASE RetireMark
  BY <1>20 DEF RetireMark, TypeOK, PC, Flag, State, Slot
<1>21. CASE Reset
  <2>1. check_only' \in BOOLEAN
    BY Zenon, <1>21, OptionAssumption DEF Reset
  <2> QED
    BY <1>21, <2>1, TornType, Zenon DEF Reset, TypeOK, PC
<1>22. CASE Fault
  <2>1. /\ pc' \in {"copied", "copy_confirmed", "launch", "run"}
        /\ faults' \in 0..MaxFaults
    BY <1>22, OptionAssumption DEF Fault, TypeOK
  <2> QED
    BY <1>22, <2>1, TornType, Zenon DEF Fault, TypeOK, PC
<1>23. CASE \E i \in Reflash : Program(i)
  <2>1. PICK i \in Reflash : Program(i)
    BY <1>23, Zenon
  <2>2. i \in Image
    BY ImageAssumption, Zenon
  <2>3. [magic |-> "INV", crc |-> NoCrc, img |-> i] \in Header
    BY <2>2, Zenon DEF Header
  <2> QED
    BY Zenon, <2>1, <2>2, <2>3, ContentType DEF Program, TypeOK, Slot
<1>24. CASE UNCHANGED vars
  BY <1>24, Zenon DEF vars, TypeOK
<1> QED
  BY <1>1, <1>2, <1>3, <1>4, <1>5, <1>6, <1>7, <1>8, <1>9, <1>10, <1>11,
     <1>12, <1>13, <1>14, <1>15, <1>16, <1>17, <1>18, <1>19, <1>20, <1>21,
     <1>22, <1>23, <1>24, Zenon
  DEF Next, Bootloader, CopyPartition, Upload, Confirm

\* The flash, the bootloader state and the copy in progress stay well formed,
\* whatever is interrupted or fails.
THEOREM TypeCorrect == Spec => []TypeOK
BY InitType, NextType, PTL DEF Spec

-----------------------------------------------------------------------------
(* What the board is doing. *)

CopyPC == {"copy_erase", "copy_header", "copy_body", "copy_updated",
           "copy_confirmed"}
UploadPC == {"upload_erase", "upload_header", "upload_body"}

(* The parts of the inductive invariant. *)

\* A header with a checksum has the checksum of its image; only the primary
\* slot holds an image without one, and that image is complete; what is in
\* the primary slot or trusted fits into the primary slot.
HeaderInv ==
  /\ \A s \in Slot : hdr[s].magic = "NXOS" =>
       /\ hdr[s].img \in Image
       /\ hdr[s].crc = Content(hdr[s].img)
  /\ \A s \in Slot : hdr[s].magic = "INV" =>
       /\ s = Primary
       /\ hdr[s].crc = NoCrc
       /\ hdr[s].img \in trusted
       /\ body[s] = Content(hdr[s].img)
  /\ hdr[Primary].img \notin Oversize
  /\ trusted \subseteq Image \ Oversize

\* The two slots of the state read by nxboot_get_state are different ones.
RoleInv == st.update = Other(st.recovery)

\* The confirmed flag of the primary slot is about the image in it.
ConfirmInv == CONFIRMED \in flags[Primary] => TrustedImage(Primary)

FallbackInv == Anchor(Primary) \/ Anchor(recovery_slot)

\* The copy in progress has a source that stays intact, and it overwrites the
\* primary image only when the recovery slot holds a trusted one.
JobInv ==
  /\ pc \in CopyPC /\ job = "revert" =>
       /\ st.recovery = recovery_slot
       /\ Anchor(st.recovery)
       /\ UPDATED \in flags[st.update]
  /\ pc \in CopyPC /\ job = "update" =>
       /\ st.recovery = recovery_slot
       /\ Anchor(st.recovery)
       /\ flags[st.update] = {}
       /\ validate_image(st.update)
       /\ hdr[st.update].img \notin Oversize
  /\ pc \in CopyPC \cup {"copied"} /\ job = "backup" =>
       /\ Anchor(Primary)
       /\ flags[st.update] = {}
       /\ validate_image(st.update)

\* What has been copied so far.
ProgressInv ==
  /\ pc \in {"copy_body", "copy_updated", "copy_confirmed"} =>
       /\ hdr[Where] = CopiedHeader(From)
       /\ \A b \in 1..off : body[Where][b] = body[From][b]
  /\ pc \in {"copy_erase", "copy_header"} => off = 0
  /\ pc = "copy_body" => off < N
  /\ pc \in {"copy_updated", "copy_confirmed"} => off = N
  /\ pc \in CopyPC \ {"copy_erase"} => CONFIRMED \notin flags[Where]
  /\ pc = "copied" /\ job = "backup" => Anchor(st.recovery)

\* An upload and a confirmation leave a trusted image alone.
ApplicationInv ==
  /\ pc \in UploadPC => st.recovery = recovery_slot
  /\ pc \in {"upload_header", "upload_body"} => flags[st.update] = {}
  /\ pc \in {"confirm_update", "retire_erase", "retire_mark"} =>
       Anchor(Primary)

\* Outside the copies the primary image is valid, or the next boot repairs it.
BootInv ==
  /\ pc \notin CopyPC \cup {"off"} => validate_image(Primary)
  /\ pc # "halt"
  /\ pc = "off" => Recoverable

SafeInv ==
  /\ HeaderInv
  /\ RoleInv
  /\ ConfirmInv
  /\ FallbackInv
  /\ JobInv
  /\ ProgressInv
  /\ ApplicationInv
  /\ BootInv

\* The inductive invariant: it says nothing once a flash write has failed.
IInv == TypeOK /\ (faults = 0 => SafeInv)
-----------------------------------------------------------------------------
(* What a step that leaves a slot alone preserves. *)

\* A step that changes nothing but the updated flag of slot s.
SameImage(s) ==
  /\ hdr'[s] = hdr[s]
  /\ body'[s] = body[s]
  /\ CONFIRMED \in flags'[s] <=> CONFIRMED \in flags[s]

\* The image in such a slot stays valid, and trusted.
LEMMA SameImageKeeps ==
  ASSUME NEW s \in Slot, SameImage(s), trusted \subseteq trusted'
  PROVE  /\ validate_image(s)' <=> validate_image(s)
         /\ TrustedImage(s) => TrustedImage(s)'
         /\ Anchor(s) => Anchor(s)'
BY Zenon DEF SameImage, validate_image, validate_image_header, calculate_crc,
       TrustedImage, Anchor, get_image_flag, Content, Blocks

\* Which slot is the recovery depends on the secondary slot alone.
LEMMA SameRecoverySlot ==
  ASSUME SameImage(Secondary)
  PROVE  recovery_slot' = recovery_slot
BY Zenon DEF SameImage, recovery_slot, validate_image, validate_image_header,
       calculate_crc, get_image_flag

\* The names of the slots in use.
LEMMA Roles ==
  ASSUME TypeOK, RoleInv
  PROVE  /\ st.recovery \in {Secondary, Tertiary}
         /\ st.update \in {Secondary, Tertiary}
         /\ st.update # st.recovery
         /\ Primary \notin {Secondary, Tertiary}
         /\ recovery_slot \in {Secondary, Tertiary}
         /\ st.recovery \in Slot /\ st.update \in Slot /\ Primary \in Slot
         /\ st.recovery # Primary /\ st.update # Primary
         /\ recovery_slot \in Slot /\ recovery_slot # Primary
BY Zenon DEF TypeOK, State, RoleInv, Other, Primary, Secondary, Tertiary,
       recovery_slot, Slot

\* What the headers promise depends on the images alone.
LEMMA SameHeaders ==
  ASSUME UNCHANGED <<hdr, body, trusted>>
  PROVE  HeaderInv' <=> HeaderInv
BY DEF HeaderInv, Content, NoCrc, Blocks, Slot

\* The roles depend on the bootloader state alone.
LEMMA SameRoles ==
  ASSUME UNCHANGED st
  PROVE  RoleInv' <=> RoleInv
BY Zenon DEF RoleInv, Other, Secondary, Tertiary

\* A copy that has written every block has copied the body.
LEMMA BodyCopied ==
  ASSUME TypeOK, ProgressInv, pc \in {"copy_updated", "copy_confirmed"}
  PROVE  body[Where] = body[From]
<1>1. body[Where] \in Body /\ body[From] \in Body
  BY CopySlots, Zenon DEF TypeOK
<1>2. \A b \in Blocks : body[Where][b] = body[From][b]
  BY Zenon DEF ProgressInv, Blocks
<1> QED
  BY <1>1, <1>2 DEF Body

\* An anchor outside the primary slot is a complete image that fits.
LEMMA AnchorFacts ==
  ASSUME TypeOK, HeaderInv, NEW s \in Slot, Anchor(s)
  PROVE  /\ validate_image(s)
         /\ hdr[s].img \in trusted
         /\ hdr[s].img \notin Oversize
         /\ body[s] = Content(hdr[s].img)
         /\ s # Primary => hdr[s].magic = "NXOS" /\ CONFIRMED \in flags[s]
BY Zenon DEF HeaderInv, Anchor, TrustedImage, validate_image,
       validate_image_header, get_image_flag

-----------------------------------------------------------------------------
(* Every action keeps the invariant: first the writes of copy_partition. *)

\* A step of a copy that changes only the slot it writes, and a reset during
\* a copy, leave the anchor and the source alone.
OnlyWhere == \A s \in Slot : s # Where => SameImage(s) /\ flags'[s] = flags[s]

\* So the anchor survives every such step.
LEMMA CopyKeepsAnchor ==
  ASSUME TypeOK, SafeInv, pc \in CopyPC, OnlyWhere,
         UNCHANGED <<st, job, trusted>>, pc' \in CopyPC \cup {"copied", "off"}
  PROVE  /\ RoleInv' /\ FallbackInv' /\ JobInv' /\ ApplicationInv'
         /\ job = "backup" => Anchor(Primary)' /\ Where = st.recovery
         /\ job # "backup" => /\ Where = Primary
                              /\ recovery_slot' = recovery_slot
                              /\ Anchor(recovery_slot)'
<1> USE Roles, CopySlots DEF SafeInv
<1>1. RoleInv' /\ ApplicationInv'
  BY SameRoles, Zenon DEF ApplicationInv, CopyPC, UploadPC
<1>2. CASE job = "backup"
  <2>1. Where = st.recovery
    BY <1>2, Zenon DEF Where
  <2>2. Anchor(Primary)'
    BY <1>2, <2>1, SameImageKeeps, Zenon DEF JobInv, OnlyWhere
  <2>3. JobInv'
    BY <1>2, <2>1, <2>2, SameImageKeeps, Zenon DEF JobInv, CopyPC, OnlyWhere
  <2> QED
    BY <1>1, <1>2, <2>1, <2>2, <2>3, Zenon DEF FallbackInv
<1>3. CASE job # "backup"
  <2>1. Where = Primary
    BY <1>3, Zenon DEF Where
  <2>2. recovery_slot' = recovery_slot
    BY <2>1, SameRecoverySlot, Zenon DEF Slot, OnlyWhere
  <2>3. Anchor(recovery_slot)
    BY <1>3, Zenon DEF JobInv, TypeOK
  <2>4. Anchor(recovery_slot)'
    BY <2>1, <2>2, <2>3, SameImageKeeps, Zenon DEF OnlyWhere
  <2>5. SameImage(st.update) /\ flags'[st.update] = flags[st.update]
    BY <2>1, Zenon DEF OnlyWhere
  <2>6. validate_image(st.update)' <=> validate_image(st.update)
    BY <2>5, SameImageKeeps, Zenon
  <2>7. hdr'[st.update] = hdr[st.update]
    BY <2>5, Zenon DEF SameImage
  <2>8. st.recovery = recovery_slot
    BY <1>3, Zenon DEF JobInv, TypeOK
  <2>9. JobInv'
    BY <1>3, <2>2, <2>4, <2>5, <2>6, <2>7, <2>8, Zenon DEF JobInv, CopyPC
  <2> QED
    BY <1>1, <1>3, <2>1, <2>2, <2>4, <2>9, Zenon DEF FallbackInv
<1> QED
  BY <1>2, <1>3, Zenon

\* Where the source of a copy stands, and what its header becomes.
LEMMA SourceFacts ==
  ASSUME TypeOK, SafeInv, pc \in CopyPC
  PROVE  /\ From # Where /\ From \in Slot /\ Where \in Slot
         /\ validate_image(From)
         /\ body[From] = Content(hdr[From].img)
         /\ hdr[From].img \in Image \ Oversize
         /\ CopiedHeader(From) = [magic |-> "NXOS",
                                  crc |-> Content(hdr[From].img),
                                  img |-> hdr[From].img]
         /\ job = "backup" <=> From = Primary
         /\ job # "backup" => hdr[From].magic = "NXOS"
<1> USE Roles, CopySlots DEF SafeInv
<1>1. From # Where /\ (job = "backup" <=> From = Primary)
  BY Zenon DEF From, Where, TypeOK
<1>2. validate_image(From) /\ hdr[From].img \notin Oversize
  BY AnchorFacts, Zenon DEF From, JobInv, TypeOK
<1>3. /\ hdr[From].img \in Image
      /\ body[From] = Content(hdr[From].img)
      /\ hdr[From].magic \in {"NXOS", "INV"}
      /\ hdr[From].magic = "INV" => From = Primary
  <2>1. hdr[From].magic \in {"NXOS", "INV"}
    BY <1>2, Zenon DEF validate_image, validate_image_header
  <2>2. CASE hdr[From].magic = "NXOS"
    BY <1>2, <2>2, Zenon DEF HeaderInv, validate_image, calculate_crc
  <2>3. CASE hdr[From].magic = "INV"
    <3>1. From = Primary /\ hdr[From].img \in trusted
            /\ body[From] = Content(hdr[From].img)
      BY <2>3, Zenon DEF HeaderInv
    <3>2. hdr[From].img \in Image
      BY <3>1, <2>3, Zenon DEF TypeOK, HeaderInv
    <3> QED
      BY <2>3, <3>1, <3>2, Zenon
  <2> QED
    BY <2>1, <2>2, <2>3, Zenon
<1>4. CopiedHeader(From) = [magic |-> "NXOS", crc |-> Content(hdr[From].img),
                            img |-> hdr[From].img]
  <2>1. hdr[From] \in Header
    BY Zenon DEF TypeOK
  <2>2. CASE hdr[From].magic = "NXOS"
    <3>1. hdr[From].crc = Content(hdr[From].img)
      BY <2>2, Zenon DEF HeaderInv
    <3> QED
      BY <2>1, <2>2, <3>1, Zenon DEF CopiedHeader, Header
  <2>3. CASE hdr[From].magic = "INV"
    BY Zenon, <1>3, <2>1, <2>3 DEF CopiedHeader, calculate_crc, Header
  <2> QED
    BY <1>3, <2>2, <2>3, Zenon
<1> QED
  BY <1>1, <1>2, <1>3, <1>4, Zenon

\* Erasing the last sector of the target takes only its flags.
LEMMA CopyEraseSafe ==
  ASSUME TypeOK, SafeInv, CopyErase
  PROVE  SafeInv'
<1> USE CopySlots DEF SafeInv
<1>1. /\ UNCHANGED <<hdr, body, st, job, off, trusted>>
      /\ pc = "copy_erase" /\ pc' = "copy_header" /\ pc \in CopyPC
      /\ Where' = Where /\ From' = From
  BY Zenon DEF CopyErase, Where, From, CopyPC
<1>2. OnlyWhere /\ flags'[Where] = {}
  BY <1>1, Zenon DEF CopyErase, TypeOK, SameImage, OnlyWhere
<1>3. HeaderInv' /\ BootInv'
  BY <1>1, SameHeaders, Zenon DEF BootInv, CopyPC
<1>4. ProgressInv'
  BY <1>1, <1>2, Zenon DEF ProgressInv, CopyPC
<1>5. ConfirmInv'
  <2>1. Primary # Where => SameImage(Primary) /\ flags'[Primary] = flags[Primary]
    BY <1>2, Zenon DEF OnlyWhere, Slot
  <2> QED
    BY <1>1, <1>2, <2>1, SameImageKeeps, Zenon DEF ConfirmInv, Slot
<1> QED
  BY <1>1, <1>2, <1>3, <1>4, <1>5, CopyKeepsAnchor, Zenon DEF CopyPC

\* The facts the proofs of the other writes share: outside the slot written
\* headers and confirmed flags keep what the invariant says of them.
LEMMA CopyKeepsHeaders ==
  ASSUME TypeOK, SafeInv, pc \in CopyPC, OnlyWhere, UNCHANGED trusted,
         \/ UNCHANGED <<hdr, body>>
         \/ hdr'[Where] \in {CopiedHeader(From), NoHeader}
         \/ UNCHANGED hdr /\ hdr[Where].magic # "INV",
         CONFIRMED \notin flags'[Where]
  PROVE  HeaderInv' /\ ConfirmInv'
<1> USE Roles, CopySlots DEF SafeInv
<1>1. \A s \in Slot : s # Where => hdr'[s] = hdr[s] /\ body'[s] = body[s]
  BY Zenon DEF OnlyWhere, SameImage
<1>2. \/ hdr'[Where].magic = "none" /\ hdr'[Where].img = NoImage
      \/ /\ hdr'[Where].magic = "NXOS"
         /\ hdr'[Where].img \in Image \ Oversize
         /\ hdr'[Where].crc = Content(hdr'[Where].img)
      \/ hdr'[Where] = hdr[Where]
         /\ (body'[Where] = body[Where] \/ hdr[Where].magic # "INV")
  BY SourceFacts DEF NoHeader
<1>3. NoImage \notin Oversize
  BY ImageAssumption, Zenon
<1>4. HeaderInv'
  <2>1. ASSUME NEW s \in Slot, hdr'[s].magic = "NXOS"
        PROVE  hdr'[s].img \in Image /\ hdr'[s].crc = Content(hdr'[s].img)
    BY <1>1, <1>2, <2>1 DEF HeaderInv
  <2>2. ASSUME NEW s \in Slot, hdr'[s].magic = "INV"
        PROVE  /\ s = Primary
               /\ hdr'[s].crc = NoCrc
               /\ hdr'[s].img \in trusted
               /\ body'[s] = Content(hdr'[s].img)
    BY <1>1, <1>2, <2>2 DEF HeaderInv
  <2>3. hdr'[Primary].img \notin Oversize
    BY <1>1, <1>2, <1>3, Zenon DEF HeaderInv
  <2> QED
    BY <2>1, <2>2, <2>3, Zenon DEF HeaderInv
<1>5. ConfirmInv'
  <2>1. CASE Where = Primary
    BY <2>1, Zenon DEF ConfirmInv
  <2>2. CASE Where # Primary
    BY <2>2, SameImageKeeps, Zenon DEF OnlyWhere, SameImage, ConfirmInv
  <2> QED
    BY <2>1, <2>2, Zenon
<1> QED
  BY <1>4, <1>5, Zenon

\* Writing the header of the target begins to replace its image.
LEMMA CopyHeaderSafe ==
  ASSUME TypeOK, SafeInv, CopyHeader
  PROVE  SafeInv'
<1> USE CopySlots DEF SafeInv
<1>1. /\ UNCHANGED <<body, flags, st, job, off, trusted>>
      /\ pc = "copy_header" /\ pc' = "copy_body" /\ pc \in CopyPC
      /\ Where' = Where /\ From' = From
  BY Zenon DEF CopyHeader, Where, From, CopyPC
<1>2. OnlyWhere /\ hdr'[Where] = CopiedHeader(From)
  BY <1>1, Zenon DEF CopyHeader, TypeOK, SameImage, OnlyWhere
<1>3. CONFIRMED \notin flags[Where] /\ off = 0
  BY <1>1, Zenon DEF ProgressInv, CopyPC
<1>4. HeaderInv' /\ ConfirmInv'
  BY <1>1, <1>2, <1>3, CopyKeepsHeaders, Zenon
<1>5. BootInv'
  BY <1>1, Zenon DEF BootInv, CopyPC
<1>6. CopiedHeader(From)' = CopiedHeader(From)
  <2>1. hdr'[From] = hdr[From]
    BY <1>1, <1>2, SourceFacts, Zenon DEF OnlyWhere, SameImage
  <2> QED
    BY <1>1, <2>1, Zenon DEF CopiedHeader, calculate_crc
<1>7. ProgressInv'
  BY <1>1, <1>2, <1>3, <1>6, NAssumption DEF ProgressInv, CopyPC
<1> QED
  BY <1>1, <1>2, <1>4, <1>5, <1>7, CopyKeepsAnchor, Zenon DEF CopyPC

\* Writing a block of the target.
LEMMA CopyBodySafe ==
  ASSUME TypeOK, SafeInv, CopyBody
  PROVE  SafeInv'
<1> USE CopySlots DEF SafeInv
<1>1. /\ UNCHANGED <<hdr, flags, st, job, trusted>>
      /\ pc = "copy_body" /\ pc' \in {"copy_body", "copy_updated"}
      /\ pc \in CopyPC /\ pc' \in CopyPC
      /\ Where' = Where /\ From' = From
      /\ off' = off + 1 /\ off \in 0..N /\ off < N
      /\ pc' = "copy_body" => off' < N
      /\ pc' = "copy_updated" => off' = N
  BY NAssumption DEF CopyBody, Where, From, CopyPC, TypeOK
<1>2. /\ OnlyWhere
      /\ body'[Where] = [body[Where] EXCEPT ![off + 1] = body[From][off + 1]]
  BY <1>1, Zenon DEF CopyBody, TypeOK, SameImage, OnlyWhere
<1>3. CONFIRMED \notin flags[Where] /\ hdr[Where] = CopiedHeader(From)
  BY <1>1, Zenon DEF ProgressInv, CopyPC
<1>4. HeaderInv' /\ ConfirmInv'
  BY <1>1, <1>2, <1>3, CopyKeepsHeaders, Zenon
<1>5. BootInv'
  BY <1>1, Zenon DEF BootInv, CopyPC
<1>6. body'[From] = body[From] /\ CopiedHeader(From)' = CopiedHeader(From)
  BY Zenon, <1>1, <1>2, SourceFacts
  DEF OnlyWhere, SameImage, CopiedHeader, calculate_crc
<1>7. \A b \in 1..off' : body'[Where][b] = body'[From][b]
  <2>1. SUFFICES ASSUME NEW b \in 1..off'
                 PROVE  body'[Where][b] = body'[From][b]
    BY Zenon
  <2>2. body[Where] \in Body /\ b \in Blocks /\ (b \in 1..off \/ b = off + 1)
    BY <1>1, NAssumption DEF TypeOK, Blocks
  <2>3. b \in 1..off => body[Where][b] = body[From][b]
    BY <1>1, Zenon DEF ProgressInv
  <2> QED
    BY <1>1, <1>2, <1>6, <2>2, <2>3, Zenon DEF Body
<1>8. ProgressInv'
  BY <1>1, <1>3, <1>6, <1>7, Zenon DEF ProgressInv, CopyPC
<1> QED
  BY <1>1, <1>2, <1>4, <1>5, <1>8, CopyKeepsAnchor, Zenon

\* Copying the updated flag.
LEMMA CopyUpdatedSafe ==
  ASSUME TypeOK, SafeInv, CopyUpdated
  PROVE  SafeInv'
<1> USE CopySlots DEF SafeInv
<1>1. /\ UNCHANGED <<hdr, body, st, job, off, trusted>>
      /\ pc = "copy_updated" /\ pc' = "copy_confirmed" /\ pc \in CopyPC
      /\ Where' = Where /\ From' = From
  BY Zenon DEF CopyUpdated, Where, From, CopyPC
<1>2. CONFIRMED \notin flags[Where]
  BY <1>1, Zenon DEF ProgressInv, CopyPC
<1>3. OnlyWhere /\ CONFIRMED \notin flags'[Where]
  BY <1>1, <1>2, Zenon
  DEF CopyUpdated, TypeOK, SameImage, OnlyWhere, CONFIRMED, UPDATED
<1>4. HeaderInv' /\ ConfirmInv'
  BY <1>1, <1>3, CopyKeepsHeaders, Zenon
<1>5. BootInv'
  BY <1>1, Zenon DEF BootInv, CopyPC
<1>6. ProgressInv'
  BY <1>1, <1>3, Zenon
  DEF ProgressInv, CopyPC, CopiedHeader, calculate_crc
<1> QED
  BY <1>1, <1>3, <1>4, <1>5, <1>6, CopyKeepsAnchor, Zenon DEF CopyPC

\* The copy is complete: the target holds the image of the source, and the
\* confirmed flag only when the source is an anchor.
LEMMA CopyConfirmedSafe ==
  ASSUME TypeOK, SafeInv, CopyConfirmed
  PROVE  SafeInv'
<1> USE DEF SafeInv
<1>1. /\ UNCHANGED <<hdr, body, st, job, off, trusted>>
      /\ pc = "copy_confirmed" /\ pc' = "copied" /\ pc \in CopyPC
      /\ Where' = Where /\ From' = From
  BY Zenon DEF CopyConfirmed, Where, From, CopyPC
<1>2. OnlyWhere
  BY <1>1, CopySlots, Zenon DEF CopyConfirmed, TypeOK, SameImage, OnlyWhere
<1>3. /\ RoleInv' /\ FallbackInv' /\ JobInv' /\ ApplicationInv' /\ HeaderInv'
      /\ job = "backup" => Anchor(Primary)' /\ Where = st.recovery
      /\ job # "backup" => Where = Primary
  BY <1>1, <1>2, CopyKeepsAnchor, SameHeaders, Zenon
<1>4. /\ hdr[Where] = [magic |-> "NXOS", crc |-> Content(hdr[From].img),
                       img |-> hdr[From].img]
      /\ body[Where] = Content(hdr[From].img)
  BY <1>1, BodyCopied, SourceFacts, Zenon DEF ProgressInv
<1>5. validate_image(Where)'
  BY <1>1, <1>4 DEF validate_image, validate_image_header, calculate_crc
<1>6. CONFIRMED \in flags'[Where] => Anchor(From)
  <2>1. CONFIRMED \notin flags[Where]
    BY <1>1, Zenon DEF ProgressInv, CopyPC
  <2>2. CASE job = "backup"
    BY <1>1, <2>2, SourceFacts, Zenon DEF JobInv
  <2>3. CASE job = "revert"
    BY <1>1, <2>3, Zenon DEF JobInv, From
  <2>4. CASE job = "update"
    <3>1. flags[From] = {} /\ hdr[From].magic = "NXOS"
      BY <1>1, <2>4, SourceFacts, Zenon DEF JobInv, From
    <3> QED
      BY <2>1, <3>1, Zenon DEF CopyConfirmed, get_image_flag
  <2> QED
    BY <2>2, <2>3, <2>4, Zenon DEF TypeOK
<1>7. CONFIRMED \in flags'[Where] => Anchor(Where)'
  <2>1. SUFFICES ASSUME CONFIRMED \in flags'[Where]
                 PROVE  Anchor(Where)'
    BY Zenon
  <2>2. hdr[From].img \in trusted
    BY <1>6, <2>1, Zenon DEF Anchor, TrustedImage
  <2>3. hdr'[Where].img = hdr[From].img /\ body'[Where] = Content(hdr[From].img)
    BY <1>1, <1>4
  <2> QED
    BY <1>1, <1>5, <2>1, <2>2, <2>3, Zenon
    DEF Anchor, TrustedImage, get_image_flag
<1>8. ConfirmInv' /\ BootInv'
  <2>1. CASE job = "backup"
    <3>1. SameImage(Primary)
      BY <1>2, <1>3, <2>1, Roles, Zenon DEF OnlyWhere
    <3>2. Anchor(Primary)'
      BY <1>3, <2>1, Zenon
    <3> QED
      BY <1>1, <3>2, Zenon
      DEF ConfirmInv, BootInv, CopyPC, Anchor, TrustedImage
  <2>2. CASE job # "backup"
    BY <1>1, <1>3, <1>5, <1>7, <2>2, Zenon
    DEF ConfirmInv, BootInv, CopyPC, Anchor
  <2> QED
    BY <2>1, <2>2, Zenon
<1>9. ProgressInv'
  <2>1. job = "backup" => CONFIRMED \in flags'[Where]
    <3>1. SUFFICES ASSUME job = "backup" PROVE CONFIRMED \in flags'[Where]
      BY Zenon
    <3>2. From = Primary /\ Anchor(Primary)
      BY <1>1, <3>1, SourceFacts, Zenon DEF JobInv
    <3> QED
      BY <3>2, CopySlots, Zenon
      DEF Anchor, get_image_flag, CopyConfirmed, TypeOK
  <2>2. job = "backup" => Anchor(st.recovery)'
    BY <1>1, <1>3, <1>7, <2>1, Zenon
  <2> QED
    BY <1>1, <2>2, Zenon DEF ProgressInv, CopyPC
<1> QED
  BY <1>3, <1>8, <1>9, Zenon

-----------------------------------------------------------------------------
(* The decisions of nxboot_perform_update. *)

\* A step that changes no image, and no confirmed flag, changes no role.
LEMMA SameImages ==
  ASSUME TypeOK, SafeInv, UNCHANGED trusted, UNCHANGED <<hdr, body>>,
         \A s \in Slot : CONFIRMED \in flags'[s] <=> CONFIRMED \in flags[s]
  PROVE  /\ HeaderInv' /\ ConfirmInv' /\ FallbackInv'
         /\ recovery_slot' = recovery_slot
         /\ \A s \in Slot : SameImage(s)
<1> USE Roles DEF SafeInv
<1>1. \A s \in Slot : SameImage(s)
  BY Zenon DEF SameImage
<1>2. recovery_slot' = recovery_slot
  BY <1>1, SameRecoverySlot, Zenon DEF Slot
<1>3. HeaderInv'
  BY SameHeaders, Zenon
<1>4. ConfirmInv'
  BY <1>1, SameImageKeeps, Zenon DEF ConfirmInv
<1>5. FallbackInv'
  BY <1>1, <1>2, SameImageKeeps, Zenon DEF FallbackInv
<1> QED
  BY <1>1, <1>2, <1>3, <1>4, <1>5, Zenon

\* The state nxboot_get_state returns names two different slots.
LEMMA ReadRoles ==
  ASSUME st' = nxboot_get_state
  PROVE  /\ RoleInv' /\ st'.recovery = recovery_slot
         /\ st'.update = Other(recovery_slot)
         /\ st'.update \in Slot /\ st'.recovery \in Slot
BY GetStateType, Zenon
DEF RoleInv, Other, Secondary, Tertiary, recovery_slot, Slot

\* A confirmed valid primary image is an anchor.
LEMMA ConfirmedPrimary ==
  ASSUME TypeOK, HeaderInv, ConfirmInv, validate_image(Primary),
         nxboot_get_confirm
  PROVE  Anchor(Primary)
<1>1. Primary \in Slot
  BY Zenon DEF Slot
<1> QED
  BY <1>1, Zenon DEF HeaderInv, ConfirmInv, nxboot_get_confirm, get_image_flag,
              Anchor, TrustedImage

\* Images are told apart by their checksums.
LEMMA DifferentContent ==
  ASSUME NEW i \in Image, NEW j \in Image
  PROVE  Content(i) # NoCrc /\ (Content(i) = Content(j) => i = j)
<1>1. 1 \in Blocks
  BY NAssumption DEF Blocks
<1>2. Content(i)[1] = i /\ Content(j)[1] = j /\ NoCrc[1] = NoImage
  BY <1>1, Zenon DEF Content, NoCrc
<1>3. i # NoImage
  BY ImageAssumption, Zenon
<1> QED
  BY <1>2, <1>3, Zenon

\* When no backup is needed, the recovery slot already holds an anchor.
LEMMA NoBackupNeeded ==
  ASSUME TypeOK, SafeInv, ~NeedsBackup(nxboot_get_state)
  PROVE  Anchor(recovery_slot)
<1> USE Roles DEF SafeInv
<1> DEFINE r == recovery_slot
<1>1. SUFFICES ASSUME Anchor(Primary) PROVE Anchor(r)
  BY Zenon DEF FallbackInv
<1>2. validate_image(Primary) /\ nxboot_get_confirm
  BY <1>1, Zenon DEF Anchor, TrustedImage, nxboot_get_confirm
<1>3. recovery_valid(r)
  BY <1>2, GetStateType, Zenon DEF NeedsBackup
<1>4. /\ CONFIRMED \in flags[r] /\ validate_image(r)
      /\ hdr[r].crc = hdr[Primary].crc
  BY <1>3, Zenon DEF recovery_valid, get_image_flag
<1>5. hdr[r].magic = "NXOS"
  BY <1>4, Zenon DEF HeaderInv, validate_image, validate_image_header
<1>6. /\ hdr[r].img \in Image /\ hdr[r].crc = Content(hdr[r].img)
      /\ body[r] = Content(hdr[r].img)
  BY <1>4, <1>5, Zenon DEF HeaderInv, validate_image, calculate_crc
<1>7. hdr[Primary].img \in trusted /\ hdr[Primary].img \in Image
  BY <1>1, AnchorFacts, Zenon DEF HeaderInv
<1>8. hdr[Primary].magic # "INV"
  BY Zenon, <1>4, <1>6, DifferentContent DEF HeaderInv
<1>9. hdr[Primary].crc = Content(hdr[Primary].img)
  BY <1>2, <1>8, Zenon DEF HeaderInv, validate_image, validate_image_header
<1>10. hdr[r].img = hdr[Primary].img
  BY Zenon, <1>4, <1>6, <1>7, <1>9, DifferentContent
<1> QED
  BY <1>4, <1>6, <1>7, <1>10, Zenon DEF Anchor, TrustedImage, get_image_flag

\* A step between the copies that changes no image and no confirmed flag.
LEMMA QuietSafe ==
  ASSUME TypeOK, SafeInv, UNCHANGED <<hdr, body, trusted>>, RoleInv',
         \A s \in Slot : CONFIRMED \in flags'[s] <=> CONFIRMED \in flags[s],
         validate_image(Primary), pc' \in {"launch", "mark", "run"}
  PROVE  SafeInv'
<1>1. BootInv'
  <2>1. validate_image(Primary)'
    BY SameImages, SameImageKeeps, Zenon DEF Slot
  <2> QED
    BY <2>1, Zenon DEF BootInv
<1>2. JobInv' /\ ProgressInv' /\ ApplicationInv'
  BY Zenon DEF JobInv, ProgressInv, ApplicationInv, CopyPC, UploadPC
<1> QED
  BY <1>1, <1>2, SameImages, Zenon DEF SafeInv

\* With no step to take the primary image is valid.
LEMMA BootNoneSafe ==
  ASSUME TypeOK, SafeInv, BootNone, faults = 0
  PROVE  SafeInv'
<1>1. /\ UNCHANGED <<hdr, body, flags, trusted>> /\ st' = nxboot_get_state
      /\ pc = "off" /\ pc' = "launch" /\ nxboot_get_state.next_boot = "none"
  BY Zenon DEF BootNone, Continue, Booting
<1>2. validate_image(Primary)
  BY <1>1, Zenon DEF SafeInv, BootInv, Recoverable
<1> QED
  BY <1>1, <1>2, QuietSafe, ReadRoles, Zenon

\* A revert has an anchor to copy, and it fits.
LEMMA BootRevertSafe ==
  ASSUME TypeOK, SafeInv, BootRevert
  PROVE  SafeInv'
<1> USE Roles DEF SafeInv
<1>1. /\ UNCHANGED <<hdr, body, flags, trusted>> /\ st' = nxboot_get_state
      /\ pc = "off" /\ nxboot_get_state.next_boot = "revert"
  BY Zenon DEF BootRevert, Booting
<1> DEFINE r == recovery_slot
           u == Other(recovery_slot)
<1>2. Revertible(u, r)
  BY <1>1, GetStateType, Zenon DEF get_update_type
<1>3. ~Anchor(Primary)
  BY <1>2, Zenon DEF Revertible, Anchor, TrustedImage
<1>4. Anchor(r)
  BY <1>3, Zenon DEF FallbackInv
<1>5. pc' = "copy_erase" /\ job' = "revert" /\ off' = 0
  BY <1>1, <1>4, AnchorFacts, ReadRoles, Zenon DEF BootRevert, Copy
<1>6. JobInv'
  <2>1. UPDATED \in flags[u]
    BY <1>2, Zenon DEF Revertible, get_image_flag
  <2>2. Anchor(r)' /\ r' = r
    BY <1>1, <1>4, SameImages, SameImageKeeps, Zenon
  <2>3. st'.recovery = r /\ st'.update = u
    BY <1>1, ReadRoles, Zenon
  <2>4. Anchor(st.recovery)'
    BY <2>2, <2>3, Zenon DEF Anchor, TrustedImage, validate_image,
                      validate_image_header, calculate_crc, get_image_flag
  <2> QED
    BY <1>1, <1>5, <2>1, <2>2, <2>3, <2>4, Zenon DEF JobInv
<1>7. ProgressInv' /\ ApplicationInv' /\ BootInv'
  BY <1>5, Zenon DEF ProgressInv, ApplicationInv, BootInv, CopyPC, UploadPC
<1> QED
  BY <1>1, <1>6, <1>7, SameImages, ReadRoles, Zenon

\* An update that is called has an anchor in the recovery slot; one that is
\* refused for its size leaves the valid primary image.
LEMMA InstallSafe ==
  ASSUME TypeOK, SafeInv, RoleInv', UNCHANGED <<hdr, body, flags, trusted>>,
         Anchor(recovery_slot), st'.recovery = recovery_slot,
         st'.update \in Slot, flags[st'.update] = {},
         validate_image(st'.update), Install(st'.update),
         hdr[st'.update].img \in Oversize => validate_image(Primary)
  PROVE  SafeInv'
<1> USE Roles DEF SafeInv
<1>1. /\ job' = "update" /\ off' = 0
      /\ pc' = IF hdr[st'.update].img \in Oversize
                 THEN "copied" ELSE "copy_erase"
  BY Zenon DEF Install, Copy
<1>2. JobInv'
  <2>1. validate_image(st.update)'
    BY Zenon DEF validate_image, validate_image_header, calculate_crc
  <2>2. Anchor(recovery_slot)' /\ recovery_slot' = recovery_slot
    BY SameImages, SameImageKeeps, Zenon
  <2>3. Anchor(st.recovery)'
    BY <2>2, Zenon DEF Anchor, TrustedImage, validate_image,
                validate_image_header, calculate_crc, get_image_flag
  <2> QED
    BY <1>1, <2>1, <2>2, <2>3, Zenon DEF JobInv, CopyPC
<1>3. ProgressInv' /\ ApplicationInv'
  BY <1>1, Zenon DEF ProgressInv, ApplicationInv, CopyPC, UploadPC
<1>4. BootInv'
  BY <1>1, SameImages, SameImageKeeps, Zenon DEF BootInv, CopyPC, Slot
<1> QED
  BY <1>2, <1>3, <1>4, SameImages, Zenon

\* An update begins with the backup exactly when there is no anchor in the
\* recovery slot.
LEMMA BootUpdateSafe ==
  ASSUME TypeOK, SafeInv, BootUpdate, faults = 0
  PROVE  SafeInv'
<1> USE Roles DEF SafeInv
<1>1. /\ UNCHANGED <<hdr, body, flags, trusted>> /\ st' = nxboot_get_state
      /\ pc = "off"
  BY Zenon DEF BootUpdate, Booting
<1> DEFINE r == recovery_slot
           u == Other(recovery_slot)
<1>2. CASE LeftAlone
  <2>1. pc' = "launch" /\ validate_image(Primary)
    BY <1>2, Zenon DEF BootUpdate, LeftAlone, Continue
  <2> QED
    BY <1>1, <2>1, QuietSafe, ReadRoles, Zenon
<1>3. CASE ~LeftAlone
  <2>1. nxboot_get_state.next_boot = "update"
    BY <1>1, <1>3, Zenon DEF BootUpdate, LeftAlone, MayRevert
  <2>2. Installable(u)
    BY <2>1, GetStateType, Zenon DEF get_update_type
  <2>3. u \in Slot /\ st'.update = u /\ st'.recovery = r /\ RoleInv'
    BY <1>1, ReadRoles, Zenon
  <2>4. flags[u] = {} /\ validate_image(u)
    BY <2>2, <2>3 DEF Installable, get_image_flag, TypeOK, Flag
  <2>5. CASE NeedsBackup(st')
    <3>1. pc' = "copy_erase" /\ job' = "backup" /\ off' = 0
      BY <1>3, <2>5, Zenon DEF BootUpdate, Copy
    <3>2. Anchor(Primary)
      BY <1>1, <2>5, GetStateType, ConfirmedPrimary, Zenon DEF NeedsBackup
    <3>3. Anchor(Primary)'
      BY <1>1, <3>2, SameImages, SameImageKeeps, Zenon
    <3>4. validate_image(st.update)'
      BY <1>1, <2>3, <2>4, Zenon
      DEF validate_image, validate_image_header, calculate_crc
    <3>5. JobInv'
      BY <1>1, <2>3, <2>4, <3>1, <3>3, <3>4, Zenon DEF JobInv
    <3>6. ProgressInv' /\ ApplicationInv' /\ BootInv'
      BY <3>1, Zenon DEF ProgressInv, ApplicationInv, BootInv, CopyPC, UploadPC
    <3> QED
      BY <1>1, <2>3, <3>5, <3>6, SameImages, Zenon
  <2>6. CASE ~NeedsBackup(st')
    <3>1. Install(st'.update)
      BY <1>3, <2>6, Zenon DEF BootUpdate
    <3>2. Anchor(r)
      BY <1>1, <2>6, NoBackupNeeded, Zenon
    <3>3. hdr[u].img \in Oversize => validate_image(Primary)
      BY <1>1, <2>1, GetStateType, Zenon DEF BootInv, Recoverable
    <3> QED
      BY <1>1, <2>3, <2>4, <3>1, <3>2, <3>3, InstallSafe, Zenon
  <2> QED
    BY <2>5, <2>6, Zenon
<1> QED
  BY <1>2, <1>3, Zenon

\* After the backup the recovery slot holds an anchor, and the update goes on.
LEMMA CopiedSafe ==
  ASSUME TypeOK, SafeInv, Copied
  PROVE  SafeInv'
<1> USE Roles DEF SafeInv
<1>1. UNCHANGED <<hdr, body, flags, st, trusted>> /\ pc = "copied"
  BY Zenon DEF Copied
<1>2. validate_image(Primary) /\ RoleInv'
  BY <1>1, SameRoles, Zenon DEF BootInv, CopyPC
<1>3. CASE job = "backup"
  <2>1. /\ Anchor(st.recovery) /\ flags[st.update] = {}
        /\ validate_image(st.update)
    BY <1>1, <1>3, Zenon DEF JobInv, ProgressInv
  <2>2. st.recovery = recovery_slot
    BY <2>1, AnchorFacts, Zenon DEF recovery_slot, get_image_flag
  <2>3. Install(st'.update)
    BY <1>1, <1>3, <2>1, AnchorFacts, Zenon DEF Copied
  <2> QED
    BY <1>1, <1>2, <2>1, <2>2, <2>3, InstallSafe, Zenon
<1>4. CASE job # "backup"
  <2>1. pc' \in {"launch", "mark"}
    BY Zenon, <1>4 DEF Copied, Continue, TypeOK
  <2> QED
    BY <1>1, <1>2, <2>1, QuietSafe, Zenon
<1> QED
  BY <1>3, <1>4, Zenon

\* The updated flag of the update slot changes no image.
LEMMA MarkUpdatedSafe ==
  ASSUME TypeOK, SafeInv, MarkUpdated
  PROVE  SafeInv'
<1>1. /\ UNCHANGED <<hdr, body, st, trusted>>
      /\ pc = "mark" /\ pc' = "launch"
  BY Zenon DEF MarkUpdated
<1>2. \A s \in Slot : CONFIRMED \in flags'[s] <=> CONFIRMED \in flags[s]
  BY Zenon DEF MarkUpdated, TypeOK, CONFIRMED, UPDATED
<1>3. validate_image(Primary) /\ RoleInv'
  BY <1>1, SameRoles, Zenon DEF SafeInv, BootInv, CopyPC
<1> QED
  BY <1>1, <1>2, <1>3, QuietSafe, Zenon

\* What is launched is valid.
LEMMA LaunchSafe ==
  ASSUME TypeOK, SafeInv, Launch
  PROVE  SafeInv'
<1>1. /\ UNCHANGED <<hdr, body, flags, st, trusted>>
      /\ pc = "launch" /\ validate_image(Primary) /\ pc' = "run"
  BY Zenon DEF Launch, SafeInv, BootInv, CopyPC
<1>2. RoleInv'
  BY <1>1, SameRoles, Zenon DEF SafeInv
<1> QED
  BY <1>1, <1>2, QuietSafe, Zenon

-----------------------------------------------------------------------------
(* The application. *)

\* Both calls begin by reading the state of the bootloader.
LEMMA StartSafe ==
  ASSUME TypeOK, SafeInv, UNCHANGED <<hdr, body, flags, trusted>>,
         st' = nxboot_get_state, pc = "run",
         pc' \in {"upload_erase", "confirm_primary"}
  PROVE  SafeInv'
<1>1. validate_image(Primary)
  BY Zenon DEF SafeInv, BootInv, CopyPC
<1>2. BootInv'
  <2>1. validate_image(Primary)'
    BY <1>1, SameImages, SameImageKeeps, Zenon DEF Slot
  <2> QED
    BY <2>1, Zenon DEF BootInv
<1>3. /\ RoleInv' /\ st'.recovery = recovery_slot
      /\ recovery_slot' = recovery_slot
  BY SameImages, ReadRoles, Zenon
<1>4. JobInv' /\ ProgressInv' /\ ApplicationInv'
  BY <1>3, Zenon DEF JobInv, ProgressInv, ApplicationInv, CopyPC, UploadPC
<1> QED
  BY <1>2, <1>3, <1>4, SameImages, Zenon DEF SafeInv

\* An upload, complete or torn, writes the slot that is not the recovery.
LEMMA UploadKeepsAnchor ==
  ASSUME TypeOK, SafeInv, pc \in UploadPC, UNCHANGED <<st, trusted>>,
         \A s \in Slot : s # st.update => SameImage(s),
         flags'[st.update] = {} \/ hdr'[st.update] = NoHeader
  PROVE  /\ recovery_slot' = st.recovery /\ RoleInv'
         /\ FallbackInv' /\ ConfirmInv' /\ validate_image(Primary)'
<1>1. st.recovery = recovery_slot /\ validate_image(Primary)
  BY Zenon DEF SafeInv, ApplicationInv, BootInv, CopyPC, UploadPC
<1>2. RoleInv /\ ConfirmInv /\ FallbackInv
  BY Zenon DEF SafeInv
<1>3. /\ Primary \in Slot /\ Primary # st.update
      /\ st.recovery \in Slot /\ st.recovery # st.update
      /\ st.recovery \in {Secondary, Tertiary}
      /\ st.update \in {Secondary, Tertiary}
  BY <1>2, Roles, Zenon
<1>4. recovery_slot' = st.recovery
  <2>1. CASE st.update = Secondary
    <3>1. ~(get_image_flag(Secondary, CONFIRMED)
            /\ validate_image(Secondary))'
      BY <2>1 DEF get_image_flag, validate_image, validate_image_header,
                  NoHeader
    <3> QED
      BY <1>3, <2>1, <3>1, Zenon DEF recovery_slot
  <2>2. CASE st.update # Secondary
    BY <1>1, <2>2, SameRecoverySlot, Zenon DEF Slot
  <2> QED
    BY <2>1, <2>2, Zenon
<1>5. SameImage(Primary) /\ SameImage(st.recovery)
  BY <1>3, Zenon
<1>6. validate_image(Primary)' /\ ConfirmInv'
  BY <1>1, <1>2, <1>3, <1>5, SameImageKeeps, Zenon DEF ConfirmInv, SameImage
<1>7. FallbackInv'
  <2>1. CASE Anchor(Primary)
    BY <1>3, <1>5, <2>1, SameImageKeeps, Zenon DEF FallbackInv
  <2>2. CASE Anchor(recovery_slot)
    <3>1. Anchor(recovery_slot)'
      BY <1>1, <1>4, <1>5, <2>2, Zenon
      DEF SameImage, Anchor, TrustedImage, validate_image,
          validate_image_header, calculate_crc, get_image_flag
    <3> QED
      BY <3>1, Zenon DEF FallbackInv
  <2> QED
    BY <1>2, <2>1, <2>2, Zenon DEF FallbackInv
<1> QED
  BY <1>2, <1>4, <1>6, <1>7, SameRoles, Zenon

\* Every write of an upload.
LEMMA UploadSafe ==
  ASSUME TypeOK, SafeInv, Upload
  PROVE  SafeInv'
<1>1. /\ UNCHANGED <<st, trusted>> /\ pc \in UploadPC
      /\ pc' \in {"upload_header", "upload_body", "run"}
  BY Zenon DEF Upload, UploadErase, UploadHeader, UploadBody, UploadPC
<1>2. /\ hdr \in [Slot -> Header] /\ body \in [Slot -> Body]
      /\ flags \in [Slot -> SUBSET Flag] /\ incoming \in Image
  BY Zenon DEF TypeOK
<1>3. /\ st.update \in Slot /\ st.update # Primary /\ Primary \in Slot
      /\ HeaderInv /\ ApplicationInv
  BY Roles, Zenon DEF SafeInv
<1>4. flags'[st.update] = {}
  BY <1>2, <1>3, Zenon
  DEF Upload, UploadErase, UploadHeader, UploadBody, ApplicationInv
<1>5. \A s \in Slot : s # st.update =>
         hdr'[s] = hdr[s] /\ body'[s] = body[s] /\ flags'[s] = flags[s]
  BY <1>2, Zenon DEF Upload, UploadErase, UploadHeader, UploadBody
<1>6. \A s \in Slot : s # st.update => SameImage(s)
  BY <1>5, Zenon DEF SameImage
<1>7. \/ hdr'[st.update] = hdr[st.update]
      \/ hdr'[st.update] = NoHeader
      \/ hdr'[st.update] = [magic |-> "NXOS", crc |-> Content(incoming),
                            img |-> incoming]
  BY <1>2, <1>3, Zenon DEF Upload, UploadErase, UploadHeader, UploadBody
<1>8. HeaderInv'
  <2>1. ASSUME NEW s \in Slot, hdr'[s].magic = "NXOS"
        PROVE  hdr'[s].img \in Image /\ hdr'[s].crc = Content(hdr'[s].img)
    BY <1>2, <1>3, <1>5, <1>7, <2>1 DEF HeaderInv, NoHeader
  <2>2. ASSUME NEW s \in Slot, hdr'[s].magic = "INV"
        PROVE  /\ s = Primary
               /\ hdr'[s].crc = NoCrc
               /\ hdr'[s].img \in trusted
               /\ body'[s] = Content(hdr'[s].img)
    BY <1>3, <1>5, <1>7, <2>2 DEF HeaderInv, NoHeader
  <2>3. hdr'[Primary].img \notin Oversize
    BY <1>3, <1>5, Zenon DEF HeaderInv
  <2> QED
    BY <1>1, <1>3, <2>1, <2>2, <2>3, Zenon DEF HeaderInv
<1>9. /\ recovery_slot' = st.recovery /\ RoleInv'
      /\ FallbackInv' /\ ConfirmInv' /\ validate_image(Primary)'
  BY <1>1, <1>4, <1>6, UploadKeepsAnchor, Zenon
<1>10. ApplicationInv' /\ BootInv'
  BY <1>1, <1>4, <1>9, Zenon DEF ApplicationInv, BootInv
<1>11. JobInv' /\ ProgressInv'
  BY <1>1, Zenon DEF JobInv, ProgressInv, CopyPC
<1> QED
  BY <1>8, <1>9, <1>10, <1>11, Zenon DEF SafeInv

\* An application that runs is valid, so confirming it makes it an anchor.
LEMMA ConfirmPrimarySafe ==
  ASSUME TypeOK, SafeInv, ConfirmPrimary
  PROVE  SafeInv'
<1>1. Primary \in Slot /\ HeaderInv /\ RoleInv
  BY Zenon DEF SafeInv, Slot
<1>2. /\ UNCHANGED <<hdr, body, st>>
      /\ pc = "confirm_primary" /\ pc' = "confirm_update"
      /\ trusted' = trusted \cup {hdr[Primary].img}
      /\ CONFIRMED \in flags'[Primary]
  BY <1>1, Zenon DEF ConfirmPrimary, TypeOK
<1>3. validate_image(Primary)
  BY <1>2, Zenon DEF SafeInv, BootInv, CopyPC
<1>4. hdr[Primary].img \in Image /\ body[Primary] = Content(hdr[Primary].img)
  <2>1. CASE hdr[Primary].magic = "NXOS"
    BY <1>1, <1>3, <2>1, Zenon DEF HeaderInv, validate_image, calculate_crc
  <2>2. CASE hdr[Primary].magic = "INV"
    <3>1. hdr[Primary].img \in Image
      BY <1>1, <2>2, Zenon DEF HeaderInv
    <3> QED
      BY <1>1, <2>2, <3>1, Zenon DEF HeaderInv
  <2> QED
    BY <1>3, <2>1, <2>2, Zenon DEF validate_image, validate_image_header
<1>5. validate_image(Primary)'
  BY <1>2, <1>3, Zenon DEF validate_image, validate_image_header, calculate_crc
<1>6. Anchor(Primary)'
  BY <1>2, <1>4, <1>5, Zenon DEF Anchor, TrustedImage, get_image_flag
<1>7. HeaderInv'
  BY <1>1, <1>2, <1>4, Zenon DEF HeaderInv
<1>8. ConfirmInv' /\ FallbackInv'
  BY <1>6, Zenon DEF ConfirmInv, FallbackInv, Anchor
<1>9. ApplicationInv' /\ BootInv'
  BY <1>2, <1>5, <1>6, Zenon DEF ApplicationInv, BootInv, UploadPC
<1>10. JobInv' /\ ProgressInv'
  BY <1>2, Zenon DEF JobInv, ProgressInv, CopyPC
<1> QED
  BY <1>1, <1>2, <1>7, <1>8, <1>9, <1>10, SameRoles, Zenon DEF SafeInv

\* The rest of nxboot_confirm touches the other two slots only.
LEMMA RetireSafe ==
  ASSUME TypeOK, SafeInv, UNCHANGED <<hdr, body, st, trusted>>,
         pc \in {"confirm_update", "retire_erase", "retire_mark"},
         flags'[Primary] = flags[Primary],
         pc' \in {"retire_erase", "retire_mark", "run", "off"}
  PROVE  SafeInv'
<1>1. Anchor(Primary) /\ HeaderInv /\ RoleInv
  BY Zenon DEF SafeInv, ApplicationInv
<1>2. SameImage(Primary) /\ Primary \in Slot
  BY Zenon DEF SameImage, Slot
<1>3. Anchor(Primary)'
  BY <1>1, <1>2, SameImageKeeps, Zenon
<1>4. validate_image(Primary)'
  BY <1>3, Zenon DEF Anchor, TrustedImage
<1>5. ConfirmInv' /\ FallbackInv'
  BY <1>3, Zenon DEF ConfirmInv, FallbackInv, Anchor
<1>6. ApplicationInv'
  BY <1>3, Zenon DEF ApplicationInv, UploadPC
<1>7. JobInv' /\ ProgressInv'
  BY Zenon DEF JobInv, ProgressInv, CopyPC
<1>8. BootInv'
  BY <1>4, Zenon DEF BootInv, Recoverable
<1> QED
  BY <1>1, <1>5, <1>6, <1>7, <1>8, SameHeaders, SameRoles, Zenon DEF SafeInv

-----------------------------------------------------------------------------
(* Power loss. *)

\* Whatever a copy has done to its target, the next boot finds its source.
LEMMA CopyRecoverable ==
  ASSUME TypeOK, SafeInv, pc \in CopyPC, OnlyWhere,
         UNCHANGED <<st, job, trusted>>, pc' = "off"
  PROVE  Recoverable'
<1> USE Roles DEF SafeInv
<1>1. SUFFICES ASSUME ~validate_image(Primary)'
               PROVE  Recoverable'
  BY Zenon DEF Recoverable
<1>2. job # "backup" /\ Where = Primary
  BY <1>1, CopyKeepsAnchor, Zenon DEF Anchor, TrustedImage
<1>3. recovery_slot' = recovery_slot /\ st.recovery = recovery_slot
  BY <1>2, CopyKeepsAnchor, Zenon DEF JobInv, TypeOK
<1>4. /\ nxboot_get_state'.recovery = st.recovery
      /\ nxboot_get_state'.update = st.update
      /\ nxboot_get_state'.next_boot
           = get_update_type(st.update, st.recovery)'
  <2>1. /\ nxboot_get_state'.recovery = recovery_slot'
        /\ nxboot_get_state'.update = Other(recovery_slot)'
        /\ nxboot_get_state'.next_boot
             = get_update_type(Other(recovery_slot), recovery_slot)'
    BY Zenon DEF nxboot_get_state
  <2>2. Other(recovery_slot)' = st.update
    BY <1>3, Zenon DEF RoleInv, Other
  <2> QED
    BY <1>3, <2>1, <2>2, Zenon DEF get_update_type, Revertible, Installable
<1>5. /\ hdr'[st.update] = hdr[st.update] /\ body'[st.update] = body[st.update]
      /\ flags'[st.update] = flags[st.update]
      /\ hdr'[st.recovery] = hdr[st.recovery]
      /\ body'[st.recovery] = body[st.recovery]
      /\ flags'[st.recovery] = flags[st.recovery]
  BY <1>2, Zenon DEF OnlyWhere, SameImage
<1>6. CASE job = "revert"
  <2>1. Anchor(st.recovery) /\ UPDATED \in flags[st.update]
    BY <1>6, Zenon DEF JobInv
  <2>2. hdr[st.recovery].img \notin Oversize /\ validate_image(st.recovery)
          /\ CONFIRMED \in flags[st.recovery]
    BY <2>1, AnchorFacts, Zenon
  <2>3. Revertible(st.update, st.recovery)'
    BY <1>1, <1>5, <2>1, <2>2, Zenon
    DEF Revertible, get_image_flag, validate_image, validate_image_header,
        calculate_crc
  <2>4. get_update_type(st.update, st.recovery)' = "revert"
    BY <2>3, Zenon DEF get_update_type
  <2> QED
    BY <1>4, <1>5, <2>2, <2>4, Zenon DEF Recoverable
<1>7. CASE job = "update"
  <2>1. /\ flags[st.update] = {} /\ validate_image(st.update)
        /\ hdr[st.update].img \notin Oversize
    BY <1>7, Zenon DEF JobInv
  <2>2. ~Revertible(st.update, st.recovery)' /\ Installable(st.update)'
    BY <1>1, <1>5, <2>1, Zenon
    DEF Revertible, Installable, get_image_flag, validate_image,
        validate_image_header, calculate_crc
  <2>3. get_update_type(st.update, st.recovery)' = "update"
    BY <2>2, Zenon DEF get_update_type
  <2> QED
    BY <1>4, <1>5, <2>1, <2>3, Zenon DEF Recoverable
<1> QED
  BY <1>2, <1>6, <1>7, Zenon DEF TypeOK

\* The same while the copy is in progress.
LEMMA CopyInProgress ==
  ASSUME TypeOK, SafeInv, pc \in CopyPC
  PROVE  Recoverable
<1> USE Roles DEF SafeInv
<1>1. SUFFICES ASSUME ~validate_image(Primary)
               PROVE  Recoverable
  BY Zenon DEF Recoverable
<1>2. job \in {"revert", "update"}
  BY <1>1, Zenon DEF JobInv, TypeOK, Anchor, TrustedImage
<1>3. st.recovery = recovery_slot /\ st.update = Other(recovery_slot)
  BY <1>2, Zenon DEF JobInv, RoleInv
<1>4. CASE job = "revert"
  <2>1. Anchor(st.recovery) /\ UPDATED \in flags[st.update]
    BY <1>4, Zenon DEF JobInv
  <2>2. get_update_type(st.update, st.recovery) = "revert"
    BY <1>1, <2>1, AnchorFacts, Zenon
    DEF get_update_type, Revertible, get_image_flag
  <2> QED
    BY <1>3, <2>1, <2>2, AnchorFacts, GetStateType, Zenon DEF Recoverable
<1>5. CASE job = "update"
  <2>1. /\ flags[st.update] = {} /\ validate_image(st.update)
        /\ hdr[st.update].img \notin Oversize
    BY <1>5, Zenon DEF JobInv
  <2>2. get_update_type(st.update, st.recovery) = "update"
    BY <1>1, <2>1, Zenon
    DEF get_update_type, Revertible, Installable, get_image_flag
  <2> QED
    BY <1>3, <2>1, <2>2, GetStateType, Zenon DEF Recoverable
<1> QED
  BY <1>2, <1>4, <1>5, Zenon

\* A reset that tears no operation.
LEMMA CleanResetSafe ==
  ASSUME TypeOK, SafeInv, Reset, UNCHANGED <<hdr, body, flags>>
  PROVE  SafeInv'
<1> USE DEF SafeInv
<1>1. pc # "off" /\ pc' = "off" /\ UNCHANGED <<st, job, trusted>>
  BY Zenon DEF Reset
<1>2. BootInv'
  <2>1. CASE pc \in CopyPC
    <3>1. OnlyWhere
      BY SameImages, <1>1, Zenon DEF OnlyWhere
    <3> QED
      BY <1>1, <2>1, <3>1, CopyRecoverable, Zenon DEF BootInv
  <2>2. CASE pc \notin CopyPC
    BY <1>1, <2>2, SameImages, SameImageKeeps, Zenon
    DEF BootInv, Recoverable, Slot
  <2> QED
    BY <2>1, <2>2, Zenon
<1>3. JobInv' /\ ProgressInv' /\ ApplicationInv'
  BY <1>1, Zenon DEF JobInv, ProgressInv, ApplicationInv, CopyPC, UploadPC
<1> QED
  BY <1>1, <1>2, <1>3, SameImages, SameRoles, Zenon

\* A reset in the middle of a write or an erase of copy_partition.
LEMMA TornCopySafe ==
  ASSUME TypeOK, SafeInv, Reset, pc \in CopyPC
  PROVE  SafeInv'
<1> USE Roles, CopySlots DEF SafeInv
<1>1. pc' = "off" /\ UNCHANGED <<st, job, off, trusted>>
  BY Zenon DEF Reset
<1>2. CASE UNCHANGED <<hdr, body, flags>>
  BY <1>2, CleanResetSafe, Zenon
<1>3. CASE /\ pc = "copy_erase" /\ UNCHANGED <<hdr, body>>
           /\ \E left \in SUBSET flags[Where] :
                flags' = [flags EXCEPT ![Where] = left]
  <2>1. OnlyWhere /\ flags'[Where] \subseteq flags[Where]
    BY <1>3, Zenon DEF TypeOK, OnlyWhere, SameImage
  <2>2. ConfirmInv'
    <3>1. CONFIRMED \in flags'[Primary] => CONFIRMED \in flags[Primary]
      BY <2>1, Zenon DEF OnlyWhere
    <3> QED
      BY <1>1, <1>3, <3>1, Zenon
      DEF ConfirmInv, TrustedImage, validate_image, validate_image_header,
          calculate_crc
  <2>3. BootInv'
    BY <1>1, <2>1, CopyRecoverable, Zenon DEF BootInv
  <2>4. ProgressInv'
    BY <1>1, Zenon DEF ProgressInv, CopyPC
  <2> QED
    BY <1>1, <1>3, <2>1, <2>2, <2>3, <2>4, SameHeaders, CopyKeepsAnchor, Zenon
<1>4. CASE /\ pc = "copy_header" /\ UNCHANGED <<body, flags>>
           /\ hdr' = [hdr EXCEPT ![Where] = NoHeader]
  <2>1. OnlyWhere /\ hdr'[Where] = NoHeader
    BY <1>4, Zenon DEF TypeOK, OnlyWhere, SameImage
  <2>2. CONFIRMED \notin flags'[Where]
    BY <1>4, Zenon DEF ProgressInv, CopyPC
  <2>3. BootInv'
    BY <1>1, <2>1, CopyRecoverable, Zenon DEF BootInv
  <2>4. ProgressInv'
    BY <1>1, Zenon DEF ProgressInv, CopyPC
  <2> QED
    BY <1>1, <2>1, <2>2, <2>3, <2>4, CopyKeepsHeaders, CopyKeepsAnchor, Zenon
<1>5. CASE /\ pc = "copy_body" /\ UNCHANGED <<hdr, flags>>
           /\ body' = [body EXCEPT ![Where][off + 1] = Junk]
  <2>1. OnlyWhere
    BY <1>5, Zenon DEF TypeOK, OnlyWhere, SameImage
  <2>2. CONFIRMED \notin flags'[Where] /\ hdr[Where].magic # "INV"
    BY <1>5, SourceFacts DEF ProgressInv, CopyPC
  <2>3. BootInv'
    BY <1>1, <2>1, CopyRecoverable, Zenon DEF BootInv
  <2>4. ProgressInv'
    BY <1>1, Zenon DEF ProgressInv, CopyPC
  <2> QED
    BY <1>1, <1>5, <2>1, <2>2, <2>3, <2>4, CopyKeepsHeaders, CopyKeepsAnchor,
       Zenon
<1> QED
  BY <1>2, <1>3, <1>4, <1>5, Zenon DEF Reset, Torn, TornFlash, CopyPC

\* A reset anywhere.
LEMMA ResetSafe ==
  ASSUME TypeOK, SafeInv, Reset
  PROVE  SafeInv'
<1> USE Roles DEF SafeInv
<1>1. pc' = "off" /\ UNCHANGED <<st, job, off, trusted>>
  BY Zenon DEF Reset
<1>2. CASE UNCHANGED <<hdr, body, flags>>
  BY <1>2, CleanResetSafe, Zenon
<1>3. CASE pc \in CopyPC
  BY <1>3, TornCopySafe, Zenon
<1>4. CASE /\ pc = "retire_erase" /\ UNCHANGED <<hdr, body>>
           /\ \E left \in SUBSET flags[st.recovery] :
                flags' = [flags EXCEPT ![st.recovery] = left]
  <2>1. flags'[Primary] = flags[Primary]
    BY <1>4, Zenon DEF TypeOK
  <2> QED
    BY <1>1, <1>4, <2>1, RetireSafe, Zenon
<1>5. CASE /\ pc = "upload_erase" /\ UNCHANGED body
           /\ \E left \in SUBSET flags[st.update] :
                flags' = [flags EXCEPT ![st.update] = left]
           /\ hdr' = [hdr EXCEPT ![st.update] = NoHeader]
  <2>1. /\ pc \in UploadPC /\ hdr'[st.update] = NoHeader
        /\ \A s \in Slot : s # st.update => SameImage(s)
        /\ \A s \in Slot : hdr'[s] = hdr[s] \/ hdr'[s].magic = "none"
        /\ hdr'[Primary] = hdr[Primary]
    BY <1>5, Zenon DEF TypeOK, SameImage, UploadPC, NoHeader
  <2>2. HeaderInv'
    <3>1. ASSUME NEW s \in Slot, hdr'[s].magic \in {"NXOS", "INV"}
          PROVE  hdr'[s] = hdr[s] /\ body'[s] = body[s]
      BY <1>5, <2>1, <3>1, Zenon
    <3>2. /\ hdr'[Primary].img \notin Oversize
          /\ trusted' \subseteq Image \ Oversize
      BY <1>1, <2>1, Zenon DEF HeaderInv
    <3> QED
      BY <1>1, <3>1, <3>2 DEF HeaderInv
  <2>3. BootInv'
    BY <1>1, <2>1, UploadKeepsAnchor, Zenon DEF BootInv, Recoverable
  <2>4. JobInv' /\ ProgressInv' /\ ApplicationInv'
    BY <1>1, Zenon DEF JobInv, ProgressInv, ApplicationInv, CopyPC, UploadPC
  <2> QED
    BY <1>1, <2>1, <2>2, <2>3, <2>4, UploadKeepsAnchor, Zenon
<1> QED
  BY <1>2, <1>3, <1>4, <1>5, Zenon DEF Reset, Torn, TornFlash, CopyPC

\* The debugger.
LEMMA ProgramSafe ==
  ASSUME TypeOK, SafeInv, NEW i \in Reflash, Program(i)
  PROVE  SafeInv'
<1>0. HeaderInv /\ RoleInv /\ Primary \in Slot
  BY Zenon DEF SafeInv, Slot
<1>1. /\ UNCHANGED <<st, pc>> /\ pc = "off"
      /\ hdr'[Primary] = [magic |-> "INV", crc |-> NoCrc, img |-> i]
      /\ body'[Primary] = Content(i)
      /\ trusted' = trusted \cup {i}
      /\ \A s \in Slot : s # Primary =>
           hdr'[s] = hdr[s] /\ body'[s] = body[s]
  BY <1>0, Zenon DEF Program, TypeOK
<1>2. i \in Image \ Oversize
  BY ImageAssumption, Zenon
<1>3. HeaderInv'
  <2>1. ASSUME NEW s \in Slot, hdr'[s].magic = "NXOS"
        PROVE  hdr'[s].img \in Image /\ hdr'[s].crc = Content(hdr'[s].img)
    BY <1>0, <1>1, <2>1 DEF HeaderInv
  <2>2. ASSUME NEW s \in Slot, hdr'[s].magic = "INV"
        PROVE  /\ s = Primary
               /\ hdr'[s].crc = NoCrc
               /\ hdr'[s].img \in trusted'
               /\ body'[s] = Content(hdr'[s].img)
    <3>1. s = Primary
      BY <1>0, <1>1, <2>2, Zenon DEF HeaderInv
    <3> QED
      BY <1>1, <3>1
  <2>3. hdr'[Primary].img \notin Oversize
    BY <1>1, <1>2
  <2>4. trusted' \subseteq Image \ Oversize
    BY <1>0, <1>1, <1>2, Zenon DEF HeaderInv
  <2> QED
    BY Zenon, <2>1, <2>2, <2>3, <2>4 DEF HeaderInv
<1>4. Anchor(Primary)' /\ validate_image(Primary)'
  BY <1>1
  DEF Anchor, TrustedImage, validate_image, validate_image_header
<1>5. ConfirmInv' /\ FallbackInv' /\ BootInv'
  BY <1>1, <1>4, Zenon
  DEF ConfirmInv, FallbackInv, BootInv, Recoverable, Anchor
<1>6. JobInv' /\ ProgressInv' /\ ApplicationInv'
  BY <1>1, Zenon DEF JobInv, ProgressInv, ApplicationInv, CopyPC, UploadPC
<1> QED
  BY <1>0, <1>1, <1>3, <1>5, <1>6, SameRoles, Zenon DEF SafeInv

-----------------------------------------------------------------------------
(* The theorems. *)

\* The factory image is an anchor.
LEMMA InitSafe == Init => IInv
<1> SUFFICES ASSUME Init PROVE IInv
  BY Zenon
<1>1. TypeOK
  BY InitType, Zenon
<1>2. /\ hdr[Primary] = [magic |-> "INV", crc |-> NoCrc, img |-> Factory]
      /\ body[Primary] = Content(Factory)
      /\ \A s \in Slot : s # Primary => hdr[s] = NoHeader
      /\ pc = "off" /\ trusted = {Factory}
  BY Zenon DEF Init, Slot
<1>3. Factory \in Image \ Oversize
  BY ImageAssumption, Zenon
<1>4. HeaderInv
  BY <1>2, <1>3 DEF HeaderInv, NoHeader
<1>5. Anchor(Primary) /\ validate_image(Primary)
  BY <1>2 DEF Anchor, TrustedImage, validate_image, validate_image_header
<1>6. ConfirmInv /\ FallbackInv /\ BootInv
  BY <1>2, <1>5, Zenon
  DEF ConfirmInv, FallbackInv, BootInv, Recoverable, Anchor
<1>7. JobInv /\ ProgressInv /\ ApplicationInv
  BY <1>2, Zenon DEF JobInv, ProgressInv, ApplicationInv, CopyPC, UploadPC
<1>8. RoleInv
  BY Zenon DEF Init, RoleInv, Other, Secondary, Tertiary
<1> QED
  BY <1>1, <1>4, <1>6, <1>7, <1>8, Zenon DEF IInv, SafeInv

\* Nothing changes when nothing happens.
LEMMA SameSafe ==
  ASSUME TypeOK, SafeInv, UNCHANGED vars
  PROVE  SafeInv'
<1> USE DEF SafeInv, vars
<1>1. HeaderInv' /\ ConfirmInv' /\ FallbackInv' /\ RoleInv'
  BY SameImages, SameRoles, Zenon
<1>2. /\ validate_image(Primary)' <=> validate_image(Primary)
      /\ validate_image(st.update)' <=> validate_image(st.update)
      /\ recovery_slot' = recovery_slot
  BY Zenon DEF validate_image, validate_image_header, calculate_crc,
         recovery_slot, get_image_flag
<1>3. From' = From /\ Where' = Where
  BY Zenon DEF From, Where
<1>4. CopiedHeader(From)' = CopiedHeader(From)
  BY <1>3, Zenon DEF CopiedHeader, calculate_crc
<1>5. Recoverable' <=> Recoverable
  <2> DEFINE r == recovery_slot
             u == Other(recovery_slot)
  <2>1. u' = u
    BY <1>2, Zenon DEF Other
  <2>2. Revertible(u, r)' <=> Revertible(u, r)
    BY <1>2, <2>1, Zenon DEF Revertible, get_image_flag, validate_image,
       validate_image_header, calculate_crc
  <2>3. Installable(u)' <=> Installable(u)
    BY <1>2, <2>1, Zenon DEF Installable, get_image_flag, validate_image,
       validate_image_header, calculate_crc, compare_versions
  <2>4. get_update_type(u, r)' = get_update_type(u, r)
    BY <2>2, <2>3, Zenon DEF get_update_type
  <2>5. /\ nxboot_get_state'.update = u /\ nxboot_get_state'.recovery = r
        /\ nxboot_get_state'.next_boot = get_update_type(u, r)
    BY <1>2, <2>1, <2>4, Zenon DEF nxboot_get_state
  <2> QED
    BY <1>2, <2>5, GetStateType, Zenon DEF Recoverable
<1>6. /\ Anchor(Primary)' <=> Anchor(Primary)
      /\ Anchor(st.recovery)' <=> Anchor(st.recovery)
  BY Zenon DEF Anchor, TrustedImage, validate_image, validate_image_header,
         calculate_crc, get_image_flag
<1>7. JobInv'
  BY <1>2, <1>3, <1>6, Zenon DEF JobInv
<1>8. ProgressInv'
  BY <1>2, <1>3, <1>4, <1>6, Zenon DEF ProgressInv
<1>9. ApplicationInv' /\ BootInv'
  BY <1>2, <1>5, <1>6, Zenon DEF ApplicationInv, BootInv
<1> QED
  BY <1>1, <1>7, <1>8, <1>9, Zenon

\* As long as no flash write has failed, none has failed before.
LEMMA NoFault ==
  ASSUME TypeOK, [Next]_vars, faults' = 0
  PROVE  faults = 0 /\ ~Fault
<1>1. Fault => faults' # 0
  BY DEF Fault, TypeOK
<1>2. ~Fault => faults' = faults
  BY Zenon
  DEF Next, Bootloader, CopyPartition, CopyErase, CopyHeader, CopyBody,
      CopyUpdated, CopyConfirmed, BootNone, BootRevert, BootUpdate,
      Booting, Copied, MarkUpdated, Launch, StartUpload, Upload,
      UploadErase, UploadHeader, UploadBody, StartConfirm, Confirm,
      ConfirmPrimary, ConfirmUpdate, RetireErase, RetireMark, Reset,
      Program, vars
<1> QED
  BY <1>1, <1>2, Zenon

\* Every step keeps the invariant.
LEMMA NextSafe == IInv /\ [Next]_vars => IInv'
<1> SUFFICES ASSUME IInv, [Next]_vars PROVE IInv'
  BY Zenon
<1> USE DEF IInv
<1>1. TypeOK'
  BY NextType, Zenon
<1>2. SUFFICES ASSUME faults' = 0 PROVE SafeInv'
  BY <1>1, Zenon
<1>3. faults = 0 /\ ~Fault
  BY <1>2, NoFault, Zenon
<1>4. TypeOK /\ SafeInv
  BY <1>3, Zenon
<1>5. CASE CopyPartition
  BY <1>4, <1>5, CopyEraseSafe, CopyHeaderSafe, CopyBodySafe,
     CopyUpdatedSafe, CopyConfirmedSafe, Zenon DEF CopyPartition
<1>6. CASE BootNone \/ BootRevert \/ BootUpdate
  BY <1>3, <1>4, <1>6, BootNoneSafe, BootRevertSafe, BootUpdateSafe, Zenon
<1>7. CASE Copied \/ MarkUpdated \/ Launch
  BY <1>4, <1>7, CopiedSafe, MarkUpdatedSafe, LaunchSafe, Zenon
<1>8. CASE StartConfirm \/ \E i \in Image : StartUpload(i)
  BY <1>4, <1>8, StartSafe, Zenon DEF StartConfirm, StartUpload
<1>9. CASE Upload
  BY <1>4, <1>9, UploadSafe, Zenon
<1>10. CASE Confirm
  <2>1. CASE ConfirmPrimary
    BY <1>4, <2>1, ConfirmPrimarySafe, Zenon
  <2>2. CASE ConfirmUpdate \/ RetireErase \/ RetireMark
    <3>1. st.update # Primary /\ st.recovery # Primary
      BY <1>4, Roles, Zenon DEF SafeInv
    <3>2. flags'[Primary] = flags[Primary]
      BY <1>4, <2>2, <3>1, Zenon
      DEF ConfirmUpdate, RetireErase, RetireMark, TypeOK, Slot
    <3> QED
      BY <1>4, <2>2, <3>2, RetireSafe, Zenon
      DEF ConfirmUpdate, RetireErase, RetireMark
  <2> QED
    BY <1>10, <2>1, <2>2, Zenon DEF Confirm
<1>11. CASE Reset
  BY <1>4, <1>11, ResetSafe, Zenon
<1>12. CASE \E i \in Reflash : Program(i)
  BY <1>4, <1>12, ProgramSafe, Zenon
<1>13. CASE UNCHANGED vars
  BY <1>4, <1>13, SameSafe, Zenon
<1> QED
  BY <1>3, <1>5, <1>6, <1>7, <1>8, <1>9, <1>10, <1>11, <1>12, <1>13, Zenon
  DEF Next, Bootloader

\* The inductive invariant: the roles of the slots, what their headers and
\* flags promise, and what a copy, an upload or a confirmation in progress
\* may rely on, at every flash operation of boot.c.
THEOREM Invariance == Spec => []IInv
BY InitSafe, NextSafe, PTL DEF Spec

\* No loss of power at any write of nxboot_perform_update, nxboot_confirm or
\* an upload leaves the board without a valid image in the primary slot or
\* an update or revert that the next boot makes, whatever images are
\* uploaded and however the bootloader is configured.
THEOREM AlwaysRecoverable == Spec => []Recoverable
<1>1. IInv => Recoverable
  <2>1. SUFFICES ASSUME IInv, faults = 0, ~validate_image(Primary)
                 PROVE  Recoverable
    BY Zenon DEF Recoverable
  <2>2. TypeOK /\ SafeInv
    BY <2>1, Zenon DEF IInv
  <2>3. CASE pc \notin CopyPC
    BY <2>1, <2>2, <2>3, Zenon DEF SafeInv, BootInv
  <2>4. CASE pc \in CopyPC
    BY <2>2, <2>4, CopyInProgress, Zenon
  <2> QED
    BY <2>3, <2>4, Zenon
<1> QED
  BY <1>1, Invariance, PTL

\* Whatever is interrupted, an image that was confirmed or programmed by the
\* debugger is in the primary slot or in the slot nxboot_get_state takes for
\* the recovery.
THEOREM FallbackAlwaysKept == Spec => []FallbackKept
<1>1. IInv => FallbackKept
  BY Zenon DEF IInv, SafeInv, FallbackInv, FallbackKept
<1> QED
  BY <1>1, Invariance, PTL

\* "In any situation, this function ends with the valid image in primary
\* slot": true of nxboot_perform_update whenever the flash accepts its writes.
THEOREM UpdateEndsValid == MaxFaults = 0 => (Spec => []EndsWithValidImage)
<1> SUFFICES ASSUME MaxFaults = 0 PROVE Spec => []EndsWithValidImage
  BY Zenon
<1>1. IInv => EndsWithValidImage
  <2>1. TypeOK => faults = 0
    BY DEF TypeOK
  <2> QED
    BY <2>1, Zenon DEF IInv, SafeInv, BootInv, CopyPC, EndsWithValidImage
<1> QED
  BY <1>1, Invariance, PTL
=============================================================================
