---------------------------- MODULE NxBootTrials ----------------------------
(***************************************************************************)
(* Proofs about what NxBoot decides: which update or revert it makes, what *)
(* nxboot_confirm marks as the recovery image, which image gets a trial,   *)
(* that only uploads are installed, and that the next boot repairs what a  *)
(* flash write that failed has left behind.                                *)
(***************************************************************************)
EXTENDS NxBootProofs

(* The decisions of perform_update. *)

\* The version of the update in slot u does not speak against it.
NotRefused(u) ==
  validate_image(Primary) =>
    ~compare_versions(Version[hdr[Primary].img], Version[hdr[u].img])

\* What perform_update has decided is still true when the copy begins, also
\* when a backup comes first.
DecisionInv ==
  /\ RoleInv
  /\ pc \in CopyPC \cup {"copied"} /\ job = "backup" =>
       check_only = FALSE /\ NotRefused(st.update)
  /\ pc = "copy_erase" /\ check_only => ~validate_image(Primary)
  /\ pc \in {"copy_erase", "copy_header"} /\ job = "update" =>
       NotRefused(st.update)

\* What NotRefused says depends on the headers, and the primary image, alone.
LEMMA SameNotRefused ==
  ASSUME UNCHANGED st, hdr'[st.update] = hdr[st.update],
         hdr'[Primary] = hdr[Primary], body'[Primary] = body[Primary]
  PROVE  NotRefused(st.update)' <=> NotRefused(st.update)
BY Zenon DEF NotRefused, validate_image, validate_image_header, calculate_crc,
       compare_versions

\* An operation of copy_partition, complete or torn, changes the image in its
\* target slot only, and leaves the flags of the other slots alone.
LEMMA TornTarget ==
  ASSUME TypeOK, TornFlash, pc \in CopyPC
  PROVE  \A s \in Slot : s # Where =>
           hdr'[s] = hdr[s] /\ body'[s] = body[s] /\ flags'[s] = flags[s]
BY CopySlots, Zenon DEF TornFlash, CopyPC, TypeOK

\* So does a complete one, and it changes nothing of what was decided.
LEMMA CopyTarget ==
  ASSUME TypeOK, CopyPartition
  PROVE  /\ \A s \in Slot : s # Where =>
              hdr'[s] = hdr[s] /\ body'[s] = body[s] /\ flags'[s] = flags[s]
         /\ pc \in CopyPC /\ UNCHANGED <<st, job, check_only, trusted>>
         /\ pc' \in CopyPC \cup {"copied"} /\ pc' # "copy_erase"
         /\ pc' = "copy_header" => UNCHANGED <<hdr, body>>
<1>1. CASE CopyErase
  BY <1>1, CopySlots, Zenon DEF CopyErase, TypeOK, CopyPC
<1>2. CASE CopyHeader
  BY <1>2, CopySlots, Zenon DEF CopyHeader, TypeOK, CopyPC
<1>3. CASE CopyBody
  BY <1>3, CopySlots, Zenon DEF CopyBody, TypeOK, CopyPC
<1>4. CASE CopyUpdated
  BY <1>4, CopySlots, Zenon DEF CopyUpdated, TypeOK, CopyPC
<1>5. CASE CopyConfirmed
  BY <1>5, CopySlots, Zenon DEF CopyConfirmed, TypeOK, CopyPC
<1> QED
  BY <1>1, <1>2, <1>3, <1>4, <1>5, Zenon DEF CopyPartition

\* While a copy goes on, the decision stays as it was: a backup leaves the
\* primary slot and the update alone.
LEMMA DecisionKept ==
  ASSUME TypeOK, DecisionInv, pc \in CopyPC,
         UNCHANGED <<st, job, check_only>>,
         pc' \in CopyPC \cup {"copied"}, pc' # "copy_erase",
         pc' = "copy_header" => pc = "copy_erase" /\ UNCHANGED <<hdr, body>>,
         \A s \in Slot : s # Where => hdr'[s] = hdr[s] /\ body'[s] = body[s]
  PROVE  DecisionInv'
<1>1. RoleInv' /\ RoleInv
  BY SameRoles, Zenon DEF DecisionInv
<1>2. CASE job = "backup"
  <2>1. Where = st.recovery
    BY <1>2, Zenon DEF Where
  <2>2. hdr'[st.update] = hdr[st.update] /\ hdr'[Primary] = hdr[Primary]
        /\ body'[Primary] = body[Primary]
    BY <1>1, <2>1, Roles, Zenon
  <2> QED
    BY <1>1, <1>2, <2>2, SameNotRefused, Zenon DEF DecisionInv
<1>3. CASE job # "backup"
  <2>1. pc' = "copy_header" =>
          (NotRefused(st.update)' <=> NotRefused(st.update))
    BY SameNotRefused, Zenon
  <2> QED
    BY <1>1, <1>3, <2>1, Zenon DEF DecisionInv
<1> QED
  BY <1>2, <1>3, Zenon

\* Nothing is decided where nothing is to be copied.
LEMMA NothingDecided ==
  ASSUME TypeOK, DecisionInv, UNCHANGED st \/ st' = nxboot_get_state,
         pc' \notin CopyPC \cup {"copied"}
  PROVE  DecisionInv'
<1>1. RoleInv'
  BY SameRoles, ReadRoles, Zenon DEF DecisionInv
<1> QED
  BY <1>1, Zenon DEF DecisionInv, CopyPC

\* perform_update goes on to the backup and to the update only when
\* get_update_type found an update; a revert that it may not make leaves the
\* primary image alone.
LEMMA UpdateDecided ==
  ASSUME BootUpdate, ~LeftAlone
  PROVE  /\ nxboot_get_state.next_boot = "update"
         /\ Installable(Other(recovery_slot))
         /\ ~Revertible(Other(recovery_slot), recovery_slot)
<1>1. nxboot_get_state.next_boot = "update"
  BY Zenon DEF BootUpdate, LeftAlone, MayRevert
<1> QED
  BY <1>1, GetStateType, Zenon DEF get_update_type

\* An update that nxboot_get_state finds is not refused.
LEMMA InstallableNotRefused ==
  ASSUME NEW u, Installable(u)
  PROVE  NotRefused(u) /\ validate_image(u) /\ flags[u] \cap Flag = {}
BY Zenon DEF Installable, NotRefused, get_image_flag, Flag

\* nxboot_perform_update decides.
LEMMA BootDecision ==
  ASSUME TypeOK, DecisionInv, BootNone \/ BootRevert \/ BootUpdate
  PROVE  DecisionInv'
<1>1. st' = nxboot_get_state /\ UNCHANGED <<hdr, body, flags, check_only>>
  BY Zenon DEF BootNone, BootRevert, BootUpdate, Booting
<1>2. /\ validate_image(Primary)' <=> validate_image(Primary)
      /\ check_only \in BOOLEAN
      /\ RoleInv' /\ st'.update = Other(recovery_slot)
  BY <1>1, ReadRoles, Zenon
  DEF validate_image, validate_image_header, calculate_crc, TypeOK
<1>3. CASE pc' \notin CopyPC \cup {"copied"}
  BY <1>1, <1>3, NothingDecided, Zenon
<1>4. CASE BootRevert /\ pc' \in CopyPC \cup {"copied"}
  <2>1. job' = "revert" /\ MayRevert
    BY <1>4, Zenon DEF BootRevert, Copy, Continue, CopyPC
  <2> QED
    BY <1>1, <1>2, <2>1, Zenon DEF DecisionInv, MayRevert
<1>5. CASE BootUpdate /\ pc' \in CopyPC \cup {"copied"}
  <2>1. ~LeftAlone
    BY <1>5, Zenon DEF BootUpdate, Continue, CopyPC
  <2>2. NotRefused(Other(recovery_slot))
    BY <1>5, <2>1, UpdateDecided, InstallableNotRefused, Zenon
  <2>3. NotRefused(st.update)'
    BY <1>1, <1>2, <2>2, Zenon DEF NotRefused, compare_versions
  <2>4. check_only => ~validate_image(Primary)
    BY <2>1, Zenon DEF LeftAlone
  <2>5. job' = "backup" => validate_image(Primary)
    BY <1>5, <2>1, Zenon
    DEF BootUpdate, NeedsBackup, Install, Copy, Continue, CopyPC
  <2> QED
    BY <1>1, <1>2, <2>3, <2>4, <2>5, Zenon DEF DecisionInv
<1>6. CASE BootNone /\ pc' \in CopyPC \cup {"copied"}
  BY <1>6, Zenon DEF BootNone, Continue, CopyPC
<1> QED
  BY <1>3, <1>4, <1>5, <1>6, Zenon

\* After a backup the update that was found is made.
LEMMA CopiedDecision ==
  ASSUME TypeOK, DecisionInv, Copied
  PROVE  DecisionInv'
<1>1. UNCHANGED <<hdr, body, flags, st, check_only>> /\ pc = "copied"
  BY Zenon DEF Copied
<1>2. CASE pc' \notin CopyPC \cup {"copied"}
  BY <1>1, <1>2, NothingDecided, Zenon
<1>3. CASE pc' \in CopyPC \cup {"copied"}
  <2>1. job = "backup" /\ job' = "update"
    BY Zenon, <1>3 DEF Copied, Continue, Install, Copy, TypeOK, CopyPC
  <2>2. NotRefused(st.update)'
    BY <1>1, <2>1, SameNotRefused, Zenon DEF DecisionInv
  <2>3. RoleInv' /\ ~check_only'
    BY <1>1, <2>1, SameRoles, Zenon DEF DecisionInv
  <2> QED
    BY <2>1, <2>2, <2>3, Zenon DEF DecisionInv
<1> QED
  BY <1>2, <1>3, Zenon

\* Every step keeps what was decided, those that fail included.
LEMMA NextDecision ==
  ASSUME TypeOK, DecisionInv, [Next]_vars
  PROVE  DecisionInv'
<1>1. CASE CopyPartition
  <2>1. pc' = "copy_header" => pc = "copy_erase"
    BY <1>1, Zenon
    DEF CopyPartition, CopyErase, CopyHeader, CopyBody, CopyUpdated,
                CopyConfirmed
  <2> QED
    BY <1>1, <2>1, CopyTarget, DecisionKept, Zenon
<1>2. CASE BootNone \/ BootRevert \/ BootUpdate
  BY <1>2, BootDecision, Zenon
<1>3. CASE Copied
  BY <1>3, CopiedDecision, Zenon
<1>4. CASE \/ MarkUpdated \/ Launch \/ Upload \/ StartConfirm \/ Confirm
           \/ Reset \/ \E i \in Image : StartUpload(i)
  <2>1. UNCHANGED st \/ st' = nxboot_get_state
    BY <1>4, Zenon
    DEF MarkUpdated, Launch, Upload, StartConfirm, Confirm, Reset, StartUpload,
        UploadErase, UploadHeader, UploadBody, ConfirmPrimary, ConfirmUpdate,
        RetireErase, RetireMark
  <2>2. pc' \notin CopyPC \cup {"copied"}
    BY <1>4, Zenon
    DEF MarkUpdated, Launch, Upload, StartConfirm, Confirm, Reset, StartUpload,
        UploadErase, UploadHeader, UploadBody, ConfirmPrimary, ConfirmUpdate,
        RetireErase, RetireMark, CopyPC
  <2> QED
    BY <2>1, <2>2, NothingDecided, Zenon
<1>5. CASE Fault
  <2>1. UNCHANGED <<st, job, check_only>> /\ TornFlash
    BY <1>5, Zenon DEF Fault, Torn
  <2>2. CASE pc' \notin CopyPC \cup {"copied"}
    BY <2>1, <2>2, NothingDecided, Zenon
  <2>3. CASE pc' \in CopyPC \cup {"copied"}
    <3>1. pc \in CopyPC /\ pc' \notin {"copy_erase", "copy_header"}
      BY <1>5, <2>3, Zenon DEF Fault, CopyPC
    <3> QED
      BY <2>1, <2>3, <3>1, TornTarget, DecisionKept, Zenon
  <2> QED
    BY <2>2, <2>3, Zenon
<1>6. CASE \E i \in Reflash : Program(i)
  <2>1. UNCHANGED st /\ pc' = "off"
    BY <1>6, Zenon DEF Program
  <2> QED
    BY <2>1, NothingDecided, Zenon DEF CopyPC
<1>7. CASE UNCHANGED vars
  <2>1. UNCHANGED <<hdr, body, st, pc, job, check_only>>
    BY <1>7, Zenon DEF vars
  <2>2. /\ NotRefused(st.update)' <=> NotRefused(st.update)
        /\ RoleInv' <=> RoleInv
        /\ validate_image(Primary)' <=> validate_image(Primary)
    BY <2>1, SameNotRefused, SameRoles, Zenon
    DEF validate_image, validate_image_header, calculate_crc
  <2> QED
    BY <2>1, <2>2, Zenon DEF DecisionInv
<1> QED
  BY <1>1, <1>2, <1>3, <1>4, <1>5, <1>6, <1>7, Zenon DEF Next, Bootloader

\* The decisions of perform_update hold until they are carried out, for every
\* configuration, whatever is interrupted and whatever fails.
THEOREM Decisions == Spec => [](TypeOK /\ DecisionInv)
<1>1. Init => DecisionInv
  BY DEF Init, DecisionInv, RoleInv, Other, CopyPC, Secondary, Tertiary
<1> QED
  BY <1>1, InitType, NextType, NextDecision, PTL DEF Spec

\* With CONFIG_NXBOOT_SWRESET_ONLY, after a power reset perform_update copies
\* only to repair an invalid primary image.
THEOREM PowerResetRepairs == Spec => []PowerResetOnlyRepairs
<1>1. DecisionInv => PowerResetOnlyRepairs
  BY Zenon DEF DecisionInv, PowerResetOnlyRepairs
<1> QED
  BY <1>1, Decisions, PTL

\* With CONFIG_NXBOOT_PREVENT_DOWNGRADE no update replaces a valid image by an
\* older one, whatever the versions are and whether or not a backup comes first.
THEOREM NeverDowngrades == Spec => []NoDowngrade
<1>1. DecisionInv => NoDowngrade
  <2> SUFFICES ASSUME DecisionInv, PreventDowngrade, Replacing
               PROVE  ~Older(Version[hdr[st.update].img],
                             Version[hdr[Primary].img])
    BY Zenon DEF NoDowngrade
  <2>1. ~compare_versions(Version[hdr[Primary].img], Version[hdr[st.update].img])
    BY Zenon DEF DecisionInv, Replacing, NotRefused
  <2> QED
    BY <2>1, Zenon DEF compare_versions, Older
<1> QED
  BY <1>1, Decisions, PTL

-----------------------------------------------------------------------------
(* Confirmations and trials. *)

\* The application confirms itself before it uploads, and the bootloader
\* repairs and updates after every reset.
Ordinary == ~UploadUnconfirmed /\ ~SwResetOnly

Unconfirmed == validate_image(Primary) /\ ~nxboot_get_confirm

\* Slot s holds the image of the primary slot.
CopyOf(s) == validate_image(s) /\ hdr[s].img = hdr[Primary].img

\* The next boot will not start the primary image as it is: it reverts it, or
\* it makes the update in slot u.
Replaced(u) ==
  \/ UPDATED \in flags[u]
  \/ /\ flags[u] = {} /\ validate_image(u) /\ hdr[u].img \notin Oversize
     /\ NotRefused(u)

\* An image that is not confirmed is on trial: it came from the update slot,
\* where it still is, or the next boot replaces it. It was not started before
\* the update was marked.
OnTrial ==
  /\ pc = "off" =>
       CopyOf(Other(recovery_slot)) \/ Replaced(Other(recovery_slot))
  /\ pc = "copied" => job = "update"
  /\ pc \in {"copied", "mark"} => ~tried
  /\ pc \in {"copied", "mark", "launch", "confirm_primary"} =>
       st.recovery = recovery_slot /\ CopyOf(st.update)
  /\ pc = "launch" => ~tried \/ UPDATED \notin flags[st.update]
  /\ pc = "run" => CopyOf(Other(recovery_slot))
  /\ pc \notin UploadPC

\* What nxboot_confirm relies on, and what the copy of an update does.
ConfirmingInv ==
  /\ pc = "confirm_primary" => Unconfirmed
  /\ pc \in {"confirm_update", "retire_erase"} => CopyOf(st.update)
  /\ pc \in {"copy_body", "copy_updated", "copy_confirmed"}
     /\ job = "update" => ~tried

TrialInv ==
  /\ check_only = FALSE
  /\ RecoveryTrusted
  /\ Unconfirmed => OnTrial
  /\ ConfirmingInv

\* A slot stays trusted when its image is left alone, and a slot is of no
\* concern when it is not confirmed or not valid.
LEMMA TrustKept ==
  ASSUME RecoveryTrusted, trusted \subseteq trusted',
         \A s \in Slot :
           \/ /\ hdr'[s] = hdr[s] /\ body'[s] = body[s]
              /\ CONFIRMED \in flags'[s] => CONFIRMED \in flags[s]
           \/ CONFIRMED \notin flags'[s]
           \/ ~validate_image(s)'
           \/ TrustedImage(s)'
  PROVE  RecoveryTrusted'
<1> SUFFICES ASSUME NEW s \in Slot, CONFIRMED \in flags'[s], validate_image(s)'
             PROVE  TrustedImage(s)'
  BY Zenon DEF RecoveryTrusted, get_image_flag
<1>1. CASE /\ hdr'[s] = hdr[s] /\ body'[s] = body[s]
           /\ CONFIRMED \in flags'[s] => CONFIRMED \in flags[s]
  <2>1. TrustedImage(s)
    BY <1>1, Zenon DEF RecoveryTrusted, get_image_flag, validate_image,
                validate_image_header, calculate_crc
  <2> QED
    BY <1>1, <2>1, Zenon
    DEF TrustedImage, validate_image, validate_image_header,
                      calculate_crc, Content, Blocks
<1> QED
  BY <1>1, Zenon

\* copy_partition confirms a slot only when it has copied a trusted image.
LEMMA CopyTrusted ==
  ASSUME TypeOK, SafeInv, SafeInv', RecoveryTrusted, CopyPartition
  PROVE  RecoveryTrusted'
<1>1. /\ \A s \in Slot : s # Where =>
           hdr'[s] = hdr[s] /\ body'[s] = body[s] /\ flags'[s] = flags[s]
      /\ pc \in CopyPC /\ UNCHANGED <<st, job, trusted>> /\ Where \in Slot
  BY CopyTarget, CopySlots, Zenon
<1>0. PICK w \in Slot : w = Where
  BY <1>1, Zenon
<1>2. CONFIRMED \notin flags'[w] \/ TrustedImage(w)'
  <2>1. CASE CopyErase
    BY <1>0, <2>1, Zenon DEF CopyErase, TypeOK
  <2>2. CASE CopyHeader \/ CopyBody
    BY <1>0, <2>2, Zenon DEF CopyHeader, CopyBody, SafeInv, ProgressInv, CopyPC
  <2>3. CASE CopyUpdated
    BY <1>0, <2>3, Zenon
    DEF CopyUpdated, SafeInv, ProgressInv, CopyPC, TypeOK, CONFIRMED, UPDATED
  <2>4. CASE CopyConfirmed
    <3>1. pc' = "copied"
      BY <2>4, Zenon DEF CopyConfirmed
    <3>2. CASE job = "backup"
      <4>1. Anchor(st.recovery)' /\ w = st.recovery
        BY <1>0, <1>1, <3>1, <3>2, Zenon DEF SafeInv, ProgressInv, Where
      <4> QED
        BY <1>1, <4>1, Zenon DEF Anchor, TrustedImage, validate_image,
                          validate_image_header, calculate_crc
    <3>3. CASE job # "backup"
      <4>1. w = Primary
        BY <1>0, <3>3, Zenon DEF Where
      <4> QED
        BY <4>1, Zenon DEF SafeInv, ConfirmInv
    <3> QED
      BY <3>2, <3>3, Zenon
  <2> QED
    BY <2>1, <2>2, <2>3, <2>4, Zenon DEF CopyPartition
<1> QED
  BY <1>0, <1>1, <1>2, TrustKept, Zenon

\* nxboot_confirm marks a copy of the image it has just confirmed.
LEMMA ConfirmTrusted ==
  ASSUME TypeOK, SafeInv, SafeInv', RecoveryTrusted, ConfirmingInv, Confirm
  PROVE  RecoveryTrusted'
<1>1. /\ UNCHANGED <<hdr, body, st>> /\ trusted \subseteq trusted'
      /\ st.update \in Slot /\ st.recovery \in Slot /\ Primary \in Slot
      /\ st.update # Primary
  BY Roles, Zenon
  DEF Confirm, ConfirmPrimary, ConfirmUpdate, RetireErase, RetireMark,
               SafeInv
<1>2. CASE ConfirmPrimary
  <2>1. \A s \in Slot : s # Primary => flags'[s] = flags[s]
    BY <1>2, Zenon DEF ConfirmPrimary, TypeOK
  <2>2. CONFIRMED \in flags'[Primary] => TrustedImage(Primary)'
    BY Zenon DEF SafeInv, ConfirmInv
  <2> QED
    BY <1>1, <2>1, <2>2, TrustKept, Zenon
<1>3. CASE ConfirmUpdate
  <2>1. CopyOf(st.update) /\ Anchor(Primary) /\ HeaderInv /\ trusted' = trusted
    BY <1>3, Zenon DEF ConfirmUpdate, ConfirmingInv, SafeInv, ApplicationInv
  <2>2. hdr[st.update].magic # "INV"
    BY <1>1, <2>1, Zenon DEF HeaderInv
  <2>3. /\ validate_image(st.update) /\ hdr[st.update].img \in trusted
        /\ body[st.update] = Content(hdr[st.update].img)
    BY <1>1, <2>1, <2>2, Zenon
    DEF CopyOf, Anchor, TrustedImage, HeaderInv, validate_image,
        validate_image_header, calculate_crc
  <2>4. TrustedImage(st.update)'
    BY <1>1, <2>1, <2>3, Zenon DEF TrustedImage, validate_image,
       validate_image_header, calculate_crc, Content, Blocks
  <2>5. \A s \in Slot : s # st.update => flags'[s] = flags[s]
    BY <1>3, Zenon DEF ConfirmUpdate, TypeOK
  <2> QED
    BY <1>1, <2>4, <2>5, TrustKept, Zenon
<1>4. CASE RetireErase \/ RetireMark
  <2>1. \A s \in Slot : CONFIRMED \in flags'[s] => CONFIRMED \in flags[s]
    BY <1>4 DEF RetireErase, RetireMark, TypeOK, CONFIRMED, UPDATED
  <2> QED
    BY <1>1, <2>1, TrustKept, Zenon
<1> QED
  BY <1>2, <1>3, <1>4, Zenon DEF Confirm

\* An upload, complete or torn, leaves no confirmed image in its slot.
LEMMA UploadTrusted ==
  ASSUME TypeOK, SafeInv, RecoveryTrusted, Upload
  PROVE  RecoveryTrusted'
<1>1. trusted' = trusted /\ st.update \in Slot
  BY Roles, Zenon DEF Upload, UploadErase, UploadHeader, UploadBody, SafeInv
<1>2. /\ \A s \in Slot : s # st.update =>
           hdr'[s] = hdr[s] /\ body'[s] = body[s] /\ flags'[s] = flags[s]
      /\ CONFIRMED \notin flags'[st.update]
  <2>1. CASE UploadErase
    BY <1>1, <2>1, Zenon DEF UploadErase, TypeOK
  <2>2. CASE UploadHeader
    BY <1>1, <2>2, Zenon DEF UploadHeader, TypeOK, SafeInv, ApplicationInv
  <2>3. CASE UploadBody
    BY <1>1, <2>3, Zenon DEF UploadBody, TypeOK, SafeInv, ApplicationInv
  <2> QED
    BY <2>1, <2>2, <2>3, Zenon DEF Upload
<1> QED
  BY <1>1, <1>2, TrustKept, Zenon

\* Neither does a reset in the middle of an operation.
LEMMA TornTrusted ==
  ASSUME TypeOK, SafeInv, RecoveryTrusted, TornFlash, UNCHANGED trusted
  PROVE  RecoveryTrusted'
<1> USE Roles, CopySlots DEF SafeInv
<1>1. CASE /\ UNCHANGED <<hdr, body>>
           /\ \A s \in Slot : flags'[s] \subseteq flags[s]
  BY <1>1, TrustKept, Zenon
<1>2. CASE /\ pc = "copy_header" /\ UNCHANGED <<body, flags>>
           /\ hdr' = [hdr EXCEPT ![Where] = NoHeader]
  <2>1. CONFIRMED \notin flags'[Where]
    BY <1>2, Zenon DEF ProgressInv, CopyPC
  <2>2. \A s \in Slot : s # Where => hdr'[s] = hdr[s]
    BY <1>2, Zenon DEF TypeOK
  <2> QED
    BY <1>2, <2>1, <2>2, TrustKept, Zenon
<1>3. CASE /\ pc = "copy_body" /\ UNCHANGED <<hdr, flags>>
           /\ body' = [body EXCEPT ![Where][off + 1] = Junk]
  <2>1. CONFIRMED \notin flags'[Where]
    BY <1>3, Zenon DEF ProgressInv, CopyPC
  <2>2. \A s \in Slot : s # Where => body'[s] = body[s]
    BY <1>3, Zenon DEF TypeOK
  <2> QED
    BY <1>3, <2>1, <2>2, TrustKept, Zenon
<1>4. CASE /\ hdr' = [hdr EXCEPT ![st.update] = NoHeader] /\ UNCHANGED body
           /\ \A s \in Slot : flags'[s] \subseteq flags[s]
  <2>1. /\ \A s \in Slot : s # st.update => hdr'[s] = hdr[s]
        /\ hdr'[st.update].magic = "none"
    BY <1>4, Zenon DEF TypeOK, NoHeader
  <2> QED
    BY <1>4, <2>1, TrustKept, Zenon DEF validate_image, validate_image_header
<1>5. (\A s \in Slot : flags'[s] \subseteq flags[s]) \/ UNCHANGED flags
  BY DEF TornFlash, TypeOK
<1> QED
  BY <1>1, <1>2, <1>3, <1>4, <1>5, Zenon DEF TornFlash

\* What is said about a trial depends on the images and the confirmed flags.
LEMMA SameTrial ==
  ASSUME UNCHANGED <<hdr, body>>,
         \A s \in Slot : CONFIRMED \in flags'[s] <=> CONFIRMED \in flags[s]
  PROVE  /\ recovery_slot' = recovery_slot
         /\ Unconfirmed' <=> Unconfirmed
         /\ CopyOf(Other(recovery_slot))' <=> CopyOf(Other(recovery_slot))
         /\ UNCHANGED st => (CopyOf(st.update)' <=> CopyOf(st.update))
<1>1. /\ Secondary \in Slot /\ Primary \in Slot
      /\ \A s : validate_image(s)' <=> validate_image(s)
  BY Zenon DEF Slot, validate_image, validate_image_header, calculate_crc
<1>2. recovery_slot' = recovery_slot
  BY <1>1, Zenon DEF recovery_slot, get_image_flag, validate_image,
              validate_image_header, calculate_crc
<1>3. Unconfirmed' <=> Unconfirmed
  BY <1>1, Zenon DEF Unconfirmed, nxboot_get_confirm, get_image_flag
<1>4. CopyOf(Other(recovery_slot))' <=> CopyOf(Other(recovery_slot))
  BY <1>2, Zenon DEF CopyOf, Other, validate_image, validate_image_header,
              calculate_crc
<1>5. UNCHANGED st => (CopyOf(st.update)' <=> CopyOf(st.update))
  BY Zenon DEF CopyOf, validate_image, validate_image_header, calculate_crc
<1> QED
  BY <1>2, <1>3, <1>4, <1>5, Zenon

\* An image on trial has an anchor to fall back to; a confirmed or programmed
\* image is not on trial.
LEMMA TrialFallback ==
  ASSUME TypeOK, SafeInv, Unconfirmed
  PROVE  /\ Anchor(recovery_slot) /\ ~Anchor(Primary)
         /\ validate_image(recovery_slot)
         /\ CONFIRMED \in flags[recovery_slot]
<1>1. ~Anchor(Primary)
  BY Zenon DEF Unconfirmed, nxboot_get_confirm, Anchor
<1>2. Anchor(recovery_slot)
  BY <1>1, Zenon DEF SafeInv, FallbackInv
<1> QED
  BY <1>1, <1>2, AnchorFacts, Roles, Zenon DEF SafeInv

\* The bootloader starts an image on trial only when it is a copy of the update
\* and has not been marked.
LEMMA BootNoneTrial ==
  ASSUME TypeOK, SafeInv, TrialInv, BootNone
  PROVE  TrialInv'
<1>1. /\ st' = nxboot_get_state /\ pc = "off" /\ pc' = "launch"
      /\ UNCHANGED <<hdr, body, flags, check_only, trusted, tried>>
      /\ nxboot_get_state.next_boot = "none"
  BY Zenon DEF BootNone, Continue, Booting
<1>2. /\ recovery_slot' = recovery_slot /\ (Unconfirmed' <=> Unconfirmed)
      /\ CopyOf(Other(recovery_slot))' <=> CopyOf(Other(recovery_slot))
      /\ RecoveryTrusted'
  BY <1>1, SameTrial, TrustKept, Zenon DEF TrialInv
<1>3. st'.recovery = recovery_slot /\ st'.update = Other(recovery_slot)
  BY <1>1, ReadRoles, Zenon
<1>4. CopyOf(st.update)' <=> CopyOf(Other(recovery_slot))
  BY <1>1, <1>3, Zenon
  DEF CopyOf, validate_image, validate_image_header, calculate_crc
<1>5. ASSUME Unconfirmed
      PROVE  /\ CopyOf(Other(recovery_slot))
             /\ UPDATED \notin flags[Other(recovery_slot)]
  <2>1. /\ ~Revertible(Other(recovery_slot), recovery_slot)
        /\ ~Installable(Other(recovery_slot))
    BY <1>1, GetStateType, Zenon DEF get_update_type
  <2>2. UPDATED \notin flags[Other(recovery_slot)]
    BY <1>5, <2>1, TrialFallback, Zenon
    DEF Revertible, Unconfirmed, nxboot_get_confirm, get_image_flag
  <2>3. ~Replaced(Other(recovery_slot))
    BY <1>5, <2>1, <2>2, Zenon
    DEF Replaced, Installable, NotRefused, Unconfirmed, get_image_flag
  <2> QED
    BY <1>1, <1>5, <2>2, <2>3, Zenon DEF TrialInv, OnTrial
<1>6. Unconfirmed' => OnTrial'
  BY <1>1, <1>2, <1>3, <1>4, <1>5, Zenon DEF OnTrial, UploadPC
<1>7. ConfirmingInv'
  BY <1>1, Zenon DEF ConfirmingInv
<1> QED
  BY <1>1, <1>2, <1>6, <1>7, Zenon DEF TrialInv

\* A copy that begins leaves nothing on trial to be started.
LEMMA BeginTrial ==
  ASSUME TrialInv, UNCHANGED <<hdr, body, flags, check_only, trusted>>,
         \/ pc' = "copy_erase"
         \/ pc' \in {"copied", "launch"} /\ ~Unconfirmed
  PROVE  TrialInv'
<1>1. (Unconfirmed' <=> Unconfirmed) /\ RecoveryTrusted'
  BY SameTrial, TrustKept, Zenon DEF TrialInv
<1>2. (Unconfirmed' => OnTrial') /\ ConfirmingInv'
  BY <1>1, Zenon DEF OnTrial, ConfirmingInv, UploadPC
<1> QED
  BY <1>1, <1>2, Zenon DEF TrialInv

\* A revert is made from a trusted image, which fits.
LEMMA BootRevertTrial ==
  ASSUME TypeOK, SafeInv, TrialInv, BootRevert
  PROVE  TrialInv'
<1>1. /\ st' = nxboot_get_state
      /\ UNCHANGED <<hdr, body, flags, check_only, trusted, tried>>
      /\ nxboot_get_state.next_boot = "revert"
  BY Zenon DEF BootRevert, Booting
<1>2. st'.recovery = recovery_slot /\ recovery_slot \in Slot
  BY <1>1, ReadRoles, Zenon
<1>3. Revertible(Other(recovery_slot), recovery_slot)
  BY <1>1, GetStateType, Zenon DEF get_update_type
<1>4. validate_image(recovery_slot) /\ TrustedImage(recovery_slot)
  BY <1>2, <1>3, Zenon DEF Revertible, TrialInv, RecoveryTrusted
<1>5. hdr[recovery_slot].img \notin Oversize
  BY <1>4, Zenon DEF TrustedImage, SafeInv, HeaderInv
<1>6. pc' = "copy_erase"
  BY <1>2, <1>4, <1>5, Zenon DEF BootRevert, Copy
<1> QED
  BY <1>1, <1>6, BeginTrial, Zenon

\* An update that does not fit is refused, and then the primary image is not on
\* trial: it was confirmed before the upload.
LEMMA BootUpdateTrial ==
  ASSUME TypeOK, SafeInv, TrialInv, BootUpdate
  PROVE  TrialInv'
<1>1. /\ st' = nxboot_get_state /\ pc = "off" /\ ~LeftAlone
      /\ UNCHANGED <<hdr, body, flags, check_only, trusted, tried>>
  BY Zenon DEF BootUpdate, Booting, TrialInv, LeftAlone
<1>2. st'.update = Other(recovery_slot)
  BY <1>1, ReadRoles, Zenon
<1>3. Installable(Other(recovery_slot))
  BY <1>1, UpdateDecided, Zenon
<1>4. \/ pc' = "copy_erase"
      \/ pc' = "copied" /\ hdr[Other(recovery_slot)].img \in Oversize
  BY <1>1, <1>2, <1>3, Zenon DEF BootUpdate, Install, Copy, Installable
<1>5. hdr[Other(recovery_slot)].img \in Oversize => ~Unconfirmed
  <2> SUFFICES ASSUME hdr[Other(recovery_slot)].img \in Oversize, Unconfirmed
               PROVE  FALSE
    BY Zenon
  <2>1. ~CopyOf(Other(recovery_slot))
    BY Zenon DEF CopyOf, SafeInv, HeaderInv
  <2>2. ~Replaced(Other(recovery_slot))
    BY <1>3, Zenon DEF Replaced, Installable, get_image_flag
  <2> QED
    BY <1>1, <2>1, <2>2, Zenon DEF TrialInv, OnTrial
<1> QED
  BY <1>1, <1>4, <1>5, BeginTrial, Zenon

\* A step of copy_partition, or a reset during one, changes only its target.
LEMMA TargetOnly ==
  ASSUME \A s \in Slot : s # Where =>
           hdr'[s] = hdr[s] /\ body'[s] = body[s] /\ flags'[s] = flags[s]
  PROVE  OnlyWhere
BY Zenon DEF OnlyWhere, SameImage

\* Once its header is written, the primary slot has the image of the update.
LEMMA UpdateCopies ==
  ASSUME TypeOK, SafeInv, pc \in {"copy_body", "copy_updated", "copy_confirmed"},
         job = "update"
  PROVE  CopyOf(st.update)
<1>1. /\ pc \in CopyPC /\ From = st.update /\ Where = Primary
      /\ hdr[Where] = CopiedHeader(From) /\ validate_image(st.update)
  BY Zenon DEF CopyPC, From, Where, SafeInv, ProgressInv, JobInv
<1>2. CopiedHeader(From).img = hdr[From].img
  BY <1>1, SourceFacts
<1> QED
  BY <1>1, <1>2, Zenon DEF CopyOf

\* copy_partition: a revert ends with a confirmed image, an update with an image
\* that is on trial for the first time.
LEMMA CopyTrial ==
  ASSUME TypeOK, SafeInv, SafeInv', TrialInv, CopyPartition
  PROVE  TrialInv'
<1>1. /\ \A s \in Slot : s # Where =>
           hdr'[s] = hdr[s] /\ body'[s] = body[s] /\ flags'[s] = flags[s]
      /\ pc \in CopyPC /\ UNCHANGED <<st, job, check_only, trusted>>
      /\ pc' \in CopyPC \cup {"copied"}
  BY CopyTarget, Zenon
<1>2. RecoveryTrusted'
  BY CopyTrusted, Zenon DEF TrialInv
<1>3. ConfirmingInv'
  <2>1. CASE CopyErase
    BY <2>1, Zenon DEF CopyErase, ConfirmingInv
  <2>2. CASE CopyHeader
    BY <2>2, Zenon DEF CopyHeader, ConfirmingInv
  <2>3. CASE CopyBody \/ CopyUpdated \/ CopyConfirmed
    BY <2>3
    DEF CopyBody, CopyUpdated, CopyConfirmed, ConfirmingInv, TrialInv
  <2> QED
    BY <2>1, <2>2, <2>3, Zenon DEF CopyPartition
<1>4. CASE pc' # "copied"
  BY <1>1, <1>2, <1>3, <1>4, Zenon DEF TrialInv, OnTrial, CopyPC, UploadPC
<1>5. CASE pc' = "copied"
  <2>1. CopyConfirmed
    BY <1>5, Zenon
    DEF CopyPartition, CopyErase, CopyHeader, CopyBody, CopyUpdated
  <2>2. UNCHANGED <<hdr, body, tried>> /\ pc = "copy_confirmed"
    BY <2>1, Zenon DEF CopyConfirmed
  <2>3. CASE job = "backup"
    <3>1. Anchor(Primary)'
      BY <1>1, <1>5, <2>3, Zenon DEF SafeInv, JobInv
    <3>2. ~Unconfirmed'
      BY <3>1, Zenon DEF Anchor, Unconfirmed, nxboot_get_confirm
    <3> QED
      BY <1>1, <1>2, <1>3, <3>2, Zenon DEF TrialInv
  <2>4. CASE job = "revert"
    <3>1. From = st.recovery /\ Where = Primary /\ Anchor(st.recovery)
      BY <1>1, <2>4, Zenon DEF From, Where, SafeInv, JobInv
    <3>2. CONFIRMED \in flags[From]
      BY <3>1, AnchorFacts, Roles, Zenon DEF SafeInv
    <3>3. CONFIRMED \in flags'[Primary]
      BY <2>1, <3>1, <3>2, Zenon
      DEF CopyConfirmed, get_image_flag, TypeOK, Slot
    <3>4. ~Unconfirmed'
      BY <3>3, Zenon DEF Unconfirmed, nxboot_get_confirm, get_image_flag
    <3> QED
      BY <1>1, <1>2, <1>3, <3>4, Zenon DEF TrialInv
  <2>5. CASE job = "update"
    <3>1. CopyOf(st.update) /\ ~tried
      BY <2>2, <2>5, UpdateCopies, Zenon DEF TrialInv, ConfirmingInv
    <3>2. CopyOf(st.update)'
      BY <1>1, <2>2, <3>1, Zenon
      DEF CopyOf, validate_image, validate_image_header, calculate_crc
    <3>3. st.recovery = recovery_slot /\ recovery_slot' = recovery_slot
      BY <1>1, <2>5, TargetOnly, CopyKeepsAnchor, Zenon DEF SafeInv, JobInv
    <3>4. OnTrial'
      BY <1>1, <1>5, <2>2, <2>5, <3>1, <3>2, <3>3, Zenon DEF OnTrial, UploadPC
    <3> QED
      BY <1>1, <1>2, <1>3, <3>4, Zenon DEF TrialInv
  <2> QED
    BY <2>3, <2>4, <2>5, Zenon DEF TypeOK
<1> QED
  BY <1>4, <1>5, Zenon

\* What perform_update does after a copy.
LEMMA CopiedTrial ==
  ASSUME TypeOK, SafeInv, TrialInv, Copied
  PROVE  TrialInv'
<1>1. /\ UNCHANGED <<hdr, body, flags, st, check_only, trusted, tried>>
      /\ pc = "copied"
  BY Zenon DEF Copied
<1>2. CASE job = "backup"
  <2>1. ~Unconfirmed
    BY <1>1, <1>2, Zenon
    DEF SafeInv, JobInv, Anchor, Unconfirmed, nxboot_get_confirm
  <2>2. pc' \in {"launch", "copy_erase", "copied"}
    BY Zenon, <1>2 DEF Copied, Install, Copy, Continue
  <2> QED
    BY <1>1, <2>1, <2>2, BeginTrial, Zenon
<1>3. CASE job = "revert"
  <2>1. ~Unconfirmed
    BY <1>1, <1>3, Zenon DEF TrialInv, OnTrial
  <2>2. pc' = "launch"
    BY Zenon, <1>3 DEF Copied, Continue
  <2> QED
    BY <1>1, <2>1, <2>2, BeginTrial, Zenon
<1>4. CASE job = "update"
  <2>1. pc' = "mark"
    BY Zenon, <1>4 DEF Copied
  <2>2. /\ recovery_slot' = recovery_slot /\ (Unconfirmed' <=> Unconfirmed)
        /\ CopyOf(st.update)' <=> CopyOf(st.update)
        /\ RecoveryTrusted'
    BY <1>1, SameTrial, TrustKept, Zenon DEF TrialInv
  <2>3. Unconfirmed' => OnTrial'
    BY <1>1, <2>1, <2>2, Zenon DEF TrialInv, OnTrial, UploadPC
  <2> QED
    BY <1>1, <2>1, <2>2, <2>3, Zenon DEF TrialInv, ConfirmingInv
<1> QED
  BY <1>2, <1>3, <1>4, Zenon DEF TypeOK

\* The update is marked, and the image is started.
LEMMA StartedTrial ==
  ASSUME TypeOK, SafeInv, TrialInv, MarkUpdated \/ Launch
  PROVE  TrialInv'
<1>1. UNCHANGED <<hdr, body, st, check_only, trusted>>
  BY Zenon DEF MarkUpdated, Launch
<1>2. \A s \in Slot : CONFIRMED \in flags'[s] <=> CONFIRMED \in flags[s]
  BY DEF MarkUpdated, Launch, TypeOK, CONFIRMED, UPDATED
<1>3. /\ recovery_slot' = recovery_slot /\ (Unconfirmed' <=> Unconfirmed)
      /\ CopyOf(st.update)' <=> CopyOf(st.update)
      /\ CopyOf(Other(recovery_slot))' <=> CopyOf(Other(recovery_slot))
      /\ RecoveryTrusted'
  BY <1>1, <1>2, SameTrial, TrustKept, Zenon DEF TrialInv
<1>4. CASE MarkUpdated
  <2>1. pc = "mark" /\ pc' = "launch" /\ tried' = tried
    BY <1>4, Zenon DEF MarkUpdated
  <2>2. Unconfirmed' => OnTrial'
    BY <1>1, <1>3, <2>1, Zenon DEF TrialInv, OnTrial, UploadPC
  <2> QED
    BY <1>1, <1>3, <2>1, <2>2, Zenon DEF TrialInv, ConfirmingInv
<1>5. CASE Launch
  <2>1. pc = "launch" /\ pc' \in {"run", "halt"}
    BY <1>5, Zenon DEF Launch
  <2>2. Unconfirmed => CopyOf(Other(recovery_slot))
    BY <2>1, Zenon DEF TrialInv, OnTrial, SafeInv, RoleInv
  <2>3. Unconfirmed' => OnTrial'
    BY <1>3, <2>1, <2>2, Zenon DEF OnTrial, UploadPC
  <2> QED
    BY <1>1, <1>3, <2>1, <2>3, Zenon DEF TrialInv, ConfirmingInv
<1> QED
  BY <1>4, <1>5, Zenon

\* The application begins an upload when it is confirmed, and a confirmation
\* when it is not.
LEMMA BeginsTrial ==
  ASSUME TypeOK, SafeInv, TrialInv, ~UploadUnconfirmed,
         StartConfirm \/ \E i \in Image : StartUpload(i)
  PROVE  TrialInv'
<1>1. /\ UNCHANGED <<hdr, body, flags, check_only, trusted>>
      /\ st' = nxboot_get_state /\ pc = "run"
  BY Zenon DEF StartConfirm, StartUpload
<1>2. /\ recovery_slot' = recovery_slot /\ (Unconfirmed' <=> Unconfirmed)
      /\ RecoveryTrusted'
  BY <1>1, SameTrial, TrustKept, Zenon DEF TrialInv
<1>3. CASE \E i \in Image : StartUpload(i)
  <2>1. pc' = "upload_erase" /\ ~Unconfirmed
    BY <1>3, Zenon DEF StartUpload, Unconfirmed
  <2> QED
    BY <1>1, <1>2, <2>1, Zenon DEF TrialInv, ConfirmingInv
<1>4. CASE StartConfirm
  <2>1. pc' = "confirm_primary" /\ ~nxboot_get_confirm
    BY <1>1, <1>4, GetStateType, Zenon DEF StartConfirm
  <2>2. Unconfirmed
    BY <1>1, <2>1, Zenon DEF Unconfirmed, SafeInv, BootInv, CopyPC
  <2>3. st'.recovery = recovery_slot /\ st'.update = Other(recovery_slot)
    BY <1>1, ReadRoles, Zenon
  <2>4. CopyOf(Other(recovery_slot))
    BY <1>1, <2>2, Zenon DEF TrialInv, OnTrial
  <2>5. CopyOf(st.update)'
    BY <1>1, <2>3, <2>4, Zenon
    DEF CopyOf, validate_image, validate_image_header, calculate_crc
  <2>6. OnTrial'
    BY <1>2, <2>1, <2>3, <2>5, Zenon DEF OnTrial, UploadPC
  <2> QED
    BY <1>1, <1>2, <2>1, <2>2, <2>6, Zenon DEF TrialInv, ConfirmingInv
<1> QED
  BY <1>3, <1>4, Zenon

\* An upload leaves the primary slot alone.
LEMMA UploadTrial ==
  ASSUME TypeOK, SafeInv, TrialInv, Upload
  PROVE  TrialInv'
<1>1. /\ UNCHANGED check_only /\ pc \in UploadPC
      /\ pc' \in {"upload_header", "upload_body", "run"}
      /\ st.update \in Slot /\ st.update # Primary
  BY Roles, Zenon
  DEF Upload, UploadErase, UploadHeader, UploadBody, UploadPC, SafeInv
<1>2. /\ hdr'[Primary] = hdr[Primary] /\ body'[Primary] = body[Primary]
      /\ flags'[Primary] = flags[Primary]
  BY <1>1, Zenon
  DEF Upload, UploadErase, UploadHeader, UploadBody, TypeOK, Slot
<1>3. ~Unconfirmed'
  BY <1>1, <1>2, Zenon DEF TrialInv, OnTrial, Unconfirmed, nxboot_get_confirm,
     get_image_flag, validate_image, validate_image_header, calculate_crc
<1> QED
  BY <1>1, <1>3, UploadTrusted, Zenon DEF TrialInv, ConfirmingInv

\* nxboot_confirm: the image is confirmed before its copy is.
LEMMA ConfirmTrial ==
  ASSUME TypeOK, SafeInv, SafeInv', TrialInv, Confirm
  PROVE  TrialInv'
<1>1. UNCHANGED <<hdr, body, st, check_only>>
  BY Zenon DEF Confirm, ConfirmPrimary, ConfirmUpdate, RetireErase, RetireMark
<1>2. CopyOf(st.update)' <=> CopyOf(st.update)
  BY <1>1, Zenon
  DEF CopyOf, validate_image, validate_image_header, calculate_crc
<1>3. ~Unconfirmed'
  <2>1. CASE ConfirmPrimary
    <3>1. CONFIRMED \in flags'[Primary]
      BY <2>1, Zenon DEF ConfirmPrimary, TypeOK, Slot
    <3> QED
      BY <3>1, Zenon DEF Unconfirmed, nxboot_get_confirm, get_image_flag
  <2>2. CASE ConfirmUpdate \/ RetireErase \/ RetireMark
    <3>1. Anchor(Primary)
      BY <2>2, Zenon DEF ConfirmUpdate, RetireErase, RetireMark, SafeInv,
                  ApplicationInv
    <3>2. flags'[Primary] = flags[Primary]
      BY <2>2, Roles, Zenon
      DEF ConfirmUpdate, RetireErase, RetireMark, SafeInv, TypeOK
    <3> QED
      BY <1>1, <3>1, <3>2, Zenon
      DEF Anchor, Unconfirmed, nxboot_get_confirm, get_image_flag
  <2> QED
    BY <2>1, <2>2, Zenon DEF Confirm
<1>4. pc' \in {"confirm_update", "retire_erase"} => CopyOf(st.update)
  BY Zenon DEF Confirm, ConfirmPrimary, ConfirmUpdate, RetireErase, RetireMark,
         TrialInv, ConfirmingInv, OnTrial
<1>5. ConfirmingInv'
  BY <1>2, <1>4, Zenon DEF Confirm, ConfirmPrimary, ConfirmUpdate, RetireErase,
                    RetireMark, ConfirmingInv
<1>6. RecoveryTrusted'
  BY ConfirmTrusted, Zenon DEF TrialInv
<1> QED
  BY <1>1, <1>3, <1>5, <1>6, Zenon DEF TrialInv

\* A reset during a copy: what is then in the primary slot is a copy of the
\* update, or the next boot replaces it.
LEMMA TornTrial ==
  ASSUME TypeOK, SafeInv, DecisionInv, pc \in CopyPC, pc' = "off", TornFlash,
         UNCHANGED <<st, job, trusted>>, Unconfirmed'
  PROVE  OnTrial'
<1> USE DEF SafeInv
<1>1. /\ \A s \in Slot : s # Where =>
           hdr'[s] = hdr[s] /\ body'[s] = body[s] /\ flags'[s] = flags[s]
      /\ OnlyWhere
  BY TornTarget, TargetOnly, Zenon
<1>2. job # "backup"
  BY <1>1, CopyKeepsAnchor, Zenon DEF Anchor, Unconfirmed, nxboot_get_confirm
<1>3. /\ Where = Primary /\ recovery_slot' = recovery_slot
      /\ st.recovery = recovery_slot
  BY <1>1, <1>2, CopyKeepsAnchor, Zenon DEF JobInv, TypeOK
<1>4. PICK u \in Slot : u = st.update /\ u # Primary
  BY Roles, Zenon
<1>5. Other(recovery_slot) = u /\ Other(recovery_slot)' = u
  BY <1>3, <1>4, Zenon DEF RoleInv, Other
<1>6. /\ hdr'[u] = hdr[u] /\ body'[u] = body[u] /\ flags'[u] = flags[u]
      /\ validate_image(u)' <=> validate_image(u)
  BY <1>1, <1>3, <1>4, Zenon
  DEF validate_image, validate_image_header, calculate_crc
<1>7. CopyOf(u)' \/ Replaced(u)'
  <2>1. CASE job = "revert"
    BY <1>4, <1>6, <2>1, Zenon DEF JobInv, Replaced
  <2>2. CASE job = "update" /\ pc \in {"copy_erase", "copy_header"}
    <3>1. /\ flags[u] = {} /\ validate_image(u) /\ hdr[u].img \notin Oversize
          /\ NotRefused(u)
      BY <1>4, <2>2, Zenon DEF JobInv, DecisionInv
    <3>2. CASE UNCHANGED <<hdr, body>>
      BY <1>6, <3>1, <3>2, Zenon
      DEF Replaced, NotRefused, validate_image, validate_image_header,
          calculate_crc, compare_versions
    <3>3. CASE hdr' = [hdr EXCEPT ![Where] = NoHeader]
      <4>1. hdr'[Primary].magic = "none"
        BY <1>3, <3>3, CopySlots, Zenon DEF TypeOK, NoHeader
      <4> QED
        BY <4>1, Zenon DEF Unconfirmed, validate_image, validate_image_header
    <3> QED
      BY <2>2, <3>2, <3>3, Zenon DEF TornFlash
  <2>3. CASE /\ job = "update"
             /\ pc \in {"copy_body", "copy_updated", "copy_confirmed"}
    <3>1. CopyOf(u)
      BY <1>4, <2>3, UpdateCopies, Zenon
    <3>2. hdr' = hdr
      BY <2>3, Zenon DEF TornFlash
    <3> QED
      BY <1>6, <3>1, <3>2, Zenon DEF CopyOf
  <2> QED
    BY <1>2, <2>1, <2>2, <2>3, Zenon DEF TypeOK, CopyPC
<1>8. \/ CopyOf(Other(recovery_slot))'
      \/ Replaced(Other(recovery_slot))'
  <2>1. CopyOf(u)' => CopyOf(Other(recovery_slot))'
    BY <1>5, Zenon
    DEF CopyOf, validate_image, validate_image_header, calculate_crc
  <2>2. Replaced(u)' => Replaced(Other(recovery_slot))'
    BY <1>5, Zenon
    DEF Replaced, NotRefused, validate_image, validate_image_header,
                calculate_crc, compare_versions
  <2> QED
    BY <1>7, <2>1, <2>2, Zenon
<1> QED
  BY <1>8, Zenon DEF OnTrial, UploadPC

\* A reset anywhere.
LEMMA ResetTrial ==
  ASSUME TypeOK, SafeInv, DecisionInv, TrialInv, ~SwResetOnly, Reset
  PROVE  TrialInv'
<1>1. /\ pc # "off" /\ pc' = "off" /\ UNCHANGED <<st, job, trusted, tried>>
      /\ TornFlash
  BY Zenon DEF Reset, Torn
<1>2. check_only' = FALSE
  BY Zenon, OptionAssumption DEF Reset
<1>3. RecoveryTrusted' /\ ConfirmingInv'
  BY <1>1, TornTrusted, Zenon DEF TrialInv, ConfirmingInv
<1>4. ASSUME Unconfirmed'
      PROVE  OnTrial'
  <2>1. CASE pc \in CopyPC
    BY <1>1, <1>4, <2>1, TornTrial, Zenon
  <2>2. CASE pc \in UploadPC \cup {"confirm_update", "retire_erase", "retire_mark"}
    <3>1. /\ hdr'[Primary] = hdr[Primary] /\ body'[Primary] = body[Primary]
          /\ flags'[Primary] = flags[Primary]
      BY <1>1, <2>2, Roles, Zenon DEF TornFlash, UploadPC, SafeInv, TypeOK
    <3>2. Unconfirmed
      BY <1>4, <3>1, Zenon DEF Unconfirmed, nxboot_get_confirm, get_image_flag,
         validate_image, validate_image_header, calculate_crc
    <3>3. pc \notin {"confirm_update", "retire_erase", "retire_mark"}
      BY <3>2, TrialFallback, Zenon DEF SafeInv, ApplicationInv
    <3> QED
      BY <2>2, <3>2, <3>3, Zenon DEF TrialInv, OnTrial
  <2>3. CASE pc \in {"copied", "mark", "launch", "run", "confirm_primary"}
    <3>1. UNCHANGED <<hdr, body, flags>>
      BY <1>1, <2>3, Zenon DEF TornFlash
    <3>2. /\ Unconfirmed /\ recovery_slot' = recovery_slot
          /\ CopyOf(Other(recovery_slot))' <=> CopyOf(Other(recovery_slot))
      BY <1>4, <3>1, SameTrial, Zenon
    <3>3. CopyOf(Other(recovery_slot))
      BY <2>3, <3>2, Zenon DEF TrialInv, OnTrial, SafeInv, RoleInv
    <3> QED
      BY <1>1, <3>2, <3>3, Zenon DEF OnTrial, UploadPC
  <2> QED
    BY <1>1, <2>1, <2>2, <2>3, Zenon
    DEF TypeOK, PC, CopyPC, UploadPC, SafeInv, BootInv
<1> QED
  BY <1>2, <1>3, <1>4, Zenon DEF TrialInv

\* The debugger's image is never on trial.
LEMMA ProgramTrial ==
  ASSUME TypeOK, TrialInv, NEW i \in Reflash, Program(i)
  PROVE  TrialInv'
<1>1. /\ pc' = "off" /\ UNCHANGED check_only /\ trusted \subseteq trusted'
      /\ hdr'[Primary].magic = "INV" /\ flags'[Primary] = {}
      /\ \A s \in Slot : s # Primary =>
           hdr'[s] = hdr[s] /\ body'[s] = body[s] /\ flags'[s] = flags[s]
  BY Zenon DEF Program, TypeOK, Slot
<1>2. ~Unconfirmed'
  BY <1>1, Zenon DEF Unconfirmed, nxboot_get_confirm
<1>3. RecoveryTrusted'
  BY <1>1, TrustKept, Zenon DEF TrialInv
<1> QED
  BY <1>1, <1>2, <1>3, Zenon DEF TrialInv, ConfirmingInv

\* Every step keeps what is said about trials.
LEMMA NextTrial ==
  ASSUME TypeOK, SafeInv, SafeInv', DecisionInv, TrialInv, Ordinary,
         ~Fault, [Next]_vars
  PROVE  TrialInv'
<1>1. ~UploadUnconfirmed /\ ~SwResetOnly
  BY Zenon DEF Ordinary
<1>2. CASE Bootloader
  BY <1>2, BootNoneTrial, BootRevertTrial, BootUpdateTrial, CopyTrial,
     CopiedTrial, StartedTrial, Zenon DEF Bootloader
<1>3. CASE StartConfirm \/ \E i \in Image : StartUpload(i)
  BY <1>1, <1>3, BeginsTrial, Zenon
<1>4. CASE Upload \/ Confirm
  BY <1>4, UploadTrial, ConfirmTrial, Zenon
<1>5. CASE Reset \/ \E i \in Reflash : Program(i)
  BY <1>1, <1>5, ResetTrial, ProgramTrial, Zenon
<1>6. CASE UNCHANGED vars
  <2>1. UNCHANGED <<hdr, body, flags, st, pc, job, check_only, trusted, tried>>
    BY <1>6, Zenon DEF vars
  <2>2. /\ recovery_slot' = recovery_slot /\ (Unconfirmed' <=> Unconfirmed)
        /\ CopyOf(Other(recovery_slot))' <=> CopyOf(Other(recovery_slot))
        /\ CopyOf(st.update)' <=> CopyOf(st.update)
        /\ RecoveryTrusted'
    BY <2>1, SameTrial, TrustKept, Zenon DEF TrialInv
  <2>3. Replaced(Other(recovery_slot))' <=> Replaced(Other(recovery_slot))
    BY <2>1, <2>2, Zenon
    DEF Replaced, NotRefused, Other, validate_image, validate_image_header,
        calculate_crc, compare_versions
  <2>4. (OnTrial' <=> OnTrial) /\ (ConfirmingInv' <=> ConfirmingInv)
    BY <2>1, <2>2, <2>3, Zenon DEF OnTrial, ConfirmingInv
  <2> QED
    BY <2>1, <2>2, <2>4, Zenon DEF TrialInv
<1> QED
  BY <1>2, <1>3, <1>4, <1>5, <1>6, Zenon DEF Next

\* The flash accepts its writes, and the application confirms itself before it
\* uploads: an image on trial came from the update slot, as nxboot_confirm
\* assumes.
THEOREM Trials == Ordinary => (Spec => [](faults = 0 => TrialInv))
<1> SUFFICES ASSUME Ordinary PROVE Spec => [](faults = 0 => TrialInv)
  BY Zenon
<1>1. Init => (faults = 0 => TrialInv)
  <2> SUFFICES ASSUME Init PROVE TrialInv
    BY Zenon
  <2>1. /\ hdr[Primary].magic = "INV" /\ pc = "off"
        /\ \A s \in Slot : flags[s] = {}
    BY Zenon DEF Init, Slot
  <2>2. check_only = FALSE
    BY Zenon, OptionAssumption DEF Init, Ordinary
  <2> QED
    BY <2>1, <2>2, Zenon
    DEF TrialInv, RecoveryTrusted, get_image_flag, Unconfirmed,
        nxboot_get_confirm, ConfirmingInv
<1>2. IInv /\ DecisionInv /\ (faults = 0 => TrialInv) /\ [Next]_vars /\ IInv'
        => (faults = 0 => TrialInv)'
  <2> SUFFICES ASSUME IInv, DecisionInv, faults = 0 => TrialInv, [Next]_vars,
                      IInv', faults' = 0
               PROVE  TrialInv'
    BY Zenon
  <2>1. faults = 0 /\ ~Fault
    BY NoFault, Zenon DEF IInv
  <2> QED
    BY <2>1, NextTrial, Zenon DEF IInv
<1> QED
  BY <1>1, <1>2, Invariance, Decisions, PTL DEF Spec

\* What carries the confirmed flag is an image that was confirmed, for every
\* set of images and wherever power is lost.
THEOREM RecoveryAlwaysTrusted ==
  Ordinary /\ MaxFaults = 0 => (Spec => []RecoveryTrusted)
<1> SUFFICES ASSUME Ordinary, MaxFaults = 0 PROVE Spec => []RecoveryTrusted
  BY Zenon
<1>1. TypeOK /\ (faults = 0 => TrialInv) => RecoveryTrusted
  BY DEF TypeOK, TrialInv
<1> QED
  BY <1>1, Trials, TypeCorrect, PTL

\* nxboot_confirm "marks its copy in update partition as a recovery": the slot
\* that it marks holds the image it has confirmed.
THEOREM ConfirmMarksCopy ==
  Ordinary /\ MaxFaults = 0 => (Spec => []ConfirmsCopy)
<1> SUFFICES ASSUME Ordinary, MaxFaults = 0 PROVE Spec => []ConfirmsCopy
  BY Zenon
<1>1. TypeOK /\ (faults = 0 => TrialInv) => ConfirmsCopy
  BY DEF TypeOK, TrialInv, ConfirmingInv, CopyOf, ConfirmsCopy
<1> QED
  BY <1>1, Trials, TypeCorrect, PTL

\* An image that was started and did not confirm itself is not started again
\* when its slot is marked as updated.
THEOREM TriedOnce == Ordinary /\ MaxFaults = 0 => (Spec => []OneTrial)
<1> SUFFICES ASSUME Ordinary, MaxFaults = 0 PROVE Spec => []OneTrial
  BY Zenon
<1>1. IInv /\ (faults = 0 => TrialInv) => OneTrial
  <2> SUFFICES ASSUME IInv, faults = 0 => TrialInv, pc = "launch",
                      ~nxboot_get_confirm, tried
               PROVE  ~get_image_flag(st.update, UPDATED)
    BY Zenon DEF OneTrial
  <2>1. faults = 0 /\ TypeOK /\ SafeInv /\ TrialInv
    BY DEF IInv, TypeOK
  <2>2. Unconfirmed
    BY <2>1, Zenon DEF Unconfirmed, SafeInv, BootInv, CopyPC
  <2> QED
    BY <2>1, <2>2, Zenon DEF TrialInv, OnTrial, get_image_flag
<1> QED
  BY <1>1, Trials, Invariance, PTL
-----------------------------------------------------------------------------
(* Uploads. *)

\* No power is lost in the two windows in which a slot with a valid image has
\* no flags (the backup, and the end of nxboot_confirm), an update is refused
\* when it has the version of the primary image, and no debugger is used.
Guarded ==
  /\ LossStage \cap {"retire", "backup"} = {}
  /\ ~PreventDowngrade
  /\ Reflash = {}

\* The image in slot s is not installed: the primary image has its version, or
\* it does not fit.
Installed(s) ==
  \/ hdr[s].img \in Oversize
  \/ validate_image(Primary) /\ Version[hdr[s].img] = Version[hdr[Primary].img]

\* Where an image without flags is found that was not uploaded.
Unmarked(s) ==
  \/ pc \in CopyPC /\ job = "backup" /\ s = st.recovery
  \/ pc = "retire_mark" /\ s = st.recovery

\* Every image without flags is a new upload, or there is a reason why it is
\* not taken for one.
Accounted ==
  \A s \in {Secondary, Tertiary} :
    validate_image(s) /\ flags[s] = {} =>
      s \in fresh \/ Installed(s) \/ Unmarked(s)

\* An image that is being uploaded lacks its last block.
Incomplete ==
  pc \in {"upload_header", "upload_body"} =>
    \A b \in Blocks : b > off \/ pc = "upload_header" =>
      body[st.update][b] = Junk

UploadInv ==
  /\ Accounted
  /\ pc \in CopyPC /\ job = "update" => st.update \in fresh
  /\ pc \in CopyPC \cup {"copied"} /\ job = "backup" =>
       st.update \in fresh \/ hdr[st.update].img \in Oversize
  /\ pc = "copied" /\ job = "update" => Installed(st.update)
  /\ pc = "mark" => Installed(st.update)
  /\ Incomplete

\* A step that leaves the images alone, erases no flags and forgets no upload.
LEMMA AccountedKept ==
  ASSUME Accounted, UNCHANGED <<hdr, body>>, fresh \subseteq fresh',
         \A s \in {Secondary, Tertiary} :
           ~Unmarked(s) /\ (flags'[s] = {} => flags[s] = {})
  PROVE  Accounted'
BY Zenon DEF Accounted, Installed, validate_image, validate_image_header,
       calculate_crc

\* The same for one slot whose image and flags do not change, when the primary
\* image does not change either.
LEMMA SlotKept ==
  ASSUME Accounted, NEW s \in {Secondary, Tertiary},
         hdr'[s] = hdr[s], body'[s] = body[s], flags'[s] = flags[s],
         hdr'[Primary] = hdr[Primary], body'[Primary] = body[Primary],
         ~Unmarked(s), s \in fresh => s \in fresh',
         validate_image(s)', flags'[s] = {}
  PROVE  s \in fresh' \/ Installed(s)'
BY Zenon DEF Accounted, Installed, validate_image, validate_image_header,
       calculate_crc

\* An image one block of which was not written is not valid.
LEMMA LacksBlock ==
  HeaderInv =>
    \A s \in {Secondary, Tertiary}, b \in Blocks :
      body[s][b] = Junk => ~validate_image(s)
<1> SUFFICES ASSUME HeaderInv, NEW s \in {Secondary, Tertiary},
                    NEW b \in Blocks, body[s][b] = Junk, validate_image(s)
             PROVE  FALSE
  BY Zenon
<1>1. s \in Slot /\ s # Primary
  BY Zenon DEF Slot, Primary, Secondary, Tertiary
<1>2. hdr[s].magic = "NXOS" /\ hdr[s].img \in Image
      /\ body[s] = Content(hdr[s].img)
  BY <1>1, Zenon DEF HeaderInv, validate_image, validate_image_header,
              calculate_crc
<1>3. body[s][b] = hdr[s].img
  BY <1>2, Zenon DEF Content
<1> QED
  BY <1>2, <1>3, ImageAssumption, Zenon

\* During a copy to the primary slot the other slots need no comparison with
\* the primary image: the recovery slot is confirmed, and the update is new or,
\* for a revert, marked.
LEMMA CopyAccounted ==
  ASSUME TypeOK, SafeInv, UploadInv, pc \in CopyPC,
         NEW s \in {Secondary, Tertiary},
         validate_image(s)', flags'[s] = {},
         \A r \in Slot : r # Where =>
           hdr'[r] = hdr[r] /\ body'[r] = body[r] /\ flags'[r] = flags[r],
         \A r \in Slot : r # Where /\ r \in fresh => r \in fresh'
  PROVE  \/ s \in fresh' \/ Installed(s)'
         \/ job = "backup" /\ s = st.recovery
<1>1. s \in {st.update, st.recovery} /\ s \in Slot /\ s # Primary
  BY Roles, Zenon DEF SafeInv, RoleInv, Other, Slot
<1>2. CASE job = "backup" /\ s = st.update
  <2>1. s # Where /\ Where # Primary
    BY <1>2, Roles, Zenon DEF Where, SafeInv
  <2>2. s \in fresh \/ hdr[s].img \in Oversize
    BY <1>2, Zenon DEF UploadInv
  <2> QED
    BY <1>1, <2>1, <2>2, Zenon DEF Installed
<1>3. CASE job # "backup"
  <2>1. s # Where /\ flags[s] = {}
    BY <1>1, <1>3, Zenon DEF Where
  <2>2. Anchor(st.recovery) /\ (job = "revert" => UPDATED \in flags[st.update])
    BY <1>3, Zenon DEF SafeInv, JobInv, TypeOK
  <2>3. s # st.recovery
    BY <2>1, <2>2, Roles, AnchorFacts, Zenon DEF SafeInv
  <2>4. job = "update" /\ s = st.update
    BY <1>1, <1>3, <2>1, <2>2, <2>3, Zenon DEF TypeOK
  <2>5. s \in fresh
    BY <2>4, Zenon DEF UploadInv
  <2> QED
    BY <1>1, <2>1, <2>5, Zenon
<1> QED
  BY <1>1, <1>2, <1>3, Zenon

\* A step of copy_partition; when it ends, the update is installed or the backup
\* is confirmed.
LEMMA CopyUpload ==
  ASSUME TypeOK, SafeInv, SafeInv', TypeOK', UploadInv, CopyPartition
  PROVE  UploadInv'
<1>1. /\ \A s \in Slot : s # Where =>
           hdr'[s] = hdr[s] /\ body'[s] = body[s] /\ flags'[s] = flags[s]
      /\ pc \in CopyPC /\ UNCHANGED <<st, job>>
      /\ pc' \in CopyPC \cup {"copied"}
  BY CopyTarget, Zenon
<1>2. \A s \in Slot : s # Where /\ s \in fresh => s \in fresh'
  BY Zenon DEF CopyPartition, CopyErase, CopyHeader, CopyBody, CopyUpdated,
         CopyConfirmed
<1>3. pc' = "copied" => CopyConfirmed
  BY Zenon DEF CopyPartition, CopyErase, CopyHeader, CopyBody, CopyUpdated
<1>4. Accounted'
  <2> SUFFICES ASSUME NEW s \in {Secondary, Tertiary},
                      validate_image(s)', flags'[s] = {}
               PROVE  s \in fresh' \/ Installed(s)' \/ Unmarked(s)'
    BY Zenon DEF Accounted
  <2>1. \/ s \in fresh' \/ Installed(s)'
        \/ job = "backup" /\ s = st.recovery
    BY <1>1, <1>2, CopyAccounted, Zenon
  <2>2. CASE pc' \in CopyPC
    BY <1>1, <2>1, <2>2, Zenon DEF Unmarked
  <2>3. CASE pc' = "copied" /\ job = "backup" /\ s = st.recovery
    <3>1. Anchor(s)'
      BY <1>1, <2>3, Zenon DEF SafeInv, ProgressInv
    <3>2. s \in Slot /\ s # Primary
      BY Zenon DEF Slot, Primary, Secondary, Tertiary
    <3>3. CONFIRMED \in flags'[s]
      BY <3>1, <3>2, Zenon
      DEF Anchor, get_image_flag, SafeInv, HeaderInv
    <3> QED
      BY <3>3, Zenon
  <2> QED
    BY <1>1, <2>1, <2>2, <2>3, Zenon
<1>5. st.update \in Slot /\ st.update # Primary /\ st.update # st.recovery
  BY Roles, Zenon DEF SafeInv
<1>6. st.update # Where
  BY <1>5, Zenon DEF Where
<1>7. pc' = "copied" /\ job' = "update" => Installed(st.update)'
  <2> SUFFICES ASSUME pc' = "copied", job = "update"
               PROVE  Installed(st.update)'
    BY <1>1, Zenon
  <2>1. UNCHANGED hdr /\ pc = "copy_confirmed"
    BY <1>3, Zenon DEF CopyConfirmed
  <2>2. hdr[Primary].img = hdr[st.update].img
    BY <2>1, UpdateCopies, Zenon DEF CopyOf
  <2>3. validate_image(Primary)'
    BY Zenon DEF SafeInv, BootInv, CopyPC
  <2> QED
    BY <1>1, <2>1, <2>2, <2>3, Zenon DEF Installed
<1>8. pc' \in CopyPC /\ job' = "update" => st'.update \in fresh'
  BY <1>1, <1>2, <1>5, <1>6, Zenon DEF UploadInv
<1>9. job' = "backup" =>
        st'.update \in fresh' \/ hdr'[st'.update].img \in Oversize
  BY <1>1, <1>2, <1>5, <1>6, Zenon DEF UploadInv
<1> QED
  BY <1>1, <1>4, <1>7, <1>8, <1>9, Zenon DEF UploadInv, Incomplete, CopyPC

\* The update that is found at a boot is new.
LEMMA FoundIsNew ==
  ASSUME Guarded, UploadInv, pc = "off", NEW u \in {Secondary, Tertiary},
         TypeOK, Installable(u)
  PROVE  u \in fresh \/ hdr[u].img \in Oversize
<1>1. flags[u] = {} /\ validate_image(u)
  BY Zenon DEF Installable, get_image_flag, TypeOK, Slot, Flag
<1>2. ~Unmarked(u)
  BY Zenon DEF Unmarked, CopyPC
<1>3. ~(validate_image(Primary)
         /\ Version[hdr[u].img] = Version[hdr[Primary].img])
  BY Zenon DEF Installable, compare_versions, Guarded
<1> QED
  BY <1>1, <1>2, <1>3, Zenon DEF UploadInv, Accounted, Installed

\* perform_update begins.
LEMMA BootUpload ==
  ASSUME TypeOK, SafeInv, Guarded, UploadInv,
         BootNone \/ BootRevert \/ BootUpdate
  PROVE  UploadInv'
<1>1. /\ st' = nxboot_get_state /\ UNCHANGED <<hdr, body, flags, fresh>>
      /\ pc = "off"
  BY Zenon DEF BootNone, BootRevert, BootUpdate, Booting
<1>2. Accounted'
  <2>1. \A s : ~Unmarked(s)
    BY <1>1, Zenon DEF Unmarked, CopyPC
  <2> QED
    BY <1>1, <2>1, AccountedKept, Zenon DEF UploadInv
<1>3. pc' \in CopyPC \cup {"copied", "launch"}
  BY Zenon
  DEF BootNone, BootRevert, BootUpdate, Install, Copy, Continue, CopyPC
<1>4. CASE pc' = "launch"
  BY <1>2, <1>4, Zenon DEF UploadInv, Incomplete, CopyPC
<1>5. CASE BootRevert /\ pc' # "launch"
  <2>1. job' = "revert"
    BY <1>5, Zenon DEF BootRevert, Copy, Continue
  <2> QED
    BY <1>2, <1>3, <2>1, Zenon DEF UploadInv, Incomplete, CopyPC
<1>6. CASE BootUpdate /\ pc' # "launch"
  <2>1. ~LeftAlone
    BY <1>6, Zenon DEF BootUpdate, Continue
  <2>2. /\ Installable(Other(recovery_slot))
        /\ st'.update = Other(recovery_slot)
        /\ Other(recovery_slot) \in {Secondary, Tertiary}
    BY <1>1, <1>6, <2>1, UpdateDecided, ReadRoles, Zenon DEF Other
  <2>3. st'.update \in fresh \/ hdr[st'.update].img \in Oversize
    BY <1>1, <2>2, FoundIsNew, Zenon
  <2>4. \/ job' = "backup" /\ pc' = "copy_erase"
        \/ /\ job' = "update"
           /\ pc' = IF hdr[st'.update].img \in Oversize
                      THEN "copied" ELSE "copy_erase"
    BY <1>6, <2>1, Zenon DEF BootUpdate, Install, Copy, Continue
  <2>5. pc' = "copied" => Installed(st.update)'
    BY <1>1, <2>4, Zenon DEF Installed
  <2> QED
    BY <1>1, <1>2, <2>3, <2>4, <2>5, Zenon DEF UploadInv, Incomplete, CopyPC
<1> QED
  BY <1>3, <1>4, <1>5, <1>6, Zenon DEF BootNone, Continue, CopyPC

\* perform_update goes on after a copy.
LEMMA CopiedUpload ==
  ASSUME TypeOK, SafeInv, UploadInv, Copied
  PROVE  UploadInv'
<1>1. UNCHANGED <<hdr, body, flags, st>> /\ pc = "copied"
  BY Zenon DEF Copied
<1>2. /\ \A s : ~Unmarked(s)
      /\ validate_image(Primary)' <=> validate_image(Primary)
      /\ Installed(st.update)' <=> Installed(st.update)
  BY <1>1, Zenon DEF Unmarked, CopyPC, Installed, validate_image,
              validate_image_header, calculate_crc
<1>3. CASE job = "revert"
  <2>1. pc' = "launch" /\ fresh' = fresh
    BY Zenon, <1>3 DEF Copied, Continue
  <2>2. Accounted'
    BY <1>1, <1>2, <2>1, AccountedKept, Zenon DEF UploadInv
  <2> QED
    BY <2>1, <2>2, Zenon DEF UploadInv, Incomplete, CopyPC
<1>4. CASE job = "backup"
  <2>1. /\ fresh' = fresh
        /\ \/ pc' = "launch"
           \/ /\ job' = "update"
              /\ pc' = IF hdr[st.update].img \in Oversize
                         THEN "copied" ELSE "copy_erase"
    BY Zenon, <1>4 DEF Copied, Install, Copy, Continue
  <2>2. Accounted'
    BY <1>1, <1>2, <2>1, AccountedKept, Zenon DEF UploadInv
  <2>3. st.update \in fresh \/ hdr[st.update].img \in Oversize
    BY <1>1, <1>4, Zenon DEF UploadInv
  <2>4. hdr[st.update].img \in Oversize => Installed(st.update)'
    BY <1>2, Zenon DEF Installed
  <2> QED
    BY <1>1, <2>1, <2>2, <2>3, <2>4, Zenon DEF UploadInv, Incomplete, CopyPC
<1>5. CASE job = "update"
  <2>1. pc' = "mark" /\ fresh' = fresh \ {st.update}
    BY Zenon, <1>5 DEF Copied
  <2>2. Installed(st.update)'
    BY <1>1, <1>2, <1>5, Zenon DEF UploadInv
  <2>3. Accounted'
    <3> SUFFICES ASSUME NEW s \in {Secondary, Tertiary},
                        validate_image(s)', flags'[s] = {}
                 PROVE  s \in fresh' \/ Installed(s)'
      BY Zenon DEF Accounted
    <3>1. CASE s = st.update
      BY <1>1, <2>2, <3>1, Zenon DEF Installed
    <3>2. CASE s # st.update
      BY <1>1, <1>2, <2>1, <3>2, SlotKept, Zenon DEF UploadInv
    <3> QED
      BY <3>1, <3>2, Zenon
  <2> QED
    BY <2>1, <2>2, <2>3, Zenon DEF UploadInv, Incomplete, CopyPC
<1> QED
  BY <1>3, <1>4, <1>5, Zenon DEF TypeOK

\* The steps that change no image and no flag of a slot, or set a flag.
LEMMA QuietUpload ==
  ASSUME TypeOK, SafeInv, UploadInv,
         \/ MarkUpdated \/ Launch \/ StartConfirm
         \/ \E i \in Image : StartUpload(i)
         \/ ConfirmPrimary \/ ConfirmUpdate
  PROVE  UploadInv'
<1>1. /\ UNCHANGED <<hdr, body, fresh>>
      /\ pc \in {"mark", "launch", "run", "confirm_primary", "confirm_update"}
      /\ pc' \in {"launch", "run", "halt", "confirm_primary", "upload_erase",
                  "confirm_update", "retire_erase"}
  BY Zenon DEF MarkUpdated, Launch, StartConfirm, StartUpload, ConfirmPrimary,
         ConfirmUpdate
<1>2. \A s \in {Secondary, Tertiary} : flags'[s] = {} => flags[s] = {}
  BY Roles DEF MarkUpdated, Launch, StartConfirm, StartUpload, ConfirmPrimary,
               ConfirmUpdate, TypeOK, Slot, SafeInv
<1>3. Accounted'
  BY <1>1, <1>2, AccountedKept, Zenon DEF UploadInv, Unmarked, CopyPC
<1> QED
  BY <1>1, <1>3, Zenon DEF UploadInv, Incomplete, CopyPC

\* The old recovery slot has no flags between the erase and the mark.
LEMMA RetireUpload ==
  ASSUME TypeOK, SafeInv, UploadInv, RetireErase \/ RetireMark
  PROVE  UploadInv'
<1>1. /\ UNCHANGED <<hdr, body, fresh, st>>
      /\ st.recovery \in Slot /\ st.recovery # Primary
      /\ \A s \in Slot : s # st.recovery => flags'[s] = flags[s]
  BY Roles, Zenon DEF RetireErase, RetireMark, TypeOK, SafeInv
<1>2. /\ pc \in {"retire_erase", "retire_mark"} /\ pc' \in {"retire_mark", "run"}
      /\ RetireErase => pc' = "retire_mark"
      /\ RetireMark => flags'[st.recovery] # {}
  BY <1>1, Zenon DEF RetireErase, RetireMark, TypeOK
<1>3. Accounted'
  <2> SUFFICES ASSUME NEW s \in {Secondary, Tertiary},
                      validate_image(s)', flags'[s] = {}
               PROVE  s \in fresh' \/ Installed(s)' \/ Unmarked(s)'
    BY Zenon DEF Accounted
  <2>1. CASE s = st.recovery
    BY <1>1, <1>2, <2>1, Zenon DEF Unmarked
  <2>2. CASE s # st.recovery
    <3>1. ~Unmarked(s) /\ flags'[s] = flags[s]
      BY <1>1, <2>2, Zenon DEF Unmarked, Slot
    <3> QED
      BY <1>1, <3>1, SlotKept, Zenon DEF UploadInv
  <2> QED
    BY <2>1, <2>2, Zenon
<1> QED
  BY <1>2, <1>3, Zenon DEF UploadInv, Incomplete, CopyPC

\* A slot counts as uploaded when its last block is written, and not before.
LEMMA UploadUpload ==
  ASSUME TypeOK, SafeInv, TypeOK', SafeInv', UploadInv, Upload
  PROVE  UploadInv'
<1>1. /\ UNCHANGED st /\ pc \in UploadPC
      /\ st.update \in {Secondary, Tertiary} /\ st.update \in Slot
      /\ st.update # Primary /\ Primary \in Slot
      /\ pc' \in {"upload_header", "upload_body", "run"}
  BY Roles, Zenon
  DEF Upload, UploadErase, UploadHeader, UploadBody, UploadPC, SafeInv
<1>2. /\ \A s \in Slot : s # st.update =>
           hdr'[s] = hdr[s] /\ body'[s] = body[s] /\ flags'[s] = flags[s]
      /\ \A s : s # st.update /\ s \in fresh => s \in fresh'
  BY <1>1, Zenon DEF Upload, UploadErase, UploadHeader, UploadBody, TypeOK
<1>3. Incomplete'
  <2>1. CASE UploadErase
    <3>1. body'[st.update] = Blank
      BY <1>1, <2>1, Zenon DEF UploadErase, TypeOK
    <3> QED
      BY <1>1, <2>1, <3>1, Zenon DEF UploadErase, Incomplete, Blank
  <2>2. CASE UploadHeader
    BY <1>1, <2>2, Zenon DEF UploadHeader, Incomplete, UploadInv
  <2>3. CASE UploadBody
    <3>1. /\ off' = off + 1 /\ off \in 0..N /\ off < N /\ N \in Nat
          /\ pc = "upload_body" /\ pc' \in {"upload_body", "run"}
      BY <2>3, NAssumption, Zenon DEF UploadBody, TypeOK
    <3>2. \A b \in Blocks : b # off + 1 => body'[st.update][b] = body[st.update][b]
      BY <1>1, <2>3, Zenon DEF UploadBody, TypeOK, Body
    <3>3. \A b \in Blocks : b > off + 1 => b > off /\ b # off + 1
      BY <3>1 DEF Blocks
    <3> QED
      BY <1>1, <3>1, <3>2, <3>3, Zenon DEF Incomplete, UploadInv
  <2> QED
    BY <2>1, <2>2, <2>3, Zenon DEF Upload
<1>4. pc' # "run" => ~validate_image(st.update)'
  <2> SUFFICES ASSUME pc' # "run" PROVE ~validate_image(st.update)'
    BY Zenon
  <2>1. N \in Blocks /\ (N > off' \/ pc' = "upload_header")
    BY <1>1, NAssumption DEF Blocks, TypeOK
  <2>2. PICK u \in {Secondary, Tertiary} : u = st.update /\ u = st'.update
    BY <1>1, Zenon
  <2>3. body'[u][N] = Junk
    BY <1>1, <1>3, <2>1, <2>2, Zenon DEF Incomplete
  <2>4. HeaderInv'
    BY Zenon DEF SafeInv
  <2>5. (HeaderInv => \A s \in {Secondary, Tertiary}, b \in Blocks :
                       body[s][b] = Junk => ~validate_image(s))'
    BY LacksBlock, PTL
  <2>6. ~validate_image(u)'
    BY <2>1, <2>3, <2>4, <2>5, Zenon
  <2> QED
    BY <2>2, <2>6, Zenon
    DEF validate_image, validate_image_header, calculate_crc
<1>5. Accounted'
  <2> SUFFICES ASSUME NEW s \in {Secondary, Tertiary},
                      validate_image(s)', flags'[s] = {}
               PROVE  s \in fresh' \/ Installed(s)'
    BY Zenon DEF Accounted
  <2>1. CASE s = st.update
    <3>1. pc' = "run"
      BY <1>1, <1>4, <2>1, Zenon DEF validate_image, validate_image_header,
                              calculate_crc
    <3> QED
      BY <2>1, <3>1, Zenon DEF Upload, UploadErase, UploadHeader, UploadBody
  <2>2. CASE s # st.update
    <3>1. s \in Slot /\ ~Unmarked(s)
      BY <1>1, Zenon DEF Slot, Unmarked, UploadPC, CopyPC
    <3> QED
      BY <1>1, <1>2, <2>2, <3>1, SlotKept, Zenon DEF UploadInv
  <2> QED
    BY <2>1, <2>2, Zenon
<1> QED
  BY <1>1, <1>3, <1>5, Zenon DEF UploadInv, CopyPC

\* A reset: outside the two windows an interrupted operation never turns an
\* image that was installed before into one that looks new.
LEMMA ResetUpload ==
  ASSUME TypeOK, SafeInv, Guarded, UploadInv, Reset
  PROVE  UploadInv'
<1>1. /\ pc' = "off" /\ TornFlash
      /\ fresh' = {s \in fresh : hdr'[s] = hdr[s]}
      /\ CurrentStage \in Stage \ {"retire", "backup"}
  BY OptionAssumption, Zenon DEF Reset, Torn, Guarded, Stage
<1>2. pc \in CopyPC => job # "backup"
  BY Zenon, <1>1 DEF CurrentStage, CopyPC
<1>3. pc \notin {"retire_erase", "retire_mark"}
  BY Zenon, <1>1 DEF CurrentStage
<1>4. \A s : ~Unmarked(s)
  BY <1>2, <1>3, Zenon DEF Unmarked
<1>5. ASSUME NEW s \in {Secondary, Tertiary}, validate_image(s)',
             flags'[s] = {}
      PROVE  s \in fresh' \/ Installed(s)'
  <2>1. CASE pc \in CopyPC
    <3>1. /\ \A r \in Slot : r # Where =>
               hdr'[r] = hdr[r] /\ body'[r] = body[r] /\ flags'[r] = flags[r]
          /\ \A r \in Slot : r # Where /\ r \in fresh => r \in fresh'
      BY <1>1, <2>1, TornTarget, Zenon
    <3> QED
      BY <1>2, <1>5, <2>1, <3>1, CopyAccounted, Zenon
  <2>2. CASE /\ hdr' = [hdr EXCEPT ![st.update] = NoHeader] /\ body' = body
             /\ \E left \in SUBSET flags[st.update] :
                  flags' = [flags EXCEPT ![st.update] = left]
    <3>1. /\ st.update \in Slot /\ st.update # Primary
          /\ \A r \in Slot : r # st.update => flags'[r] = flags[r]
      BY <2>2, Roles, Zenon DEF SafeInv, TypeOK
    <3>2. hdr'[st.update].magic = "none"
      BY <2>2, <3>1, Zenon DEF TypeOK, NoHeader
    <3>3. s # st.update
      BY <1>5, <3>2, Zenon DEF validate_image, validate_image_header
    <3>4. /\ hdr'[s] = hdr[s] /\ flags'[s] = flags[s]
          /\ hdr'[Primary] = hdr[Primary]
      BY <2>2, <3>1, <3>3, Zenon DEF TypeOK, Slot
    <3> QED
      BY <1>1, <1>4, <1>5, <2>2, <3>4, SlotKept, Zenon DEF UploadInv
  <2>3. CASE UNCHANGED <<hdr, body, flags>>
    BY <1>1, <1>4, <1>5, <2>3, SlotKept, Zenon DEF UploadInv
  <2> QED
    BY <1>1, <1>3, <2>1, <2>2, <2>3, Zenon DEF TornFlash, CopyPC
<1>6. Accounted'
  BY <1>5, Zenon DEF Accounted
<1> QED
  BY <1>1, <1>6, Zenon DEF UploadInv, Incomplete, CopyPC

\* Every step keeps what is said about uploads.
LEMMA NextUpload ==
  ASSUME TypeOK, SafeInv, TypeOK', SafeInv', Guarded, UploadInv,
         ~Fault, [Next]_vars
  PROVE  UploadInv'
<1>1. CASE Bootloader
  BY <1>1, BootUpload, CopyUpload, CopiedUpload, QuietUpload, Zenon
  DEF Bootloader
<1>2. CASE StartConfirm \/ \E i \in Image : StartUpload(i)
  BY <1>2, QuietUpload, Zenon
<1>3. CASE Upload
  BY <1>3, UploadUpload, Zenon
<1>4. CASE Confirm
  BY <1>4, QuietUpload, RetireUpload, Zenon DEF Confirm
<1>5. CASE Reset
  BY <1>5, ResetUpload, Zenon
<1>6. CASE \E i \in Reflash : Program(i)
  BY <1>6, Zenon DEF Guarded
<1>7. CASE UNCHANGED vars
  <2>1. UNCHANGED <<hdr, body, flags, st, pc, job, off, fresh>>
    BY <1>7, Zenon DEF vars
  <2>2. /\ \A s : validate_image(s)' <=> validate_image(s)
        /\ \A s : Unmarked(s)' <=> Unmarked(s)
    BY <2>1, Zenon
    DEF validate_image, validate_image_header, calculate_crc, Unmarked
  <2>3. /\ \A s : Installed(s)' <=> Installed(s)
        /\ Installed(st.update)' <=> Installed(st.update)
        /\ Incomplete' <=> Incomplete
    BY <2>1, <2>2, Zenon DEF Installed, Incomplete, validate_image,
                      validate_image_header, calculate_crc
  <2>4. Accounted' <=> Accounted
    BY <2>1, <2>2, <2>3, Zenon DEF Accounted
  <2> QED
    BY <2>1, <2>3, <2>4, Zenon DEF UploadInv
<1> QED
  BY <1>1, <1>2, <1>3, <1>4, <1>5, <1>6, <1>7, Zenon DEF Next

\* Only an upload that was not installed before is installed, whatever the
\* images and their versions are and whenever power is lost outside the two
\* windows: a slot without flags is not taken for an update by mistake.
THEOREM InstallsOnlyUploads ==
  Guarded /\ MaxFaults = 0 => (Spec => []InstallsUploads)
<1> SUFFICES ASSUME Guarded, MaxFaults = 0 PROVE Spec => []InstallsUploads
  BY Zenon
<1>1. Init => UploadInv
  <2> SUFFICES ASSUME Init PROVE UploadInv
    BY Zenon
  <2>1. \A s \in {Secondary, Tertiary} : hdr[s].magic = "none"
    BY Zenon DEF Init, Slot, NoHeader, Primary, Secondary, Tertiary
  <2>2. pc = "off"
    BY Zenon DEF Init
  <2> QED
    BY <2>1, <2>2, Zenon DEF UploadInv, Accounted, Incomplete, CopyPC,
                      validate_image, validate_image_header
<1>2. IInv /\ IInv' /\ UploadInv /\ [Next]_vars => UploadInv'
  <2> SUFFICES ASSUME IInv, IInv', UploadInv, [Next]_vars PROVE UploadInv'
    BY Zenon
  <2>1. TypeOK /\ TypeOK'
    BY Zenon DEF IInv
  <2>2. faults' = 0
    BY <2>1 DEF TypeOK
  <2>3. faults = 0 /\ ~Fault
    BY <2>1, <2>2, NoFault, Zenon
  <2> QED
    BY <2>1, <2>2, <2>3, NextUpload, Zenon DEF IInv
<1>3. UploadInv => InstallsUploads
  BY Zenon DEF UploadInv, InstallsUploads, CopyPC
<1> QED
  BY <1>1, <1>2, <1>3, Invariance, PTL DEF Spec

-----------------------------------------------------------------------------
(* A flash write that fails. *)

\* Neither power is lost during nxboot_confirm nor a debugger used.
Sheltered ==
  /\ Ordinary
  /\ LossStage \cap {"confirm", "retire"} = {}
  /\ Reflash = {}

\* A confirmed primary image has its copy in the secondary slot when that is
\* the recovery.
RecoveryCurrent ==
  recovery_slot = Secondary /\ validate_image(Primary) /\ nxboot_get_confirm
    => hdr[Secondary].crc = hdr[Primary].crc

\* Before the first failure: only the tertiary slot is ever overwritten by a
\* backup.
BackupInv ==
  /\ pc \notin {"confirm_update", "retire_erase"} => RecoveryCurrent
  /\ pc \in CopyPC \cup {"copied"} /\ job = "backup" => st.recovery = Tertiary
  /\ pc \in {"confirm_primary", "confirm_update", "retire_erase"} =>
       hdr[Primary].magic # "INV"

\* A step that leaves the two images alone and confirms neither.
LEMMA CurrentKept ==
  ASSUME RecoveryCurrent,
         \A s \in {Primary, Secondary} :
           /\ hdr'[s] = hdr[s] /\ body'[s] = body[s]
           /\ CONFIRMED \in flags'[s] => CONFIRMED \in flags[s]
  PROVE  RecoveryCurrent'
<1>1. /\ recovery_slot' = Secondary => recovery_slot = Secondary
      /\ nxboot_get_confirm' => nxboot_get_confirm
      /\ validate_image(Primary)' <=> validate_image(Primary)
  BY Zenon DEF recovery_slot, nxboot_get_confirm, get_image_flag,
     validate_image, validate_image_header, calculate_crc, Secondary, Tertiary
<1> QED
  BY <1>1, Zenon DEF RecoveryCurrent

\* A step after which one of them is not confirmed, or not valid.
LEMMA NotCurrent ==
  ASSUME \/ CONFIRMED \notin flags'[Secondary]
         \/ hdr'[Secondary].magic = "none"
         \/ hdr'[Primary].magic = "none"
         \/ CONFIRMED \notin flags'[Primary] /\ hdr'[Primary].magic # "INV"
  PROVE  RecoveryCurrent'
BY Zenon DEF RecoveryCurrent, recovery_slot, nxboot_get_confirm,
   get_image_flag, validate_image, validate_image_header, Secondary, Tertiary

\* The slot a copy to the primary slot has begun is not confirmed.
LEMMA CopyUnconfirmed ==
  ASSUME TypeOK, SafeInv, job # "backup",
         pc \in {"copy_body", "copy_updated", "copy_confirmed"}
  PROVE  /\ Where = Primary /\ CONFIRMED \notin flags[Primary]
         /\ hdr[Primary].magic # "INV"
         /\ hdr[Primary].crc = hdr[From].crc
<1>1. pc \in CopyPC /\ pc # "copy_erase" /\ Where = Primary
  BY Zenon DEF CopyPC, Where
<1>2. /\ hdr[Primary] = CopiedHeader(From) /\ CONFIRMED \notin flags[Primary]
  BY <1>1, Zenon DEF SafeInv, ProgressInv
<1>3. hdr[From].magic = "NXOS"
  BY <1>1, SourceFacts, Zenon
<1> QED
  BY <1>1, <1>2, <1>3, Zenon DEF CopiedHeader

\* The writes of copy_partition: a revert makes the primary image a copy of
\* the recovery image, an update ends unconfirmed.
LEMMA CopyBackup ==
  ASSUME TypeOK, SafeInv, BackupInv, CopyPartition
  PROVE  BackupInv'
<1>1. /\ \A s \in Slot : s # Where =>
           hdr'[s] = hdr[s] /\ body'[s] = body[s] /\ flags'[s] = flags[s]
      /\ pc \in CopyPC /\ UNCHANGED <<st, job, trusted>>
      /\ pc' \in CopyPC \cup {"copied"}
  BY CopyTarget, Zenon
<1>2. RecoveryCurrent
  BY <1>1, Zenon DEF BackupInv, CopyPC
<1>3. Secondary \in Slot /\ Primary \in Slot /\ Primary # Secondary
      /\ Tertiary \notin {Primary, Secondary}
  BY Zenon DEF Slot, Primary, Secondary, Tertiary
<1>4. RecoveryCurrent'
  <2>1. CASE job = "backup"
    <3>1. Where = Tertiary
      BY <1>1, <2>1, Zenon DEF BackupInv, Where
    <3> QED
      BY <1>1, <1>2, <1>3, <3>1, CurrentKept, Zenon
  <2>2. CASE job # "backup" /\ CopyErase
    <3>1. UNCHANGED <<hdr, body>>
          /\ \A s \in Slot : CONFIRMED \in flags'[s] => CONFIRMED \in flags[s]
      BY <2>2, Zenon DEF CopyErase, TypeOK
    <3> QED
      BY <1>2, <1>3, <3>1, CurrentKept, Zenon
  <2>3. CASE job # "backup" /\ CopyHeader
    <3>1. Where = Primary /\ CONFIRMED \notin flags[Primary]
      BY <1>1, <2>3, Zenon DEF CopyHeader, Where, SafeInv, ProgressInv, CopyPC
    <3>2. hdr'[Primary] = CopiedHeader(From) /\ flags' = flags
      BY <1>3, <2>3, <3>1, Zenon DEF CopyHeader, TypeOK
    <3>3. CopiedHeader(From).magic = "NXOS"
      BY <1>1, SourceFacts
    <3> QED
      BY <3>1, <3>2, <3>3, NotCurrent, Zenon
  <2>4. CASE job # "backup" /\ (CopyBody \/ CopyUpdated)
    <3>1. UNCHANGED hdr /\ CONFIRMED \notin flags'[Primary]
          /\ hdr[Primary].magic # "INV"
      BY <2>4, CopyUnconfirmed
      DEF CopyBody, CopyUpdated, CONFIRMED, UPDATED, TypeOK
    <3> QED
      BY <3>1, NotCurrent, Zenon
  <2>5. CASE job # "backup" /\ CopyConfirmed
    <3>1. /\ Where = Primary /\ CONFIRMED \notin flags[Primary]
          /\ hdr[Primary].magic # "INV" /\ hdr[Primary].crc = hdr[From].crc
          /\ UNCHANGED <<hdr, body>>
      BY <2>5, CopyUnconfirmed, Zenon DEF CopyConfirmed
    <3>2. CASE job = "update"
      <4>1. hdr[From].magic = "NXOS" /\ From = st.update
        BY <1>1, <3>2, SourceFacts, Zenon DEF From
      <4>2. flags[From] = {}
        BY <1>1, <3>2, <4>1, Zenon DEF SafeInv, JobInv
      <4>3. flags' = flags
        BY <2>5, <4>1, <4>2, Zenon DEF CopyConfirmed, get_image_flag
      <4> QED
        BY <3>1, <4>3, NotCurrent, Zenon
    <3>3. CASE job = "revert"
      <4>1. From = recovery_slot /\ recovery_slot' = recovery_slot
        BY <1>1, <3>3, TargetOnly, CopyKeepsAnchor, Zenon
        DEF From, SafeInv, JobInv
      <4> QED
        BY <3>1, <4>1, Zenon DEF RecoveryCurrent
    <3> QED
      BY <2>5, <3>2, <3>3, Zenon DEF TypeOK
  <2> QED
    BY <2>1, <2>2, <2>3, <2>4, <2>5, Zenon DEF CopyPartition
<1> QED
  BY <1>1, <1>4, Zenon DEF BackupInv, CopyPC

\* Steps that change no image and confirm nothing.
LEMMA QuietBackup ==
  ASSUME TypeOK, BackupInv, UNCHANGED <<hdr, body>>,
         \A s \in Slot : CONFIRMED \in flags'[s] => CONFIRMED \in flags[s],
         pc \notin {"confirm_update", "retire_erase"},
         pc' \in CopyPC \cup {"copied"} /\ job' = "backup" =>
           st'.recovery = Tertiary,
         pc' \in {"confirm_primary", "confirm_update", "retire_erase"} =>
           hdr[Primary].magic # "INV"
  PROVE  BackupInv'
<1>1. RecoveryCurrent'
  BY CurrentKept, Zenon DEF BackupInv, Slot
<1> QED
  BY <1>1, Zenon DEF BackupInv

\* The bootloader makes a backup only when the recovery slot holds no copy of
\* the confirmed primary image.
LEMMA BootBackup ==
  ASSUME TypeOK, BackupInv,
         BootNone \/ BootRevert \/ BootUpdate \/ Copied \/ MarkUpdated \/ Launch
  PROVE  BackupInv'
<1>1. /\ UNCHANGED <<hdr, body>>
      /\ \A s \in Slot : CONFIRMED \in flags'[s] => CONFIRMED \in flags[s]
  <2>1. CASE MarkUpdated
    BY <2>1, Zenon DEF MarkUpdated, TypeOK, CONFIRMED, UPDATED
  <2> QED
    BY <2>1, Zenon DEF BootNone, BootRevert, BootUpdate, Booting, Copied, Launch
<1>2. /\ pc \in {"off", "copied", "mark", "launch"}
      /\ pc' \in CopyPC \cup {"copied", "mark", "launch", "run", "halt"}
  <2>1. CASE BootNone \/ MarkUpdated \/ Launch
    BY <2>1, Zenon DEF BootNone, Continue, MarkUpdated, Launch
  <2>2. CASE BootRevert
    BY <2>2, Zenon DEF BootRevert, Continue, Copy, CopyPC
  <2>3. CASE BootUpdate
    BY <2>3, Zenon DEF BootUpdate, Continue, Install, Copy, CopyPC
  <2>4. CASE Copied
    BY <2>4, Zenon DEF Copied, Continue, Install, Copy, CopyPC, TypeOK
  <2> QED
    BY <2>1, <2>2, <2>3, <2>4, Zenon
<1>3. ASSUME pc' \in CopyPC \cup {"copied"}, job' = "backup"
      PROVE  st'.recovery = Tertiary
  <2>1. BootUpdate /\ ~LeftAlone /\ NeedsBackup(st') /\ st' = nxboot_get_state
    <3>1. CASE BootNone \/ MarkUpdated \/ Launch
      BY <1>3, <3>1, Zenon DEF BootNone, Continue, MarkUpdated, Launch, CopyPC
    <3>2. CASE BootRevert
      BY <1>3, <3>2, Zenon DEF BootRevert, Continue, Copy, CopyPC
    <3>3. CASE BootUpdate
      BY <1>3, <3>3, Zenon DEF BootUpdate, Continue, Install, Copy, CopyPC
    <3>4. CASE Copied
      BY <1>3, <3>4, Zenon DEF Copied, Continue, Install, Copy, CopyPC, TypeOK
    <3> QED
      BY <3>1, <3>2, <3>3, <3>4, Zenon
  <2>2. pc = "off"
    BY <2>1, Zenon DEF BootUpdate
  <2>3. /\ st'.recovery = recovery_slot
        /\ st'.recovery_valid = recovery_valid(recovery_slot)
        /\ st'.primary_confirmed = nxboot_get_confirm
    BY <2>1, Zenon DEF nxboot_get_state
  <2>4. /\ ~recovery_valid(recovery_slot) /\ nxboot_get_confirm
        /\ validate_image(Primary)
    BY <2>1, <2>3, Zenon DEF NeedsBackup
  <2>5. recovery_slot # Secondary
    <3>1. SUFFICES ASSUME recovery_slot = Secondary PROVE FALSE
      BY Zenon
    <3>2. get_image_flag(Secondary, CONFIRMED) /\ validate_image(Secondary)
      BY <3>1, Zenon DEF recovery_slot, Secondary, Tertiary
    <3>3. hdr[Secondary].crc = hdr[Primary].crc
      BY <2>2, <2>4, <3>1, Zenon DEF BackupInv, RecoveryCurrent
    <3> QED
      BY <2>4, <3>1, <3>2, <3>3, Zenon DEF recovery_valid
  <2> QED
    BY <2>3, <2>5, Zenon DEF recovery_slot
<1> QED
  BY <1>1, <1>2, <1>3, QuietBackup, Zenon DEF CopyPC

\* The application reads the state.
LEMMA StartBackup ==
  ASSUME TypeOK, BackupInv, StartConfirm \/ \E i \in Image : StartUpload(i)
  PROVE  BackupInv'
<1>1. CASE StartConfirm
  <2>1. ~nxboot_get_confirm
    BY <1>1, Zenon DEF StartConfirm, nxboot_get_state
  <2> QED
    BY <1>1, <2>1, QuietBackup, Zenon
    DEF StartConfirm, nxboot_get_confirm, CopyPC
<1>2. CASE \E i \in Image : StartUpload(i)
  BY <1>2, QuietBackup, Zenon DEF StartUpload, CopyPC
<1> QED
  BY <1>1, <1>2, Zenon

\* An upload does not touch the recovery slot.
LEMMA UploadBackup ==
  ASSUME TypeOK, SafeInv, BackupInv, Upload
  PROVE  BackupInv'
<1>1. /\ pc \in UploadPC /\ pc' \in {"upload_header", "upload_body", "run"}
      /\ UNCHANGED st
  BY Zenon DEF Upload, UploadErase, UploadHeader, UploadBody, UploadPC
<1>2. /\ st.update \in {Secondary, Tertiary} /\ st.update # Primary
      /\ Secondary \in Slot /\ Primary \in Slot /\ Tertiary \in Slot
  BY Roles, Zenon DEF SafeInv, Slot
<1>3. /\ \A s \in Slot : s # st.update =>
           hdr'[s] = hdr[s] /\ body'[s] = body[s] /\ flags'[s] = flags[s]
      /\ flags'[st.update] = {}
  BY <1>2, Zenon DEF Upload, UploadErase, UploadHeader, UploadBody, TypeOK,
     SafeInv, ApplicationInv
<1>4. RecoveryCurrent'
  <2>1. CASE st.update = Secondary
    BY <1>3, <2>1, NotCurrent, Zenon
  <2>2. CASE st.update = Tertiary
    <3>1. RecoveryCurrent /\ Secondary # st.update
      BY <1>1, <2>2, Zenon DEF BackupInv, UploadPC, Secondary, Tertiary
    <3> QED
      BY <1>2, <1>3, <3>1, CurrentKept, Zenon
  <2> QED
    BY <1>2, <2>1, <2>2, Zenon
<1> QED
  BY <1>1, <1>4, Zenon DEF BackupInv, CopyPC

\* nxboot_confirm makes the copy in the update slot the recovery before it
\* retires the old one.
LEMMA ConfirmBackup ==
  ASSUME TypeOK, SafeInv, TrialInv, BackupInv, Confirm
  PROVE  BackupInv'
<1>1. UNCHANGED <<hdr, body, st>>
  BY Zenon DEF Confirm, ConfirmPrimary, ConfirmUpdate, RetireErase, RetireMark
<1>2. CASE ConfirmPrimary \/ ConfirmUpdate
  BY <1>1, <1>2, Zenon DEF ConfirmPrimary, ConfirmUpdate, BackupInv, CopyPC
<1>3. CASE RetireErase
  <2>1. /\ pc = "retire_erase" /\ pc' = "retire_mark"
        /\ CopyOf(st.update) /\ hdr[Primary].magic # "INV" /\ Anchor(Primary)
    BY <1>3, Zenon DEF RetireErase, TrialInv, ConfirmingInv, BackupInv, SafeInv,
       ApplicationInv
  <2>2. /\ st.recovery \in Slot /\ Primary \in Slot /\ Secondary \in Slot
        /\ st.recovery # Secondary => st.update = Secondary
    BY Roles, Zenon DEF SafeInv, Slot
  <2>3. CASE st.recovery = Secondary
    <3>1. flags'[Secondary] = {}
      BY <1>3, <2>2, <2>3, Zenon DEF RetireErase, TypeOK
    <3> QED
      BY <1>1, <2>1, <3>1, NotCurrent, Zenon DEF BackupInv, CopyPC
  <2>4. CASE st.recovery # Secondary
    <3>1. /\ hdr[Secondary].img = hdr[Primary].img
          /\ validate_image(Secondary) /\ validate_image(Primary)
      BY <2>1, <2>2, <2>4, Zenon DEF CopyOf, Anchor, TrustedImage
    <3>2. hdr[Secondary].magic = "NXOS" /\ hdr[Primary].magic = "NXOS"
      BY <2>1, <2>2, <3>1, Zenon DEF SafeInv, HeaderInv, validate_image,
         validate_image_header, Primary, Secondary
    <3>3. hdr[Secondary].crc = hdr[Primary].crc
      BY <2>2, <3>1, <3>2, Zenon DEF SafeInv, HeaderInv
    <3> QED
      BY <1>1, <2>1, <3>3, Zenon DEF BackupInv, RecoveryCurrent, CopyPC
  <2> QED
    BY <2>3, <2>4, Zenon
<1>4. CASE RetireMark
  <2>1. \A s \in Slot : CONFIRMED \in flags'[s] => CONFIRMED \in flags[s]
    BY <1>4, Zenon DEF RetireMark, TypeOK, CONFIRMED, UPDATED
  <2> QED
    BY <1>1, <1>4, <2>1, QuietBackup, Zenon DEF RetireMark, CopyPC
<1> QED
  BY <1>2, <1>3, <1>4, Zenon DEF Confirm

\* A reset outside nxboot_confirm.
LEMMA ResetBackup ==
  ASSUME TypeOK, SafeInv, Sheltered, BackupInv, Reset
  PROVE  BackupInv'
<1>1. /\ pc' = "off" /\ TornFlash
      /\ CurrentStage \in Stage \ {"confirm", "retire"}
  BY OptionAssumption, Zenon DEF Reset, Torn, Sheltered, Stage
<1>2. pc \notin {"confirm_primary", "confirm_update"}
  BY <1>1, Zenon DEF CurrentStage
<1>3. pc \notin {"retire_erase", "retire_mark"}
  BY <1>1, Zenon DEF CurrentStage
<1>4. RecoveryCurrent
  BY <1>2, <1>3, Zenon DEF BackupInv
<1>5. /\ Secondary \in Slot /\ Primary \in Slot /\ Tertiary \in Slot
      /\ Primary # Secondary /\ Tertiary \notin {Primary, Secondary}
  BY Zenon DEF Slot, Primary, Secondary, Tertiary
<1>6. RecoveryCurrent'
  <2>1. CASE UNCHANGED <<hdr, body, flags>>
    BY <1>4, <2>1, CurrentKept, Zenon
  <2>2. CASE pc \in CopyPC /\ job = "backup"
    <3>1. Where = Tertiary
      BY <2>2, Zenon DEF BackupInv, Where
    <3> QED
      BY <1>1, <1>4, <1>5, <2>2, <3>1, TornTarget, CurrentKept, Zenon
  <2>3. CASE pc = "copy_erase" /\ job # "backup"
    <3>1. /\ UNCHANGED <<hdr, body>>
          /\ \A s \in Slot : CONFIRMED \in flags'[s] => CONFIRMED \in flags[s]
      BY <1>1, <2>3, CopySlots, Zenon DEF TornFlash, TypeOK
    <3> QED
      BY <1>4, <1>5, <3>1, CurrentKept, Zenon
  <2>4. CASE /\ pc = "copy_header" /\ job # "backup"
             /\ hdr' = [hdr EXCEPT ![Where] = NoHeader]
    <3>1. hdr'[Primary].magic = "none"
      BY <1>5, <2>4, Zenon DEF Where, TypeOK, NoHeader
    <3> QED
      BY <3>1, NotCurrent, Zenon
  <2>5. CASE pc = "copy_body" /\ job # "backup" /\ UNCHANGED <<hdr, flags>>
    BY <2>5, CopyUnconfirmed, NotCurrent, Zenon
  <2>6. CASE /\ hdr' = [hdr EXCEPT ![st.update] = NoHeader] /\ body' = body
             /\ \E left \in SUBSET flags[st.update] :
                  flags' = [flags EXCEPT ![st.update] = left]
    <3>1. st.update \in {Secondary, Tertiary}
      BY Roles, Zenon DEF SafeInv
    <3>2. CASE st.update = Secondary
      <4>1. hdr'[Secondary].magic = "none"
        BY <1>5, <2>6, <3>2, Zenon DEF TypeOK, NoHeader
      <4> QED
        BY <4>1, NotCurrent, Zenon
    <3>3. CASE st.update = Tertiary
      <4>1. \A s \in Slot : s # st.update =>
              hdr'[s] = hdr[s] /\ flags'[s] = flags[s]
        BY <2>6, Zenon DEF TypeOK
      <4> QED
        BY <1>4, <1>5, <2>6, <3>3, <4>1, CurrentKept, Zenon
    <3> QED
      BY <3>1, <3>2, <3>3, Zenon
  <2> QED
    BY <1>1, <1>3, <2>1, <2>2, <2>3, <2>4, <2>5, <2>6, Zenon
    DEF TornFlash, CopyPC
<1> QED
  BY <1>1, <1>6, Zenon DEF BackupInv, CopyPC

\* Every step without a failure keeps what is said about backups.
LEMMA NextBackup ==
  ASSUME TypeOK, SafeInv, TrialInv, Sheltered, BackupInv, ~Fault, [Next]_vars
  PROVE  BackupInv'
<1>1. CASE Bootloader
  BY <1>1, BootBackup, CopyBackup, Zenon DEF Bootloader
<1>2. CASE StartConfirm \/ \E i \in Image : StartUpload(i)
  BY <1>2, StartBackup, Zenon
<1>3. CASE Upload \/ Confirm
  BY <1>3, UploadBackup, ConfirmBackup, Zenon
<1>4. CASE Reset
  BY <1>4, ResetBackup, Zenon
<1>5. CASE \E i \in Reflash : Program(i)
  BY <1>5, Zenon DEF Sheltered
<1>6. CASE UNCHANGED vars
  <2>1. UNCHANGED <<hdr, body, flags, pc, st, job>>
    BY <1>6, Zenon DEF vars
  <2>2. RecoveryCurrent => RecoveryCurrent'
    BY <2>1, CurrentKept, Zenon
  <2> QED
    BY <2>1, <2>2, Zenon DEF BackupInv
<1> QED
  BY <1>1, <1>2, <1>3, <1>4, <1>5, <1>6, Zenon DEF Next

\* Slot s can serve as the recovery.
ConfirmedImage(s) == get_image_flag(s, CONFIRMED) /\ validate_image(s)

\* What the next boot needs to replace an invalid primary image: a confirmed
\* recovery image and an update marked as installed, or a complete update.
RevertReady(r, u) == ConfirmedImage(r) /\ UPDATED \in flags[u]
UpdateReady(u) ==
  flags[u] = {} /\ validate_image(u) /\ hdr[u].img \notin Oversize
Repairable ==
  \/ RevertReady(recovery_slot, Other(recovery_slot))
  \/ UpdateReady(Other(recovery_slot))

\* A copy to the primary slot can be done again.
JobKept ==
  pc \in CopyPC =>
    /\ job = "revert" => /\ st.recovery = recovery_slot
                         /\ RevertReady(st.recovery, st.update)
    /\ job = "update" => st.recovery = recovery_slot /\ UpdateReady(st.update)
    /\ job = "backup" => /\ nxboot_get_confirm /\ validate_image(Primary)
                         /\ flags[st.update] = {} /\ validate_image(st.update)

CopiedSoFar ==
  /\ pc \in {"copy_body", "copy_updated", "copy_confirmed"} =>
       /\ hdr[Where] = CopiedHeader(From)
       /\ \A b \in 1..off : body[Where][b] = body[From][b]
  /\ pc \in {"copy_updated", "copy_confirmed"} => off = N

\* A copy has ended, completely or not.
CopyEnded ==
  /\ pc = "copied" /\ job = "revert" => validate_image(Primary) \/ Repairable
  /\ (pc = "copied" /\ job = "update") \/ pc = "mark" =>
       \/ validate_image(Primary)
       \/ /\ st.recovery = recovery_slot
          /\ ConfirmedImage(st.recovery)
          /\ UpdateReady(st.update)
  /\ pc = "copied" /\ job = "backup" =>
       /\ validate_image(Primary)
       /\ flags[st.update] = {} /\ validate_image(st.update)
       /\ validate_image(st.recovery) => st.recovery = recovery_slot

\* After the failure: an invalid primary image is not started, and what
\* replaces it is kept.
FaultInv ==
  /\ RoleInv
  /\ JobKept
  /\ CopiedSoFar
  /\ CopyEnded
  /\ pc \in {"off", "launch", "halt"} => validate_image(Primary) \/ Repairable
  /\ pc \notin CopyPC \cup {"off", "launch", "halt", "copied", "mark"} =>
       validate_image(Primary)

\* What is ready in the two slots depends on them alone.
LEMMA SlotReady ==
  ASSUME NEW s, hdr'[s] = hdr[s], body'[s] = body[s], flags'[s] = flags[s]
  PROVE  /\ validate_image(s)' <=> validate_image(s)
         /\ ConfirmedImage(s)' <=> ConfirmedImage(s)
         /\ UpdateReady(s)' <=> UpdateReady(s)
BY Zenon DEF ConfirmedImage, UpdateReady, get_image_flag, validate_image,
   validate_image_header, calculate_crc

\* A step that leaves both of them alone keeps the repair.
LEMMA ReadyKept ==
  ASSUME \A s \in {Secondary, Tertiary} :
           hdr'[s] = hdr[s] /\ body'[s] = body[s] /\ flags'[s] = flags[s]
  PROVE  /\ recovery_slot' = recovery_slot
         /\ Repairable' <=> Repairable
         /\ \A r \in {Secondary, Tertiary} : \A u \in {Secondary, Tertiary} :
              RevertReady(r, u)' <=> RevertReady(r, u)
<1>1. recovery_slot' = recovery_slot
  BY Zenon DEF recovery_slot, get_image_flag, validate_image,
     validate_image_header, calculate_crc
<1>2. \A r \in {Secondary, Tertiary} : \A u \in {Secondary, Tertiary} :
        RevertReady(r, u)' <=> RevertReady(r, u)
  BY SlotReady, Zenon DEF RevertReady
<1>3. PICK r \in {Secondary, Tertiary} : r = recovery_slot
  BY Zenon DEF recovery_slot
<1>4. PICK u \in {Secondary, Tertiary} : u = Other(r)
  BY Zenon DEF Other
<1>5. Repairable <=> RevertReady(r, u) \/ UpdateReady(u)
  BY <1>3, <1>4, Zenon DEF Repairable
<1>6. Repairable' <=> RevertReady(r, u)' \/ UpdateReady(u)'
  BY <1>1, <1>3, <1>4, Zenon DEF Repairable, RevertReady, UpdateReady,
     ConfirmedImage, get_image_flag, validate_image, validate_image_header,
     calculate_crc, Other
<1>7. UpdateReady(u)' <=> UpdateReady(u)
  BY SlotReady, Zenon
<1> QED
  BY <1>1, <1>2, <1>5, <1>6, <1>7, Zenon

\* At every moment the primary image is valid or can be replaced.
LEMMA AlwaysRepairable ==
  ASSUME TypeOK, FaultInv
  PROVE  validate_image(Primary) \/ Repairable
<1>1. st.recovery = recovery_slot => Other(recovery_slot) = st.update
  BY Zenon DEF FaultInv, RoleInv
<1>2. CASE pc \in CopyPC
  BY <1>1, <1>2, Zenon DEF FaultInv, JobKept, Repairable, TypeOK
<1>3. CASE pc \in {"copied", "mark"}
  BY <1>1, <1>3, Zenon DEF FaultInv, CopyEnded, Repairable, TypeOK
<1> QED
  BY <1>2, <1>3, Zenon DEF FaultInv

\* A complete copy of a valid image is valid.
LEMMA CompleteCopy ==
  ASSUME TypeOK, CopiedSoFar, validate_image(From),
         pc \in {"copy_updated", "copy_confirmed"}
  PROVE  validate_image(Where)
<1>1. hdr[Where] = CopiedHeader(From) /\ off = N
  BY Zenon DEF CopiedSoFar
<1>2. body[Where] = body[From]
  <2>1. body[Where] \in Body /\ body[From] \in Body
    BY CopySlots, Zenon DEF TypeOK
  <2>2. \A b \in Blocks : body[Where][b] = body[From][b]
    BY <1>1, Zenon DEF CopiedSoFar, Blocks
  <2> QED
    BY <2>1, <2>2 DEF Body
<1>3. hdr[From] \in Header
  BY CopySlots, Zenon DEF TypeOK
<1>4. CASE hdr[From].magic = "INV"
  <2>1. hdr[Where].magic = "NXOS" /\ hdr[Where].crc = body[From]
    BY <1>1, <1>3, <1>4, Zenon DEF CopiedHeader, calculate_crc, Header
  <2> QED
    BY <1>2, <2>1, Zenon
    DEF validate_image, validate_image_header, calculate_crc
<1>5. CASE hdr[From].magic # "INV"
  <2>1. hdr[Where] = hdr[From]
    BY <1>1, <1>5, Zenon DEF CopiedHeader
  <2> QED
    BY <1>2, <2>1, Zenon
    DEF validate_image, validate_image_header, calculate_crc
<1> QED
  BY <1>4, <1>5, Zenon

\* A write of copy_partition: the source, and what can replace the primary
\* image, stay as they are.
LEMMA CopyKeepsJob ==
  ASSUME TypeOK, RoleInv, JobKept, pc \in CopyPC, UNCHANGED <<st, job>>,
         \A s \in Slot : s # Where =>
           hdr'[s] = hdr[s] /\ body'[s] = body[s] /\ flags'[s] = flags[s]
  PROVE  /\ job # "backup" => /\ recovery_slot' = recovery_slot
                              /\ Repairable' <=> Repairable
                              /\ st.recovery = recovery_slot
         /\ job = "revert" => RevertReady(st.recovery, st.update)'
         /\ job = "update" => /\ ConfirmedImage(st.recovery)' <=>
                                   ConfirmedImage(st.recovery)
                              /\ UpdateReady(st.update)'
         /\ job = "backup" => /\ nxboot_get_confirm' /\ validate_image(Primary)'
                              /\ flags'[st.update] = {}
                              /\ validate_image(st.update)'
<1>1. PICK r \in {Secondary, Tertiary} : r = st.recovery
  BY Roles, Zenon
<1>2. PICK u \in {Secondary, Tertiary} : u = st.update
  BY Roles, Zenon
<1>3. r \in Slot /\ u \in Slot /\ Primary \in Slot /\ r # u
      /\ r # Primary /\ u # Primary
      /\ Secondary \in Slot /\ Tertiary \in Slot
      /\ Primary \notin {Secondary, Tertiary}
  BY <1>1, <1>2, Roles, Zenon DEF Slot
<1>4. ASSUME job # "backup"
      PROVE  /\ recovery_slot' = recovery_slot
             /\ Repairable' <=> Repairable
             /\ RevertReady(r, u)' <=> RevertReady(r, u)
             /\ ConfirmedImage(r)' <=> ConfirmedImage(r)
             /\ UpdateReady(u)' <=> UpdateReady(u)
  <2>1. Where = Primary
    BY <1>4, Zenon DEF Where
  <2>2. \A s \in {Secondary, Tertiary} :
          hdr'[s] = hdr[s] /\ body'[s] = body[s] /\ flags'[s] = flags[s]
    BY <1>3, <2>1, Zenon
  <2> QED
    BY <2>2, ReadyKept, SlotReady, Zenon
<1>5. ASSUME job = "backup"
      PROVE  /\ nxboot_get_confirm' /\ validate_image(Primary)'
             /\ flags'[u] = {} /\ validate_image(u)'
  <2>1. Where = r
    BY <1>1, <1>5, Zenon DEF Where
  <2>2. \A s \in {Primary, u} :
          hdr'[s] = hdr[s] /\ body'[s] = body[s] /\ flags'[s] = flags[s]
    BY <1>3, <2>1, Zenon
  <2>3. /\ nxboot_get_confirm /\ validate_image(Primary)
        /\ flags[u] = {} /\ validate_image(u)
    BY <1>2, <1>5, Zenon DEF JobKept
  <2>4. nxboot_get_confirm'
    BY <2>2, <2>3, Zenon DEF nxboot_get_confirm, get_image_flag
  <2> QED
    BY <2>2, <2>3, <2>4, SlotReady, Zenon
<1>6. /\ RevertReady(st.recovery, st.update)' <=> RevertReady(r, u)'
      /\ ConfirmedImage(st.recovery)' <=> ConfirmedImage(r)'
      /\ UpdateReady(st.update)' <=> UpdateReady(u)'
      /\ validate_image(st.update)' <=> validate_image(u)'
  BY <1>1, <1>2, Zenon DEF RevertReady, ConfirmedImage, UpdateReady,
     get_image_flag, validate_image, validate_image_header, calculate_crc
<1>7. /\ job = "revert" => st.recovery = recovery_slot /\ RevertReady(r, u)
      /\ job = "update" => st.recovery = recovery_slot /\ UpdateReady(u)
  BY <1>1, <1>2, Zenon DEF JobKept
<1>8. job \in {"revert", "backup", "update"}
  BY Zenon DEF TypeOK
<1> QED
  BY <1>1, <1>2, <1>4, <1>5, <1>6, <1>7, <1>8, Zenon

\* The image being copied is valid.
LEMMA SourceValid ==
  ASSUME TypeOK, RoleInv, JobKept, pc \in CopyPC
  PROVE  /\ validate_image(From) /\ From # Where
         /\ From \in Slot /\ Where \in Slot
<1>1. CASE job = "revert"
  BY <1>1, Roles, Zenon DEF From, Where, JobKept, RevertReady, ConfirmedImage
<1>2. CASE job = "update"
  BY <1>2, Roles, Zenon DEF From, Where, JobKept, UpdateReady
<1>3. CASE job = "backup"
  BY <1>3, Roles, Zenon DEF From, Where, JobKept
<1> QED
  BY <1>1, <1>2, <1>3, Zenon DEF TypeOK

\* What has been copied so far stays a copy.
LEMMA CopyProgress ==
  ASSUME TypeOK, RoleInv, JobKept, CopiedSoFar, CopyPartition
  PROVE  CopiedSoFar'
<1>1. /\ \A s \in Slot : s # Where =>
           hdr'[s] = hdr[s] /\ body'[s] = body[s] /\ flags'[s] = flags[s]
      /\ pc \in CopyPC /\ UNCHANGED <<st, job>>
  BY CopyTarget, Zenon
<1>2. /\ From # Where /\ From \in Slot /\ Where \in Slot
      /\ Where' = Where /\ From' = From
  BY <1>1, SourceValid, Zenon DEF Where, From
<1>3. /\ hdr'[From] = hdr[From] /\ body'[From] = body[From]
      /\ CopiedHeader(From)' = CopiedHeader(From)
  BY <1>1, <1>2, Zenon DEF CopiedHeader, calculate_crc
<1>4. CASE CopyErase
  BY <1>4, Zenon DEF CopyErase, CopiedSoFar
<1>5. CASE CopyHeader
  <2>1. /\ pc' = "copy_body" /\ off' = 0
        /\ hdr'[Where] = CopiedHeader(From)
    BY <1>2, <1>5, Zenon DEF CopyHeader, TypeOK
  <2>2. \A b \in 1..off' : FALSE
    BY <2>1
  <2> QED
    BY <1>2, <1>3, <2>1, <2>2, Zenon DEF CopiedSoFar
<1>6. CASE CopyBody
  <2>1. /\ UNCHANGED hdr /\ pc = "copy_body"
        /\ pc' \in {"copy_body", "copy_updated"}
        /\ off' = off + 1 /\ off \in 0..N /\ off < N
        /\ pc' = "copy_updated" => off' = N
    BY <1>6, NAssumption DEF CopyBody, TypeOK
  <2>2. body'[Where] = [body[Where] EXCEPT ![off + 1] = body[From][off + 1]]
    BY <1>2, <1>6, Zenon DEF CopyBody, TypeOK
  <2>3. ASSUME NEW b \in 1..off'
        PROVE  body'[Where][b] = body'[From][b]
    <3>1. body[Where] \in Body /\ b \in Blocks /\ (b \in 1..off \/ b = off + 1)
      BY <1>2, <2>1, NAssumption DEF TypeOK, Blocks
    <3>2. b \in 1..off => body[Where][b] = body[From][b]
      BY <2>1, Zenon DEF CopiedSoFar
    <3> QED
      BY <1>3, <2>2, <3>1, <3>2, Zenon DEF Body
  <2> QED
    BY <1>2, <1>3, <2>1, <2>3, Zenon DEF CopiedSoFar
<1>7. CASE CopyUpdated \/ CopyConfirmed
  <2>1. /\ UNCHANGED <<hdr, body, off>> /\ pc' \in {"copy_confirmed", "copied"}
        /\ pc \in {"copy_updated", "copy_confirmed"}
    BY <1>7, Zenon DEF CopyUpdated, CopyConfirmed
  <2> QED
    BY <1>2, <1>3, <2>1, Zenon DEF CopiedSoFar
<1> QED
  BY <1>4, <1>5, <1>6, <1>7, Zenon DEF CopyPartition

\* copy_partition, when no further write fails.
LEMMA CopyRepairs ==
  ASSUME TypeOK, FaultInv, CopyPartition
  PROVE  FaultInv'
<1> USE DEF FaultInv
<1>1. /\ \A s \in Slot : s # Where =>
           hdr'[s] = hdr[s] /\ body'[s] = body[s] /\ flags'[s] = flags[s]
      /\ pc \in CopyPC /\ UNCHANGED <<st, job>>
      /\ pc' \in CopyPC \cup {"copied"}
  BY CopyTarget, Zenon
<1>2. RoleInv' /\ CopiedSoFar'
  BY <1>1, SameRoles, CopyProgress, Zenon
<1>3. JobKept'
  BY <1>1, CopyKeepsJob, Zenon DEF JobKept
<1>4. ASSUME pc' = "copied"
      PROVE  CopyEnded'
  <2>1. CopyConfirmed
    BY <1>4, Zenon
    DEF CopyPartition, CopyErase, CopyHeader, CopyBody, CopyUpdated
  <2>2. UNCHANGED <<hdr, body>> /\ pc = "copy_confirmed"
    BY <2>1, Zenon DEF CopyConfirmed
  <2>3. validate_image(Where)
    BY <1>1, <2>2, SourceValid, CompleteCopy, Zenon
  <2>4. \A s : validate_image(s)' <=> validate_image(s)
    BY <2>2, Zenon DEF validate_image, validate_image_header, calculate_crc
  <2>5. CASE job # "backup"
    <3>1. validate_image(Primary)'
      BY <2>3, <2>4, <2>5, Zenon DEF Where
    <3> QED
      BY <1>1, <1>4, <2>5, <3>1, Zenon DEF CopyEnded
  <2>6. CASE job = "backup"
    <3>1. /\ nxboot_get_confirm /\ From = Primary /\ Where = st.recovery
          /\ validate_image(Primary)' /\ flags'[st.update] = {}
          /\ validate_image(st.update)'
      BY <1>1, <2>6, CopyKeepsJob, Zenon DEF JobKept, From, Where
    <3>2. CONFIRMED \in flags'[st.recovery]
      BY <2>1, <3>1, CopySlots, Zenon
      DEF CopyConfirmed, TypeOK, nxboot_get_confirm
    <3>3. st.recovery = recovery_slot'
      <4>1. CASE st.recovery = Secondary
        BY <2>3, <2>4, <3>1, <3>2, <4>1, Zenon DEF recovery_slot, get_image_flag
      <4>2. CASE st.recovery # Secondary
        <5>1. st.recovery = Tertiary /\ st.update = Secondary
          BY <4>2, Roles, Zenon
        <5> QED
          BY <3>1, <5>1, Zenon DEF recovery_slot, get_image_flag
      <4> QED
        BY <4>1, <4>2, Zenon
    <3> QED
      BY <1>1, <1>4, <2>6, <3>1, <3>3, Zenon DEF CopyEnded
  <2> QED
    BY <2>5, <2>6, Zenon
<1>5. CopyEnded'
  BY <1>1, <1>4, Zenon DEF CopyEnded, CopyPC
<1> QED
  BY <1>1, <1>2, <1>3, <1>5, Zenon DEF CopyPC

\* A step that changes no slot keeps what is ready.
LEMMA SameReady ==
  ASSUME UNCHANGED <<hdr, body, flags>>
  PROVE  /\ recovery_slot' = recovery_slot /\ (Repairable' <=> Repairable)
         /\ \A s : validate_image(s)' <=> validate_image(s)
         /\ \A s : ConfirmedImage(s)' <=> ConfirmedImage(s)
         /\ \A s : UpdateReady(s)' <=> UpdateReady(s)
         /\ \A r : \A u : RevertReady(r, u)' <=> RevertReady(r, u)
         /\ nxboot_get_confirm' <=> nxboot_get_confirm
<1>1. /\ \A s : validate_image(s)' <=> validate_image(s)
      /\ \A s : ConfirmedImage(s)' <=> ConfirmedImage(s)
      /\ \A s : UpdateReady(s)' <=> UpdateReady(s)
  BY SlotReady, Zenon
<1>2. \A r : \A u : RevertReady(r, u)' <=> RevertReady(r, u)
  BY <1>1, Zenon DEF RevertReady
<1>3. nxboot_get_confirm' <=> nxboot_get_confirm
  BY Zenon DEF nxboot_get_confirm, get_image_flag
<1> QED
  BY <1>1, <1>2, <1>3, ReadyKept, Zenon

\* nxboot_perform_update begins: a copy to the primary slot is one the next
\* boot can repeat.
LEMMA BootRepairs ==
  ASSUME TypeOK, FaultInv, BootNone \/ BootRevert \/ BootUpdate
  PROVE  FaultInv'
<1> DEFINE r == recovery_slot
           u == Other(recovery_slot)
<1>1. /\ st' = nxboot_get_state /\ UNCHANGED <<hdr, body, flags>>
      /\ pc = "off"
  BY Zenon DEF BootNone, BootRevert, BootUpdate, Booting
<1>2. /\ RoleInv' /\ st'.recovery = r /\ st'.update = u
      /\ r' = r /\ u \in Slot
  BY <1>1, ReadRoles, SameReady, Zenon
<1>3. validate_image(Primary) \/ Repairable
  BY <1>1, Zenon DEF FaultInv
<1>4. /\ Repairable' <=> Repairable
      /\ validate_image(Primary)' <=> validate_image(Primary)
      /\ validate_image(st.update)' <=> validate_image(u)
      /\ ConfirmedImage(st.recovery)' <=> ConfirmedImage(r)
      /\ UpdateReady(st.update)' <=> UpdateReady(u)
      /\ RevertReady(st.recovery, st.update)' <=> RevertReady(r, u)
      /\ nxboot_get_confirm' <=> nxboot_get_confirm
      /\ flags'[st'.update] = flags[u]
  <2>1. /\ validate_image(st.update)' <=> validate_image(u)'
        /\ ConfirmedImage(st.recovery)' <=> ConfirmedImage(r)'
        /\ UpdateReady(st.update)' <=> UpdateReady(u)'
        /\ RevertReady(st.recovery, st.update)' <=> RevertReady(r, u)'
    BY <1>2, Zenon DEF validate_image, ConfirmedImage, UpdateReady, RevertReady,
       get_image_flag, validate_image_header, calculate_crc
  <2> QED
    BY <1>1, <1>2, <2>1, SameReady, Zenon
<1>5. CASE pc' = "launch"
  BY <1>2, <1>3, <1>4, <1>5, Zenon
  DEF FaultInv, JobKept, CopiedSoFar, CopyEnded, CopyPC
<1>6. CASE BootRevert /\ pc' # "launch"
  <2>1. /\ st'.next_boot = "revert" /\ job' = "revert"
        /\ pc' \in {"copied", "copy_erase"}
    BY <1>6, Zenon DEF BootRevert, Copy, Continue
  <2>2. RevertReady(r, u)
    BY <1>1, <2>1, GetStateType, Zenon DEF get_update_type, Revertible,
       RevertReady, ConfirmedImage, get_image_flag
  <2> QED
    BY <1>2, <1>4, <2>1, <2>2, Zenon
    DEF FaultInv, JobKept, CopiedSoFar, CopyEnded, CopyPC, Repairable
<1>7. CASE BootUpdate /\ pc' # "launch"
  <2>1. ~LeftAlone
    BY <1>7, Zenon DEF BootUpdate, Continue
  <2>2. Installable(u) /\ ~Revertible(u, r)
    BY <1>7, <2>1, UpdateDecided, Zenon
  <2>3. validate_image(u) /\ flags[u] = {}
    <3>1. flags[u] \subseteq Flag
      BY <1>2, Zenon DEF TypeOK
    <3> QED
      BY <2>2, <3>1, Zenon DEF Installable, get_image_flag, Flag
  <2>4. CASE NeedsBackup(st')
    <3>1. job' = "backup" /\ pc' = "copy_erase"
      BY <1>7, <2>1, <2>4, Zenon DEF BootUpdate, Copy
    <3>2. validate_image(Primary) /\ nxboot_get_confirm
      BY <1>1, <2>4, GetStateType, Zenon DEF NeedsBackup
    <3> QED
      BY <1>2, <1>4, <2>3, <3>1, <3>2, Zenon
      DEF FaultInv, JobKept, CopiedSoFar, CopyEnded, CopyPC
  <2>5. CASE ~NeedsBackup(st')
    <3>1. /\ job' = "update" /\ pc' \in {"copied", "copy_erase"}
          /\ pc' = "copied" <=> hdr[u].img \in Oversize
      BY <1>2, <1>7, <2>1, <2>5, Zenon DEF BootUpdate, Install, Copy, Continue
    <3>2. UpdateReady(u) \/ validate_image(Primary)
      <4>1. ~validate_image(Primary) => ~RevertReady(r, u)
        BY <2>2, Zenon DEF RevertReady, ConfirmedImage, Revertible,
           get_image_flag
      <4> QED
        BY <1>3, <4>1, Zenon DEF Repairable
    <3>3. pc' = "copy_erase" => UpdateReady(u)
      BY <2>3, <3>1, Zenon DEF UpdateReady
    <3>4. pc' = "copied" => validate_image(Primary)
      BY <3>1, <3>2, Zenon DEF UpdateReady
    <3> QED
      BY <1>2, <1>4, <3>1, <3>3, <3>4, Zenon
      DEF FaultInv, JobKept, CopiedSoFar, CopyEnded, CopyPC
  <2> QED
    BY <2>4, <2>5, Zenon
<1>8. CASE BootNone
  BY <1>5, <1>8, Zenon DEF BootNone, Continue
<1> QED
  BY <1>5, <1>6, <1>7, <1>8, Zenon

\* After a copy, whether it succeeded or not.
LEMMA CopiedRepairs ==
  ASSUME TypeOK, FaultInv, Copied
  PROVE  FaultInv'
<1>1. UNCHANGED <<hdr, body, flags, st>> /\ pc = "copied"
  BY Zenon DEF Copied
<1>2. /\ RoleInv' /\ recovery_slot' = recovery_slot
      /\ Repairable' <=> Repairable
      /\ \A s : validate_image(s)' <=> validate_image(s)
      /\ \A s : ConfirmedImage(s)' <=> ConfirmedImage(s)
      /\ \A s : UpdateReady(s)' <=> UpdateReady(s)
  BY <1>1, SameReady, SameRoles, Zenon DEF FaultInv
<1>3. /\ validate_image(st.update)' <=> validate_image(st.update)
      /\ ConfirmedImage(st.recovery)' <=> ConfirmedImage(st.recovery)
      /\ UpdateReady(st.update)' <=> UpdateReady(st.update)
  BY <1>1, Zenon DEF validate_image, ConfirmedImage, UpdateReady,
     get_image_flag, validate_image_header, calculate_crc
<1>4. validate_image(Primary) \/ Repairable
  BY AlwaysRepairable, Zenon
<1>5. CASE pc' = "launch"
  BY <1>2, <1>4, <1>5, Zenon
  DEF FaultInv, JobKept, CopiedSoFar, CopyEnded, CopyPC
<1>6. CASE job = "revert"
  BY <1>5, <1>6, Zenon DEF Copied, Continue
<1>7. CASE job = "update"
  <2>1. pc' = "mark"
    BY <1>7, Zenon DEF Copied
  <2>2. \/ validate_image(Primary)
        \/ /\ st.recovery = recovery_slot /\ ConfirmedImage(st.recovery)
           /\ UpdateReady(st.update)
    BY <1>1, <1>7, Zenon DEF FaultInv, CopyEnded
  <2> QED
    BY <1>1, <1>2, <1>3, <2>1, <2>2, Zenon
    DEF FaultInv, JobKept, CopiedSoFar, CopyEnded, CopyPC
<1>8. CASE job = "backup" /\ pc' # "launch"
  <2>1. /\ validate_image(Primary) /\ flags[st.update] = {}
        /\ validate_image(st.update)
        /\ validate_image(st.recovery) => st.recovery = recovery_slot
    BY <1>1, <1>8, Zenon DEF FaultInv, CopyEnded
  <2>2. /\ validate_image(st.recovery) /\ job' = "update"
        /\ pc' \in {"copied", "copy_erase"}
        /\ pc' = "copied" <=> hdr[st.update].img \in Oversize
    BY <1>8, Zenon DEF Copied, Install, Copy, Continue
  <2>3. pc' = "copy_erase" => UpdateReady(st.update)
    BY <2>1, <2>2, Zenon DEF UpdateReady
  <2> QED
    BY <1>1, <1>2, <1>3, <2>1, <2>2, <2>3, Zenon
    DEF FaultInv, JobKept, CopiedSoFar, CopyEnded, CopyPC
<1> QED
  BY <1>5, <1>6, <1>7, <1>8, Zenon DEF TypeOK

\* The installed update is marked: with a confirmed recovery image the next
\* boot can revert a copy that failed.
LEMMA MarkRepairs ==
  ASSUME TypeOK, FaultInv, MarkUpdated
  PROVE  FaultInv'
<1>1. /\ UNCHANGED <<hdr, body, st>> /\ pc = "mark" /\ pc' = "launch"
      /\ flags' = [flags EXCEPT ![st.update] = @ \cup {UPDATED}]
  BY Zenon DEF MarkUpdated
<1>2. /\ \A s : validate_image(s)' <=> validate_image(s)
      /\ RoleInv' /\ RoleInv
  BY <1>1, SameRoles, Zenon DEF FaultInv, validate_image, validate_image_header,
     calculate_crc
<1>3. ASSUME ~validate_image(Primary)
      PROVE  Repairable'
  <2>1. st.recovery = recovery_slot /\ ConfirmedImage(st.recovery)
    BY <1>1, <1>3, Zenon DEF FaultInv, CopyEnded
  <2>2. PICK r \in Slot : r = st.recovery
    BY <1>2, Roles, Zenon
  <2>3. PICK u \in Slot : u = st.update /\ u # r
    BY <1>2, <2>2, Roles, Zenon
  <2>4. UPDATED \in flags'[u] /\ flags'[r] = flags[r]
    BY <1>1, <2>2, <2>3, Zenon DEF TypeOK
  <2>5. recovery_slot' = r
    <3>1. \A s \in Slot : CONFIRMED \in flags'[s] <=> CONFIRMED \in flags[s]
      BY <1>1, Zenon DEF TypeOK, CONFIRMED, UPDATED
    <3>2. recovery_slot' = recovery_slot
      BY <1>1, <3>1, SameRecoverySlot, Zenon DEF SameImage, Slot
    <3> QED
      BY <2>1, <2>2, <3>2, Zenon
  <2>6. Other(recovery_slot)' = u
    BY <1>2, <2>2, <2>3, <2>5, Zenon DEF RoleInv, Other
  <2>7. ConfirmedImage(r)'
    BY <1>2, <2>1, <2>2, <2>4, Zenon DEF ConfirmedImage, get_image_flag
  <2>8. RevertReady(recovery_slot, Other(recovery_slot))' <=> RevertReady(r, u)'
    BY <2>5, <2>6, Zenon DEF RevertReady, ConfirmedImage, get_image_flag,
       validate_image, validate_image_header, calculate_crc
  <2> QED
    BY <2>4, <2>7, <2>8, Zenon DEF Repairable, RevertReady
<1> QED
  BY <1>1, <1>2, <1>3, Zenon
  DEF FaultInv, JobKept, CopiedSoFar, CopyEnded, CopyPC

\* What is not an image does not come up, and an application that runs leaves
\* the primary image alone.
LEMMA RunRepairs ==
  ASSUME TypeOK, FaultInv,
         \/ Launch \/ StartConfirm \/ \E i \in Image : StartUpload(i)
         \/ Upload \/ Confirm
  PROVE  FaultInv'
<1>1. RoleInv /\ (UNCHANGED st \/ st' = nxboot_get_state)
  BY Zenon DEF FaultInv, Launch, StartConfirm, StartUpload, Upload, UploadErase,
     UploadHeader, UploadBody, Confirm, ConfirmPrimary, ConfirmUpdate,
     RetireErase, RetireMark
<1>2. RoleInv' /\ st.update \in Slot /\ st.update # Primary
  BY <1>1, SameRoles, ReadRoles, Roles, Zenon
<1>3. CASE Launch
  <2>1. /\ UNCHANGED <<hdr, body, flags>> /\ pc = "launch"
        /\ pc' = IF validate_image(Primary) THEN "run" ELSE "halt"
    BY <1>3, Zenon DEF Launch
  <2>2. validate_image(Primary) \/ Repairable
    BY AlwaysRepairable, Zenon
  <2> QED
    BY <1>2, <2>1, <2>2, SameReady, Zenon
    DEF FaultInv, JobKept, CopiedSoFar, CopyEnded, CopyPC
<1>4. CASE ~Launch
  <2>1. /\ pc \notin CopyPC \cup {"off", "launch", "halt", "copied", "mark"}
        /\ pc' \notin CopyPC \cup {"off", "launch", "halt", "copied", "mark"}
    BY <1>4, Zenon
    DEF StartConfirm, StartUpload, Upload, UploadErase, UploadHeader,
        UploadBody, Confirm, ConfirmPrimary, ConfirmUpdate, RetireErase,
        RetireMark, CopyPC
  <2>2. hdr'[Primary] = hdr[Primary] /\ body'[Primary] = body[Primary]
    BY <1>2, <1>4, Zenon
    DEF StartConfirm, StartUpload, Upload, UploadErase, UploadHeader,
        UploadBody, Confirm, ConfirmPrimary, ConfirmUpdate, RetireErase,
        RetireMark, TypeOK, Slot
  <2>3. validate_image(Primary)'
    BY <2>1, <2>2, Zenon
    DEF FaultInv, validate_image, validate_image_header, calculate_crc
  <2> QED
    BY <1>2, <2>1, <2>3, Zenon
    DEF FaultInv, JobKept, CopiedSoFar, CopyEnded, CopyPC
<1> QED
  BY <1>3, <1>4, Zenon

\* A reset finds a valid primary image or what replaces it.
LEMMA ResetRepairs ==
  ASSUME TypeOK, FaultInv, Reset
  PROVE  FaultInv'
<1>1. pc' = "off" /\ TornFlash /\ UNCHANGED <<st, job>> /\ RoleInv
  BY Zenon DEF Reset, Torn, FaultInv
<1>2. validate_image(Primary) \/ Repairable
  BY AlwaysRepairable, Zenon
<1>3. validate_image(Primary)' \/ Repairable'
  <2>1. CASE UNCHANGED <<hdr, body, flags>>
    BY <1>2, <2>1, SameReady, Zenon
  <2>2. CASE pc \in CopyPC
    <3>1. \A s \in Slot : s # Where =>
            hdr'[s] = hdr[s] /\ body'[s] = body[s] /\ flags'[s] = flags[s]
      BY <1>1, <2>2, TornTarget, Zenon
    <3>2. /\ job # "backup" => (Repairable' <=> Repairable)
          /\ job = "backup" => validate_image(Primary)'
          /\ job # "backup" => Repairable
      <4>1. st.recovery = recovery_slot => Other(recovery_slot) = st.update
        BY <1>1, Zenon DEF RoleInv
      <4>2. job # "backup" => Repairable
        BY <2>2, <4>1, Zenon DEF FaultInv, JobKept, Repairable, TypeOK
      <4> QED
        BY <1>1, <2>2, <3>1, <4>2, CopyKeepsJob, Zenon DEF FaultInv
    <3> QED
      BY <3>2, Zenon
  <2>3. CASE pc \in {"retire_erase", "upload_erase"}
    <3>1. validate_image(Primary)
      BY <2>3, Zenon DEF FaultInv, CopyPC
    <3>2. hdr'[Primary] = hdr[Primary] /\ body'[Primary] = body[Primary]
      BY <1>1, <2>3, Roles, Zenon DEF TornFlash, TypeOK
    <3> QED
      BY <3>1, <3>2, Zenon
      DEF validate_image, validate_image_header, calculate_crc
  <2> QED
    BY <1>1, <2>1, <2>2, <2>3, Zenon DEF TornFlash, CopyPC
<1> QED
  BY <1>1, <1>3, SameRoles, Zenon
  DEF FaultInv, JobKept, CopiedSoFar, CopyEnded, CopyPC

\* Before the first failure a copy has what it takes to be done again.
LEMMA SafeJob ==
  ASSUME TypeOK, SafeInv
  PROVE  JobKept /\ CopiedSoFar
<1> USE Roles DEF SafeInv
<1>1. CopiedSoFar
  BY Zenon DEF ProgressInv, CopiedSoFar
<1>2. ASSUME Anchor(st.recovery) PROVE ConfirmedImage(st.recovery)
  BY <1>2, AnchorFacts, Zenon DEF ConfirmedImage, get_image_flag
<1>3. ASSUME Anchor(Primary) PROVE nxboot_get_confirm /\ validate_image(Primary)
  BY <1>3, Zenon DEF Anchor, TrustedImage, nxboot_get_confirm
<1>4. JobKept
  BY <1>2, <1>3, Zenon DEF JobInv, JobKept, RevertReady, UpdateReady, CopyPC
<1> QED
  BY <1>1, <1>4, Zenon

\* The first write that fails: copy_partition gives up or goes on without a
\* flag, the failure to mark the update goes unnoticed, nxboot_confirm returns
\* an error.
LEMMA FirstFault ==
  ASSUME TypeOK, SafeInv, BackupInv, Fault
  PROVE  FaultInv'
<1> USE DEF SafeInv
<1>1. TornFlash /\ UNCHANGED <<st, job, off>>
  BY Zenon DEF Fault, Torn
<1>2. RoleInv' /\ JobKept /\ CopiedSoFar
  BY <1>1, SameRoles, SafeJob, Zenon
<1>3. CASE pc \in CopyPC /\ pc' = "copied"
  <2>1. \A s \in Slot : s # Where =>
          hdr'[s] = hdr[s] /\ body'[s] = body[s] /\ flags'[s] = flags[s]
    BY <1>1, <1>3, TornTarget, Zenon
  <2>2. ASSUME job = "revert"
        PROVE  CopyEnded'
    <3>1. Repairable
      BY <1>2, <1>3, <2>2, Zenon DEF JobKept, Repairable, RoleInv
    <3>2. Repairable'
      BY <1>1, <1>2, <1>3, <2>1, <2>2, <3>1, CopyKeepsJob, Zenon
    <3> QED
      BY <1>1, <1>3, <2>2, <3>2, Zenon DEF CopyEnded
  <2>3. ASSUME job = "update"
        PROVE  CopyEnded'
    <3>1. ConfirmedImage(st.recovery)
      BY <1>3, <2>3, AnchorFacts, Roles, Zenon
      DEF JobInv, ConfirmedImage, get_image_flag
    <3>2. /\ recovery_slot' = st.recovery
          /\ ConfirmedImage(st.recovery)' /\ UpdateReady(st.update)'
      BY <1>1, <1>2, <1>3, <2>1, <2>3, <3>1, CopyKeepsJob, Zenon
    <3> QED
      BY <1>1, <1>3, <2>3, <3>2, Zenon DEF CopyEnded
  <2>4. ASSUME job = "backup"
        PROVE  CopyEnded'
    <3>1. /\ validate_image(Primary)' /\ flags'[st.update] = {}
          /\ validate_image(st.update)'
      BY <1>1, <1>2, <1>3, <2>1, <2>4, CopyKeepsJob, Zenon
    <3>2. st.recovery = Tertiary /\ st.update = Secondary
      BY <1>3, <2>4, Roles, Zenon DEF BackupInv
    <3>3. recovery_slot' = st.recovery
      BY <3>1, <3>2, Zenon DEF recovery_slot, get_image_flag
    <3> QED
      BY <1>1, <1>3, <2>4, <3>1, <3>3, Zenon DEF CopyEnded
  <2>5. CopyEnded'
    BY <2>2, <2>3, <2>4, Zenon DEF TypeOK
  <2> QED
    BY <1>2, <1>3, <2>5, Zenon DEF FaultInv, JobKept, CopiedSoFar, CopyPC
<1>4. CASE pc = "copy_updated" /\ pc' = "copy_confirmed"
  <2>1. UNCHANGED <<hdr, body, flags>>
    BY <1>1, <1>4, Zenon DEF TornFlash
  <2>2. JobKept'
    BY <1>1, <1>2, <1>4, <2>1, SameReady, Zenon DEF JobKept, CopyPC
  <2>3. CopiedSoFar'
    BY <1>1, <1>2, <1>4, <2>1, Zenon
    DEF CopiedSoFar, Where, From, CopiedHeader, calculate_crc
  <2> QED
    BY <1>2, <1>4, <2>2, <2>3, Zenon DEF FaultInv, CopyEnded, CopyPC
<1>5. CASE /\ pc \in {"mark", "confirm_primary", "confirm_update",
                      "retire_erase", "retire_mark"}
           /\ pc' \in {"launch", "run"}
  <2>1. validate_image(Primary)
    BY <1>5, Zenon DEF BootInv, CopyPC
  <2>2. hdr'[Primary] = hdr[Primary] /\ body'[Primary] = body[Primary]
    BY <1>1, <1>5, Zenon DEF TornFlash
  <2>3. validate_image(Primary)'
    BY <2>1, <2>2, Zenon
    DEF validate_image, validate_image_header, calculate_crc
  <2> QED
    BY <1>2, <1>5, <2>3, Zenon
    DEF FaultInv, JobKept, CopiedSoFar, CopyEnded, CopyPC
<1> QED
  BY <1>3, <1>4, <1>5, Zenon DEF Fault, CopyPC

\* Every step without a further failure.
LEMMA NextRepairs ==
  ASSUME TypeOK, FaultInv, Sheltered, ~Fault, [Next]_vars
  PROVE  FaultInv'
<1>1. CASE Bootloader
  BY <1>1, BootRepairs, CopyRepairs, CopiedRepairs, MarkRepairs, RunRepairs,
     Zenon DEF Bootloader
<1>2. CASE \/ StartConfirm \/ \E i \in Image : StartUpload(i)
           \/ Upload \/ Confirm
  BY <1>2, RunRepairs, Zenon
<1>3. CASE Reset
  BY <1>3, ResetRepairs, Zenon
<1>4. CASE \E i \in Reflash : Program(i)
  BY <1>4, Zenon DEF Sheltered
<1>5. CASE UNCHANGED vars
  <2>1. UNCHANGED <<hdr, body, flags, pc, st, job, off>>
    BY <1>5, Zenon DEF vars
  <2>2. RoleInv'
    BY <2>1, SameRoles, Zenon DEF FaultInv
  <2>3. CopiedSoFar'
    BY <2>1, Zenon
    DEF FaultInv, CopiedSoFar, Where, From, CopiedHeader, calculate_crc
  <2>4. JobKept' /\ CopyEnded'
    BY <2>1, SameReady, Zenon DEF FaultInv, JobKept, CopyEnded
  <2> QED
    BY <2>1, <2>2, <2>3, <2>4, SameReady, Zenon DEF FaultInv
<1> QED
  BY <1>1, <1>2, <1>3, <1>4, <1>5, Zenon DEF Next

\* What holds before and after the first failure.
RepairInv ==
  /\ faults = 0 => BackupInv
  /\ faults = 1 => FaultInv

\* The factory state of the flash: nothing has failed, nothing is confirmed.
LEMMA InitRepair == Init => RepairInv
<1> SUFFICES ASSUME Init PROVE RepairInv
  BY Zenon
<1>1. faults = 0 /\ pc = "off" /\ flags[Secondary] = {}
  BY Zenon DEF Init, Slot
<1>2. recovery_slot # Secondary
  BY <1>1, Zenon DEF recovery_slot, get_image_flag, Secondary, Tertiary
<1>3. faults # 1
  BY <1>1
<1> QED
  BY <1>1, <1>2, <1>3, Zenon DEF RepairInv, BackupInv, RecoveryCurrent, CopyPC

\* A step keeps it: the first failure leads from the one to the other.
LEMMA NextRepair ==
  ASSUME IInv, faults = 0 => TrialInv, Sheltered, RepairInv, [Next]_vars
  PROVE  RepairInv'
<1>1. TypeOK /\ (faults = 0 => SafeInv) /\ faults \in Nat
  BY DEF IInv, TypeOK
<1>2. Fault => faults' = faults + 1
  BY Zenon DEF Fault
<1>3. ~Fault => faults' = faults
  BY Zenon
  DEF Next, Bootloader, CopyPartition, CopyErase, CopyHeader, CopyBody,
      CopyUpdated, CopyConfirmed, BootNone, BootRevert, BootUpdate, Booting,
      Copied, MarkUpdated, Launch, StartUpload, Upload, UploadErase,
      UploadHeader, UploadBody, StartConfirm, Confirm, ConfirmPrimary,
      ConfirmUpdate, RetireErase, RetireMark, Reset, Program, vars
<1>4. ASSUME faults' = 0
      PROVE  BackupInv'
  <2>1. faults = 0 /\ ~Fault
    BY <1>1, <1>4, NoFault, Zenon
  <2> QED
    BY <1>1, <2>1, NextBackup, Zenon DEF RepairInv
<1>5. ASSUME faults' = 1
      PROVE  FaultInv'
  <2>1. (Fault /\ faults = 0) \/ (~Fault /\ faults = 1)
    BY <1>1, <1>2, <1>3, <1>5
  <2> QED
    BY <1>1, <2>1, FirstFault, NextRepairs, Zenon DEF RepairInv
<1> QED
  BY <1>4, <1>5, Zenon DEF RepairInv

\* An invalid primary image with what replaces it at hand: the decision of
\* get_update_type is to revert or to update.
LEMMA RepairDecided ==
  ASSUME Repairable, ~validate_image(Primary)
  PROVE  nxboot_get_state.next_boot # "none"
<1>1. \/ Revertible(Other(recovery_slot), recovery_slot)
      \/ Installable(Other(recovery_slot))
  BY Zenon DEF Repairable, RevertReady, UpdateReady, ConfirmedImage, Revertible,
     Installable, get_image_flag
<1> QED
  BY <1>1, GetStateType, Zenon DEF get_update_type

\* One flash write that fails and whose result nobody looks at, in any step of
\* nxboot_perform_update or nxboot_confirm, does not strand the board: at every
\* boot the primary image is valid or get_update_type decides to replace it,
\* whatever images are uploaded and however often power is lost outside
\* nxboot_confirm.
THEOREM FaultRepaired == Sheltered => (Spec => []NextBootRepairs)
<1> SUFFICES ASSUME Sheltered PROVE Spec => []NextBootRepairs
  BY Zenon
<1>1. IInv /\ (faults = 0 => TrialInv) /\ RepairInv /\ [Next]_vars => RepairInv'
  BY NextRepair, Zenon
<1>2. IInv /\ Recoverable /\ RepairInv => NextBootRepairs
  <2> SUFFICES ASSUME IInv, Recoverable, RepairInv, pc = "off", faults <= 1,
                      ~validate_image(Primary)
               PROVE  nxboot_get_state.next_boot # "none"
    BY Zenon DEF NextBootRepairs
  <2>1. TypeOK /\ (faults = 0 \/ faults = 1)
    BY DEF IInv, TypeOK
  <2>2. CASE faults = 0
    BY <2>2, Zenon DEF Recoverable
  <2>3. CASE faults = 1
    BY <2>1, <2>3, AlwaysRepairable, RepairDecided, Zenon DEF RepairInv
  <2> QED
    BY <2>1, <2>2, <2>3, Zenon
<1>3. Ordinary
  BY Zenon DEF Sheltered
<1>4. Spec => [](faults = 0 => TrialInv)
  BY <1>3, Trials, Zenon
<1> QED
  BY <1>1, <1>2, <1>4, InitRepair, Invariance, AlwaysRecoverable, PTL DEF Spec
=============================================================================
