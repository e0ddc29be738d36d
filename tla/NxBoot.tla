------------------------------- MODULE NxBoot -------------------------------
(***************************************************************************)
(* The NxBoot bootloader (boot/nxboot) with the application that uploads   *)
(* and confirms firmware.  The flash holds three slots; each slot is a     *)
(* header block, image blocks and, in its last sector, two flag pages.     *)
(* Every flash write or erase is one step, so that power can be lost       *)
(* between any two of them, or in the middle of one.  Reads of the flash   *)
(* are part of the step whose outcome they decide.                         *)
(*                                                                         *)
(* The CRC is ideal: the checksum of a body is the body itself, so two     *)
(* bodies have the same checksum only when they are equal.                 *)
(***************************************************************************)
EXTENDS Integers

CONSTANTS
  Image,              \* firmware images
  Factory,            \* the image programmed by the debugger
  Version,            \* [Image -> [major, minor, patch, pre_release]]
  N,                  \* image blocks after the header block
  Oversize,           \* images larger than the primary slot
  PreventDowngrade,   \* CONFIG_NXBOOT_PREVENT_DOWNGRADE
  SwResetOnly,        \* CONFIG_NXBOOT_SWRESET_ONLY
  Reflash,            \* images the debugger may program later
  UploadUnconfirmed,  \* the application uploads before confirming itself
  LossStage,          \* the stages in which power may be lost
  MaxFaults           \* bound on the flash writes that fail

Primary == "primary"
Secondary == "secondary"
Tertiary == "tertiary"
Slot == {Primary, Secondary, Tertiary}

CONFIRMED == "confirmed"
UPDATED == "updated"
Flag == {CONFIRMED, UPDATED}

Junk == "junk"
NoImage == "no image"

Blocks == 1..N
Body == [Blocks -> Image \cup {Junk}]
Blank == [b \in Blocks |-> Junk]

\* 0xffffffff, the checksum field of an image that has none.
NoCrc == [b \in Blocks |-> NoImage]

\* What the linker put into the blocks of image i.
Content(i) == [b \in Blocks |-> i]

\* struct nxboot_img_header; img stands for the size and the version.
Header == [magic : {"NXOS", "INV", "none"},
           crc : Body \cup {NoCrc},
           img : Image \cup {NoImage}]
NoHeader == [magic |-> "none", crc |-> NoCrc, img |-> NoImage]

Stage == {"boot", "revert", "backup", "update", "mark",
          "upload", "confirm", "retire"}

ASSUME NAssumption == N \in Nat \ {0}
ASSUME ImageAssumption ==
  /\ Factory \in Image
  /\ {Junk, NoImage} \cap Image = {}
  /\ Oversize \subseteq Image \ {Factory}
  /\ Reflash \subseteq Image \ Oversize
ASSUME VersionAssumption ==
  Version \in [Image -> [major : Nat, minor : Nat, patch : Nat,
                         pre_release : Nat]]
ASSUME OptionAssumption ==
  /\ {PreventDowngrade, SwResetOnly, UploadUnconfirmed} \subseteq BOOLEAN
  /\ LossStage \subseteq Stage
  /\ MaxFaults \in Nat

VARIABLES
  hdr,         \* hdr[s]: the header block of slot s
  body,        \* body[s]: the image blocks of slot s
  flags,       \* flags[s]: the flag pages of slot s that hold 0xfe
  pc,          \* the next flash operation, or what the board is doing
  st,          \* struct nxboot_state, as last read by nxboot_get_state
  check_only,  \* the argument of nxboot_perform_update at the next boot
  job,         \* why copy_partition was called
  off,         \* blocks already written by copy_partition or the upload
  incoming,    \* the image being uploaded
  faults,      \* flash writes that have failed
  trusted,     \* history: images flashed by the debugger or confirmed
  fresh,       \* history: slots whose upload has not been installed yet
  tried        \* history: the primary image was launched unconfirmed

vars == <<hdr, body, flags, pc, st, check_only, job, off, incoming, faults,
          trusted, fresh, tried>>

-----------------------------------------------------------------------------
(* What the bootloader reads from the flash. *)

get_image_flag(s, f) == f \in flags[s]

validate_image_header(s) == hdr[s].magic \in {"NXOS", "INV"}

calculate_crc(s) == body[s]

validate_image(s) ==
  /\ validate_image_header(s)
  /\ hdr[s].magic = "INV" \/ calculate_crc(s) = hdr[s].crc

compare_versions_major(v1, v2) ==
  IF PreventDowngrade THEN v1.major > v2.major ELSE v1 = v2

\* TRUE when an update from v1 to v2 is not to be made.
compare_versions(v1, v2) ==
  IF PreventDowngrade
    THEN \/ v1.major > v2.major
         \/ v1.minor > v2.minor
         \/ v1.patch > v2.patch
    ELSE v1 = v2

\* The two conditions of get_update_type.
Revertible_invalid(update, recovery) ==
  /\ get_image_flag(recovery, CONFIRMED)
  /\ get_image_flag(update, UPDATED)
  /\ ~validate_image(Primary)
  /\ validate_image(recovery)

Revertible(update, recovery) ==
  /\ get_image_flag(recovery, CONFIRMED)
  /\ get_image_flag(update, UPDATED)
  /\ \/ /\ ~get_image_flag(Primary, CONFIRMED)
        /\ hdr[Primary].magic # "INV"
     \/ ~validate_image(Primary)
  /\ validate_image(recovery)

Installable_header(update) ==
  /\ flags[update] = {}
  /\ validate_image(update)
  /\ ~(/\ hdr[Primary].img # NoImage
       /\ compare_versions(Version[hdr[Primary].img],
                           Version[hdr[update].img]))

Installable(update) ==
  /\ ~get_image_flag(update, CONFIRMED)
  /\ ~get_image_flag(update, UPDATED)
  /\ validate_image(update)
  /\ ~(/\ validate_image(Primary)
       /\ compare_versions(Version[hdr[Primary].img],
                           Version[hdr[update].img]))

get_update_type(update, recovery) ==
  IF Revertible(update, recovery) THEN "revert"
  ELSE IF Installable(update) THEN "update" ELSE "none"

nxboot_get_confirm ==
  get_image_flag(Primary, CONFIRMED) \/ hdr[Primary].magic = "INV"

\* The slot that serves as the recovery: the secondary one when it holds a
\* confirmed valid image, otherwise the tertiary one.
recovery_slot ==
  IF get_image_flag(Secondary, CONFIRMED) /\ validate_image(Secondary)
    THEN Secondary ELSE Tertiary

Other(s) == IF s = Secondary THEN Tertiary ELSE Secondary

recovery_valid_confirmed(r) ==
  get_image_flag(r, CONFIRMED) /\ validate_image(r)

recovery_valid(r) ==
  /\ get_image_flag(r, CONFIRMED)
  /\ hdr[r].crc = hdr[Primary].crc
  /\ validate_image(r)

nxboot_get_state ==
  LET r == recovery_slot
  IN  [update |-> Other(r),
       recovery |-> r,
       recovery_valid |-> recovery_valid(r),
       primary_confirmed |-> nxboot_get_confirm,
       next_boot |-> get_update_type(Other(r), r)]

-----------------------------------------------------------------------------
(* copy_partition: `job' says which slots it works on. *)

From == CASE job = "revert" -> st.recovery
          [] job = "backup" -> Primary
          [] job = "update" -> st.update
Where == IF job = "backup" THEN st.recovery ELSE Primary

Copy_offset(j, source) ==
  /\ job' = j
  /\ UNCHANGED off
  /\ pc' = IF j # "backup" /\ hdr[source].img \in Oversize
             THEN "copied" ELSE "copy_erase"

Copy_any_size(j, source) ==
  /\ job' = j
  /\ off' = 0
  /\ pc' = "copy_erase"

\* The call: an image that does not fit is refused before anything is written.
Copy(j, source) ==
  /\ job' = j
  /\ off' = 0
  /\ pc' = IF j # "backup" /\ hdr[source].img \in Oversize
             THEN "copied" ELSE "copy_erase"

CopyErase ==
  /\ pc = "copy_erase"
  /\ pc' = "copy_header"
  /\ flags' = [flags EXCEPT ![Where] = {}]
  /\ UNCHANGED <<hdr, body, st, check_only, job, off, incoming, faults,
                 trusted, fresh, tried>>

\* An image without a checksum gets one, and the magic that says so.
CopiedHeader(s) ==
  IF hdr[s].magic = "INV"
    THEN [hdr[s] EXCEPT !.magic = "NXOS", !.crc = calculate_crc(s)]
    ELSE hdr[s]

CopyHeader ==
  /\ pc = "copy_header"
  /\ pc' = "copy_body"
  /\ hdr' = [hdr EXCEPT ![Where] = CopiedHeader(From)]
  /\ fresh' = fresh \ {Where}
  /\ tried' = (tried /\ job = "backup")
  /\ UNCHANGED <<body, flags, st, check_only, job, off, incoming, faults,
                 trusted>>

CopyBody ==
  /\ pc = "copy_body"
  /\ off' = off + 1
  /\ body' = [body EXCEPT ![Where][off + 1] = body[From][off + 1]]
  /\ pc' = IF off + 1 = N THEN "copy_updated" ELSE "copy_body"
  /\ UNCHANGED <<hdr, flags, st, check_only, job, incoming, faults,
                 trusted, fresh, tried>>

\* copy_partition read the source header when it began; the source does not
\* change while it is copied, so the header in the flash is the same one.
CopyUpdated ==
  /\ pc = "copy_updated"
  /\ pc' = "copy_confirmed"
  /\ flags' = IF hdr[From].magic # "INV" /\ get_image_flag(From, UPDATED)
                THEN [flags EXCEPT ![Where] = @ \cup {UPDATED}] ELSE flags
  /\ UNCHANGED <<hdr, body, st, check_only, job, off, incoming, faults,
                 trusted, fresh, tried>>

CopyConfirmed_always ==
  /\ pc = "copy_confirmed"
  /\ pc' = "copied"
  /\ flags' = [flags EXCEPT ![Where] = @ \cup {CONFIRMED}]
  /\ UNCHANGED <<hdr, body, st, check_only, job, off, incoming, faults,
                 trusted, fresh, tried>>

CopyConfirmed ==
  /\ pc = "copy_confirmed"
  /\ pc' = "copied"
  /\ flags' = IF hdr[From].magic = "INV" \/ get_image_flag(From, CONFIRMED)
                THEN [flags EXCEPT ![Where] = @ \cup {CONFIRMED}] ELSE flags
  /\ UNCHANGED <<hdr, body, st, check_only, job, off, incoming, faults,
                 trusted, fresh, tried>>

-----------------------------------------------------------------------------
(* nxboot_main and nxboot_perform_update. *)

\* The conditions of perform_update on its way to the update.
MayRevert_any == TRUE

MayRevert == ~check_only \/ ~validate_image(Primary)

LeftAlone_check_only == check_only

LeftAlone == validate_image(Primary) /\ check_only

NeedsBackup_never(s) == FALSE

NeedsBackup(s) ==
  ~s.recovery_valid /\ s.primary_confirmed /\ validate_image(Primary)

Continue == pc' = "launch" /\ UNCHANGED <<job, off>>

Install(update) ==
  IF validate_image(update) THEN Copy("update", update) ELSE Continue

Booting == UNCHANGED <<hdr, body, flags, check_only, incoming, faults,
                       trusted, fresh, tried>>

BootNone ==
  /\ pc = "off"
  /\ st' = nxboot_get_state
  /\ st'.next_boot = "none"
  /\ Continue
  /\ Booting

BootRevert ==
  /\ pc = "off"
  /\ st' = nxboot_get_state
  /\ st'.next_boot = "revert"
  /\ MayRevert
  /\ IF validate_image(st'.recovery)
       THEN Copy("revert", st'.recovery) ELSE Continue
  /\ Booting

BootUpdate ==
  /\ pc = "off"
  /\ st' = nxboot_get_state
  /\ \/ st'.next_boot = "update"
     \/ st'.next_boot = "revert" /\ ~MayRevert
  /\ IF LeftAlone THEN Continue
     ELSE IF NeedsBackup(st') THEN Copy("backup", Primary)
     ELSE Install(st'.update)
  /\ Booting

\* copy_partition has returned; its result is not looked at.
Copied ==
  /\ pc = "copied"
  /\ CASE job = "revert" -> Continue
       [] job = "backup" -> IF validate_image(st.recovery)
                              THEN Install(st.update) ELSE Continue
       [] job = "update" -> pc' = "mark" /\ UNCHANGED <<job, off>>
  /\ fresh' = IF job = "update" THEN fresh \ {st.update} ELSE fresh
  /\ UNCHANGED <<hdr, body, flags, st, check_only, incoming, faults,
                 trusted, tried>>

MarkUpdated ==
  /\ pc = "mark"
  /\ pc' = "launch"
  /\ flags' = [flags EXCEPT ![st.update] = @ \cup {UPDATED}]
  /\ UNCHANGED <<hdr, body, st, check_only, job, off, incoming, faults,
                 trusted, fresh, tried>>

Launch_confirmed ==
  /\ pc = "launch"
  /\ pc' = IF validate_image(Primary) /\ nxboot_get_confirm
             THEN "run" ELSE "halt"
  /\ tried' = ~nxboot_get_confirm
  /\ UNCHANGED <<hdr, body, flags, st, check_only, job, off, incoming,
                 faults, trusted, fresh>>

\* BOARDIOC_BOOT_IMAGE: what is not an image does not come up.
Launch ==
  /\ pc = "launch"
  /\ pc' = IF validate_image(Primary) THEN "run" ELSE "halt"
  /\ tried' = ~nxboot_get_confirm
  /\ UNCHANGED <<hdr, body, flags, st, check_only, job, off, incoming,
                 faults, trusted, fresh>>

-----------------------------------------------------------------------------
(* The application: it stores an upload in the update slot nxboot_get_state *)
(* names, and confirms itself with nxboot_confirm.                          *)

StartUpload(i) ==
  /\ pc = "run"
  /\ UploadUnconfirmed \/ nxboot_get_confirm
  /\ st' = nxboot_get_state
  /\ incoming' = i
  /\ pc' = "upload_erase"
  /\ UNCHANGED <<hdr, body, flags, check_only, job, off, faults,
                 trusted, fresh, tried>>

UploadErase ==
  /\ pc = "upload_erase"
  /\ pc' = "upload_header"
  /\ hdr' = [hdr EXCEPT ![st.update] = NoHeader]
  /\ body' = [body EXCEPT ![st.update] = Blank]
  /\ flags' = [flags EXCEPT ![st.update] = {}]
  /\ fresh' = fresh \ {st.update}
  /\ UNCHANGED <<st, check_only, job, off, incoming, faults, trusted, tried>>

UploadHeader ==
  /\ pc = "upload_header"
  /\ pc' = "upload_body"
  /\ off' = 0
  /\ hdr' = [hdr EXCEPT ![st.update] = [magic |-> "NXOS",
                                        crc |-> Content(incoming),
                                        img |-> incoming]]
  /\ UNCHANGED <<body, flags, st, check_only, job, incoming, faults,
                 trusted, fresh, tried>>

UploadBody ==
  /\ pc = "upload_body"
  /\ off' = off + 1
  /\ body' = [body EXCEPT ![st.update][off + 1] = incoming]
  /\ IF off + 1 = N
       THEN pc' = "run" /\ fresh' = fresh \cup {st.update}
       ELSE UNCHANGED <<pc, fresh>>
  /\ UNCHANGED <<hdr, flags, st, check_only, job, incoming, faults,
                 trusted, tried>>

StartConfirm_again ==
  /\ pc = "run"
  /\ st' = nxboot_get_state
  /\ pc' = "confirm_primary"
  /\ UNCHANGED <<hdr, body, flags, check_only, job, off, incoming, faults,
                 trusted, fresh, tried>>

\* nxboot_confirm; it returns at once when the primary image is confirmed.
StartConfirm ==
  /\ pc = "run"
  /\ st' = nxboot_get_state
  /\ ~st'.primary_confirmed
  /\ pc' = "confirm_primary"
  /\ UNCHANGED <<hdr, body, flags, check_only, job, off, incoming, faults,
                 trusted, fresh, tried>>

ConfirmPrimary ==
  /\ pc = "confirm_primary"
  /\ pc' = "confirm_update"
  /\ flags' = [flags EXCEPT ![Primary] = @ \cup {CONFIRMED}]
  /\ trusted' = trusted \cup {hdr[Primary].img}
  /\ UNCHANGED <<hdr, body, st, check_only, job, off, incoming, faults,
                 fresh, tried>>

ConfirmUpdate ==
  /\ pc = "confirm_update"
  /\ pc' = "retire_erase"
  /\ flags' = [flags EXCEPT ![st.update] = @ \cup {CONFIRMED}]
  /\ UNCHANGED <<hdr, body, st, check_only, job, off, incoming, faults,
                 trusted, fresh, tried>>

RetireErase ==
  /\ pc = "retire_erase"
  /\ pc' = "retire_mark"
  /\ flags' = [flags EXCEPT ![st.recovery] = {}]
  /\ UNCHANGED <<hdr, body, st, check_only, job, off, incoming, faults,
                 trusted, fresh, tried>>

RetireMark_unmarked ==
  /\ pc = "retire_mark"
  /\ pc' = "run"
  /\ UNCHANGED <<hdr, body, flags, st, check_only, job, off, incoming, faults,
                 trusted, fresh, tried>>

RetireMark ==
  /\ pc = "retire_mark"
  /\ pc' = "run"
  /\ flags' = [flags EXCEPT ![st.recovery] = @ \cup {UPDATED}]
  /\ UNCHANGED <<hdr, body, st, check_only, job, off, incoming, faults,
                 trusted, fresh, tried>>

-----------------------------------------------------------------------------
(* The environment: resets, power loss, failing writes and the debugger. *)

\* A flash operation that did not complete has done nothing or a part.  An
\* erase goes through the sectors in ascending order.
TornFlash ==
  \/ UNCHANGED <<hdr, body, flags>>
  \/ /\ pc \in {"copy_erase", "retire_erase"}
     /\ LET s == IF pc = "copy_erase" THEN Where ELSE st.recovery
        IN  \E left \in SUBSET flags[s] : flags' = [flags EXCEPT ![s] = left]
     /\ UNCHANGED <<hdr, body>>
  \/ /\ pc = "copy_header"
     /\ hdr' = [hdr EXCEPT ![Where] = NoHeader]
     /\ UNCHANGED <<body, flags>>
  \/ /\ pc = "copy_body"
     /\ body' = [body EXCEPT ![Where][off + 1] = Junk]
     /\ UNCHANGED <<hdr, flags>>
  \/ /\ pc = "upload_erase"
     /\ \E left \in SUBSET flags[st.update] :
          flags' = [flags EXCEPT ![st.update] = left]
     /\ hdr' = [hdr EXCEPT ![st.update] = NoHeader]
     /\ UNCHANGED body

Torn ==
  /\ TornFlash
  /\ fresh' = {s \in fresh : hdr'[s] = hdr[s]}

CurrentStage ==
  CASE pc \in {"copy_erase", "copy_header", "copy_body", "copy_updated",
               "copy_confirmed"} -> job
    [] pc \in {"copied", "mark"} -> IF job = "update" THEN "mark" ELSE job
    [] pc \in {"upload_erase", "upload_header", "upload_body"} -> "upload"
    [] pc \in {"confirm_primary", "confirm_update"} -> "confirm"
    [] pc \in {"retire_erase", "retire_mark"} -> "retire"
    [] OTHER -> "boot"

\* The reset button, the watchdog or a failing power supply.
Reset ==
  /\ pc # "off"
  /\ CurrentStage \in LossStage \cup {"boot"}
  /\ Torn
  /\ pc' = "off"
  /\ check_only' \in {FALSE, SwResetOnly}
  /\ UNCHANGED <<st, job, off, incoming, faults, trusted, tried>>

\* A write fails: copy_partition gives up except for the flags, nxboot_confirm
\* returns an error, the failure to mark an update goes unnoticed.
Fault ==
  /\ faults < MaxFaults
  /\ faults' = faults + 1
  /\ \/ /\ pc \in {"copy_erase", "copy_header", "copy_body"}
        /\ pc' = "copied"
     \/ pc = "copy_updated" /\ pc' = "copy_confirmed"
     \/ pc = "copy_confirmed" /\ pc' = "copied"
     \/ pc = "mark" /\ pc' = "launch"
     \/ /\ pc \in {"confirm_primary", "confirm_update", "retire_erase",
                   "retire_mark"}
        /\ pc' = "run"
  /\ Torn
  /\ UNCHANGED <<st, check_only, job, off, incoming, trusted, tried>>

\* The debugger programs the primary slot with an image without a checksum.
Program(i) ==
  /\ pc = "off"
  /\ hdr' = [hdr EXCEPT ![Primary] = [magic |-> "INV", crc |-> NoCrc,
                                      img |-> i]]
  /\ body' = [body EXCEPT ![Primary] = Content(i)]
  /\ flags' = [flags EXCEPT ![Primary] = {}]
  /\ trusted' = trusted \cup {i}
  /\ tried' = FALSE
  /\ UNCHANGED <<pc, st, check_only, job, off, incoming, faults, fresh>>

-----------------------------------------------------------------------------
State == [update : {Secondary, Tertiary}, recovery : {Secondary, Tertiary},
          recovery_valid : BOOLEAN, primary_confirmed : BOOLEAN,
          next_boot : {"none", "update", "revert"}]

Init ==
  /\ hdr = [s \in Slot |-> IF s = Primary
                            THEN [magic |-> "INV", crc |-> NoCrc,
                                  img |-> Factory]
                            ELSE NoHeader]
  /\ body = [s \in Slot |-> IF s = Primary THEN Content(Factory) ELSE Blank]
  /\ flags = [s \in Slot |-> {}]
  /\ pc = "off"
  /\ st = [update |-> Secondary, recovery |-> Tertiary,
           recovery_valid |-> FALSE, primary_confirmed |-> FALSE,
           next_boot |-> "none"]
  /\ check_only \in {FALSE, SwResetOnly}
  /\ job = "update"
  /\ off = 0
  /\ incoming = Factory
  /\ faults = 0
  /\ trusted = {Factory}
  /\ fresh = {}
  /\ tried = FALSE

CopyPartition == CopyErase \/ CopyHeader \/ CopyBody \/ CopyUpdated
                 \/ CopyConfirmed
Bootloader == BootNone \/ BootRevert \/ BootUpdate \/ CopyPartition
              \/ Copied \/ MarkUpdated \/ Launch
Upload == UploadErase \/ UploadHeader \/ UploadBody
Confirm == ConfirmPrimary \/ ConfirmUpdate \/ RetireErase \/ RetireMark

Next ==
  \/ Bootloader
  \/ \E i \in Image : StartUpload(i)
  \/ Upload
  \/ StartConfirm
  \/ Confirm
  \/ Reset
  \/ Fault
  \/ \E i \in Reflash : Program(i)

Spec == Init /\ [][Next]_vars

-----------------------------------------------------------------------------
PC == {"off", "copy_erase", "copy_header", "copy_body", "copy_updated",
       "copy_confirmed", "copied", "mark", "launch", "run", "halt",
       "upload_erase", "upload_header", "upload_body", "confirm_primary",
       "confirm_update", "retire_erase", "retire_mark"}

\* The flash, the bootloader state and the copy in progress are well formed.
TypeOK ==
  /\ hdr \in [Slot -> Header]
  /\ body \in [Slot -> Body]
  /\ flags \in [Slot -> SUBSET Flag]
  /\ pc \in PC
  /\ st \in State
  /\ check_only \in BOOLEAN
  /\ job \in {"revert", "backup", "update"}
  /\ off \in 0..N
  /\ pc \in {"copy_erase", "copy_header"} => off = 0
  /\ pc \in {"copy_body", "upload_body"} => off < N
  /\ incoming \in Image
  /\ faults \in 0..MaxFaults
  /\ trusted \subseteq Image \cup {NoImage}
  /\ fresh \subseteq {Secondary, Tertiary}
  /\ tried \in BOOLEAN

-----------------------------------------------------------------------------
(* An image that has proved itself: complete, and confirmed by the          *)
(* application that ran from it or programmed by the debugger.              *)
TrustedImage(s) ==
  /\ validate_image(s)
  /\ hdr[s].img \in trusted
  /\ body[s] = Content(hdr[s].img)

Anchor(s) ==
  /\ TrustedImage(s)
  /\ get_image_flag(s, CONFIRMED) \/ hdr[s].magic = "INV"

\* As long as no flash write fails, the primary slot holds a valid image or
\* the next boot finds an update or a revert that puts one there and fits:
\* no loss of power at any write of perform_update leaves the board without
\* an image (boot.c, nxboot_perform_update).
Recoverable ==
  faults = 0 =>
    \/ validate_image(Primary)
    \/ LET s == nxboot_get_state
       IN  \/ s.next_boot = "update" /\ hdr[s.update].img \notin Oversize
           \/ s.next_boot = "revert" /\ hdr[s.recovery].img \notin Oversize

\* "In any situation, this function ends with the valid image in primary
\* slot" (nxboot_perform_update).
EndsWithValidImage == pc = "launch" => validate_image(Primary)

\* Even when a flash write failed and its result was ignored, a board that
\* does not come up is repaired by the next boot (at most one such failure).
NextBootRepairs ==
  (pc = "off" /\ faults <= 1) =>
    validate_image(Primary) \/ nxboot_get_state.next_boot # "none"

\* As long as no flash write fails, an image that has proved itself is in the
\* primary slot or in the slot nxboot_get_state names as the recovery.
FallbackKept == faults = 0 => Anchor(Primary) \/ Anchor(recovery_slot)

\* What carries the confirmed flag is an image some application confirmed;
\* nothing else is ever taken for a recovery image.
RecoveryTrusted ==
  \A s \in Slot :
    get_image_flag(s, CONFIRMED) /\ validate_image(s) => TrustedImage(s)

\* nxboot_confirm "marks its copy in update partition as a recovery": what it
\* marks is a copy of the primary image.
ConfirmsCopy ==
  pc = "retire_erase" => /\ validate_image(st.update)
                         /\ hdr[st.update].img = hdr[Primary].img

\* Only an upload that was not installed before is installed: neither an old
\* recovery image nor a rejected update is taken for a new one.
InstallsUploads ==
  (pc = "copy_erase" /\ job = "update") => st.update \in fresh

\* An image that was launched once without being confirmed is not launched
\* again when its slot carries the updated flag, but reverted.
OneTrial ==
  (pc = "launch" /\ ~nxboot_get_confirm /\ tried)
    => check_only \/ ~get_image_flag(st.update, UPDATED)

\* After a power reset with CONFIG_NXBOOT_SWRESET_ONLY the bootloader copies
\* only to repair an invalid primary image.
PowerResetOnlyRepairs ==
  (pc = "copy_erase" /\ check_only) => ~validate_image(Primary)

\* Precedence of Semantic Versioning without the pre-release part.
Older(v1, v2) ==
  \/ v1.major < v2.major
  \/ v1.major = v2.major /\ v1.minor < v2.minor
  \/ v1.major = v2.major /\ v1.minor = v2.minor /\ v1.patch < v2.patch

\* An update is about to replace a valid primary image.
Replacing == pc = "copy_erase" /\ job = "update" /\ validate_image(Primary)

\* With CONFIG_NXBOOT_PREVENT_DOWNGRADE no update replaces a valid primary
\* image by an older one.
NoDowngrade ==
  (PreventDowngrade /\ Replacing) =>
    ~Older(Version[hdr[st.update].img], Version[hdr[Primary].img])

-----------------------------------------------------------------------------
(* The bootloader is the only program until it launches the image, and the  *)
(* application finishes the upload or the confirmation it has begun.        *)
Fairness ==
  /\ WF_vars(Bootloader)
  /\ WF_vars(Upload)
  /\ WF_vars(Confirm)

LiveSpec == Spec /\ Fairness

InterruptedBoot == Reset /\ pc # "run"

\* Once resets stop interrupting it, every boot brings up an application,
\* however the previous ones were cut short.
ComesUp == (<>[][~InterruptedBoot]_vars) => []<>(pc = "run")

\* An upload the bootloader finds at a reset is completely installed in the
\* end, even when the copy to the primary slot is interrupted and done again
\* by later boots.
Due(i) ==
  LET s == nxboot_get_state
  IN  /\ pc = "off"
      /\ s.next_boot = "update"
      /\ hdr[s.update].img = i
      /\ i \notin Oversize

UpdateArrives ==
  (<>[][~InterruptedBoot]_vars) =>
    \A i \in Image : Due(i) ~> (validate_image(Primary) /\ hdr[Primary].img = i)
=============================================================================
