---------------------------- MODULE EmulatorImages ----------------------------
(***************************************************************************)
(* The disk images of an emulated device, from the boot action that makes  *)
(* them to the start action that uses them again.  Boot stages the system  *)
(* images in a session directory, starts the emulator on them, shuts the   *)
(* device down or takes a snapshot of it, and stores what the emulator     *)
(* changed in an archive.  Start stages the system images and the archive  *)
(* in a new session directory.  QEMU writes to the images; QEMU2 keeps its *)
(* changes beside them, in overlays that fit only the image they were made *)
(* over.  Nothing here is retried: see EmulatorLauncher.                   *)
(***************************************************************************)
EXTENDS Integers, Sequences

CONSTANTS
  Configs,   \* the system images and command lines under study
  LsofTries  \* how often StoreAndCompressUserdata looks for open files

Config ==
  [qemu2 : BOOLEAN, api : Nat, x86 : BOOLEAN,
   dataImage : BOOLEAN, vendor : BOOLEAN, key : BOOLEAN,  \* what the system images have
   zipped : BOOLEAN,            \* system.img.tar.gz
   patchedRamdisk : BOOLEAN,    \* modified_ramdisk_*
   density : Nat,
   save : BOOLEAN,              \* --save_snapshot, and --snapshot_file at start
   guestGl : BOOLEAN,           \* start: --open_gl_driver=guest
   resize : {"unset", "fits", "above"}]  \* start: --data_partition_size, and the size

ASSUME ImagesAssumption ==
  /\ Configs \subseteq Config
  /\ LsofTries \in Nat \ {0}

Disks == {"system", "vendor", "userdata", "cache", "sdcard", "encryptionkey"}
Files == Disks \cup {"snapshots", "ramdisk"}
\* What may be a link: also the kernel, init/system.img and the ram.bin of a snapshot.
Links == Files \cup {"kernel", "init", "ram"}

\* Mount points below /data come before it: see CleanUmount.
MountOrder == <<"media", "router", "netns", "data", "cache">>
Mounts == {MountOrder[i] : i \in 1 .. 5}
\* The mount points whose path contains that of m.
Covers(m) ==
  {m} \cup (IF m = "data" THEN {"media", "router", "netns"} ELSE {})
      \cup (IF m = "netns" THEN {"router"} ELSE {})

\* Densities the emulator supports.
BUCKET_DPI == <<120, 160, 240, 280, 320, 360, 400, 420, 480, 560, 640>>
TVDPI == 213

VARIABLES
  cfg,
  life,     \* the action: boot, then start
  pc,
  density,  \* EmulatorMetaDataPb.density, stored beside the archive
  props,    \* boot_property of the proto: the density it tells the device
  base,     \* the session directory: what each image is, or "none"
  linked,   \* those that are symbolic links to an input of the build
  spoilt,   \* inputs of the build that were written to
  diff,     \* the overlays: the image each was made over, or "none"
  ramdisk,  \* the density in the properties of the ramdisk
  args,     \* the images named on the command line of the emulator
  archive,  \* userdata_images.dat
  ramBin,   \* ram.bin: not taken, in the session, or in the output directory
  mounted,  \* what the device has mounted
  damaged,  \* file systems of the device that e2fsck finds inconsistent
  at,       \* KillEmulator: the next mount point
  clean,    \* KillEmulator: clean_death
  open,     \* the files the emulator, told to exit, still has open
  tries     \* StoreAndCompressUserdata: calls of lsof

sessionVars == <<base, linked, diff, ramdisk, args, ramBin>>
deviceVars  == <<mounted, damaged>>
storeVars   == <<archive, at, clean, tries>>
vars == <<cfg, life, pc, density, props, sessionVars, spoilt, deviceVars, storeVars, open>>

None == [f \in Files |-> "none"]
Empty == [base |-> None, diff |-> None, ramdisk |-> 0]
Ends == {"started", "failed", "transient"}

TypeOK ==
  /\ cfg \in Configs
  /\ life \in {"boot", "start"}
  /\ pc \in {"configure", "stage", "archive", "rest", "args", "launch", "running", "shutdown",
             "umount", "kill", "list", "lsof", "tar", "restart"} \cup Ends
  /\ density \in Nat /\ props \in Nat /\ ramdisk \in Nat
  /\ base \in [Files -> {"none", "image", "noEgl", "made", "written", "resized"}]
  /\ diff \in [Files -> {"none", "image", "noEgl", "made"}]
  /\ linked \subseteq Links /\ args \subseteq Files /\ open \subseteq Files
  /\ spoilt \subseteq Links
  /\ archive = Empty \/ archive.ramdisk > 0
  /\ ramBin \in {"none", "session", "output"}
  /\ mounted \subseteq Mounts /\ damaged \subseteq Mounts
  /\ at \in 1 .. 6
  /\ clean \in BOOLEAN
  /\ tries \in 0 .. LsofTries

Init ==
  /\ cfg \in Configs
  /\ life = "boot" /\ pc = "configure"
  /\ density = 0 /\ props = 0
  /\ base = None /\ linked = {} /\ diff = None /\ ramdisk = 0 /\ args = {} /\ ramBin = "none"
  /\ spoilt = {}
  /\ archive = Empty
  /\ mounted = {} /\ damaged = {}
  /\ at = 1 /\ clean = TRUE /\ tries = 0
  /\ open = {}

Goto(p) == pc' = p /\ UNCHANGED <<cfg, life>>
protoSame == UNCHANGED <<density, props>>
emulatorSame == UNCHANGED <<deviceVars, open>>

\* Who writes to a link writes to the input of the build behind it.
Writes(links, files) == spoilt' = spoilt \cup (links \cap files)

-----------------------------------------------------------------------------
(* Configure                                                               *)

\* The first bucket whose middle with the next one is larger.
MapToSupportedDensity(d) ==
  LET n == Len(BUCKET_DPI)
      near == {i \in 1 .. n - 1 : d < (BUCKET_DPI[i] + BUCKET_DPI[i + 1]) \div 2}
  IN IF d = TVDPI THEN d
     ELSE IF near = {} THEN BUCKET_DPI[n]
     ELSE BUCKET_DPI[CHOOSE i \in near : \A j \in near : i <= j]

\* Mutant: the properties are added before the density is mapped.
ConfigureTooEarly ==
  /\ pc = "configure"
  /\ density' = MapToSupportedDensity(cfg.density)
  /\ props' = cfg.density
  /\ Goto("stage")
  /\ UNCHANGED <<sessionVars, spoilt, storeVars>> /\ emulatorSame

Configure ==
  /\ pc = "configure"
  /\ density' = MapToSupportedDensity(cfg.density)
  /\ props' = density'
  /\ Goto("stage")
  /\ UNCHANGED <<sessionVars, spoilt, storeVars>> /\ emulatorSame

-----------------------------------------------------------------------------
(* _StageDataFiles                                                         *)

\* BestOpenGL is never guest rendering, and boot asks for nothing else; snapshots
\* force swiftshader.
EnableGuestGl == life = "start" /\ cfg.guestGl /\ ~cfg.save

ShouldModifySystemImage == cfg.api < 24 /\ ~EnableGuestGl

\* Mutant: QEMU gets a link too.
LinksSystemOfAny == ~cfg.zipped /\ ~ShouldModifySystemImage

\* QEMU2 does not write to the system image, so it need not be copied unless it is
\* to be modified.
LinksSystem == ~cfg.zipped /\ cfg.qemu2 /\ ~ShouldModifySystemImage

\* The kernel is linked, and so is init/system.img if there is one.  The system image
\* itself is linked, copied or extracted, and its EGL libraries deleted with debugfs.
StageSystem ==
  /\ pc = "stage"
  /\ base' = [base EXCEPT !["system"] = IF ShouldModifySystemImage THEN "noEgl" ELSE "image"]
  /\ linked' = {"kernel"} \cup (IF cfg.zipped THEN {} ELSE {"init"})
                          \cup (IF LinksSystem THEN {"system"} ELSE {})
  /\ Writes(linked', IF ShouldModifySystemImage THEN {"system"} ELSE {})
  /\ Goto("archive")
  /\ UNCHANGED <<diff, ramdisk, args, ramBin, storeVars>> /\ protoSame /\ emulatorSame

\* Boot: _InitializeRamdisk writes the properties to the ramdisk, unless it was
\* patched by an earlier build action (1 stands for the density that had).
InitializeRamdisk ==
  /\ pc = "archive" /\ life = "boot"
  /\ ramdisk' = IF cfg.patchedRamdisk THEN 1 ELSE props
  /\ base' = [base EXCEPT !["ramdisk"] = "image", !["snapshots"] = "image"]
  /\ Writes(linked, {"ramdisk", "snapshots"})
  /\ Goto("rest")
  /\ UNCHANGED <<linked, diff, args, ramBin, storeVars>> /\ protoSame /\ emulatorSame

\* The size of the data partition is looked up, and then changed.
MeasuresData == cfg.api >= 19 /\ cfg.resize # "unset"
Resizes == cfg.api >= 19 /\ cfg.resize = "above"

\* Start: the archive, the resize of the data partition, the link to ram.bin, which
\* is of no use but on x86.
Unpack ==
  LET staged == [f \in Files |-> IF archive.base[f] = "none" THEN base[f] ELSE archive.base[f]] IN
  /\ pc = "archive" /\ life = "start"
  /\ IF MeasuresData /\ staged["userdata"] = "none"
       THEN Goto("failed") /\ UNCHANGED <<base, diff, ramdisk, ramBin, linked, spoilt>>
       ELSE /\ base' = IF Resizes THEN [staged EXCEPT !["userdata"] = "resized"] ELSE staged
            /\ diff' = archive.diff
            /\ ramdisk' = archive.ramdisk
            /\ ramBin' = IF cfg.save /\ cfg.x86 THEN "session" ELSE "none"
            /\ linked' = linked \cup (IF cfg.save /\ cfg.x86 THEN {"ram"} ELSE {})
            /\ Writes(linked, IF Resizes THEN {"userdata"} ELSE {})
            /\ Goto("rest")
  /\ UNCHANGED <<args, storeVars>> /\ protoSame /\ emulatorSame

\* Mutant: an image that is there already is staged again.
StagedOverwrites(f, source) == IF source = "none" THEN base[f] ELSE source

Staged(f, source) == IF base[f] = "none" THEN source ELSE base[f]

\* The images that are not there yet.
StageRest ==
  LET optional(has) == IF has THEN "image" ELSE "none" IN
  /\ pc = "rest"
  /\ base' = [base EXCEPT !["vendor"]        = Staged("vendor", optional(cfg.vendor)),
                          !["encryptionkey"] = Staged("encryptionkey", optional(cfg.key)),
                          !["userdata"]      = Staged("userdata", optional(cfg.dataImage)),
                          !["cache"]         = Staged("cache", "image"),
                          !["sdcard"]        = Staged("sdcard", "image")]
  /\ Writes(linked, {f \in Files : base'[f] # base[f]})
  /\ Goto("args")
  /\ UNCHANGED <<linked, diff, ramdisk, args, ramBin, storeVars>>
  /\ protoSame /\ emulatorSame

-----------------------------------------------------------------------------
(* The emulator                                                            *)

Present == {f \in Files : base[f] # "none"}

\* Mutant: -data is always passed.
NamedImagesAlwaysData ==
  {"cache", "sdcard", "ramdisk", "userdata"} \cup (IF cfg.qemu2 THEN {"system"} ELSE {})
  \cup ({"vendor", "encryptionkey"} \cap Present)

\* Three images are named in any case, others if they are there.
NamedImages ==
  {"cache", "sdcard", "ramdisk"} \cup (IF cfg.qemu2 THEN {"system"} ELSE {})
  \cup ({"vendor", "encryptionkey", "userdata"} \cap Present)

PrepareQemuArgs ==
  /\ pc = "args"
  /\ args' = NamedImages
  /\ Goto("launch")
  /\ UNCHANGED <<base, linked, spoilt, diff, ramdisk, ramBin, storeVars>>
  /\ protoSame /\ emulatorSame

\* The emulator makes a data partition if it was given none, and an overlay where
\* it finds none; QEMU writes to the images themselves.  It has the disks open, and
\* perhaps the other files.  It only reads the kernel, init/system.img and, started
\* with -no-snapshot-save, ram.bin.
EmulatorRuns ==
  LET made == IF base["userdata"] = "none" THEN [base EXCEPT !["userdata"] = "made"] ELSE base IN
  /\ pc = "launch"
  /\ IF cfg.qemu2
       THEN /\ base' = made
            /\ diff' = [f \in Files |-> IF f \in Disks /\ diff[f] = "none" THEN made[f] ELSE diff[f]]
       ELSE /\ base' = [f \in Files |-> IF f \in Disks /\ made[f] # "none" THEN "written" ELSE made[f]]
            /\ UNCHANGED diff
  /\ Writes(linked, IF cfg.qemu2 THEN {f \in Disks : made[f] # base[f]} ELSE Disks)
  /\ mounted' \in {m \cup {"data", "cache"} : m \in SUBSET {"media", "router", "netns"}}
  /\ \E others \in {{}, {"ramdisk", "snapshots"}} :
       open' = {f \in Disks : made[f] # "none"} \cup others
  /\ Goto(IF life = "boot" THEN "running" ELSE "started")
  /\ UNCHANGED <<linked, ramdisk, args, ramBin, damaged, storeVars>> /\ protoSame

-----------------------------------------------------------------------------
(* _StopDeviceAndOutputState                                               *)

\* TakeSnapshot stops the virtual machine, so there is nothing to unmount.  That the
\* emulator saved it shows only when ram.bin is looked for.
TakeSnapshot ==
  /\ pc = "running" /\ cfg.save
  /\ ramBin' \in {"session", "none"}
  /\ Writes(linked, {"ram", "snapshots"})
  /\ Goto("kill")
  /\ UNCHANGED <<base, linked, diff, ramdisk, args, storeVars>>
  /\ protoSame /\ emulatorSame

\* Wait for an idle device, stop its framework and services.  _CheckLeftProcess fails
\* when there is no pipe_traversal process left.
StopServices ==
  /\ pc = "running" /\ ~cfg.save
  /\ Goto("umount") \/ Goto("failed")
  /\ UNCHANGED <<sessionVars, spoilt, storeVars>> /\ protoSame /\ emulatorSame

\* Mutant: only the last mount point counts.
DiesCleanlyLast(ok) == ok

DiesCleanly(ok) == clean /\ ok

\* _CleanUmount of one mount point.  A mount point that is busy stays, as does one
\* with another below it; mount is searched for the path anywhere in a line.  Since
\* API 21 the file system is checked too, if the mount point itself was mounted.
CleanUmount ==
  LET m == MountOrder[at]
      was == mounted \cap Covers(m)
  IN
  /\ pc = "umount" /\ at <= 5
  /\ \E busy \in BOOLEAN, bad \in BOOLEAN :
       /\ mounted' = IF m \in mounted /\ ~busy /\ was = {m} THEN mounted \ {m} ELSE mounted
       /\ damaged' = IF m \in mounted /\ bad THEN damaged \cup {m} ELSE damaged
       /\ clean' = DiesCleanly(
            was = {} \/ (/\ mounted' \cap Covers(m) = {}
                         /\ cfg.api >= 21 => m \in mounted /\ ~bad))
  /\ at' = at + 1
  /\ Goto("umount")
  /\ UNCHANGED <<sessionVars, spoilt, archive, tries, open>> /\ protoSame

Umounted ==
  /\ pc = "umount" /\ at = 6
  /\ Goto("kill")
  /\ UNCHANGED <<sessionVars, spoilt, storeVars>> /\ protoSame /\ emulatorSame

\* The emulator is told over the console to exit, which it does in its own time.
KillEmulator ==
  /\ pc = "kill"
  /\ Goto(IF clean THEN "list" ELSE "transient")
  /\ UNCHANGED <<sessionVars, spoilt, storeVars>> /\ protoSame /\ emulatorSame

Overlays == {f \in Disks : diff[f] # "none"}

\* What StoreAndCompressUserdata puts into the archive: overlays (or images, with
\* QEMU) of the disks but the system image of QEMU, the ramdisk, the empty snapshot,
\* and since API 28 the data partition the overlay was made over.
Changed == {"userdata", "cache", "sdcard"} \cup ({"vendor", "encryptionkey"} \cap Present)
StoredDiffs == IF cfg.qemu2 THEN Changed \cup {"system"} ELSE {}
StoredFiles == {"ramdisk", "snapshots"} \cup (IF cfg.qemu2 THEN {} ELSE Changed)
               \cup (IF cfg.api >= 28 THEN {"userdata"} ELSE {})

SnapshotMissing == cfg.save /\ ramBin # "session"

\* ram.bin is copied before anything else.
ListImages ==
  /\ pc = "list"
  /\ ramBin' = IF ramBin = "session" THEN "output" ELSE ramBin
  /\ Goto(IF SnapshotMissing THEN "failed" ELSE "lsof")
  /\ UNCHANGED <<base, linked, spoilt, diff, ramdisk, args, storeVars>>
  /\ protoSame /\ emulatorSame

\* Mutant: one call more.
LsofLeftOffByOne == tries <= LsofTries

LsofLeft == tries < LsofTries

\* lsof exits with 0 when it finds every file open, and with 1 when it fails to find
\* one of them.
Lsof ==
  /\ pc = "lsof" /\ LsofLeft
  /\ tries' = tries + 1
  /\ IF StoredDiffs \cup StoredFiles \subseteq open THEN Goto("lsof") ELSE Goto("tar")
  /\ UNCHANGED <<sessionVars, spoilt, archive, at, clean>> /\ protoSame /\ emulatorSame

StillNotDead ==
  /\ pc = "lsof" /\ ~LsofLeft
  /\ Goto("failed")
  /\ UNCHANGED <<sessionVars, spoilt, storeVars>> /\ protoSame /\ emulatorSame

\* tar fails when a file is missing, and may fail when one changes under it.  What
\* becomes of a file that changes is left out: see TarIsQuiet.
Tar ==
  /\ pc = "tar"
  /\ IF StoredDiffs \subseteq Overlays /\ StoredFiles \subseteq Present
       THEN /\ archive' = [base |-> [f \in Files |-> IF f \in StoredFiles THEN base[f] ELSE "none"],
                           diff |-> [f \in Files |-> IF f \in StoredDiffs THEN diff[f] ELSE "none"],
                           ramdisk |-> ramdisk]
            /\ Goto("restart") \/ (open # {} /\ Goto("failed"))
       ELSE Goto("failed") /\ UNCHANGED archive
  /\ UNCHANGED <<sessionVars, spoilt, at, clean, tries>> /\ protoSame /\ emulatorSame

EmulatorExits ==
  /\ pc \in {"list", "lsof", "tar", "restart"}
  /\ \E f \in open : open' = open \ {f}
  /\ UNCHANGED <<cfg, life, pc, sessionVars, spoilt, deviceVars, storeVars>> /\ protoSame

\* Another process, in another directory, starts what the boot action built.
Restart ==
  /\ pc = "restart" /\ open = {}
  /\ life' = "start" /\ pc' = "stage"
  /\ base' = None /\ linked' = {} /\ diff' = None /\ ramdisk' = 0 /\ args' = {}
  /\ mounted' = {}
  /\ UNCHANGED <<cfg, spoilt, ramBin, damaged, storeVars, open>> /\ protoSame

Next ==
  \/ Configure \/ StageSystem \/ InitializeRamdisk \/ Unpack \/ StageRest
  \/ PrepareQemuArgs \/ EmulatorRuns
  \/ TakeSnapshot \/ StopServices \/ CleanUmount \/ Umounted \/ KillEmulator
  \/ ListImages \/ Lsof \/ StillNotDead \/ Tar \/ EmulatorExits \/ Restart

Spec == Init /\ [][Next]_vars

-----------------------------------------------------------------------------
(* Properties                                                              *)

Launching == pc = "launch"

\* The emulator is started with images that exist: the list of arguments and the
\* staging of files are far apart and depend on the same flags in different ways.
ArgsNameStagedFiles == Launching => args \subseteq Present

\* The density the device is told by its ramdisk is the one the emulator is
\* configured with, and the closest it supports to the one asked for.
DensityAgrees ==
  Launching =>
    /\ cfg.patchedRamdisk \/ ramdisk = density
    /\ cfg.density = TVDPI \/ \A i \in DOMAIN BUCKET_DPI :
         LET off(d) == IF d > cfg.density THEN d - cfg.density ELSE cfg.density - d
         IN off(density) <= off(BUCKET_DPI[i])

\* What the boot action did to the disks is there when the device is started again:
\* with QEMU in the images, with QEMU2 in overlays over the very image they were made
\* over.  Three uses of the flags break this: guest rendering at start, where boot
\* had modified the system image; a data partition resized under its overlay; a data
\* partition that the emulator had made and that is not stored (before API 28).
BootStateSurvives ==
  Launching /\ life = "start" =>
    IF cfg.qemu2
      THEN \A f \in Overlays :
             \/ diff[f] = base[f]
             \/ f = "system" /\ EnableGuestGl /\ cfg.api < 24
             \/ f = "userdata" /\ (Resizes \/ (~cfg.dataImage /\ cfg.api < 28))
      ELSE \A f \in {"userdata", "cache", "sdcard"} : base[f] \in {"written", "resized"}

\* Inputs of the build are never written to: of what the session links to, neither
\* debugfs, resize2fs and the copies of the staging, nor the emulator that runs, nor
\* the snapshot it takes, writes to anything.  The link is made under one set of flags
\* and each of the writers acts under another.
InputsUntouched == spoilt = {}

\* An archive is stored only when the device let go of its file systems and they
\* were found sound (or could not be checked, before API 21), or when a snapshot of
\* it running was stored as well.
StoredMeansClean ==
  pc \in {"restart", "tar"} /\ life = "boot" =>
    IF cfg.save THEN ramBin = "output"
    ELSE mounted = {} /\ (cfg.api >= 21 => damaged = {})

\* The comment above the calls of lsof: they guarantee that no other process is
\* writing to the files that are archived.
TarIsQuiet == pc = "tar" => open \cap (StoredDiffs \cup StoredFiles) = {}
=============================================================================
