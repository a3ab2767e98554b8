------------------------- MODULE EmulatorImagesProofs -------------------------
(***************************************************************************)
(* What holds of the images for every system image, API level and command  *)
(* line, and however often lsof is called.                                 *)
(***************************************************************************)
EXTENDS EmulatorImages, TLAPS

USE ImagesAssumption

Kinds == {"none", "image", "noEgl", "made", "written", "resized"}

\* What boot stages, and what the emulator has when it runs on it.
BootSystem == IF cfg.api < 24 THEN "noEgl" ELSE "image"
BootBase(f) ==
  IF f = "system" THEN BootSystem
  ELSE IF \/ f = "vendor" /\ ~cfg.vendor
          \/ f = "encryptionkey" /\ ~cfg.key
          \/ f = "userdata" /\ ~cfg.dataImage
         THEN "none" ELSE "image"
RunBase(f) == IF f = "userdata" /\ ~cfg.dataImage THEN "made" ELSE BootBase(f)
Written == {"userdata", "cache", "sdcard"}

StagePcs == {"configure", "stage", "archive", "rest", "args", "launch"}
RunPcs   == {"running", "umount", "kill", "list", "lsof", "tar", "restart"}
StartPcs == (StagePcs \ {"configure"}) \cup {"started", "failed"}

PlainInv ==
  /\ cfg \in Config
  /\ life \in {"boot", "start"}
  /\ life = "start" => pc \in StartPcs
  /\ base \in [Files -> Kinds] /\ diff \in [Files -> Kinds]
  /\ archive.base \in [Files -> Kinds] /\ archive.diff \in [Files -> Kinds]

\* The session of the boot action, from staging to the archive.
BootInv ==
  life = "boot" =>
    /\ pc \in {"configure", "stage"} => base = None
    /\ pc \in StagePcs => diff = None
    /\ pc = "archive" => \A f \in Files :
         base[f] = IF f = "system" THEN BootSystem ELSE "none"
    /\ pc = "rest" => \A f \in Files :
         base[f] = IF f \in {"system", "ramdisk", "snapshots"} THEN BootBase(f) ELSE "none"
    /\ pc \in {"args", "launch"} => \A f \in Files : base[f] = BootBase(f)
    /\ pc \in RunPcs =>
         IF cfg.qemu2 THEN \A f \in Disks : base[f] = RunBase(f) /\ diff[f] = base[f]
                      ELSE diff = None /\ \A f \in Written : base[f] = "written"

\* What the archive holds once the boot action is over.
ArchiveInv ==
  pc = "restart" \/ life = "start" =>
    /\ archive.base["ramdisk"] # "none"
    /\ IF cfg.qemu2
         THEN \A f \in Disks :
                /\ archive.diff[f] \in {"none", RunBase(f)}
                /\ archive.base[f] =
                     IF f = "userdata" /\ cfg.api >= 28 THEN RunBase(f) ELSE "none"
         ELSE /\ \A f \in Disks : archive.diff[f] = "none"
              /\ \A f \in Written : archive.base[f] = "written"

\* The overlay of f, if there is one, fits, or one of the three exceptions is met.
Fits(f) ==
  \/ diff[f] = "none" \/ diff[f] = base[f]
  \/ f = "system" /\ EnableGuestGl /\ cfg.api < 24
  \/ f = "userdata" /\ (Resizes \/ (~cfg.dataImage /\ cfg.api < 28))

\* The session of the start action.
StartInv ==
  life = "start" =>
    /\ pc = "stage" => base = None
    /\ pc = "archive" => \A f \in Files :
         base[f] = IF f # "system" THEN "none"
                   ELSE IF ShouldModifySystemImage THEN "noEgl" ELSE "image"
    /\ pc \in {"rest", "args", "launch"} =>
         IF cfg.qemu2
           THEN /\ \A f \in Disks : diff[f] \in {"none", RunBase(f)}
                /\ Fits("system")
           ELSE \A f \in Written : base[f] \in {"written", "resized"}
    /\ pc = "rest" /\ cfg.qemu2 =>
         /\ \A f \in {"vendor", "encryptionkey", "cache", "sdcard"} : base[f] = "none"
         /\ base["userdata"] = IF Resizes THEN "resized" ELSE archive.base["userdata"]
    /\ pc \in {"args", "launch"} /\ cfg.qemu2 => \A f \in Disks : Fits(f)

\* What the arguments name whether it was staged or not has been staged.
StagedInv ==
  /\ pc \in {"archive", "rest", "args", "launch"} => base["system"] # "none"
  /\ pc \in {"rest", "args", "launch"} => base["ramdisk"] # "none"
  /\ pc \in {"args", "launch"} => base["cache"] # "none" /\ base["sdcard"] # "none"
  /\ pc = "launch" => args \subseteq Present

\* No input of the build is written to: the system image is a link only where neither
\* debugfs nor the emulator writes to it, ram.bin only after the snapshot was taken, and
\* no other image that somebody writes to is a link.
LinkInv ==
  /\ spoilt = {}
  /\ linked \subseteq {"kernel", "init", "system", "ram"}
  /\ "system" \in linked => cfg.qemu2
  /\ "ram" \in linked => life = "start"

\* The polite shutdown: what was passed without a complaint is unmounted and sound.
CleanInv ==
  life = "boot" =>
    /\ at \in 1 .. 6
    /\ pc \in StagePcs \cup {"running"} => clean /\ at = 1 /\ damaged = {}
    /\ mounted \subseteq Mounts
    /\ pc = "umount" => ~cfg.save
    /\ cfg.save /\ pc \in {"lsof", "tar", "restart"} => ramBin = "output"
    /\ ~cfg.save /\ pc \in RunPcs \ {"running", "umount"} => at = 6
    /\ pc \in {"list", "lsof", "tar", "restart"} => clean
    /\ ~cfg.save /\ pc \in RunPcs /\ clean =>
         /\ \A j \in 1 .. 5 : j < at => MountOrder[j] \notin mounted
         /\ cfg.api >= 21 => damaged = {}

\* The density of the ramdisk, unless an earlier build action has patched it.
TellsDensity(d) == cfg.patchedRamdisk \/ d = density
DensityInv ==
  /\ pc # "configure" => density = MapToSupportedDensity(cfg.density) /\ props = density
  /\ pc \in {"rest", "args", "launch"} \cup RunPcs => TellsDensity(ramdisk)
  /\ pc = "restart" \/ life = "start" => TellsDensity(archive.ramdisk)

\* Types: of the images, which only the start action resizes, under an overlay it has
\* from the archive; and of all the rest.
Unresized == Kinds \ {"resized"}
OverlayKinds == Unresized \ {"written"}
ImageTypes ==
  /\ base \in [Files -> IF cfg.qemu2 THEN Kinds \ {"written"} ELSE Kinds]
  /\ diff \in [Files -> OverlayKinds]
  /\ archive.base \in [Files -> IF cfg.qemu2 THEN OverlayKinds ELSE Unresized]
  /\ archive.diff \in [Files -> OverlayKinds]
  /\ \A f \in Files : base[f] = "resized" => f = "userdata" /\ life = "start"
  /\ cfg.qemu2 /\ (pc = "restart" \/ life = "start") => archive.diff["userdata"] # "none"
  /\ cfg.qemu2 /\ life = "start" /\ pc \in {"rest", "args", "launch"} => diff["userdata"] # "none"
DensityTypes ==
  /\ density \in Nat /\ props \in Nat /\ ramdisk \in Nat /\ archive.ramdisk \in Nat
  /\ pc # "configure" => props > 0
  /\ pc \in {"rest", "args", "launch"} \cup RunPcs => ramdisk > 0
  /\ pc = "restart" \/ life = "start" => archive.ramdisk > 0
  /\ archive = Empty \/ archive.ramdisk > 0
OtherTypes ==
  /\ cfg \in Configs
  /\ pc \in StagePcs \cup RunPcs \cup Ends
  /\ linked \subseteq Links /\ args \subseteq Files /\ open \subseteq Files
  /\ ramBin \in {"none", "session", "output"}
  /\ mounted \subseteq Mounts /\ damaged \subseteq Mounts
  /\ at \in 1 .. 6
  /\ clean \in BOOLEAN
  /\ tries \in 0 .. LsofTries
TypeInv == ImageTypes /\ DensityTypes /\ OtherTypes

FilesInv == PlainInv /\ BootInv /\ ArchiveInv /\ StartInv /\ StagedInv

IInv == FilesInv /\ LinkInv /\ CleanInv /\ DensityInv /\ TypeInv

-----------------------------------------------------------------------------
\* The start of the boot action.
LEMMA InvInit == Init => IInv
<1> SUFFICES ASSUME Init PROVE IInv
  OBVIOUS
<1>1. cfg \in Config
  BY DEF Init
<1>2. None \in [Files -> Kinds]
  BY DEF None, Kinds
<1>3. PlainInv
  BY <1>1, <1>2 DEF Init, PlainInv, Empty
<1>4. BootInv /\ ArchiveInv /\ StartInv /\ StagedInv /\ LinkInv
  BY DEF Init, BootInv, ArchiveInv, StartInv, StagedInv, LinkInv, RunPcs
<1>5. CleanInv
  BY DEF Init, CleanInv, RunPcs
<1>6. DensityInv
  BY DEF Init, DensityInv, RunPcs
<1>7. ImageTypes
  <2>1. /\ None \in [Files -> OverlayKinds] /\ None \in [Files -> Kinds \ {"written"}]
        /\ None \in [Files -> Kinds] /\ None \in [Files -> Unresized]
        /\ \A f \in Files : None[f] # "resized"
    BY DEF None, OverlayKinds, Unresized, Kinds
  <2> QED
    BY <2>1 DEF Init, ImageTypes, Empty
<1>8. DensityTypes
  BY DEF Init, DensityTypes, Empty, RunPcs
<1>9. OtherTypes
  BY DEF Init, OtherTypes, StagePcs
<1> QED
  BY <1>3, <1>4, <1>5, <1>6, <1>7, <1>8, <1>9 DEF IInv, FilesInv, TypeInv

\* A step of the shutdown, which changes no image and is not the archive's.
LEMMA FilesMove ==
  ASSUME FilesInv, UNCHANGED <<cfg, life, base, diff, archive>>, pc \in RunPcs,
         pc' = pc \/ pc' \in (RunPcs \ {"restart"}) \cup {"failed", "transient"}
  PROVE  FilesInv'
<1> USE DEF FilesInv, StagePcs, StartPcs, RunPcs
<1>1. life = "boot"
  BY DEF PlainInv
<1>2. PlainInv' /\ StagedInv'
  BY <1>1 DEF PlainInv, StagedInv
<1>3. ArchiveInv' /\ StartInv'
  BY <1>1 DEF ArchiveInv, StartInv, RunBase, BootBase, BootSystem
<1>4. BootInv'
  BY <1>1 DEF BootInv, RunBase, BootBase, BootSystem
<1> QED
  BY <1>2, <1>3, <1>4

\* Configure changes no image.
LEMMA FilesConfigure == ASSUME FilesInv, Configure PROVE FilesInv'
<1> USE DEF FilesInv, StagePcs, StartPcs, RunPcs
<1>1. /\ pc = "configure" /\ pc' = "stage" /\ life = "boot"
      /\ UNCHANGED <<cfg, life, base, diff, archive>>
  BY DEF Configure, Goto, sessionVars, storeVars, PlainInv
<1>2. PlainInv' /\ StagedInv' /\ ArchiveInv' /\ StartInv'
  BY <1>1 DEF PlainInv, StagedInv, ArchiveInv, StartInv
<1>3. BootInv'
  BY <1>1 DEF BootInv
<1> QED
  BY <1>2, <1>3

\* The system image comes first, at boot without its EGL libraries before API 24.
LEMMA FilesStageSystem == ASSUME FilesInv, StageSystem PROVE FilesInv'
<1> USE DEF FilesInv, StagePcs, StartPcs, RunPcs
<1> DEFINE system == IF ShouldModifySystemImage THEN "noEgl" ELSE "image"
<1>1. /\ pc = "stage" /\ pc' = "archive" /\ base' = [base EXCEPT !["system"] = system]
      /\ UNCHANGED <<cfg, life, diff, archive>>
  BY DEF StageSystem, Goto, storeVars
<1>2. base = None
  BY <1>1 DEF PlainInv, BootInv, StartInv
<1>3. \A f \in Files : base'[f] = IF f = "system" THEN system ELSE "none"
  BY <1>1, <1>2 DEF None, Files, Disks
<1>4. PlainInv'
  BY <1>1 DEF PlainInv, Kinds
<1>5. StagedInv' /\ ArchiveInv'
  BY <1>1, <1>3 DEF StagedInv, ArchiveInv, Files, Disks, RunBase, BootBase, BootSystem
<1>6. BootInv'
  BY <1>1, <1>3 DEF BootInv, ShouldModifySystemImage, EnableGuestGl, BootSystem
<1>7. StartInv'
  BY <1>1, <1>3 DEF StartInv, ShouldModifySystemImage, EnableGuestGl
<1> QED
  BY <1>4, <1>5, <1>6, <1>7

\* Boot adds the ramdisk and the empty snapshot.
LEMMA FilesInitializeRamdisk == ASSUME FilesInv, InitializeRamdisk PROVE FilesInv'
<1> USE DEF FilesInv, StagePcs, StartPcs, RunPcs
<1>1. /\ pc = "archive" /\ pc' = "rest" /\ life = "boot"
      /\ base' = [base EXCEPT !["ramdisk"] = "image", !["snapshots"] = "image"]
      /\ UNCHANGED <<cfg, life, diff, archive>>
  BY DEF InitializeRamdisk, Goto, storeVars
<1>2. base \in [Files -> Kinds]
  BY DEF PlainInv
<1>3. PlainInv'
  BY <1>1 DEF PlainInv, Kinds
<1>4. \A f \in Files : base'[f] = IF f \in {"system", "ramdisk", "snapshots"}
                                    THEN BootBase(f) ELSE "none"
  BY <1>1, <1>2 DEF BootInv, BootBase, Files, Disks
<1>5. BootInv'
  <2>1. diff' = None
    BY <1>1 DEF BootInv
  <2>2. \A f \in Files : BootBase(f)' = BootBase(f)
    BY <1>1 DEF BootBase, BootSystem
  <2> QED
    BY <1>1, <1>4, <2>1, <2>2 DEF BootInv
<1>6. StagedInv' /\ ArchiveInv' /\ StartInv'
  BY <1>1, <1>4 DEF StagedInv, ArchiveInv, StartInv, BootBase, BootSystem, Files, Disks
<1> QED
  BY <1>3, <1>5, <1>6

\* Start unpacks the archive, and may resize the data partition.
LEMMA FilesUnpack == ASSUME FilesInv, Unpack PROVE FilesInv'
<1> USE DEF FilesInv, StagePcs, StartPcs, RunPcs
<1> DEFINE staged == [f \in Files |-> IF archive.base[f] = "none" THEN base[f] ELSE archive.base[f]]
<1>1. pc = "archive" /\ life = "start" /\ UNCHANGED <<cfg, life, archive>>
  BY DEF Unpack, Goto, storeVars
<1>2. base \in [Files -> Kinds] /\ archive.base \in [Files -> Kinds]
      /\ archive.diff \in [Files -> Kinds] /\ staged \in [Files -> Kinds]
  BY DEF PlainInv
<1>3. CASE pc' = "failed" /\ UNCHANGED <<base, diff>>
  BY <1>1, <1>3 DEF PlainInv, BootInv, ArchiveInv, StartInv, StagedInv, RunBase, BootBase,
                    BootSystem
<1>4. CASE /\ pc' = "rest" /\ diff' = archive.diff
           /\ base' = IF Resizes THEN [staged EXCEPT !["userdata"] = "resized"] ELSE staged
  <2>1. PlainInv'
    BY <1>1, <1>2, <1>4 DEF PlainInv, Kinds
  <2>2. \A f \in Files : base'[f] = IF f = "userdata" /\ Resizes THEN "resized" ELSE staged[f]
    BY <1>2, <1>4 DEF Files, Disks
  <2>3. \A f \in Files : base[f] = IF f # "system" THEN "none"
                           ELSE IF ShouldModifySystemImage THEN "noEgl" ELSE "image"
    BY <1>1 DEF StartInv
  <2>4. ArchiveInv'
    BY <1>1, <1>4 DEF ArchiveInv, RunBase, BootBase, BootSystem
  <2>5. StagedInv'
    BY <1>1, <1>4, <2>2, <2>3 DEF StagedInv, ArchiveInv, Files, Disks
  <2>6. BootInv'
    BY <1>1 DEF BootInv
  <2>7. ASSUME cfg.qemu2 PROVE StartInv'
    <3>1. \A f \in Disks : diff'[f] \in {"none", RunBase(f)}
      BY <1>1, <1>4, <2>7 DEF ArchiveInv
    <3>2. base'["system"] = IF ShouldModifySystemImage THEN "noEgl" ELSE "image"
      BY <1>1, <2>2, <2>3, <2>7 DEF ArchiveInv, Files, Disks
    <3>3. Fits("system")'
      BY <1>1, <3>1, <3>2 DEF Fits, RunBase, BootBase, BootSystem, ShouldModifySystemImage,
                              EnableGuestGl, Disks
    <3>4. \A f \in {"vendor", "encryptionkey", "cache", "sdcard"} : base'[f] = "none"
      BY <1>1, <2>2, <2>3, <2>7 DEF ArchiveInv, Files, Disks
    <3>5. base'["userdata"] = IF Resizes THEN "resized" ELSE archive.base["userdata"]
      BY <2>2, <2>3 DEF Files, Disks
    <3> QED
      BY <1>1, <1>4, <2>7, <3>1, <3>3, <3>4, <3>5
         DEF StartInv, Resizes, RunBase, BootBase, BootSystem
  <2>8. ASSUME ~cfg.qemu2 PROVE StartInv'
    BY <1>1, <1>4, <2>2, <2>8 DEF StartInv, ArchiveInv, Written, Files, Disks
  <2> QED
    BY <2>1, <2>4, <2>5, <2>6, <2>7, <2>8
<1> QED
  BY <1>3, <1>4 DEF Unpack, Goto

\* What is staged last does not touch what the archive brought.
LEMMA FilesStageRest == ASSUME FilesInv, StageRest PROVE FilesInv'
<1> USE DEF FilesInv, StagePcs, StartPcs, RunPcs
<1> DEFINE optional(has) == IF has THEN "image" ELSE "none"
<1>1. /\ pc = "rest" /\ pc' = "args" /\ UNCHANGED <<cfg, life, diff, archive>>
      /\ base' = [base EXCEPT !["vendor"]        = Staged("vendor", optional(cfg.vendor)),
                              !["encryptionkey"] = Staged("encryptionkey", optional(cfg.key)),
                              !["userdata"]      = Staged("userdata", optional(cfg.dataImage)),
                              !["cache"]         = Staged("cache", "image"),
                              !["sdcard"]        = Staged("sdcard", "image")]
  BY DEF StageRest, Goto, storeVars
<1>2. base \in [Files -> Kinds]
  BY DEF PlainInv
<1>3. /\ base'["vendor"] = Staged("vendor", optional(cfg.vendor))
      /\ base'["encryptionkey"] = Staged("encryptionkey", optional(cfg.key))
      /\ base'["userdata"] = Staged("userdata", optional(cfg.dataImage))
      /\ base'["cache"] = Staged("cache", "image")
      /\ base'["sdcard"] = Staged("sdcard", "image")
      /\ \A f \in {"system", "ramdisk", "snapshots"} : base'[f] = base[f]
  BY <1>1, <1>2 DEF Files, Disks
<1>4. PlainInv'
  <2>1. \A f \in Disks : \A k \in Kinds : Staged(f, k) \in Kinds
    BY <1>2 DEF Staged, Files
  <2> QED
    BY <1>1, <1>2, <2>1 DEF PlainInv, Kinds, Disks
<1>5. StagedInv'
  BY <1>1, <1>3 DEF StagedInv, Staged
<1>6. ArchiveInv'
  BY <1>1 DEF ArchiveInv, RunBase, BootBase, BootSystem
<1>7. BootInv'
  <2>1. SUFFICES ASSUME life = "boot" PROVE \A f \in Files : base'[f] = BootBase(f)' /\ diff' = None
    BY <1>1 DEF BootInv
  <2>2. /\ diff = None
        /\ \A f \in Files : base[f] = IF f \in {"system", "ramdisk", "snapshots"}
                                       THEN BootBase(f) ELSE "none"
    BY <1>1, <2>1 DEF BootInv
  <2>3. \A f \in Files : BootBase(f)' = BootBase(f)
    BY <1>1 DEF BootBase, BootSystem
  <2>4. \A f \in Files : base'[f] = BootBase(f)
    BY <1>3, <2>2 DEF BootBase, Staged, Files, Disks
  <2> QED
    BY <1>1, <2>2, <2>3, <2>4
<1>8. StartInv'
  <2>1. SUFFICES ASSUME life = "start"
        PROVE  IF cfg.qemu2
                 THEN \A f \in Disks : diff'[f] \in {"none", RunBase(f)'} /\ Fits(f)'
                 ELSE \A f \in Written : base'[f] \in {"written", "resized"}
    BY <1>1 DEF StartInv, Disks
  <2>2. CASE ~cfg.qemu2
    BY <1>1, <1>3, <2>1, <2>2 DEF StartInv, Staged, Written
  <2>3. ASSUME cfg.qemu2, NEW f \in Disks
        PROVE  diff'[f] \in {"none", RunBase(f)'} /\ Fits(f)'
    <3>1. diff[f] \in {"none", RunBase(f)} /\ RunBase(f)' = RunBase(f)
      BY <1>1, <2>1, <2>3 DEF StartInv, RunBase, BootBase, BootSystem
    <3>2. diff'[f] \in {"none", RunBase(f)'}
      BY <1>1, <3>1
    <3>3. CASE f = "system"
      <4>1. Fits("system")
        BY <1>1, <2>1, <2>3 DEF StartInv
      <4> QED
        BY <1>1, <1>3, <3>2, <3>3, <4>1 DEF Fits, EnableGuestGl, Resizes
    <3>4. CASE f \in {"vendor", "encryptionkey", "cache", "sdcard"}
      <4>1. base[f] = "none"
        BY <1>1, <2>1, <2>3, <3>4 DEF StartInv
      <4>2. base'[f] = BootBase(f)
        BY <1>3, <3>4, <4>1 DEF Staged, BootBase
      <4> QED
        BY <1>1, <3>1, <3>2, <3>4, <4>2 DEF Fits, RunBase
    <3>5. CASE f = "userdata"
      <4>1. base["userdata"] = IF Resizes THEN "resized" ELSE archive.base["userdata"]
        BY <1>1, <2>1, <2>3 DEF StartInv
      <4>2. archive.base["userdata"] = IF cfg.api >= 28 THEN RunBase("userdata") ELSE "none"
        BY <2>1, <2>3 DEF ArchiveInv, Disks
      <4>3. cfg.api \in Nat
        BY DEF PlainInv, Config
      <4>4. CASE Resizes \/ (~cfg.dataImage /\ cfg.api < 28)
        BY <1>1, <3>2, <3>5, <4>4 DEF Fits, Resizes
      <4>5. CASE ~Resizes /\ cfg.api >= 28
        <5>1. RunBase("userdata") # "none"
          BY DEF RunBase, BootBase
        <5>2. base'["userdata"] = RunBase("userdata")
          BY <1>3, <4>1, <4>2, <4>5, <5>1 DEF Staged
        <5> QED
          BY <1>1, <3>1, <3>2, <3>5, <5>2 DEF Fits
      <4>6. CASE ~Resizes /\ cfg.api < 28 /\ cfg.dataImage
        <5>1. base["userdata"] = "none"
          BY <4>1, <4>2, <4>3, <4>6
        <5>2. base'["userdata"] = "image" /\ RunBase("userdata") = "image"
          BY <1>3, <4>6, <5>1 DEF Staged, RunBase, BootBase
        <5> QED
          BY <1>1, <3>1, <3>2, <3>5, <5>2 DEF Fits
      <4> QED
        BY <4>3, <4>4, <4>5, <4>6
    <3> QED
      BY <3>2, <3>3, <3>4, <3>5 DEF Disks
  <2> QED
    BY <1>1, <2>2, <2>3
<1> QED
  BY <1>4, <1>5, <1>6, <1>7, <1>8

\* The arguments name what is there, or what has always been staged.
LEMMA FilesPrepareQemuArgs == ASSUME FilesInv, PrepareQemuArgs PROVE FilesInv'
<1> USE DEF FilesInv, StagePcs, StartPcs, RunPcs
<1>1. /\ pc = "args" /\ pc' = "launch" /\ args' = NamedImages
      /\ UNCHANGED <<cfg, life, base, diff, archive>>
  BY DEF PrepareQemuArgs, Goto, storeVars
<1>2. PlainInv'
  BY <1>1 DEF PlainInv
<1>3. BootInv'
  BY <1>1 DEF BootInv, BootBase, BootSystem
<1>4. ArchiveInv'
  BY <1>1 DEF ArchiveInv, RunBase, BootBase, BootSystem
<1>5. StartInv'
  BY <1>1 DEF StartInv, Fits, Resizes, EnableGuestGl, RunBase, BootBase, BootSystem
<1>6. StagedInv'
  <2>1. /\ base["system"] # "none" /\ base["ramdisk"] # "none"
        /\ base["cache"] # "none" /\ base["sdcard"] # "none"
    BY <1>1 DEF StagedInv
  <2>2. NamedImages \subseteq Present
    BY <2>1 DEF NamedImages, Present, Files, Disks
  <2>3. Present' = Present
    BY <1>1 DEF Present
  <2> QED
    BY <1>1, <2>1, <2>2, <2>3 DEF StagedInv
<1> QED
  BY <1>2, <1>3, <1>4, <1>5, <1>6

\* The emulator makes its overlays over the images boot staged for it.
LEMMA FilesEmulatorRuns == ASSUME FilesInv, EmulatorRuns PROVE FilesInv'
<1> USE DEF FilesInv, StagePcs, StartPcs, RunPcs
<1> DEFINE made == IF base["userdata"] = "none" THEN [base EXCEPT !["userdata"] = "made"] ELSE base
<1>1. /\ pc = "launch" /\ pc' = (IF life = "boot" THEN "running" ELSE "started")
      /\ UNCHANGED <<cfg, life, archive>>
      /\ IF cfg.qemu2
           THEN /\ base' = made
                /\ diff' = [f \in Files |-> IF f \in Disks /\ diff[f] = "none" THEN made[f]
                                                                            ELSE diff[f]]
           ELSE /\ base' = [f \in Files |-> IF f \in Disks /\ made[f] # "none" THEN "written"
                                                                            ELSE made[f]]
                /\ UNCHANGED diff
  BY DEF EmulatorRuns, Goto, storeVars
<1>2. base \in [Files -> Kinds] /\ diff \in [Files -> Kinds] /\ made \in [Files -> Kinds]
  BY DEF PlainInv, Kinds
<1>3. PlainInv'
  <2>1. base' \in [Files -> Kinds] /\ diff' \in [Files -> Kinds]
    BY <1>1, <1>2 DEF Kinds
  <2> QED
    BY <1>1, <2>1 DEF PlainInv
<1>4. StagedInv' /\ StartInv'
  BY <1>1 DEF StagedInv, StartInv, PlainInv
<1>5. ArchiveInv'
  BY <1>1 DEF ArchiveInv, RunBase, BootBase, BootSystem
<1>6. BootInv'
  <2>1. SUFFICES ASSUME life = "boot"
        PROVE  IF cfg.qemu2 THEN \A f \in Disks : base'[f] = RunBase(f)' /\ diff'[f] = base'[f]
                            ELSE diff' = None /\ \A f \in Written : base'[f] = "written"
    BY <1>1 DEF BootInv
  <2>2. diff = None /\ \A f \in Files : base[f] = BootBase(f)
    BY <1>1, <2>1 DEF BootInv
  <2>3. \A f \in Disks : made[f] = RunBase(f)
    BY <1>2, <2>2 DEF RunBase, BootBase, Files, Disks
  <2>4. CASE cfg.qemu2
    <3>1. \A f \in Disks : base'[f] = made[f] /\ diff'[f] = made[f]
      BY <1>1, <2>2, <2>4 DEF None, Files
    <3>2. \A f \in Disks : RunBase(f)' = RunBase(f)
      BY <1>1 DEF RunBase, BootBase, BootSystem
    <3> QED
      BY <2>3, <2>4, <3>1, <3>2
  <2>5. CASE ~cfg.qemu2
    <3>1. \A f \in Written : f \in Files /\ f \in Disks /\ made[f] # "none"
      BY <2>3 DEF Written, RunBase, BootBase, Files, Disks
    <3> QED
      BY <1>1, <2>2, <2>5, <3>1
  <2> QED
    BY <2>4, <2>5
<1> QED
  BY <1>3, <1>4, <1>5, <1>6

\* The steps of the shutdown up to the archive, and the exit of the emulator.
LEMMA FilesShutdown ==
  ASSUME FilesInv,
         \/ TakeSnapshot \/ StopServices \/ CleanUmount \/ Umounted \/ KillEmulator
         \/ ListImages \/ Lsof \/ StillNotDead \/ EmulatorExits
  PROVE  FilesInv'
<1> USE DEF RunPcs, Goto, sessionVars, storeVars
<1>1. /\ UNCHANGED <<cfg, life, base, diff, archive>> /\ pc \in RunPcs
      /\ pc' = pc \/ pc' \in (RunPcs \ {"restart"}) \cup {"failed", "transient"}
  BY DEF TakeSnapshot, StopServices, CleanUmount, Umounted, KillEmulator, ListImages, Lsof,
         StillNotDead, EmulatorExits
<1> QED
  BY <1>1, FilesMove

\* The archive gets the overlays, over what they were made over.
LEMMA FilesTar == ASSUME FilesInv, Tar PROVE FilesInv'
<1> USE DEF FilesInv, StagePcs, StartPcs, RunPcs
<1>1. pc = "tar" /\ pc' \in {"restart", "failed"} /\ UNCHANGED <<cfg, life, base, diff>>
  BY DEF Tar, Goto, sessionVars
<1>2. life = "boot" /\ base \in [Files -> Kinds] /\ diff \in [Files -> Kinds]
  BY <1>1 DEF PlainInv
<1>3. StagedInv' /\ StartInv'
  BY <1>1, <1>2 DEF StagedInv, StartInv
<1>4. BootInv'
  BY <1>1, <1>2 DEF BootInv, RunBase, BootBase, BootSystem
<1>5. CASE ~(StoredDiffs \subseteq Overlays /\ StoredFiles \subseteq Present)
  <2>1. pc' = "failed" /\ archive' = archive
    BY <1>5 DEF Tar, Goto
  <2> QED
    BY <1>1, <1>2, <1>3, <1>4, <2>1 DEF PlainInv, ArchiveInv
<1>6. CASE StoredDiffs \subseteq Overlays /\ StoredFiles \subseteq Present
  <2>1. archive' = [base |-> [f \in Files |-> IF f \in StoredFiles THEN base[f] ELSE "none"],
                    diff |-> [f \in Files |-> IF f \in StoredDiffs THEN diff[f] ELSE "none"],
                    ramdisk |-> ramdisk]
    BY <1>6 DEF Tar
  <2>2. /\ \A f \in Files : archive'.base[f] = IF f \in StoredFiles THEN base[f] ELSE "none"
        /\ \A f \in Files : archive'.diff[f] = IF f \in StoredDiffs THEN diff[f] ELSE "none"
    BY <2>1
  <2>3. PlainInv'
    <3>1. archive'.base \in [Files -> Kinds] /\ archive'.diff \in [Files -> Kinds]
      BY <1>2, <2>1 DEF Kinds
    <3> QED
      BY <1>1, <1>2, <3>1 DEF PlainInv
  <2>4. archive'.base["ramdisk"] # "none"
    BY <1>6, <2>2 DEF StoredFiles, Present, Files
  <2>5. ASSUME cfg.qemu2, NEW f \in Disks
        PROVE  /\ archive'.diff[f] \in {"none", RunBase(f)}
               /\ archive'.base[f] = IF f = "userdata" /\ cfg.api >= 28 THEN RunBase(f) ELSE "none"
    <3>1. base[f] = RunBase(f) /\ diff[f] = base[f]
      BY <1>1, <1>2, <2>5 DEF BootInv
    <3>2. f \in Files /\ (f \in StoredFiles <=> f = "userdata" /\ cfg.api >= 28)
      BY <2>5 DEF StoredFiles, Files, Disks
    <3> QED
      BY <2>2, <3>1, <3>2
  <2>6. ASSUME ~cfg.qemu2
        PROVE  /\ \A f \in Disks : archive'.diff[f] = "none"
               /\ \A f \in Written : archive'.base[f] = "written"
    <3>1. \A f \in Written : base[f] = "written"
      BY <1>1, <1>2, <2>6 DEF BootInv
    <3>2. StoredDiffs = {} /\ Disks \subseteq Files /\ Written \subseteq StoredFiles \cap Files
      BY <2>6 DEF StoredDiffs, StoredFiles, Changed, Written, Files, Disks
    <3> QED
      BY <2>2, <3>1, <3>2
  <2>7. ArchiveInv'
    <3>1. \A f \in Disks : RunBase(f)' = RunBase(f)
      BY <1>1 DEF RunBase, BootBase, BootSystem
    <3>2. "userdata" \in Disks
      BY DEF Disks
    <3> QED
      BY <1>1, <2>4, <2>5, <2>6, <3>1, <3>2 DEF ArchiveInv
  <2> QED
    BY <1>3, <1>4, <2>3, <2>7
<1> QED
  BY <1>5, <1>6

\* The start action finds an empty session, and the archive.
LEMMA FilesRestart == ASSUME FilesInv, Restart PROVE FilesInv'
<1> USE DEF FilesInv, StagePcs, StartPcs, RunPcs
<1>1. /\ pc = "restart" /\ pc' = "stage" /\ life' = "start" /\ base' = None /\ diff' = None
      /\ UNCHANGED <<cfg, archive>>
  BY DEF Restart, storeVars
<1>2. None \in [Files -> Kinds]
  BY DEF None, Kinds
<1>3. PlainInv'
  BY <1>1, <1>2 DEF PlainInv
<1>4. BootInv' /\ StartInv' /\ StagedInv'
  BY <1>1 DEF BootInv, StartInv, StagedInv
<1>5. ArchiveInv'
  BY <1>1 DEF ArchiveInv, RunBase, BootBase, BootSystem
<1> QED
  BY <1>3, <1>4, <1>5

\* The images, in every step.
LEMMA FilesInductive == FilesInv /\ [Next]_vars => FilesInv'
<1> SUFFICES ASSUME FilesInv, [Next]_vars PROVE FilesInv'
  OBVIOUS
<1>1. CASE UNCHANGED vars
  <2>1. UNCHANGED <<cfg, life, pc, base, diff, archive, args>>
    BY <1>1 DEF vars, sessionVars, storeVars
  <2>2. PlainInv' /\ StagedInv'
    BY <2>1 DEF FilesInv, PlainInv, StagedInv, Present
  <2>3. BootInv' /\ ArchiveInv'
    BY <2>1 DEF FilesInv, BootInv, ArchiveInv, RunBase, BootBase, BootSystem
  <2>4. StartInv'
    BY <2>1 DEF FilesInv, StartInv, Fits, Resizes, EnableGuestGl, ShouldModifySystemImage,
                RunBase, BootBase, BootSystem
  <2> QED
    BY <2>2, <2>3, <2>4 DEF FilesInv
<1>2. CASE Next
  BY <1>2, FilesConfigure, FilesStageSystem, FilesInitializeRamdisk, FilesUnpack,
     FilesStageRest, FilesPrepareQemuArgs, FilesEmulatorRuns, FilesShutdown, FilesTar,
     FilesRestart DEF Next
<1> QED
  BY <1>1, <1>2

-----------------------------------------------------------------------------
\* No writer finds a link where it writes.
LEMMA LinkInductive == PlainInv /\ LinkInv /\ [Next]_vars => LinkInv'
<1> SUFFICES ASSUME PlainInv, LinkInv, [Next]_vars PROVE LinkInv'
  OBVIOUS
<1>1. CASE StageSystem
  BY <1>1 DEF StageSystem, LinkInv, LinksSystem, Writes, Goto
<1>2. CASE InitializeRamdisk
  BY <1>2 DEF InitializeRamdisk, LinkInv, Writes, Goto
<1>3. CASE Unpack
  BY <1>3 DEF Unpack, LinkInv, Writes, Goto
<1>4. CASE StageRest
  <2>1. \A f \in Files : base'[f] # base[f] => f \notin {"kernel", "init", "system", "ram"}
    BY <1>4 DEF StageRest, PlainInv, Files, Disks
  <2> QED
    BY <1>4, <2>1 DEF StageRest, LinkInv, Writes, Goto
<1>5. CASE EmulatorRuns
  <2>1. UNCHANGED <<cfg, life, linked>>
    BY <1>5 DEF EmulatorRuns, Goto
  <2>2. CASE cfg.qemu2
    <3>1. spoilt' \subseteq linked \cap {"userdata"}
      BY <1>5, <2>2 DEF EmulatorRuns, LinkInv, Writes, PlainInv, Files, Disks
    <3> QED
      BY <2>1, <3>1 DEF LinkInv
  <2>3. CASE ~cfg.qemu2
    <3>1. spoilt' = linked \cap Disks
      BY <1>5, <2>3 DEF EmulatorRuns, LinkInv, Writes
    <3>2. {"kernel", "init", "ram"} \cap Disks = {}
      BY DEF Disks
    <3> QED
      BY <2>1, <2>3, <3>1, <3>2 DEF LinkInv
  <2> QED
    BY <2>2, <2>3
<1>6. CASE TakeSnapshot
  <2>1. life # "start"
    BY <1>6 DEF TakeSnapshot, PlainInv, StartPcs, StagePcs
  <2> QED
    BY <1>6, <2>1 DEF TakeSnapshot, LinkInv, Writes, Goto
<1>7. CASE Restart
  BY <1>7 DEF Restart, LinkInv
<1>8. CASE UNCHANGED <<cfg, life, linked, spoilt>>
  BY <1>8 DEF LinkInv
<1> QED
  BY <1>1, <1>2, <1>3, <1>4, <1>5, <1>6, <1>7, <1>8
     DEF Next, vars, sessionVars, Configure, PrepareQemuArgs, StopServices, CleanUmount, Umounted,
         KillEmulator, ListImages, Lsof, StillNotDead, Tar, EmulatorExits, Goto

-----------------------------------------------------------------------------
\* An attempt at one mount point: if nothing is to complain about, it is unmounted,
\* and what is damaged is not it.
LEMMA CleanCleanUmount == ASSUME PlainInv, CleanInv, CleanUmount PROVE CleanInv'
<1> USE DEF StagePcs, StartPcs, RunPcs
<1> DEFINE m == MountOrder[at]
           was == mounted \cap Covers(m)
<1>1. m \in Covers(m)
  BY DEF Covers
<1>2. /\ pc = "umount" /\ pc' = "umount" /\ at <= 5 /\ at' = at + 1
      /\ UNCHANGED <<cfg, life, ramBin>>
  BY DEF CleanUmount, Goto, sessionVars
<1>3. /\ life = "boot" /\ at \in 1 .. 5 /\ ~cfg.save /\ mounted \subseteq Mounts
      /\ clean => (\A j \in 1 .. 5 : j < at => MountOrder[j] \notin mounted)
                  /\ (cfg.api >= 21 => damaged = {})
  BY <1>2 DEF PlainInv, CleanInv
<1>4. /\ mounted' \subseteq mounted
      /\ clean' => clean /\ m \notin mounted' /\ (cfg.api >= 21 => damaged' = damaged)
  <2>1. SUFFICES ASSUME NEW busy \in BOOLEAN, NEW bad \in BOOLEAN,
          mounted' = IF m \in mounted /\ ~busy /\ was = {m} THEN mounted \ {m} ELSE mounted,
          damaged' = IF m \in mounted /\ bad THEN damaged \cup {m} ELSE damaged,
          clean' = DiesCleanly(was = {} \/ (/\ mounted' \cap Covers(m) = {}
                                            /\ cfg.api >= 21 => m \in mounted /\ ~bad))
        PROVE  /\ mounted' \subseteq mounted
               /\ clean' => clean /\ m \notin mounted' /\ (cfg.api >= 21 => damaged' = damaged)
    BY Zenon DEF CleanUmount
  <2>2. mounted' \subseteq mounted
    BY <2>1, Zenon
  <2>3. ASSUME clean' PROVE clean /\ m \notin mounted' /\ (cfg.api >= 21 => damaged' = damaged)
    <3>1. clean
      BY <2>1, <2>3, Zenon DEF DiesCleanly
    <3> DEFINE sound == mounted' \cap Covers(m) = {} /\ (cfg.api >= 21 => m \in mounted /\ ~bad)
    <3>4. was = {} \/ sound
      BY <2>1, <2>3, Zenon DEF DiesCleanly
    <3>2. CASE was = {}
      <4>1. m \notin mounted
        BY <1>1, <3>2, Zenon
      <4>2. damaged' = damaged
        BY <2>1, <4>1, Zenon
      <4>3. m \notin mounted'
        BY <2>2, <4>1, Zenon
      <4> QED
        BY <3>1, <4>2, <4>3, Zenon
    <3>3. CASE sound
      <4>1. m \notin mounted'
        BY <1>1, <3>3, Zenon
      <4> QED
        BY <2>1, <3>1, <3>3, <4>1, Zenon
    <3> HIDE DEF sound
    <3> QED
      BY <3>2, <3>3, <3>4, Zenon
  <2> QED
    BY <2>2, <2>3, Zenon
<1>5. ASSUME clean'
      PROVE  /\ \A j \in 1 .. 5 : j < at' => MountOrder[j] \notin mounted'
             /\ cfg.api >= 21 => damaged' = {}
  <2> SUFFICES ASSUME NEW j \in 1 .. 5, j < at' PROVE MountOrder[j] \notin mounted'
    BY <1>3, <1>4, <1>5
  <2>1. j < at \/ j = at
    BY <1>2, <1>3
  <2> QED
    BY <1>3, <1>4, <1>5, <2>1
<1>6. at' \in 1 .. 6
  BY <1>2, <1>3
<1> QED
  BY <1>2, <1>3, <1>4, <1>5, <1>6 DEF CleanInv

\* The device mounts nothing else.
LEMMA RunsMounted == EmulatorRuns => mounted' \subseteq Mounts
<1>1. MountOrder[1] \in Mounts /\ MountOrder[2] \in Mounts /\ MountOrder[3] \in Mounts
      /\ MountOrder[4] \in Mounts /\ MountOrder[5] \in Mounts
  BY DEF Mounts
<1>2. {"media", "router", "netns", "data", "cache"} \subseteq Mounts
  BY <1>1 DEF MountOrder
<1> QED
  BY <1>2 DEF EmulatorRuns

\* The other steps move the shutdown on, once its conditions are met.
LEMMA CleanInductive == PlainInv /\ CleanInv /\ [Next]_vars => CleanInv'
<1> SUFFICES ASSUME PlainInv, CleanInv, [Next]_vars PROVE CleanInv'
  OBVIOUS
<1> USE DEF StagePcs, StartPcs, RunPcs, Goto, sessionVars, storeVars, deviceVars,
            protoSame, emulatorSame
<1>1. CASE Configure
  BY <1>1 DEF Configure, CleanInv
<1>2. CASE StageSystem
  BY <1>2 DEF StageSystem, CleanInv
<1>3. CASE InitializeRamdisk
  BY <1>3 DEF InitializeRamdisk, CleanInv
<1>4. CASE Unpack
  BY <1>4 DEF Unpack, CleanInv
<1>5. CASE StageRest
  BY <1>5 DEF StageRest, CleanInv
<1>6. CASE PrepareQemuArgs
  BY <1>6 DEF PrepareQemuArgs, CleanInv
<1>7. CASE EmulatorRuns
  <2>1. /\ pc = "launch" /\ UNCHANGED <<cfg, life, clean, at, damaged>>
        /\ pc' = (IF life = "boot" THEN "running" ELSE "started")
    BY <1>7 DEF EmulatorRuns
  <2>2. mounted' \subseteq Mounts
    BY <1>7, RunsMounted
  <2> QED
    BY <2>1, <2>2 DEF CleanInv
<1>8. CASE TakeSnapshot
  BY <1>8 DEF TakeSnapshot, CleanInv
<1>9. CASE StopServices
  BY <1>9 DEF StopServices, CleanInv
<1>10. CASE CleanUmount
  BY <1>10, CleanCleanUmount
<1>11. CASE Umounted
  BY <1>11 DEF Umounted, CleanInv
<1>12. CASE KillEmulator
  BY <1>12 DEF KillEmulator, CleanInv
<1>13. CASE ListImages
  BY <1>13 DEF ListImages, SnapshotMissing, CleanInv
<1>14. CASE Lsof
  BY <1>14 DEF Lsof, CleanInv
<1>15. CASE StillNotDead
  BY <1>15 DEF StillNotDead, CleanInv
<1>16. CASE Tar
  BY <1>16 DEF Tar, CleanInv
<1>17. CASE EmulatorExits
  BY <1>17 DEF EmulatorExits, CleanInv
<1>18. CASE Restart
  BY <1>18 DEF Restart, CleanInv
<1>19. CASE UNCHANGED vars
  BY <1>19 DEF vars, CleanInv
<1> QED
  BY <1>1, <1>2, <1>3, <1>4, <1>5, <1>6, <1>7, <1>8, <1>9, <1>10, <1>11, <1>12, <1>13,
     <1>14, <1>15, <1>16, <1>17, <1>18, <1>19 DEF Next

-----------------------------------------------------------------------------
\* The distance of two densities.
Off(a, d) == IF a > d THEN a - d ELSE d - a

\* The buckets ascend, and the middle of two is a whole number.
LEMMA Buckets ==
  /\ Len(BUCKET_DPI) = 11 /\ DOMAIN BUCKET_DPI = 1 .. 11
  /\ \A i \in 1 .. 11 : BUCKET_DPI[i] \in Nat \ {0}
  /\ \A i \in 1 .. 10 : \E h \in Nat : BUCKET_DPI[i] + BUCKET_DPI[i + 1] = 2 * h
  /\ \A i, j \in 1 .. 11 : i < j => BUCKET_DPI[i] < BUCKET_DPI[j]
<1>1. Len(BUCKET_DPI) = 11 /\ DOMAIN BUCKET_DPI = 1 .. 11
  BY DEF BUCKET_DPI
<1>2. /\ BUCKET_DPI[1] = 120 /\ BUCKET_DPI[2] = 160 /\ BUCKET_DPI[3] = 240
      /\ BUCKET_DPI[4] = 280 /\ BUCKET_DPI[5] = 320 /\ BUCKET_DPI[6] = 360
      /\ BUCKET_DPI[7] = 400 /\ BUCKET_DPI[8] = 420 /\ BUCKET_DPI[9] = 480
      /\ BUCKET_DPI[10] = 560 /\ BUCKET_DPI[11] = 640
  BY DEF BUCKET_DPI
<1>3. \A i \in 1 .. 11 : \/ i = 1 \/ i = 2 \/ i = 3 \/ i = 4 \/ i = 5 \/ i = 6 \/ i = 7
                         \/ i = 8 \/ i = 9 \/ i = 10 \/ i = 11
  OBVIOUS
<1>4. \A i \in 1 .. 11 : BUCKET_DPI[i] \in Nat \ {0}
  BY <1>2, <1>3
<1>5. \A i \in 1 .. 10 : \E h \in Nat : BUCKET_DPI[i] + BUCKET_DPI[i + 1] = 2 * h
  <2> SUFFICES ASSUME NEW i \in 1 .. 10 PROVE \E h \in Nat : BUCKET_DPI[i] + BUCKET_DPI[i + 1] = 2 * h
    OBVIOUS
  <2>1. \E h \in {140, 200, 260, 300, 340, 380, 410, 450, 520, 600} :
          BUCKET_DPI[i] + BUCKET_DPI[i + 1] = 2 * h
    BY <1>2, <1>3
  <2> QED
    BY <2>1
<1>6. \A i, j \in 1 .. 11 : i < j => BUCKET_DPI[i] < BUCKET_DPI[j]
  BY <1>2, <1>3
<1> QED
  BY <1>1, <1>4, <1>5, <1>6

\* Below the middle of a and b, a is nearer than b and what is beyond it; from the
\* middle on, b is.
LEMMA Middle ==
  ASSUME NEW a \in Nat, NEW b \in Nat, NEW m \in Nat, 2 * m = a + b, a < b,
         NEW d \in Nat, NEW x \in Nat
  PROVE  /\ d < m /\ x >= b => Off(a, d) <= Off(x, d)
         /\ d >= m /\ x <= a => Off(b, d) <= Off(x, d)
BY DEF Off

\* The least of the buckets is chosen.
LEMMA Least ==
  ASSUME NEW S, S \subseteq 1 .. 10, S # {} PROVE \E k \in S : \A j \in S : k <= j
<1> SUFFICES ASSUME \A k \in S : \E j \in S : j < k PROVE FALSE
  OBVIOUS
<1>1. 1 \notin S
  OBVIOUS
<1>2. 2 \notin S
  BY <1>1
<1>3. 3 \notin S
  BY <1>1, <1>2
<1>4. 4 \notin S
  BY <1>1, <1>2, <1>3
<1>5. 5 \notin S
  BY <1>1, <1>2, <1>3, <1>4
<1>6. 6 \notin S
  BY <1>1, <1>2, <1>3, <1>4, <1>5
<1>7. 7 \notin S
  BY <1>1, <1>2, <1>3, <1>4, <1>5, <1>6
<1>8. 8 \notin S
  BY <1>1, <1>2, <1>3, <1>4, <1>5, <1>6, <1>7
<1>9. 9 \notin S
  BY <1>1, <1>2, <1>3, <1>4, <1>5, <1>6, <1>7, <1>8
<1>10. 10 \notin S
  BY <1>1, <1>2, <1>3, <1>4, <1>5, <1>6, <1>7, <1>8, <1>9
<1>11. PICK k \in S : TRUE
  OBVIOUS
<1>12. \/ k = 1 \/ k = 2 \/ k = 3 \/ k = 4 \/ k = 5 \/ k = 6 \/ k = 7 \/ k = 8
       \/ k = 9 \/ k = 10
  OBVIOUS
<1> QED
  BY <1>1, <1>2, <1>3, <1>4, <1>5, <1>6, <1>7, <1>8, <1>9, <1>10, <1>12

\* What MapToSupportedDensity returns is as near as any bucket.
LEMMA Nearest ==
  ASSUME NEW d \in Nat, d # TVDPI, NEW i \in 1 .. 11
  PROVE  /\ MapToSupportedDensity(d) \in Nat \ {0}
         /\ Off(MapToSupportedDensity(d), d) <= Off(BUCKET_DPI[i], d)
<1> DEFINE B(k) == BUCKET_DPI[k]
           mid(k) == (B(k) + B(k + 1)) \div 2
           near == {k \in 1 .. 10 : d < mid(k)}
<1>1. MapToSupportedDensity(d) =
        IF near = {} THEN B(11) ELSE B(CHOOSE k \in near : \A j \in near : k <= j)
  BY Buckets DEF MapToSupportedDensity
<1>2. \A k \in 1 .. 10 : mid(k) \in Nat /\ 2 * mid(k) = B(k) + B(k + 1)
  <2> SUFFICES ASSUME NEW k \in 1 .. 10 PROVE mid(k) \in Nat /\ 2 * mid(k) = B(k) + B(k + 1)
    OBVIOUS
  <2>1. PICK h \in Nat : B(k) + B(k + 1) = 2 * h
    BY Buckets
  <2>2. (2 * h) \div 2 = h
    OBVIOUS
  <2> QED
    BY <2>1, <2>2
<1>3. /\ \A k \in 1 .. 11 : B(k) \in Nat \ {0}
      /\ \A j, k \in 1 .. 11 : j < k => B(j) < B(k)
  BY Buckets
<1>4. \A k \in 1 .. 10 : k \in near <=> d < mid(k)
  OBVIOUS
<1>5. near \subseteq 1 .. 10
  OBVIOUS
<1> HIDE DEF B, mid, near
<1>6. ASSUME NEW k \in 1 .. 10 PROVE
        /\ d < mid(k) /\ i >= k + 1 => Off(B(k), d) <= Off(B(i), d)
        /\ d >= mid(k) /\ i <= k => Off(B(k + 1), d) <= Off(B(i), d)
  <2>1. /\ B(k) \in Nat /\ B(k + 1) \in Nat /\ B(i) \in Nat /\ mid(k) \in Nat
        /\ B(k) < B(k + 1) /\ 2 * mid(k) = B(k) + B(k + 1)
    BY <1>2, <1>3
  <2>2. /\ i >= k + 1 => B(i) >= B(k + 1)
        /\ i <= k => B(i) <= B(k)
    <3>1. i > k + 1 \/ i = k + 1 \/ i = k \/ i < k
      OBVIOUS
    <3> QED
      BY <1>3, <2>1, <3>1
  <2> QED
    BY <2>1, <2>2, Middle
<1>7. CASE near = {}
  <2>1. d >= mid(10)
    BY <1>2, <1>4, <1>7
  <2>2. i = 11 \/ i <= 10
    OBVIOUS
  <2>3. Off(B(11), d) <= Off(B(i), d)
    <3>1. CASE i = 11
      BY <1>3, <3>1 DEF Off
    <3>2. CASE i <= 10
      BY <1>6, <2>1, <3>2
    <3> QED
      BY <2>2, <3>1, <3>2
  <2> QED
    BY <1>1, <1>3, <1>7, <2>3 DEF B
<1>8. CASE near # {}
  <2>1. PICK c \in near : (\A j \in near : c <= j) /\ MapToSupportedDensity(d) = B(c)
    BY <1>1, <1>5, <1>8, Least
  <2>2. c \in 1 .. 10 /\ d < mid(c)
    BY <1>4, <1>5
  <2>3. c = 1 \/ (c - 1 \in 1 .. 10 /\ d >= mid(c - 1) /\ (c - 1) + 1 = c)
    BY <1>2, <1>4, <2>1, <2>2
  <2>4. Off(B(c), d) <= Off(B(i), d)
    <3>1. CASE i >= c + 1
      BY <1>6, <2>2, <3>1
    <3>2. CASE i = c
      BY <1>3, <3>2 DEF Off
    <3>3. CASE c # 1 /\ i <= c - 1
      BY <1>6, <2>3, <3>3
    <3> QED
      BY <2>2, <3>1, <3>2, <3>3
  <2> QED
    BY <1>3, <2>1, <2>2, <2>4 DEF B
<1> QED
  BY <1>7, <1>8

\* Boot writes the mapped density to the ramdisk, and start finds it in the archive.
LEMMA DensityInductive == PlainInv /\ DensityInv /\ [Next]_vars => DensityInv'
<1> SUFFICES ASSUME PlainInv, DensityInv, [Next]_vars PROVE DensityInv'
  OBVIOUS
<1> USE DEF StagePcs, StartPcs, RunPcs, Goto, sessionVars, storeVars, deviceVars,
            protoSame, emulatorSame, TellsDensity
<1>1. CASE Configure
  BY <1>1 DEF Configure, PlainInv, DensityInv
<1>2. CASE StageSystem
  BY <1>2 DEF StageSystem, DensityInv
<1>3. CASE InitializeRamdisk
  BY <1>3 DEF InitializeRamdisk, DensityInv
<1>4. CASE Unpack
  BY <1>4 DEF Unpack, DensityInv
<1>5. CASE StageRest
  BY <1>5 DEF StageRest, DensityInv
<1>6. CASE PrepareQemuArgs
  BY <1>6 DEF PrepareQemuArgs, DensityInv
<1>7. CASE EmulatorRuns
  <2>1. /\ pc = "launch" /\ UNCHANGED <<cfg, life, density, props, ramdisk, archive>>
        /\ pc' \in {"running", "started"}
    BY <1>7 DEF EmulatorRuns
  <2> QED
    BY <2>1 DEF DensityInv
<1>8. CASE TakeSnapshot
  BY <1>8 DEF TakeSnapshot, DensityInv
<1>9. CASE StopServices
  BY <1>9 DEF StopServices, DensityInv
<1>10. CASE CleanUmount
  <2>1. pc = "umount" /\ pc' = "umount" /\ UNCHANGED <<cfg, life, density, props, ramdisk, archive>>
    BY <1>10 DEF CleanUmount
  <2> QED
    BY <2>1 DEF DensityInv
<1>11. CASE Umounted
  BY <1>11 DEF Umounted, DensityInv
<1>12. CASE KillEmulator
  BY <1>12 DEF KillEmulator, DensityInv
<1>13. CASE ListImages
  BY <1>13 DEF ListImages, DensityInv
<1>14. CASE Lsof
  BY <1>14 DEF Lsof, DensityInv
<1>15. CASE StillNotDead
  BY <1>15 DEF StillNotDead, DensityInv
<1>16. CASE Tar
  <2>1. /\ pc = "tar" /\ life = "boot" /\ UNCHANGED <<cfg, life, density, props, ramdisk>>
        /\ pc' \in {"restart", "failed"}
        /\ pc' = "restart" => archive'.ramdisk = ramdisk
    BY <1>16 DEF Tar, PlainInv
  <2> QED
    BY <2>1 DEF DensityInv
<1>17. CASE EmulatorExits
  BY <1>17 DEF EmulatorExits, DensityInv
<1>18. CASE Restart
  BY <1>18 DEF Restart, DensityInv
<1>19. CASE UNCHANGED vars
  BY <1>19 DEF vars, DensityInv
<1> QED
  BY <1>1, <1>2, <1>3, <1>4, <1>5, <1>6, <1>7, <1>8, <1>9, <1>10, <1>11, <1>12, <1>13,
     <1>14, <1>15, <1>16, <1>17, <1>18, <1>19 DEF Next

-----------------------------------------------------------------------------
\* The images keep their kinds.
LEMMA ImageTypesInductive ==
  FilesInv /\ ImageTypes /\ [Next]_vars => ImageTypes'
<1> SUFFICES ASSUME FilesInv, ImageTypes, [Next]_vars PROVE ImageTypes'
  OBVIOUS
<1> USE DEF FilesInv, StagePcs, StartPcs, RunPcs, Goto, sessionVars, storeVars
<1>0. \/ UNCHANGED <<cfg, life, base, diff, archive>>
         /\ (pc' = "restart" => pc = "restart")
         /\ (life = "start" /\ pc' \in {"rest", "args", "launch"} => pc \in {"rest", "args", "launch"})
      \/ StageSystem \/ InitializeRamdisk \/ Unpack \/ StageRest \/ EmulatorRuns \/ Tar \/ Restart
  <2>1. CASE Configure \/ PrepareQemuArgs \/ TakeSnapshot \/ StopServices \/ CleanUmount \/ Umounted
             \/ KillEmulator \/ ListImages \/ Lsof \/ StillNotDead \/ EmulatorExits
    BY <2>1 DEF Configure, PrepareQemuArgs, TakeSnapshot, StopServices, CleanUmount, Umounted,
                KillEmulator, ListImages, Lsof, StillNotDead, EmulatorExits
  <2> QED
    BY <2>1 DEF Next, vars
<1>1. CASE /\ UNCHANGED <<cfg, life, base, diff, archive>>
           /\ (pc' = "restart" => pc = "restart")
           /\ (life = "start" /\ pc' \in {"rest", "args", "launch"} => pc \in {"rest", "args", "launch"})
  BY <1>1 DEF ImageTypes
<1>2. CASE StageSystem
  <2>1. /\ pc' = "archive" /\ UNCHANGED <<cfg, life, diff, archive>>
        /\ \E k \in {"noEgl", "image"} : base' = [base EXCEPT !["system"] = k]
    BY <1>2 DEF StageSystem
  <2> QED
    BY <2>1 DEF ImageTypes, Kinds
<1>3. CASE InitializeRamdisk
  <2>1. /\ life = "boot" /\ pc' = "rest" /\ UNCHANGED <<cfg, life, diff, archive>>
        /\ base' = [base EXCEPT !["ramdisk"] = "image", !["snapshots"] = "image"]
    BY <1>3 DEF InitializeRamdisk
  <2> QED
    BY <2>1 DEF ImageTypes, Kinds
<1>4. CASE Unpack
  <2> DEFINE staged == [f \in Files |-> IF archive.base[f] = "none" THEN base[f] ELSE archive.base[f]]
  <2>1. pc = "archive" /\ life = "start" /\ UNCHANGED <<cfg, life, archive>>
    BY <1>4 DEF Unpack
  <2>2. CASE pc' = "failed" /\ UNCHANGED <<base, diff>>
    BY <2>1, <2>2 DEF ImageTypes
  <2>3. CASE /\ pc' = "rest" /\ diff' = archive.diff
             /\ base' = IF Resizes THEN [staged EXCEPT !["userdata"] = "resized"] ELSE staged
    <3>1. \A f \in Files : base[f] # "resized"
      BY <2>1 DEF StartInv
    <3>2. staged \in [Files -> IF cfg.qemu2 THEN OverlayKinds ELSE Unresized]
      BY <3>1 DEF ImageTypes, OverlayKinds, Unresized, Kinds
    <3>3. base' \in [Files -> IF cfg.qemu2 THEN Kinds \ {"written"} ELSE Kinds]
      BY <2>3, <3>2 DEF OverlayKinds, Unresized, Kinds
    <3>4. \A f \in Files : base'[f] = "resized" => f = "userdata"
      BY <2>3, <3>2 DEF OverlayKinds, Unresized, Kinds
    <3> QED
      BY <2>1, <2>3, <3>3, <3>4 DEF ImageTypes
  <2> QED
    BY <1>4, <2>2, <2>3 DEF Unpack
<1>5. CASE StageRest
  <2> DEFINE optional(has) == IF has THEN "image" ELSE "none"
  <2>1. /\ pc = "rest" /\ pc' = "args" /\ UNCHANGED <<cfg, life, diff, archive>>
        /\ base' = [base EXCEPT !["vendor"] = Staged("vendor", optional(cfg.vendor)),
                                !["encryptionkey"] = Staged("encryptionkey", optional(cfg.key)),
                                !["userdata"] = Staged("userdata", optional(cfg.dataImage)),
                                !["cache"] = Staged("cache", "image"),
                                !["sdcard"] = Staged("sdcard", "image")]
    BY <1>5 DEF StageRest
  <2>2. base \in [Files -> Kinds]
    BY DEF PlainInv
  <2>3. \A f \in Files : base'[f] = base[f] \/ base'[f] \in {"none", "image"}
    BY <2>1, <2>2 DEF Staged, Files, Disks
  <2>4. base' \in [Files -> IF cfg.qemu2 THEN Kinds \ {"written"} ELSE Kinds]
    <3>1. base' \in [Files -> Kinds] /\ {"none", "image"} \subseteq Kinds \ {"written"}
      BY FilesStageRest, <1>5 DEF PlainInv, Kinds
    <3> QED
      BY <2>3, <3>1 DEF ImageTypes
  <2> QED
    BY <2>1, <2>3, <2>4 DEF ImageTypes
<1>6. CASE EmulatorRuns
  <2> DEFINE made == IF base["userdata"] = "none" THEN [base EXCEPT !["userdata"] = "made"] ELSE base
  <2>1. /\ pc = "launch" /\ pc' = (IF life = "boot" THEN "running" ELSE "started")
        /\ UNCHANGED <<cfg, life, archive>>
    BY <1>6 DEF EmulatorRuns
  <2>2. /\ made \in [Files -> IF cfg.qemu2 THEN Kinds \ {"written"} ELSE Kinds]
        /\ \A f \in Files : made[f] = "resized" => f = "userdata" /\ life = "start"
    BY DEF ImageTypes, Kinds
  <2>3. CASE cfg.qemu2
    <3>1. /\ base' = made
          /\ diff' = [f \in Files |-> IF f \in Disks /\ diff[f] = "none" THEN made[f] ELSE diff[f]]
      BY <1>6, <2>3 DEF EmulatorRuns
    <3>2. \A f \in Files : diff[f] = "none" => made[f] # "resized"
      BY <2>1, <2>2, <2>3 DEF ImageTypes
    <3>3. diff' \in [Files -> OverlayKinds]
      BY <2>2, <2>3, <3>1, <3>2 DEF ImageTypes, OverlayKinds, Unresized
    <3> QED
      BY <2>1, <2>2, <2>3, <3>1, <3>3 DEF ImageTypes
  <2>4. CASE ~cfg.qemu2
    <3>1. /\ diff' = diff
          /\ base' = [f \in Files |-> IF f \in Disks /\ made[f] # "none" THEN "written" ELSE made[f]]
      BY <1>6, <2>4 DEF EmulatorRuns
    <3>2. /\ base' \in [Files -> Kinds]
          /\ \A f \in Files : base'[f] = "resized" => f = "userdata" /\ life = "start"
      BY <2>2, <2>4, <3>1 DEF Kinds
    <3> QED
      BY <2>1, <2>4, <3>1, <3>2 DEF ImageTypes
  <2> QED
    BY <2>3, <2>4
<1>7. CASE Tar
  <2>1. pc = "tar" /\ life = "boot" /\ pc' \in {"restart", "failed"} /\ UNCHANGED <<cfg, life, base, diff>>
    BY <1>7 DEF Tar, PlainInv
  <2>2. CASE pc' = "failed" /\ UNCHANGED archive
    BY <2>1, <2>2 DEF ImageTypes
  <2>3. CASE /\ StoredDiffs \subseteq Overlays
             /\ archive' = [base |-> [f \in Files |-> IF f \in StoredFiles THEN base[f] ELSE "none"],
                            diff |-> [f \in Files |-> IF f \in StoredDiffs THEN diff[f] ELSE "none"],
                            ramdisk |-> ramdisk]
    <3>1. archive'.base \in [Files -> IF cfg.qemu2 THEN OverlayKinds ELSE Unresized]
      BY <2>1, <2>3 DEF ImageTypes, OverlayKinds, Unresized, Kinds
    <3>2. archive'.diff \in [Files -> OverlayKinds]
      BY <2>1, <2>3 DEF ImageTypes, OverlayKinds, Unresized, Kinds
    <3>3. cfg.qemu2 => archive'.diff["userdata"] # "none"
      <4>1. cfg.qemu2 => "userdata" \in StoredDiffs /\ "userdata" \in Files
        BY DEF StoredDiffs, Changed, Files, Disks
      <4> QED
        BY <2>3, <4>1 DEF Overlays
    <3> QED
      BY <2>1, <3>1, <3>2, <3>3 DEF ImageTypes
  <2> QED
    BY <1>7, <2>2, <2>3 DEF Tar
<1>8. CASE Restart
  <2>1. /\ pc = "restart" /\ pc' = "stage" /\ life' = "start" /\ base' = None /\ diff' = None
        /\ UNCHANGED <<cfg, archive>>
    BY <1>8 DEF Restart
  <2>2. /\ None \in [Files -> OverlayKinds] /\ None \in [Files -> Kinds \ {"written"}]
        /\ None \in [Files -> Kinds] /\ \A f \in Files : None[f] # "resized"
    BY DEF None, OverlayKinds, Unresized, Kinds
  <2> QED
    BY <2>1, <2>2 DEF ImageTypes
<1> QED
  BY <1>0, <1>1, <1>2, <1>3, <1>4, <1>5, <1>6, <1>7, <1>8

\* A density is never zero once it is configured.
LEMMA DensityTypesInductive ==
  PlainInv /\ DensityInv /\ DensityTypes /\ [Next]_vars => DensityTypes'
<1> SUFFICES ASSUME PlainInv, DensityInv, DensityTypes, [Next]_vars PROVE DensityTypes'
  OBVIOUS
<1> USE DEF StagePcs, StartPcs, RunPcs, Goto, sessionVars, storeVars, deviceVars,
            protoSame, emulatorSame
<1>1. CASE Configure
  <2>1. MapToSupportedDensity(cfg.density) \in Nat \ {0}
    <3>1. cfg.density \in Nat
      BY DEF PlainInv, Config
    <3>2. CASE cfg.density = TVDPI
      BY <3>2 DEF MapToSupportedDensity, TVDPI
    <3>3. CASE cfg.density # TVDPI
      BY <3>1, <3>3, Nearest
    <3> QED
      BY <3>2, <3>3
  <2>2. /\ pc = "configure" /\ pc' = "stage" /\ UNCHANGED <<life, ramdisk, archive>>
        /\ density' = MapToSupportedDensity(cfg.density) /\ props' = density'
    BY <1>1 DEF Configure
  <2> QED
    BY <2>1, <2>2 DEF DensityTypes
<1>2. CASE StageSystem
  BY <1>2 DEF StageSystem, DensityTypes
<1>3. CASE InitializeRamdisk
  BY <1>3 DEF InitializeRamdisk, DensityTypes
<1>4. CASE Unpack
  BY <1>4 DEF Unpack, DensityTypes
<1>5. CASE StageRest
  BY <1>5 DEF StageRest, DensityTypes
<1>6. CASE PrepareQemuArgs
  BY <1>6 DEF PrepareQemuArgs, DensityTypes
<1>7. CASE EmulatorRuns
  <2>1. /\ pc = "launch" /\ UNCHANGED <<cfg, life, density, props, ramdisk, archive>>
        /\ pc' \in {"running", "started"}
    BY <1>7 DEF EmulatorRuns
  <2> QED
    BY <2>1 DEF DensityTypes
<1>8. CASE TakeSnapshot
  BY <1>8 DEF TakeSnapshot, DensityTypes
<1>9. CASE StopServices
  BY <1>9 DEF StopServices, DensityTypes
<1>10. CASE CleanUmount
  <2>1. pc = "umount" /\ pc' = "umount" /\ UNCHANGED <<cfg, life, density, props, ramdisk, archive>>
    BY <1>10 DEF CleanUmount
  <2> QED
    BY <2>1 DEF DensityTypes
<1>11. CASE Umounted
  BY <1>11 DEF Umounted, DensityTypes
<1>12. CASE KillEmulator
  BY <1>12 DEF KillEmulator, DensityTypes
<1>13. CASE ListImages
  BY <1>13 DEF ListImages, DensityTypes
<1>14. CASE Lsof
  BY <1>14 DEF Lsof, DensityTypes
<1>15. CASE StillNotDead
  BY <1>15 DEF StillNotDead, DensityTypes
<1>16. CASE Tar
  <2>1. /\ pc = "tar" /\ life = "boot" /\ UNCHANGED <<cfg, life, density, props, ramdisk>>
        /\ \/ pc' = "failed" /\ archive' = archive
           \/ pc' \in {"restart", "failed"} /\ archive'.ramdisk = ramdisk
    BY <1>16 DEF Tar, PlainInv
  <2> QED
    BY <2>1 DEF DensityTypes
<1>17. CASE EmulatorExits
  BY <1>17 DEF EmulatorExits, DensityTypes
<1>18. CASE Restart
  BY <1>18 DEF Restart, DensityTypes
<1>19. CASE UNCHANGED vars
  BY <1>19 DEF vars, DensityTypes
<1> QED
  BY <1>1, <1>2, <1>3, <1>4, <1>5, <1>6, <1>7, <1>8, <1>9, <1>10, <1>11, <1>12, <1>13,
     <1>14, <1>15, <1>16, <1>17, <1>18, <1>19 DEF Next

\* All the rest keeps its type.
LEMMA OtherTypesInductive ==
  PlainInv /\ OtherTypes /\ [Next]_vars => OtherTypes'
<1> SUFFICES ASSUME PlainInv, OtherTypes, [Next]_vars PROVE OtherTypes'
  OBVIOUS
<1> USE DEF Ends
<1> USE DEF StagePcs, StartPcs, RunPcs, Goto, sessionVars, storeVars, deviceVars,
            protoSame, emulatorSame
<1>1. CASE Configure
  BY <1>1 DEF Configure, OtherTypes
<1>2. CASE StageSystem
  <2>1. linked' \subseteq Links
    <3>1. {"kernel", "init", "system"} \subseteq Links
      BY DEF Links, Files, Disks
    <3>2. linked' \subseteq {"kernel", "init", "system"}
      BY <1>2 DEF StageSystem
    <3> QED
      BY <3>1, <3>2
  <2> QED
    BY <1>2, <2>1 DEF StageSystem, OtherTypes
<1>3. CASE InitializeRamdisk
  BY <1>3 DEF InitializeRamdisk, OtherTypes
<1>4. CASE Unpack
  BY <1>4 DEF Unpack, OtherTypes, Links
<1>5. CASE StageRest
  BY <1>5 DEF StageRest, OtherTypes
<1>6. CASE PrepareQemuArgs
  BY <1>6 DEF PrepareQemuArgs, OtherTypes, NamedImages, Present, Files, Disks
<1>7. CASE EmulatorRuns
  <2>1. pc' \in {"running", "started"} /\ UNCHANGED <<cfg, linked, args, ramBin, damaged, at, clean, tries>>
    BY <1>7 DEF EmulatorRuns
  <2>2. open' \subseteq Files
    BY <1>7 DEF EmulatorRuns, Files
  <2>3. mounted' \subseteq Mounts
    BY <1>7, RunsMounted
  <2> QED
    BY <2>1, <2>2, <2>3 DEF OtherTypes
<1>8. CASE TakeSnapshot
  BY <1>8 DEF TakeSnapshot, OtherTypes
<1>9. CASE StopServices
  BY <1>9 DEF StopServices, OtherTypes
<1>10. CASE CleanUmount
  <2>1. /\ pc' = "umount" /\ at <= 5 /\ at' = at + 1
        /\ UNCHANGED <<cfg, linked, args, open, ramBin, tries>>
    BY <1>10 DEF CleanUmount
  <2>2. clean' \in BOOLEAN
    BY <1>10, Zenon DEF CleanUmount, DiesCleanly
  <2>3. at \in 1 .. 5 /\ MountOrder[at] \in Mounts
    BY <2>1 DEF OtherTypes, Mounts
  <2>4. mounted' \subseteq mounted
    <3>1. \E busy \in BOOLEAN :
            mounted' = IF /\ MountOrder[at] \in mounted /\ ~busy
                          /\ mounted \cap Covers(MountOrder[at]) = {MountOrder[at]}
                         THEN mounted \ {MountOrder[at]} ELSE mounted
      BY <1>10, Zenon DEF CleanUmount
    <3> QED
      BY <3>1
  <2>5. damaged' \subseteq damaged \cup {MountOrder[at]}
    <3>1. \E bad \in BOOLEAN :
            damaged' = IF MountOrder[at] \in mounted /\ bad THEN damaged \cup {MountOrder[at]}
                                                          ELSE damaged
      BY <1>10, Zenon DEF CleanUmount
    <3> QED
      BY <3>1
  <2> QED
    BY <2>1, <2>2, <2>3, <2>4, <2>5 DEF OtherTypes
<1>11. CASE Umounted
  BY <1>11 DEF Umounted, OtherTypes
<1>12. CASE KillEmulator
  BY <1>12 DEF KillEmulator, OtherTypes
<1>13. CASE ListImages
  BY <1>13 DEF ListImages, OtherTypes
<1>14. CASE Lsof
  <2>1. tries' \in 0 .. LsofTries /\ pc' \in {"lsof", "tar"}
    BY <1>14 DEF Lsof, LsofLeft, OtherTypes
  <2>2. UNCHANGED <<cfg, linked, args, open, ramBin, mounted, damaged, at, clean>>
    BY <1>14 DEF Lsof
  <2> QED
    BY <2>1, <2>2 DEF OtherTypes
<1>15. CASE StillNotDead
  BY <1>15 DEF StillNotDead, OtherTypes
<1>16. CASE Tar
  BY <1>16 DEF Tar, OtherTypes
<1>17. CASE EmulatorExits
  BY <1>17 DEF EmulatorExits, OtherTypes
<1>18. CASE Restart
  BY <1>18 DEF Restart, OtherTypes
<1>19. CASE UNCHANGED vars
  BY <1>19 DEF vars, OtherTypes
<1> QED
  BY <1>1, <1>2, <1>3, <1>4, <1>5, <1>6, <1>7, <1>8, <1>9, <1>10, <1>11, <1>12, <1>13,
     <1>14, <1>15, <1>16, <1>17, <1>18, <1>19 DEF Next

-----------------------------------------------------------------------------
\* The inductive invariant of the images holds in every state, for every system image
\* and command line.
THEOREM Inductive == Spec => []IInv
<1>1. IInv /\ [Next]_vars => IInv'
  BY FilesInductive, LinkInductive, CleanInductive, DensityInductive,
     ImageTypesInductive, DensityTypesInductive, OtherTypesInductive DEF IInv, FilesInv, TypeInv
<1> QED
  BY InvInit, <1>1, PTL DEF Spec

\* Type correctness.
THEOREM TypeCorrect == Spec => []TypeOK
<1>1. IInv => TypeOK
  BY DEF IInv, FilesInv, LinkInv, PlainInv, TypeInv, ImageTypes, DensityTypes, OtherTypes, TypeOK,
         Kinds, Unresized, OverlayKinds, StagePcs, RunPcs
<1> QED
  BY Inductive, <1>1, PTL

\* The emulator is started with images that _StageDataFiles has put there.
THEOREM ArgsNameStagedFilesThm == Spec => []ArgsNameStagedFiles
<1>1. IInv => ArgsNameStagedFiles
  BY DEF IInv, FilesInv, StagedInv, ArgsNameStagedFiles, Launching
<1> QED
  BY Inductive, <1>1, PTL

\* The start action has the disks as the boot action left them, but for the three
\* uses of the flags that BootStateSurvives names.
THEOREM BootStateSurvivesThm == Spec => []BootStateSurvives
<1>1. IInv => BootStateSurvives
  <2> SUFFICES ASSUME IInv, pc = "launch", life = "start"
               PROVE  IF cfg.qemu2 THEN \A f \in Overlays : diff[f] = "none" \/ Fits(f)
                      ELSE \A f \in Written : base[f] \in {"written", "resized"}
    BY DEF BootStateSurvives, Launching, Written, Fits, Overlays
  <2> QED
    BY DEF IInv, FilesInv, StartInv, Overlays
<1> QED
  BY Inductive, <1>1, PTL

\* The session writes to no input of the build through a link.
THEOREM InputsUntouchedThm == Spec => []InputsUntouched
<1>1. IInv => InputsUntouched
  BY DEF IInv, LinkInv, InputsUntouched
<1> QED
  BY Inductive, <1>1, PTL

\* What is archived was unmounted and sound, or goes with a snapshot.
THEOREM StoredMeansCleanThm == Spec => []StoredMeansClean
<1>1. IInv => StoredMeansClean
  <2> SUFFICES ASSUME IInv, pc \in {"restart", "tar"}, life = "boot"
               PROVE  IF cfg.save THEN ramBin = "output"
                      ELSE mounted = {} /\ (cfg.api >= 21 => damaged = {})
    BY DEF StoredMeansClean
  <2>1. CASE cfg.save
    BY <2>1 DEF IInv, CleanInv
  <2>2. CASE ~cfg.save
    <3>1. /\ at = 6 /\ clean /\ mounted \subseteq Mounts
          /\ \A j \in 1 .. 5 : j < at => MountOrder[j] \notin mounted
          /\ cfg.api >= 21 => damaged = {}
      BY <2>2 DEF IInv, CleanInv, RunPcs
    <3>2. mounted = {}
      BY <3>1 DEF Mounts
    <3> QED
      BY <2>2, <3>1, <3>2
  <2> QED
    BY <2>1, <2>2
<1> QED
  BY Inductive, <1>1, PTL

\* The ramdisk tells the device the density it is configured with, which is as near to
\* the one asked for as the buckets allow.
THEOREM DensityAgreesThm == Spec => []DensityAgrees
<1>1. IInv => DensityAgrees
  <2> SUFFICES ASSUME IInv, pc = "launch"
      PROVE  /\ cfg.patchedRamdisk \/ ramdisk = density
             /\ cfg.density # TVDPI => \A i \in DOMAIN BUCKET_DPI :
                  Off(density, cfg.density) <= Off(BUCKET_DPI[i], cfg.density)
    BY DEF DensityAgrees, Launching, Off
  <2>1. TellsDensity(ramdisk) /\ density = MapToSupportedDensity(cfg.density)
    BY DEF IInv, DensityInv
  <2>2. cfg.density \in Nat
    BY DEF IInv, FilesInv, PlainInv, Config
  <2> QED
    BY <2>1, <2>2, Buckets, Nearest DEF TellsDensity
<1> QED
  BY Inductive, <1>1, PTL

=============================================================================
