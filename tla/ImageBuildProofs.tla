-------------------------- MODULE ImageBuildProofs --------------------------
(***************************************************************************)
(* Proofs about ImageBuild, for any builds, ports, command lines and       *)
(* images.  QuietDisk and LeavesNoQemu need to know when the trap will     *)
(* find QEMU_PID set; BootFilesMatch needs that nobody provisions a disk   *)
(* between Extract and Install, which is QuietDisk again, and that whoever *)
(* writes to boot/ ends the claim of the other builds of that name.        *)
(***************************************************************************)
EXTENDS ImageBuild, TLAPS

Booted == {"wait", "send", "provision", "shutdown", "halt"}
Still == {"copy", "boot", "extract", "drop", "initrd", "install"}

\* QEMU does not run before Boot or after Halt, and QEMU_PID is set for as long
\* as the script uses it.
Quiet ==
  \A b \in Builds :
    /\ at[b] \in Still => qemu[b] = "off"
    /\ at[b] \in Booted => pid[b] = TRUE

\* What a build that was left alone has put beside its image is still there.
MadeBy(b) ==
  alone[b] =>
    /\ at[b] \in {"drop", "initrd", "install"}
    /\ boot[job[b].name].vmlinuz = disk[b].kver
    /\ at[b] = "initrd" => boot[job[b].name].initrd = "none"
    /\ at[b] = "install" => boot[job[b].name] \in BootFiles(disk[b])

Made == \A b \in Builds : MadeBy(b)

Inv == TypeOK /\ Quiet /\ Made

\* What Provision records is a disk again.
LEMMA ProvisionedIsDisk ==
  ASSUME NEW d \in Disks, NEW s \in Scripts
  PROVE  Provisioned(d, s) \in Disks
BY SMT DEF Provisioned, Disks, Scripts, NoDisk

\* A build past Copy has a disk, of which the kernel is known.
LEMMA HasDisk ==
  ASSUME Inv, NEW b \in Builds, at[b] \notin {"idle", "copy"}
  PROVE  disk[b] \in Disks /\ disk[b].kver \in Kernels
<1>1. disk[b] \in Disks
  BY SMT DEF Inv, TypeOK
<1> QED BY <1>1, SMT DEF Disks, Kernels

\* An image is built in the directory of its name.
LEMMA NameOf == ASSUME Inv, NEW b \in Builds PROVE job[b].name \in Names
BY BuildAssumption, SMT DEF Inv, TypeOK

\* The initial states satisfy the invariant.
LEMMA BuildInit == Init => Inv
<1> SUFFICES ASSUME Init PROVE Inv OBVIOUS
<1>1. /\ BaseDisk \in Disks /\ NoDisk \in Disks \cup {NoDisk}
      /\ (CHOOSE j \in Jobs : TRUE) \in Jobs
      /\ (CHOOSE p \in Ports : TRUE) \in Ports
  <2>1. BaseDisk \in Disks BY SMT DEF BaseDisk, Disks
  <2> QED BY <2>1, BuildAssumption, Zenon
<1>2. TypeOK
  <2>1. /\ pid \in [Builds -> BOOLEAN] /\ alone \in [Builds -> BOOLEAN]
    BY Zenon DEF Init
  <2>2. job \in [Builds -> Jobs] /\ port \in [Builds -> Ports]
    BY <1>1, Zenon DEF Init
  <2>3. /\ at \in [Builds -> Stages] /\ qemu \in [Builds -> Alive \cup {"off"}]
        /\ disk \in [Builds -> Disks \cup {NoDisk}]
        /\ \A b \in Builds : at[b] \in {"idle", "copy"} <=> disk[b] = NoDisk
        /\ images \in [Names -> Disks \cup {NoDisk}]
        /\ boot \in [Names -> [vmlinuz : Kernels, initrd : Kernels]]
        /\ starts \in Nat
    BY <1>1, SMT DEF Init, Stages, Alive, Kernels
  <2> QED BY <2>1, <2>2, <2>3 DEF TypeOK
<1>3. Quiet
  <2>1. \A b \in Builds : at[b] = "idle" /\ qemu[b] = "off"
    BY DEF Init
  <2> QED BY <2>1 DEF Quiet, Booted, Still
<1>4. Made
  BY Zenon DEF Init, Made, MadeBy
<1> QED BY <1>2, <1>3, <1>4 DEF Inv

\* A build keeps its files when it does not move, its disk is kept once it is
\* extracted, and nobody writes to its boot/ or its claim ends with that.
LEMMA KeepsFiles ==
  ASSUME Inv, NEW c \in Builds, at'[c] = at[c], job'[c] = job[c],
         at[c] \in {"drop", "initrd", "install"} => disk'[c] = disk[c],
         alone'[c] => alone[c] /\ boot'[job[c].name] = boot[job[c].name]
  PROVE  MadeBy(c)'
<1> SUFFICES ASSUME alone'[c] PROVE MadeBy(c)' BY DEF MadeBy
<1>1. /\ at[c] \in {"drop", "initrd", "install"}
      /\ boot[job[c].name].vmlinuz = disk[c].kver
      /\ at[c] = "initrd" => boot[job[c].name].initrd = "none"
      /\ at[c] = "install" => boot[job[c].name] \in BootFiles(disk[c])
  BY DEF Inv, Made, MadeBy
<1>2. disk'[c] = disk[c] /\ boot'[job'[c].name] = boot[job[c].name]
  BY <1>1
<1>3. BootFiles(disk[c])' = BootFiles(disk[c])
  BY <1>2 DEF BootFiles, HasInitrd
<1> QED BY <1>1, <1>2, <1>3 DEF MadeBy

\* A step of b keeps everybody's files when b has none that it claims and the
\* others keep theirs.
LEMMA OthersMade ==
  ASSUME Inv, NEW b \in Builds, MadeBy(b)',
         \A c \in Builds \ {b} :
           /\ at'[c] = at[c] /\ job'[c] = job[c]
           /\ at[c] \in {"drop", "initrd", "install"} => disk'[c] = disk[c]
           /\ alone'[c] =>
                alone[c] /\ boot'[job[c].name] = boot[job[c].name]
  PROVE  Made'
<1> SUFFICES ASSUME NEW c \in Builds PROVE MadeBy(c)' BY DEF Made
<1>1. CASE c = b BY <1>1
<1>2. CASE c # b BY <1>2, KeepsFiles
<1> QED BY <1>1, <1>2

\* A step of b that keeps the disks, the files and the claims keeps Made, if b
\* was not among the extractors.
LEMMA SameFiles ==
  ASSUME Inv, NEW b \in Builds, at[b] \notin {"drop", "initrd", "install"},
         at' = [at EXCEPT ![b] = at'[b]],
         \A c \in Builds \ {b} : job'[c] = job[c],
         UNCHANGED <<boot, alone>>,
         \A c \in Builds \ {b} :
           at[c] \in {"drop", "initrd", "install"} => disk'[c] = disk[c]
  PROVE  Made'
<1>1. ~alone'[b]
  BY DEF Inv, Made, MadeBy
<1>2. MadeBy(b)'
  BY <1>1 DEF MadeBy
<1>3. \A c \in Builds \ {b} : at'[c] = at[c]
  BY DEF Inv, TypeOK
<1> QED BY <1>2, <1>3, OthersMade

\* Start keeps the invariant: the build has no disk and no QEMU yet.
LEMMA StartKeeps ==
  ASSUME Inv, NEW b \in Builds, Start(b)
  PROVE  Inv'
<1>1. TypeOK'
  BY SMTT(20) DEF Inv, TypeOK, Stages, Start, destVars
<1>2. Quiet'
  BY SMTT(20) DEF Inv, TypeOK, Quiet, Booted, Still, Start, destVars
<1>3. Made'
  <2>1. /\ at[b] = "idle" /\ at' = [at EXCEPT ![b] = at'[b]]
        /\ \A c \in Builds \ {b} : job'[c] = job[c]
        /\ UNCHANGED <<boot, alone, disk>>
    BY SMT DEF Inv, TypeOK, Start, destVars
  <2> QED BY <2>1, SameFiles
<1> QED BY <1>1, <1>2, <1>3 DEF Inv

\* Copy keeps the invariant: the base is there, so the copy is a disk.
LEMMA CopyKeeps ==
  ASSUME Inv, NEW b \in Builds, Copy(b)
  PROVE  Inv'
<1>a. NoDisk \notin Disks
  BY SMT DEF NoDisk, Disks, Scripts
<1>1. TypeOK'
  BY <1>a, BuildAssumption, SMTT(20) DEF Inv, TypeOK, Stages, Copy, Goto,
     destVars
<1>2. Quiet'
  BY SMTT(20) DEF Inv, TypeOK, Quiet, Booted, Still, Copy, Goto, destVars
<1>3. Made'
  <2>1. /\ at[b] = "copy" /\ at' = [at EXCEPT ![b] = at'[b]]
        /\ \A c \in Builds \ {b} : job'[c] = job[c] /\ disk'[c] = disk[c]
        /\ UNCHANGED <<boot, alone>>
    BY SMT DEF Inv, TypeOK, Copy, Goto, destVars
  <2> QED BY <2>1, SameFiles
<1> QED BY <1>1, <1>2, <1>3 DEF Inv

\* Boot keeps the invariant: QEMU runs, and its pid is not yet known.
LEMMA BootKeeps ==
  ASSUME Inv, NEW b \in Builds, Boot(b)
  PROVE  Inv'
<1>1. TypeOK'
  BY SMTT(20) DEF Inv, TypeOK, Stages, Alive, Bound, Boot, Goto, destVars
<1>2. Quiet'
  BY SMTT(20) DEF Inv, TypeOK, Quiet, Booted, Still, Boot, Goto, destVars
<1>3. Made'
  <2>1. /\ at[b] = "boot" /\ at' = [at EXCEPT ![b] = at'[b]]
        /\ UNCHANGED <<job, disk, boot, alone>>
    BY SMT DEF Inv, TypeOK, Boot, Goto, destVars
  <2> QED BY <2>1, SameFiles
<1> QED BY <1>1, <1>2, <1>3 DEF Inv

\* NotePid keeps the invariant: the trap knows of QEMU from now on.
LEMMA NotePidKeeps ==
  ASSUME Inv, NEW b \in Builds, NotePid(b)
  PROVE  Inv'
<1>1. TypeOK'
  BY SMTT(20) DEF Inv, TypeOK, Stages, NotePid, Goto, destVars
<1>2. Quiet'
  BY SMTT(20) DEF Inv, TypeOK, Quiet, Booted, Still, NotePid, Goto, destVars
<1>3. Made'
  <2>1. /\ at[b] = "pid" /\ at' = [at EXCEPT ![b] = at'[b]]
        /\ UNCHANGED <<job, disk, boot, alone>>
    BY SMT DEF Inv, TypeOK, NotePid, Goto, destVars
  <2> QED BY <2>1, SameFiles
<1> QED BY <1>1, <1>2, <1>3 DEF Inv

\* A guest that can be reached is not one whose disk is being extracted; a disk
\* that was deleted under it stays deleted.
LEMMA ReachedDisk ==
  ASSUME Inv, NEW b \in Builds, NEW c \in Builds, Reaches(b, c)
  PROVE  /\ at[c] \notin Still
         /\ IF at[c] = "idle"
            THEN Provisioned(disk[c], job[b].script) = NoDisk
            ELSE Provisioned(disk[c], job[b].script) \in Disks
<1>1. at[c] \notin Still
  BY SMT DEF Inv, Quiet, Reaches
<1>2. CASE at[c] = "idle"
  <2>1. disk[c] = NoDisk
    BY <1>2 DEF Inv, TypeOK
  <2> QED BY <1>1, <1>2, <2>1 DEF Provisioned
<1>3. CASE at[c] # "idle"
  <2>1. disk[c] \in Disks
    BY <1>1, <1>3, HasDisk DEF Still
  <2>2. job[b].script \in Scripts
    BY BuildAssumption, SMT DEF Inv, TypeOK
  <2> QED BY <1>1, <1>3, <2>1, <2>2, ProvisionedIsDisk
<1> QED BY <1>2, <1>3

\* Provision keeps the invariant: the disk is not one that has been extracted.
LEMMA ProvisionKeeps ==
  ASSUME Inv, NEW b \in Builds, Provision(b)
  PROVE  Inv'
<1>0. PICK c \in Builds :
        /\ Reaches(b, c)
        /\ disk' = [disk EXCEPT ![c] = Provisioned(@, job[b].script)]
  BY DEF Provision
<1> DEFINE d == Provisioned(disk[c], job[b].script)
<1>a. /\ at[c] \notin Still
      /\ IF at[c] = "idle" THEN d = NoDisk ELSE d \in Disks
  BY <1>0, ReachedDisk
<1>b. /\ disk' \in [Builds -> Disks \cup {NoDisk}]
      /\ disk'[c] = d
      /\ \A e \in Builds \ {c} : disk'[e] = disk[e]
  <2>1. disk' = [disk EXCEPT ![c] = d]
    BY <1>0
  <2> HIDE DEF d
  <2> QED BY <2>1, <1>a, SMT DEF Inv, TypeOK
<1> HIDE DEF d
<1>c. /\ at[b] = "provision" /\ at' = [at EXCEPT ![b] = "shutdown"]
      /\ UNCHANGED <<job, starts, port, pid, qemu, images, boot, alone>>
  BY DEF Provision, Goto, destVars
<1>d. NoDisk \notin Disks
  BY SMT DEF NoDisk, Disks, Scripts
<1>1. TypeOK'
  <2>1. \A e \in Builds : at'[e] \in {"idle", "copy"} <=> disk'[e] = NoDisk
    <3> SUFFICES ASSUME NEW e \in Builds
                 PROVE  at'[e] \in {"idle", "copy"} <=> disk'[e] = NoDisk
      OBVIOUS
    <3>1. at'[e] \in {"idle", "copy"} <=> at[e] \in {"idle", "copy"}
      BY <1>c, SMT DEF Inv, TypeOK
    <3>2. at[e] \in {"idle", "copy"} <=> disk[e] = NoDisk
      BY DEF Inv, TypeOK
    <3>3. CASE e # c BY <3>1, <3>2, <3>3, <1>b
    <3>4. CASE e = c BY <3>1, <3>4, <1>a, <1>b, <1>d DEF Still
    <3> QED BY <3>3, <3>4
  <2>2. at' \in [Builds -> Stages]
    BY <1>c, SMT DEF Inv, TypeOK, Stages
  <2> QED BY <2>1, <2>2, <1>b, <1>c DEF Inv, TypeOK
<1>2. Quiet'
  BY <1>c, SMT DEF Inv, TypeOK, Quiet, Booted, Still
<1>3. Made'
  <2>1. at' = [at EXCEPT ![b] = at'[b]]
    BY <1>c DEF Inv, TypeOK
  <2>2. ASSUME NEW e \in Builds, at[e] \in {"drop", "initrd", "install"}
        PROVE  disk'[e] = disk[e]
    BY <2>2, <1>a, <1>b DEF Still
  <2> QED BY <2>1, <2>2, <1>c, SameFiles
<1> QED BY <1>1, <1>2, <1>3 DEF Inv

\* Shutdown keeps the invariant: a guest that halts runs.
LEMMA ShutdownKeeps ==
  ASSUME Inv, NEW b \in Builds, Shutdown(b)
  PROVE  Inv'
<1>1. TypeOK'
  BY SMTT(20) DEF Inv, TypeOK, Stages, Alive, Bound, Shutdown, Goto,
     Reaches, destVars
<1>2. Quiet'
  BY SMTT(20) DEF Inv, TypeOK, Quiet, Booted, Still, Shutdown, Goto, Reaches,
     destVars
<1>3. Made'
  <2>1. /\ at[b] = "shutdown" /\ at' = [at EXCEPT ![b] = at'[b]]
        /\ UNCHANGED <<job, disk, boot, alone>>
    BY SMT DEF Inv, TypeOK, Shutdown, Goto, destVars
  <2> QED BY <2>1, SameFiles
<1> QED BY <1>1, <1>2, <1>3 DEF Inv

\* Halt keeps the invariant: QEMU is gone and QEMU_PID empty.
LEMMA HaltKeeps ==
  ASSUME Inv, NEW b \in Builds, Halt(b)
  PROVE  Inv'
<1>1. TypeOK'
  BY SMTT(20) DEF Inv, TypeOK, Stages, Halt, Goto, destVars
<1>2. Quiet'
  BY SMTT(20) DEF Inv, TypeOK, Quiet, Booted, Still, Halt, Goto, destVars
<1>3. Made'
  <2>1. /\ at[b] = "halt" /\ at' = [at EXCEPT ![b] = at'[b]]
        /\ UNCHANGED <<job, disk, boot, alone>>
    BY SMT DEF Inv, TypeOK, Halt, Goto, destVars
  <2> QED BY <2>1, SameFiles
<1> QED BY <1>1, <1>2, <1>3 DEF Inv

\* A write to the boot/ of b's name keeps the invariant: the others of that name
\* have nothing left to claim.
LEMMA WriteKeeps ==
  ASSUME Inv, NEW b \in Builds, NEW to \in {"drop", "initrd", "install"},
         NEW v, v \in [vmlinuz : Kernels, initrd : Kernels],
         at[b] \in {"extract", "drop", "initrd"},
         at' = [at EXCEPT ![b] = to],
         UNCHANGED <<job, starts, port, pid, qemu, disk, images>>,
         boot' = [boot EXCEPT ![job[b].name] = v],
         alone' \in [Builds -> BOOLEAN],
         \A c \in Builds \ {b} : alone'[c] => Undisturbed(b)[c],
         MadeBy(b)'
  PROVE  Inv'
<1> DEFINE n == job[b].name
<1>a. n \in Names
  BY NameOf
<1>b. /\ boot' \in [Names -> [vmlinuz : Kernels, initrd : Kernels]]
      /\ \A m \in Names \ {n} : boot'[m] = boot[m]
  <2> HIDE DEF n
  <2>1. boot' = [boot EXCEPT ![n] = v] BY DEF n
  <2> QED BY <1>a, <2>1 DEF Inv, TypeOK
<1>c. \A c \in Builds : disk'[c] = disk[c]
  OBVIOUS
<1>1. TypeOK'
  <2>1. at' \in [Builds -> Stages]
    BY SMT DEF Inv, TypeOK, Stages
  <2>2. \A c \in Builds : at'[c] \in {"idle", "copy"} <=> disk'[c] = NoDisk
    <3> SUFFICES ASSUME NEW c \in Builds
                 PROVE  at'[c] \in {"idle", "copy"} <=> disk[c] = NoDisk
      OBVIOUS
    <3>1. at'[c] \in {"idle", "copy"} <=> at[c] \in {"idle", "copy"}
      BY SMT DEF Inv, TypeOK
    <3> QED BY <3>1 DEF Inv, TypeOK
  <2> QED BY <1>b, <2>1, <2>2, Zenon DEF Inv, TypeOK
<1>2. Quiet'
  BY SMT DEF Inv, TypeOK, Quiet, Booted, Still
<1>3. Made'
  <2>1. ASSUME NEW c \in Builds \ {b}
        PROVE  /\ at'[c] = at[c]
               /\ alone'[c] =>
                    alone[c] /\ boot'[job[c].name] = boot[job[c].name]
    <3>1. at'[c] = at[c] BY DEF Inv, TypeOK
    <3>2. job[c].name \in Names BY NameOf
    <3> QED BY <1>b, <3>1, <3>2 DEF Undisturbed
  <2> QED BY <2>1, OthersMade
<1> QED BY <1>1, <1>2, <1>3 DEF Inv

\* Undisturbed takes claims away and gives none.
LEMMA UndisturbedType ==
  ASSUME Inv, NEW b \in Builds
  PROVE  /\ Undisturbed(b) \in [Builds -> BOOLEAN]
         /\ [Undisturbed(b) EXCEPT ![b] = TRUE] \in [Builds -> BOOLEAN]
         /\ Undisturbed(b)[b] = alone[b]
<1>1. alone \in [Builds -> BOOLEAN] BY DEF Inv, TypeOK
<1> QED BY <1>1, Zenon DEF Undisturbed

\* Extract keeps the invariant: the kernel beside the image is the disk's.
LEMMA ExtractKeeps ==
  ASSUME Inv, NEW b \in Builds, Extract(b)
  PROVE  Inv'
<1> DEFINE n == job[b].name
           v == [boot[n] EXCEPT !.vmlinuz = disk[b].kver]
<1>1. /\ at[b] = "extract" /\ at' = [at EXCEPT ![b] = "drop"]
      /\ UNCHANGED <<job, starts, port, pid, qemu, disk, images>>
      /\ boot' = [boot EXCEPT ![n] = v]
      /\ alone' = [Undisturbed(b) EXCEPT ![b] = TRUE]
  BY DEF Extract, Goto
<1>2. n \in Names /\ disk[b].kver \in Kernels
  BY <1>1, NameOf, HasDisk
<1>3. boot[n] \in [vmlinuz : Kernels, initrd : Kernels]
  BY <1>2 DEF Inv, TypeOK
<1>4. v \in [vmlinuz : Kernels, initrd : Kernels] /\ v.vmlinuz = disk[b].kver
  <2> HIDE DEF n
  <2> QED BY <1>2, <1>3, SMT
<1>5. alone' \in [Builds -> BOOLEAN]
  BY <1>1, UndisturbedType
<1>6. \A c \in Builds \ {b} : alone'[c] => Undisturbed(b)[c]
  BY <1>1, Zenon DEF Undisturbed
<1>7. at'[b] = "drop" /\ boot'[n] = v
  BY <1>1, <1>2 DEF Inv, TypeOK
<1>8. MadeBy(b)'
  <2>1. boot'[job'[b].name].vmlinuz = disk'[b].kver
    BY <1>1, <1>4, <1>7
  <2> QED BY <1>7, <2>1 DEF MadeBy
<1> HIDE DEF v
<1> QED BY <1>1, <1>4, <1>5, <1>6, <1>8, WriteKeeps

\* DropInitrd keeps the invariant: the kernel stays and there is no initrd.
LEMMA DropInitrdKeeps ==
  ASSUME Inv, NEW b \in Builds, DropInitrd(b)
  PROVE  Inv'
<1> DEFINE n == job[b].name
           v == [boot[n] EXCEPT !.initrd = "none"]
<1>1. /\ at[b] = "drop" /\ at' = [at EXCEPT ![b] = "initrd"]
      /\ UNCHANGED <<job, starts, port, pid, qemu, disk, images>>
      /\ boot' = [boot EXCEPT ![n] = v]
      /\ alone' = Undisturbed(b)
  BY DEF DropInitrd, Goto
<1>2. n \in Names
  BY NameOf
<1>3. boot[n] \in [vmlinuz : Kernels, initrd : Kernels]
  BY <1>2 DEF Inv, TypeOK
<1>4. /\ v \in [vmlinuz : Kernels, initrd : Kernels]
      /\ v.vmlinuz = boot[n].vmlinuz /\ v.initrd = "none"
  <2> HIDE DEF n
  <2> QED BY <1>3, SMT DEF Kernels
<1>5. alone' \in [Builds -> BOOLEAN] /\ alone'[b] = alone[b]
  BY <1>1, UndisturbedType
<1>6. \A c \in Builds \ {b} : alone'[c] => Undisturbed(b)[c]
  BY <1>1
<1>7. at'[b] = "initrd" /\ boot'[n] = v
  BY <1>1, <1>2 DEF Inv, TypeOK
<1>8. MadeBy(b)'
  <2>1. alone[b] => boot[n].vmlinuz = disk[b].kver
    BY DEF Inv, Made, MadeBy
  <2>2. alone'[b] => boot'[job'[b].name].vmlinuz = disk'[b].kver
    BY <1>1, <1>4, <1>5, <1>7, <2>1
  <2>3. boot'[job'[b].name].initrd = "none"
    BY <1>1, <1>4, <1>7
  <2> QED BY <1>7, <2>2, <2>3 DEF MadeBy
<1> HIDE DEF v
<1> QED BY <1>1, <1>4, <1>5, <1>6, <1>8, WriteKeeps

\* Initrd keeps the invariant: an initrd that is put in place is the kernel's,
\* and none is only if the disk wants none.
LEMMA InitrdKeeps ==
  ASSUME Inv, NEW b \in Builds, Initrd(b)
  PROVE  Inv'
<1> DEFINE n == job[b].name
<1>1. /\ at[b] = "initrd" /\ at' = [at EXCEPT ![b] = "install"]
      /\ UNCHANGED <<job, starts, port, pid, qemu, disk, images>>
  BY DEF Initrd, Goto
<1>2. n \in Names /\ disk[b].kver \in Kernels
  BY <1>1, NameOf, HasDisk
<1>3. boot[n] \in [vmlinuz : Kernels, initrd : Kernels]
  BY <1>2 DEF Inv, TypeOK
<1>4. alone[b] => boot[n].vmlinuz = disk[b].kver /\ boot[n].initrd = "none"
  BY <1>1 DEF Inv, Made, MadeBy
<1>5. at'[b] = "install" /\ BootFiles(disk[b])' = BootFiles(disk[b])
  BY <1>1 DEF Inv, TypeOK, BootFiles, HasInitrd
<1>6. CASE disk[b].needsNo /\ UNCHANGED <<boot, alone>>
  <2>1. alone[b] => boot[n] \in BootFiles(disk[b])
    <3>1. boot[n] = [vmlinuz |-> boot[n].vmlinuz, initrd |-> boot[n].initrd]
      BY <1>3, SMT
    <3> QED BY <1>4, <1>6, <3>1 DEF BootFiles
  <2>2. MadeBy(b)'
    BY <1>1, <1>4, <1>5, <1>6, <2>1 DEF MadeBy
  <2>3. MadeBy(b)' => Made'
    <3>1. \A c \in Builds \ {b} : at'[c] = at[c]
      BY <1>1 DEF Inv, TypeOK
    <3> QED BY <1>1, <1>6, <3>1, OthersMade
  <2>4. TypeOK' /\ Quiet'
    <3>1. TypeOK'
      BY <1>1, <1>6, SMT DEF Inv, TypeOK, Stages
    <3>2. Quiet'
      BY <1>1, <1>6, SMT DEF Inv, TypeOK, Quiet, Booted, Still
    <3> QED BY <3>1, <3>2
  <2> QED BY <2>2, <2>3, <2>4 DEF Inv
<1>7. CASE /\ HasInitrd(disk[b])
           /\ boot' = [boot EXCEPT ![job[b].name].initrd = disk[b].kver]
           /\ alone' = Undisturbed(b)
  <2> DEFINE v == [boot[n] EXCEPT !.initrd = disk[b].kver]
  <2>1. boot' = [boot EXCEPT ![n] = v]
    BY <1>7
  <2>2. /\ v \in [vmlinuz : Kernels, initrd : Kernels]
        /\ v = [vmlinuz |-> boot[n].vmlinuz, initrd |-> disk[b].kver]
    <3> HIDE DEF n
    <3> QED BY <1>2, <1>3, SMT
  <2>3. boot'[n] = v
    BY <1>2, <2>1 DEF Inv, TypeOK
  <2>4. alone' \in [Builds -> BOOLEAN] /\ alone'[b] = alone[b]
    BY <1>7, UndisturbedType
  <2>5. \A c \in Builds \ {b} : alone'[c] => Undisturbed(b)[c]
    BY <1>7
  <2>6. MadeBy(b)'
    <3>1. alone'[b] => v.vmlinuz = disk[b].kver /\ v \in BootFiles(disk[b])
      BY <1>4, <1>7, <2>2, <2>4 DEF BootFiles
    <3> HIDE DEF v
    <3> QED BY <1>1, <1>5, <2>3, <3>1 DEF MadeBy
  <2> HIDE DEF v
  <2> QED BY <1>1, <2>1, <2>2, <2>4, <2>5, <2>6, WriteKeeps
<1> QED BY <1>6, <1>7 DEF Initrd

\* The end of a script keeps the invariant, whatever it does to the images: its
\* disk goes, and only guests that run, or are gone, may have changed theirs.
LEMMA EndKeeps ==
  ASSUME Inv, NEW b \in Builds, Cleanup(b), boot' = boot,
         images' \in [Names -> Disks \cup {NoDisk}],
         disk' \in [Builds -> Disks \cup {NoDisk}], disk'[b] = NoDisk,
         \A e \in Builds \ {b} :
           \/ disk'[e] = disk[e]
           \/ at[e] \notin Still \cup {"idle"} /\ disk'[e] \in Disks
  PROVE  Inv'
<1>a. /\ at[b] # "idle" /\ at' = [at EXCEPT ![b] = "idle"]
      /\ qemu' = IF pid[b] THEN [qemu EXCEPT ![b] = "off"] ELSE qemu
      /\ pid' = [pid EXCEPT ![b] = FALSE]
      /\ alone' = [alone EXCEPT ![b] = FALSE]
      /\ UNCHANGED <<job, port, starts>>
  BY DEF Cleanup
<1>b. \A e \in Builds \ {b} : at'[e] = at[e] /\ alone'[e] = alone[e]
  BY <1>a DEF Inv, TypeOK
<1>c. at'[b] = "idle" /\ ~alone'[b]
  BY <1>a, Zenon DEF Inv, TypeOK
<1>d. NoDisk \notin Disks
  BY SMT DEF NoDisk, Disks, Scripts
<1>1. TypeOK'
  <2>1. qemu' \in [Builds -> Alive \cup {"off"}] /\ at' \in [Builds -> Stages]
    BY <1>a, SMT DEF Inv, TypeOK, Stages
  <2>2. pid' \in [Builds -> BOOLEAN] /\ alone' \in [Builds -> BOOLEAN]
    BY <1>a, Zenon DEF Inv, TypeOK
  <2>3. \A e \in Builds : at'[e] \in {"idle", "copy"} <=> disk'[e] = NoDisk
    <3> SUFFICES ASSUME NEW e \in Builds
                 PROVE  at'[e] \in {"idle", "copy"} <=> disk'[e] = NoDisk
      OBVIOUS
    <3>1. at[e] \in {"idle", "copy"} <=> disk[e] = NoDisk
      BY DEF Inv, TypeOK
    <3>2. CASE e = b BY <3>2, <1>c
    <3>3. CASE e # b BY <3>1, <3>3, <1>b, <1>d DEF Still
    <3> QED BY <3>2, <3>3
  <2> QED BY <1>a, <2>1, <2>2, <2>3, Zenon DEF Inv, TypeOK
<1>2. Quiet'
  BY <1>a, SMT DEF Inv, TypeOK, Quiet, Booted, Still
<1>3. Made'
  <2>1. MadeBy(b)'
    BY <1>c DEF MadeBy
  <2>2. ASSUME NEW e \in Builds \ {b}, at[e] \in {"drop", "initrd", "install"}
        PROVE  disk'[e] = disk[e]
    BY <2>2 DEF Still
  <2> QED BY <1>a, <1>b, <2>1, <2>2, OthersMade
<1> QED BY <1>1, <1>2, <1>3 DEF Inv

\* Install keeps the invariant: what it moves is a disk.
LEMMA InstallKeeps ==
  ASSUME Inv, NEW b \in Builds, Install(b)
  PROVE  Inv'
<1>1. /\ Cleanup(b) /\ boot' = boot
      /\ disk' = [disk EXCEPT ![b] = NoDisk]
      /\ images' = [images EXCEPT ![job[b].name] = disk[b]]
  BY DEF Install
<1>2. images' \in [Names -> Disks \cup {NoDisk}]
  BY <1>1, NameOf DEF Inv, TypeOK
<1>3. /\ disk' \in [Builds -> Disks \cup {NoDisk}] /\ disk'[b] = NoDisk
      /\ \A e \in Builds \ {b} : disk'[e] = disk[e]
  BY <1>1, SMT DEF Inv, TypeOK
<1> QED BY <1>1, <1>2, <1>3, EndKeeps

\* Fails keeps the invariant: the trap finds a QEMU whose pid is known.
LEMMA FailsKeeps ==
  ASSUME Inv, NEW b \in Builds, Fails(b)
  PROVE  Inv'
<1>1. /\ Cleanup(b) /\ boot' = boot /\ images' = images
      /\ disk' = [disk EXCEPT ![b] = NoDisk]
  BY DEF Fails
<1>2. /\ disk' \in [Builds -> Disks \cup {NoDisk}] /\ disk'[b] = NoDisk
      /\ \A e \in Builds \ {b} : disk'[e] = disk[e]
  BY <1>1, SMT DEF Inv, TypeOK
<1>3. images' \in [Names -> Disks \cup {NoDisk}]
  BY <1>1 DEF Inv, TypeOK
<1> QED BY <1>1, <1>2, <1>3, EndKeeps

\* FailsHalfway keeps the invariant: what it leaves behind is on the disk of a
\* guest that runs, or an image that has gone.
LEMMA FailsHalfwayKeeps ==
  ASSUME Inv, NEW b \in Builds, FailsHalfway(b)
  PROVE  Inv'
<1>1. Cleanup(b) /\ boot' = boot
  BY DEF FailsHalfway
<1>2. ASSUME NEW c \in Builds, Reaches(b, c), images' = images,
             disk' = [disk EXCEPT ![c] = Provisioned(@, job[b].script),
                                  ![b] = NoDisk]
      PROVE  Inv'
  <2> DEFINE d == Provisioned(disk[c], job[b].script)
  <2>1. /\ at[c] \notin Still
        /\ IF at[c] = "idle" THEN d = NoDisk ELSE d \in Disks
    BY <1>2, ReachedDisk
  <2>2. disk' = [disk EXCEPT ![c] = d, ![b] = NoDisk]
    BY <1>2
  <2> HIDE DEF d
  <2>3. /\ disk' \in [Builds -> Disks \cup {NoDisk}] /\ disk'[b] = NoDisk
        /\ \A e \in Builds \ {b} :
             disk'[e] = IF e = c THEN d ELSE disk[e]
    BY <2>1, <2>2, SMT DEF Inv, TypeOK
  <2>4. ASSUME NEW e \in Builds \ {b}
        PROVE  \/ disk'[e] = disk[e]
               \/ at[e] \notin Still \cup {"idle"} /\ disk'[e] \in Disks
    <3>1. at[e] = "idle" => disk[e] = NoDisk
      BY DEF Inv, TypeOK
    <3> QED BY <2>1, <2>3, <3>1
  <2>5. images' \in [Names -> Disks \cup {NoDisk}]
    BY <1>2 DEF Inv, TypeOK
  <2> QED BY <1>1, <2>3, <2>4, <2>5, EndKeeps
<1>3. ASSUME disk' = [disk EXCEPT ![b] = NoDisk],
             images' = [images EXCEPT ![job[b].name] = NoDisk]
      PROVE  Inv'
  <2>1. images' \in [Names -> Disks \cup {NoDisk}]
    BY <1>3, NameOf DEF Inv, TypeOK
  <2>2. /\ disk' \in [Builds -> Disks \cup {NoDisk}] /\ disk'[b] = NoDisk
        /\ \A e \in Builds \ {b} : disk'[e] = disk[e]
    BY <1>3, SMT DEF Inv, TypeOK
  <2> QED BY <1>1, <2>1, <2>2, EndKeeps
<1> QED BY <1>2, <1>3 DEF FailsHalfway

\* Talk keeps the invariant: it changes nothing but the place in the script.
LEMMA TalkKeeps ==
  ASSUME Inv, NEW b \in Builds, NEW from \in {"wait", "send"},
         NEW to \in {"send", "provision"}, Talk(b, from, to)
  PROVE  Inv'
<1>1. TypeOK'
  BY SMTT(20) DEF Inv, TypeOK, Stages, Talk, Goto, destVars
<1>2. Quiet'
  BY SMTT(20) DEF Inv, TypeOK, Quiet, Booted, Still, Talk, Goto, destVars
<1>3. Made'
  <2>1. /\ at[b] \in {"wait", "send"} /\ at' = [at EXCEPT ![b] = at'[b]]
        /\ UNCHANGED <<job, disk, boot, alone>>
    BY SMT DEF Inv, TypeOK, Talk, Goto, destVars
  <2> QED BY <2>1, SameFiles
<1> QED BY <1>1, <1>2, <1>3 DEF Inv

\* Guest keeps the invariant: a guest that changes was there before.
LEMMA GuestKeeps ==
  ASSUME Inv, NEW b \in Builds, NEW from, NEW to,
         from \subseteq Alive, to \in Alive \cup {"off"}, Guest(b, from, to)
  PROVE  Inv'
<1>1. TypeOK'
  BY SMTT(20) DEF Inv, TypeOK, Stages, Alive, Bound, Guest, buildVars,
     destVars
<1>2. Quiet'
  BY SMTT(20) DEF Inv, TypeOK, Quiet, Booted, Still, Alive, Bound, Guest,
     buildVars, destVars
<1>3. Made'
  BY DEF Inv, Made, MadeBy, BootFiles, HasInitrd, Guest, buildVars, destVars
<1> QED BY <1>1, <1>2, <1>3 DEF Inv

\* Every step keeps the invariant.
LEMMA BuildNext == Inv /\ [Next]_vars => Inv'
<1> SUFFICES ASSUME Inv, [Next]_vars PROVE Inv' OBVIOUS
<1>1. CASE UNCHANGED vars
  BY <1>1 DEF vars, buildVars, destVars, Inv, TypeOK, Quiet, Made, MadeBy,
              BootFiles, HasInitrd
<1>2. ASSUME NEW b \in Builds, Start(b) PROVE Inv'
  BY <1>2, StartKeeps
<1>3. ASSUME NEW b \in Builds, Proceeds(b) PROVE Inv'
  <2>1. CASE Talk(b, "wait", "send") \/ Talk(b, "send", "provision")
    BY <2>1, TalkKeeps
  <2>2. CASE Copy(b) \/ Boot(b) \/ NotePid(b)
    BY <2>2, CopyKeeps, BootKeeps, NotePidKeeps
  <2>3. CASE Provision(b) \/ Shutdown(b) \/ Halt(b)
    BY <2>3, ProvisionKeeps, ShutdownKeeps, HaltKeeps
  <2>4. CASE Extract(b) \/ DropInitrd(b) \/ Initrd(b) \/ Install(b)
    BY <2>4, ExtractKeeps, DropInitrdKeeps, InitrdKeeps, InstallKeeps
  <2> QED BY <1>3, <2>1, <2>2, <2>3, <2>4 DEF Proceeds
<1>4. ASSUME NEW b \in Builds, Fails(b) \/ FailsHalfway(b) PROVE Inv'
  BY <1>4, FailsKeeps, FailsHalfwayKeeps
<1>5. ASSUME NEW b \in Builds, GuestRuns(b) PROVE Inv'
  <2>1. ASSUME NEW from, NEW to, Guest(b, from, to), from \subseteq Alive,
               to \in Alive \cup {"off"}
        PROVE  Inv'
    BY <2>1, GuestKeeps
  <2>2. CASE QemuBinds(b)
    <3> DEFINE taken == \E c \in Builds \ {b} : port[c] = port[b]
                                               /\ qemu[c] \in Bound
               to == IF taken THEN "off" ELSE "booting"
    <3>1. Guest(b, {"starting"}, to)
      BY <2>2 DEF QemuBinds
    <3>2. to \in Alive \cup {"off"} /\ {"starting"} \subseteq Alive
      BY SMT DEF Alive, Bound
    <3> HIDE DEF to
    <3> QED BY <2>1, <3>1, <3>2
  <2>3. CASE Guest(b, {"booting"}, "up")
    BY <2>1, <2>3, SMT DEF Alive, Bound
  <2>4. CASE Guest(b, {"up"}, "hung")
    BY <2>1, <2>4, SMT DEF Alive, Bound
  <2>5. CASE Guest(b, Alive, "off")
    BY <2>1, <2>5
  <2> QED BY <1>5, <2>2, <2>3, <2>4, <2>5 DEF GuestRuns
<1> QED BY <1>1, <1>2, <1>3, <1>4, <1>5 DEF Next

\* The invariant holds in every reachable state.
LEMMA BuildAlways == Spec => []Inv
BY BuildInit, BuildNext, PTL DEF Spec

\* Every variable holds a value of its kind, and a build has a disk from its
\* Copy to its end: no build copies an image that has gone, and no script is
\* recorded on a disk that is not there.
THEOREM BuildTypes == Spec => []TypeOK
<1>1. Inv => TypeOK BY DEF Inv
<1> QED BY <1>1, BuildAlways, PTL

\* "shuts it down, then extracts": no disk is read, and no image moved, while
\* its QEMU has it open, wherever the scripts are interrupted and whatever the
\* guests do.
THEOREM DiskIsQuiet == Spec => []QuietDisk
<1>1. Inv => QuietDisk BY SMT DEF Inv, Quiet, QuietDisk, Still
<1> QED BY <1>1, BuildAlways, PTL

\* A script leaves no QEMU behind, wherever it ends but between starting QEMU
\* and taking its pid.
THEOREM ScriptsLeaveNoQemu == Spec => LeavesNoQemu
<1> DEFINE Leaves == \A b \in Builds :
                       at[b] \notin {"idle", "pid"} /\ at'[b] = "idle"
                         => qemu'[b] = "off"
<1>1. Inv /\ [Next]_vars => [Leaves]_vars
  <2> SUFFICES ASSUME Inv, Next, NEW b \in Builds,
                      at[b] \notin {"idle", "pid"}, at'[b] = "idle"
               PROVE  qemu'[b] = "off"
    OBVIOUS
  <2>1. at \in [Builds -> Stages]
    BY DEF Inv, TypeOK
  <2>2. ASSUME NEW c \in Builds, NEW from, NEW to, Goto(c, from, to),
               to # "idle"
        PROVE  FALSE
    BY <2>1, <2>2 DEF Goto
  <2>3. ASSUME NEW c \in Builds, Cleanup(c) PROVE qemu'[b] = "off"
    <3>1. /\ at' = [at EXCEPT ![c] = "idle"]
          /\ qemu' = IF pid[c] THEN [qemu EXCEPT ![c] = "off"] ELSE qemu
      BY <2>3 DEF Cleanup
    <3>2. c = b
      BY <2>1, <3>1
    <3>3. at[b] \in Booted \/ at[b] \in Still
      BY <2>1 DEF Stages, Booted, Still
    <3>4. qemu \in [Builds -> Alive \cup {"off"}]
      BY DEF Inv, TypeOK
    <3>5. CASE at[b] \in Booted
      BY <3>1, <3>2, <3>4, <3>5 DEF Inv, Quiet
    <3>6. CASE at[b] \in Still
      BY <3>1, <3>2, <3>4, <3>6 DEF Inv, Quiet
    <3> QED BY <3>3, <3>5, <3>6
  <2>4. PICK c \in Builds : \/ Start(c) \/ Proceeds(c) \/ Fails(c)
                            \/ FailsHalfway(c) \/ GuestRuns(c)
    BY DEF Next
  <2>5. CASE Start(c)
    BY <2>1, <2>5 DEF Start
  <2>6. CASE Install(c) \/ Fails(c) \/ FailsHalfway(c)
    BY <2>3, <2>6 DEF Install, Fails, FailsHalfway
  <2>7. CASE GuestRuns(c)
    BY <2>7 DEF GuestRuns, QemuBinds, Guest, buildVars
  <2>8. CASE Proceeds(c) /\ ~Install(c)
    BY <2>2, <2>8 DEF Proceeds, Copy, Boot, NotePid, Talk, Provision, Shutdown,
                      Halt, Extract, DropInitrd, Initrd
  <2> QED BY <2>4, <2>5, <2>6, <2>7, <2>8
<1> QED BY <1>1, BuildAlways, PTL DEF Spec, LeavesNoQemu

\* The boot files beside an image that is installed are its own, unless another
\* build of that name has written there since its kernel was extracted.
THEOREM BootFilesAreItsOwn == Spec => BootFilesMatch
<1>1. Inv /\ [Next]_vars =>
        [ \A b \in Builds : alone[b] => InstallsOwnFiles(b) ]_vars
  <2> SUFFICES ASSUME Inv, NEW b \in Builds, alone[b], Install(b)
               PROVE  boot'[job[b].name] \in BootFiles(images'[job[b].name])
    BY DEF InstallsOwnFiles
  <2>1. job[b].name \in Names /\ at[b] = "install"
    BY NameOf DEF Install
  <2>2. boot[job[b].name] \in BootFiles(disk[b])
    BY <2>1 DEF Inv, Made, MadeBy
  <2>3. boot' = boot /\ images'[job[b].name] = disk[b]
    BY <2>1 DEF Install, Inv, TypeOK
  <2> QED BY <2>2, <2>3
<1> QED BY <1>1, BuildAlways, PTL DEF Spec, BootFilesMatch
=============================================================================
