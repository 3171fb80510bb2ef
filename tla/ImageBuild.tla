----------------------------- MODULE ImageBuild -----------------------------
(***************************************************************************)
(* image/build-tt-image.sh: a copy of a base image is booted in QEMU,      *)
(* provisioned and shut down over ssh through a forwarded port, its kernel *)
(* and initrd are extracted, and the image is installed.  Several builds   *)
(* may run at a time.  Guests boot, hang, power off and die when they      *)
(* like, and any command of the script may fail or be interrupted.  What   *)
(* the provisioning scripts install is external; what they record for the  *)
(* extraction is kept.                                                     *)
(***************************************************************************)
EXTENDS Naturals

CONSTANTS
  Builds,    \* builds that may run at the same time
  Ports,     \* the ports of the machine
  Jobs,      \* command lines: records [base, name, script]
  Names,     \* the images under images/
  BaseName,  \* the one that is there before
  MaxStarts  \* bound: builds started

Scripts == {"kernel", "guest", "metal"}

ASSUME BuildAssumption ==
  /\ BaseName \in Names
  /\ Jobs \subseteq [base : Names, name : Names, script : Scripts]
  /\ Jobs # {} /\ Ports # {}
  /\ MaxStarts \in Nat

VARIABLES
  at,      \* the command of the script that comes next; "idle": not running
  job,     \* its options
  port,    \* PORT
  pid,     \* QEMU_PID is set
  qemu,    \* the QEMU process and the guest in it
  disk,    \* $WORK/$NAME.qcow2
  images,  \* $DEST/$NAME
  boot,    \* $DEST/boot
  starts,  \* builds started
  alone    \* history: since its Extract no other build has written to its boot/

buildVars == <<at, job, port, pid, disk>>
destVars == <<images, boot, alone>>
vars == <<buildVars, qemu, destVars, starts>>

Stages == {"idle", "copy", "boot", "pid", "wait", "send", "provision",
           "shutdown", "halt", "extract", "drop", "initrd", "install"}

\* A QEMU that has forwarded its port, and one that is there at all.
Bound == {"booting", "up", "hung", "halting"}
Alive == {"starting"} \cup Bound

\* /etc/simbricks-kernel-version, /etc/simbricks-needs-initrd, and the scripts
\* that have run on the disk.
Disks == [kver : {"none", "tt", "generic"}, needsNo : BOOLEAN,
          ran : SUBSET Scripts]
NoDisk == [kver |-> "none", needsNo |-> FALSE, ran |-> {"gone"}]
BaseDisk == [kver |-> "none", needsNo |-> FALSE, ran |-> {}]

Kernels == {"none", "tt", "generic"}

Init ==
  /\ at = [b \in Builds |-> "idle"]
  /\ job = [b \in Builds |-> CHOOSE j \in Jobs : TRUE]
  /\ port = [b \in Builds |-> CHOOSE p \in Ports : TRUE]
  /\ pid = [b \in Builds |-> FALSE]
  /\ qemu = [b \in Builds |-> "off"]
  /\ disk = [b \in Builds |-> NoDisk]
  /\ images = [n \in Names |-> IF n = BaseName THEN BaseDisk ELSE NoDisk]
  /\ boot = [n \in Names |-> [vmlinuz |-> "none", initrd |-> "none"]]
  /\ starts = 0
  /\ alone = [b \in Builds |-> FALSE]

----------------------------------------------------------------------------
(* QEMU and the guest *)

Guest(b, from, to) ==
  /\ qemu[b] \in from
  /\ qemu' = [qemu EXCEPT ![b] = to]
  /\ UNCHANGED <<buildVars, destVars, starts>>

\* QEMU forwards the port, and exits when another one has it already.
QemuBinds(b) ==
  LET taken == \E c \in Builds \ {b} : port[c] = port[b] /\ qemu[c] \in Bound
  IN  Guest(b, {"starting"}, IF taken THEN "off" ELSE "booting")

GuestRuns(b) ==
  \/ QemuBinds(b)
  \/ Guest(b, {"booting"}, "up")
  \/ Guest(b, {"up"}, "hung")
  \/ Guest(b, Alive, "off")

\* The guest that ssh -p $PORT reaches, which need not be the build's own.
Reaches(b, c) == port[c] = port[b] /\ qemu[c] = "up"
Answers(b) == ~\E c \in Builds : port[c] = port[b] /\ qemu[c] = "hung"
Unreachable(b) == Answers(b) /\ ~\E c \in Builds : Reaches(b, c)

----------------------------------------------------------------------------
(* The script *)

Goto(b, from, to) ==
  /\ at[b] = from
  /\ at' = [at EXCEPT ![b] = to]
  /\ UNCHANGED <<job, starts>>

\* The base image must be there.  The port is free when it is picked, and
\* given back at once.  Bound: a build whose QEMU was left behind is not used
\* again before that has ended.
Start(b) ==
  /\ starts < MaxStarts
  /\ at[b] = "idle" /\ qemu[b] = "off"
  /\ \E j \in Jobs, p \in Ports :
       /\ images[j.base] # NoDisk
       /\ \A c \in Builds : port[c] = p => qemu[c] \notin Bound
       /\ job' = [job EXCEPT ![b] = j]
       /\ port' = [port EXCEPT ![b] = p]
  /\ at' = [at EXCEPT ![b] = "copy"]
  /\ starts' = starts + 1
  /\ UNCHANGED <<pid, qemu, disk, destVars>>

\* Fault: a failing qemu-img does not end the script.
CopyAnyway(b) ==
  /\ Goto(b, "copy", "boot")
  /\ disk' = [disk EXCEPT ![b] = images[job[b].base]]
  /\ UNCHANGED <<port, pid, qemu, destVars>>

\* The base image may have gone since it was looked for.
Copy(b) ==
  /\ images[job[b].base] # NoDisk
  /\ Goto(b, "copy", "boot")
  /\ disk' = [disk EXCEPT ![b] = images[job[b].base]]
  /\ UNCHANGED <<port, pid, qemu, destVars>>

\* QEMU is started in the background.
Boot(b) ==
  /\ Goto(b, "boot", "pid")
  /\ qemu' = [qemu EXCEPT ![b] = "starting"]
  /\ UNCHANGED <<port, pid, disk, destVars>>

\* QEMU_PID=$!
NotePid(b) ==
  /\ Goto(b, "pid", "wait")
  /\ pid' = [pid EXCEPT ![b] = TRUE]
  /\ UNCHANGED <<port, qemu, disk, destVars>>

\* until ssh_g true; and the image/ directory sent with tar.
Talk(b, from, to) ==
  /\ Goto(b, from, to)
  /\ \E c \in Builds : Reaches(b, c)
  /\ UNCHANGED <<port, pid, qemu, disk, destVars>>

\* What a provisioning script records on the disk it runs on.  A disk that was
\* deleted under its guest is gone when the guest is.
Provisioned(d, script) ==
  IF d = NoDisk THEN NoDisk ELSE
  [kver    |-> CASE script = "kernel" -> "tt"
                 [] script = "guest"  -> "generic"
                 [] OTHER             -> d.kver,
   needsNo |-> d.needsNo \/ script = "kernel",
   ran     |-> d.ran \cup {script}]

Provision(b) ==
  /\ Goto(b, "provision", "shutdown")
  /\ \E c \in Builds :
       /\ Reaches(b, c)
       /\ disk' = [disk EXCEPT ![c] = Provisioned(@, job[b].script)]
  /\ UNCHANGED <<port, pid, qemu, destVars>>

\* ssh_g "sudo shutdown -P now" || true
Shutdown(b) ==
  /\ Goto(b, "shutdown", "halt")
  /\ \/ \E c \in Builds : Reaches(b, c) /\ qemu' = [qemu EXCEPT ![c] = "halting"]
     \/ Unreachable(b) /\ UNCHANGED qemu
  /\ UNCHANGED <<port, pid, disk, destVars>>

\* Fault: a guest that did not power off is left alone.
HaltNoKill(b) ==
  /\ Goto(b, "halt", "extract")
  /\ pid' = [pid EXCEPT ![b] = FALSE]
  /\ UNCHANGED <<port, qemu, disk, destVars>>

\* QEMU has exited, or is killed when it takes too long, and is waited for.
Halt(b) ==
  /\ Goto(b, "halt", "extract")
  /\ qemu' = [qemu EXCEPT ![b] = "off"]
  /\ pid' = [pid EXCEPT ![b] = FALSE]
  /\ UNCHANGED <<port, disk, destVars>>

\* What is left of alone when b has written to the boot/ of its name.
Undisturbed(b) ==
  [c \in Builds |-> alone[c] /\ (c = b \/ job[c].name # job[b].name)]

\* The kernel that was recorded is put in place.
Extract(b) ==
  /\ Goto(b, "extract", "drop")
  /\ disk[b].kver # "none"
  /\ boot' = [boot EXCEPT ![job[b].name].vmlinuz = disk[b].kver]
  /\ alone' = [Undisturbed(b) EXCEPT ![b] = TRUE]
  /\ UNCHANGED <<port, pid, qemu, disk, images>>

\* Fault: an initrd from an earlier build stays.
KeepInitrd(b) ==
  /\ Goto(b, "drop", "initrd")
  /\ UNCHANGED <<port, pid, qemu, disk, destVars>>

\* rm -f "$DEST/boot/initrd"
DropInitrd(b) ==
  /\ Goto(b, "drop", "initrd")
  /\ boot' = [boot EXCEPT ![job[b].name].initrd = "none"]
  /\ alone' = Undisturbed(b)
  /\ UNCHANGED <<port, pid, qemu, disk, images>>

\* Only the distribution's kernel has an initrd on the disk.
HasInitrd(d) == d.kver = "generic"

\* A disk that says "no" gets no initrd; when the record is not there or cannot
\* be read, one is put in place, and must be on the disk.
Initrd(b) ==
  /\ Goto(b, "initrd", "install")
  /\ \/ /\ disk[b].needsNo
        /\ UNCHANGED <<boot, alone>>
     \/ /\ HasInitrd(disk[b])
        /\ boot' = [boot EXCEPT ![job[b].name].initrd = disk[b].kver]
        /\ alone' = Undisturbed(b)
  /\ UNCHANGED <<port, pid, qemu, disk, images>>

----------------------------------------------------------------------------
(* The end *)

\* Fault: QEMU is left to itself.
CleanupNoKill(b) ==
  /\ at[b] # "idle"
  /\ at' = [at EXCEPT ![b] = "idle"]
  /\ pid' = [pid EXCEPT ![b] = FALSE]
  /\ alone' = [alone EXCEPT ![b] = FALSE]
  /\ UNCHANGED <<job, port, qemu, starts>>

\* The script exits and the trap runs: a QEMU it knows of is killed and waited
\* for, and the work directory is removed.
Cleanup(b) ==
  /\ at[b] # "idle"
  /\ at' = [at EXCEPT ![b] = "idle"]
  /\ qemu' = IF pid[b] THEN [qemu EXCEPT ![b] = "off"] ELSE qemu
  /\ pid' = [pid EXCEPT ![b] = FALSE]
  /\ alone' = [alone EXCEPT ![b] = FALSE]
  /\ UNCHANGED <<job, port, starts>>

Install(b) ==
  /\ at[b] = "install"
  /\ Cleanup(b)
  /\ images' = [images EXCEPT ![job[b].name] = disk[b]]
  /\ disk' = [disk EXCEPT ![b] = NoDisk]
  /\ UNCHANGED boot

\* A command fails, a time-out passes or the user interrupts the script,
\* before the command has done anything that lasts.
Fails(b) ==
  /\ Cleanup(b)
  /\ disk' = [disk EXCEPT ![b] = NoDisk]
  /\ UNCHANGED <<images, boot>>

\* Or half-way: the script ran on some guest, or mv had removed the old image
\* when it could not copy the new one to its place.
FailsHalfway(b) ==
  /\ Cleanup(b)
  /\ \/ \E c \in Builds :
          /\ at[b] = "provision" /\ Reaches(b, c)
          /\ disk' = [disk EXCEPT ![c] = Provisioned(@, job[b].script),
                                  ![b] = NoDisk]
          /\ UNCHANGED <<images, boot>>
     \/ /\ at[b] = "install"
        /\ disk' = [disk EXCEPT ![b] = NoDisk]
        /\ images' = [images EXCEPT ![job[b].name] = NoDisk]
        /\ UNCHANGED boot

Proceeds(b) ==
  \/ Copy(b) \/ Boot(b) \/ NotePid(b)
  \/ Talk(b, "wait", "send") \/ Talk(b, "send", "provision")
  \/ Provision(b) \/ Shutdown(b) \/ Halt(b)
  \/ Extract(b) \/ DropInitrd(b) \/ Initrd(b) \/ Install(b)

Next ==
  \E b \in Builds :
    \/ Start(b) \/ Proceeds(b) \/ Fails(b) \/ FailsHalfway(b)
    \/ GuestRuns(b)

Spec == Init /\ [][Next]_vars

\* Fault: there is no time-out on the wait for ssh.
GivesUpNoTimeout(b) ==
  /\ \/ at[b] = "copy" /\ images[job[b].base] = NoDisk
     \/ at[b] = "provision"
     \/ at[b] = "send" /\ Unreachable(b)
     \/ at[b] = "extract" /\ disk[b].kver = "none"
  /\ Fails(b)

\* When the script must end by itself: the base image has gone, a time-out has
\* passed (of the wait for ssh, unless a session hangs, and of the
\* provisioning), ssh cannot connect, or no kernel version was recorded.
GivesUp(b) ==
  /\ \/ at[b] = "copy" /\ images[job[b].base] = NoDisk
     \/ at[b] = "wait" /\ Answers(b)
     \/ at[b] = "provision"
     \/ at[b] = "send" /\ Unreachable(b)
     \/ at[b] = "extract" /\ disk[b].kver = "none"
  /\ Fails(b)

FairSpec ==
  Spec /\ \A b \in Builds : WF_vars(Proceeds(b)) /\ WF_vars(GivesUp(b))

----------------------------------------------------------------------------
(* Properties *)

\* Every variable holds a value of its kind, and a build has a disk from its
\* Copy to its end.
TypeOK ==
  /\ at \in [Builds -> Stages]
  /\ job \in [Builds -> Jobs] /\ port \in [Builds -> Ports]
  /\ pid \in [Builds -> BOOLEAN]
  /\ qemu \in [Builds -> Alive \cup {"off"}]
  /\ disk \in [Builds -> Disks \cup {NoDisk}]
  /\ \A b \in Builds : at[b] \in {"idle", "copy"} <=> disk[b] = NoDisk
  /\ images \in [Names -> Disks \cup {NoDisk}]
  /\ boot \in [Names -> [vmlinuz : Kernels, initrd : Kernels]]
  /\ starts \in Nat
  /\ alone \in [Builds -> BOOLEAN]

\* "shuts it down, then extracts": nothing is read from a disk, and no image is
\* moved, that a QEMU has open.
QuietDisk ==
  \A b \in Builds :
    at[b] \in {"extract", "drop", "initrd", "install"} => qemu[b] = "off"

\* However a script ends, its QEMU has ended: but for the moment between
\* starting QEMU and taking its pid, when the trap does not know of it.
LeavesNoQemu ==
  [][ \A b \in Builds :
        at[b] \notin {"idle", "pid"} /\ at'[b] = "idle" => qemu'[b] = "off" ]_vars

\* What may be in boot/ for a disk: its kernel, and the initrd of this kernel or,
\* if the disk says so, none.
BootFiles(d) ==
  {[vmlinuz |-> d.kver, initrd |-> i] :
     i \in (IF d.needsNo THEN {"none"} ELSE {})
           \cup (IF HasInitrd(d) THEN {d.kver} ELSE {})}

\* The boot files beside the image that b installs are the image's own.
InstallsOwnFiles(b) ==
  Install(b) => boot'[job[b].name] \in BootFiles(images'[job[b].name])

\* When an image is installed, the boot files beside it are its own, whatever
\* was built under that name before and whoever's guest was provisioned, unless
\* another build of that name has written there in between.
BootFilesMatch ==
  [][ \A b \in Builds : alone[b] => InstallsOwnFiles(b) ]_vars

\* Every build ends, unless a guest hangs under one of the three ssh commands
\* that have no time-out.
BuildsEnd ==
  \A b \in Builds :
    at[b] # "idle" ~>
      \/ at[b] = "idle"
      \/ at[b] \in {"wait", "send", "shutdown"} /\ ~Answers(b)

\* "Pick a free forwarding port so concurrent builds do not collide": what a
\* build does over ssh, it does to its own guest.
BuildsDoNotCollide ==
  \A b, c \in Builds :
    at[b] \in {"send", "provision", "shutdown"} /\ Reaches(b, c) => c = b
=============================================================================
