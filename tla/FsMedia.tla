------------------------------- MODULE FsMedia -------------------------------
(***************************************************************************)
(* Who may use a file system's media, and when it is mounted: the lazily   *)
(* mounted singletons port/filex/sd_fs_glue.c (the SD card, which may be   *)
(* pulled or swapped) and port/filex/fs_glue.c (the QSPI flash, through    *)
(* LevelX), and the commands that run on them from every shell and         *)
(* background job: shell/cmds/fs_cmd_core.c, cmd_sd.c, cmd_fs.c and the    *)
(* file parts of cmd_xfer.c, cmd_camera.c and cmd_ai.c.                    *)
(*                                                                         *)
(* What runs under the mount mutex is one step. A block reaches the card   *)
(* if the card in the slot is the one identified last (SdCard).            *)
(*                                                                         *)
(* External: FileX. It opens a media that holds a volume, and any of its   *)
(* calls may fail. Abstracted: what is printed, paths, file contents and   *)
(* the sizes of a format.                                                  *)
(***************************************************************************)
EXTENDS Integers, FiniteSets

CONSTANTS
    FsThreads,      \* the shells and jobs
    FsKinds,        \* which of "sd" and "qspi" to explore
    FsCards,        \* the cards; the flash stands for itself
    FsChunks,       \* the length of a file, in reads
    FsMaxSwaps,     \* bound: how often a card goes in or out
    FsMaxCmds       \* bound: commands

ASSUME FsAssumption ==
    /\ FsKinds \subseteq {"sd", "qspi"} /\ "none" \notin FsCards
    /\ IsFiniteSet(FsThreads) /\ {"none", "root"} \cap FsThreads = {}
    /\ FsChunks \in Nat \ {0}

VARIABLES
    medium,         \* the file system explored
    inSlot,         \* the card in the slot, or "none"
    known,          \* the card the driver identified and that still answers
    volumes,        \* the cards that hold a FAT volume
    lxOpen,         \* lx_is_open
    fsMounted,      \* sd_mounted, fs_mounted
    fsBusy,         \* sd_busy, fs_busy
    activeOps,      \* sd_active_ops, fs_active_ops
    dirLock,        \* the thread that holds the directory mutex, or "none"
    listed,         \* whose path the media's default directory is, or "root"
    th,             \* the threads
    lost, raced,    \* ghosts: who uses media closed under it, and by a format's remount
    fsSwaps, cmds   \* what was done, against the bounds

slotVars == <<medium, inSlot, fsSwaps>>
mediaVars == <<known, volumes, lxOpen, fsMounted>>
dirVars == <<dirLock, listed>>
fsVars == <<slotVars, mediaVars, fsBusy, activeOps, dirVars, th, lost, raced, cmds>>

Flash == "flash"
Idle == [pc |-> "idle", cmd |-> "none", off |-> 0, live |-> TRUE]

FsInit ==
    /\ medium \in FsKinds
    /\ inSlot \in (IF medium = "sd" THEN FsCards \cup {"none"} ELSE {Flash})
    /\ known = (IF medium = "sd" THEN "none" ELSE Flash)
    /\ volumes \in SUBSET (IF medium = "sd" THEN FsCards ELSE {Flash})
    /\ lxOpen = FALSE /\ fsMounted = FALSE /\ fsBusy = FALSE /\ activeOps = 0
    /\ dirLock = "none" /\ listed = "root"
    /\ th = [t \in FsThreads |-> Idle]
    /\ lost = {} /\ raced = {} /\ fsSwaps = 0 /\ cmds = 0

Swap ==
    /\ medium = "sd" /\ fsSwaps < FsMaxSwaps /\ fsSwaps' = fsSwaps + 1
    /\ IF inSlot = "none" THEN inSlot' \in FsCards /\ UNCHANGED known
                          ELSE inSlot' = "none" /\ known' = "none"
    /\ UNCHANGED <<medium, volumes, lxOpen, fsMounted, fsBusy, activeOps, dirVars, th, lost, raced, cmds>>

------------------------------------------------------------------------------
Go(t, pc) == th' = [th EXCEPT ![t].pc = pc]
Users == {t \in FsThreads : th[t].pc \in {"body", "list", "listing"}}
Reachable == inSlot # "none" /\ known = inSlot

Command(t, cmd, pc) ==
    /\ th[t].pc = "idle" /\ cmds < FsMaxCmds /\ cmds' = cmds + 1
    /\ th' = [th EXCEPT ![t] = [Idle EXCEPT !.pc = pc, !.cmd = cmd]]

\* core_run_op(), fs_core_read_file(), cmd_xfer_send(), cmd_camera_save(): op_begin().
BeginOp(t) ==
    /\ ~ fsBusy /\ activeOps' = activeOps + 1
    /\ \E cmd \in {"ls", "use", "load"} : Command(t, cmd, "begun")
    /\ UNCHANGED <<slotVars, mediaVars, fsBusy, dirVars, lost, raced>>

\* sd_owner_begin(), fs_owner_begin()
\* Mutant: an owner does not wait for the operations inside.
OwnerFreeNow(unmounted) == ~ fsBusy /\ (unmounted => ~ fsMounted)
OwnerFree(unmounted) == ~ fsBusy /\ activeOps = 0 /\ (unmounted => ~ fsMounted)

BeginOwner(t) ==
    /\ \E cmd \in {"umount", "format", "raw"} :
          OwnerFree(cmd = "raw") /\ Command(t, cmd, IF cmd = "raw" THEN "raw" ELSE "owner")
    /\ fsBusy' = TRUE
    /\ UNCHANGED <<slotVars, mediaVars, activeOps, dirVars, lost, raced>>

------------------------------------------------------------------------------
\* fx_media_close() or fx_media_abort(): whoever still uses the media loses it.
CloseUnder(t) ==
    LET victims == Users \ {t} IN
    IF th[t].pc = "remount" THEN raced' = raced \cup victims /\ UNCHANGED lost
                            ELSE lost' = lost \cup victims /\ UNCHANGED raced

\* What the look at the mounted card may say of it: gone, when it went or another
\* one answers in its place, and also when its CMD13 fails only this time.
MayFindStale(stale) == IF fsMounted THEN Reachable \/ stale ELSE ~ stale
MayEvict == activeOps <= 1

\* fx_media_open(): FX_DRIVER_INIT identifies the card, or opens LevelX.
OpenCard ==
    /\ known' \in {"none", inSlot} /\ fsMounted' \in BOOLEAN
    /\ fsMounted' => known' = inSlot /\ inSlot \in volumes
    /\ UNCHANGED <<volumes, lxOpen>>

OpenFlash ==
    /\ lxOpen' \in BOOLEAN /\ fsMounted' \in BOOLEAN /\ (lxOpen => lxOpen')
    /\ fsMounted' => inSlot \in volumes /\ lxOpen'
    /\ UNCHANGED <<known, volumes>>

Acquired(t) ==
    IF th[t].pc = "remount" THEN th' = [th EXCEPT ![t] = Idle]
    ELSE th' = [th EXCEPT ![t].live = (known' = inSlot),
                          ![t].pc = IF th[t].cmd = "ls" THEN "list" ELSE "body"]
Refused(t) == th' = [th EXCEPT ![t] = IF th[t].pc = "remount" THEN Idle ELSE [@ EXCEPT !.pc = "ending"]]

\* sd_media_acquire() and fs_media_acquire(), for an operation, and for a
\* format that is done, which holds neither an operation's slot nor the media.
Acquires(t) == th[t].pc \in {"begun", "remount"}
AcquireUnchanged == UNCHANGED <<slotVars, fsBusy, activeOps, dirVars, cmds>>
Given(t) == IF fsMounted' THEN Acquired(t) ELSE Refused(t)

AcquireCard(t) ==
    /\ Acquires(t) /\ medium = "sd" /\ AcquireUnchanged
    /\ \E stale \in BOOLEAN :
          /\ MayFindStale(stale)
          /\ IF fsBusy \/ (stale /\ ~ MayEvict)
             THEN Refused(t) /\ UNCHANGED <<mediaVars, lost, raced>>
             ELSE /\ IF stale THEN CloseUnder(t) ELSE UNCHANGED <<lost, raced>>
                  /\ CASE inSlot = "none" ->
                              /\ fsMounted' = FALSE /\ known' = (IF stale THEN "none" ELSE known)
                              /\ UNCHANGED <<volumes, lxOpen>> /\ Refused(t)
                       [] inSlot # "none" /\ fsMounted /\ ~ stale -> UNCHANGED mediaVars /\ Acquired(t)
                       [] OTHER -> OpenCard /\ Given(t)

AcquireFlash(t) ==
    /\ Acquires(t) /\ medium = "qspi" /\ AcquireUnchanged /\ UNCHANGED <<lost, raced>>
    /\ CASE fsBusy -> UNCHANGED mediaVars /\ Refused(t)
         [] ~ fsBusy /\ fsMounted -> UNCHANGED mediaVars /\ Acquired(t)
         [] OTHER -> OpenFlash /\ Given(t)

------------------------------------------------------------------------------
\* do_cat(), do_write(), do_rm(), do_mkdir(), do_info(), save_body(): calls of
\* FileX, until one fails, the user cancels, or the command is done.
UseMedia(t) ==
    /\ th[t].pc = "body" /\ th[t].cmd = "use"
    /\ Go(t, "body") \/ Go(t, "ending")
    /\ UNCHANGED <<slotVars, mediaVars, fsBusy, activeOps, dirVars, lost, raced, cmds>>

\* fs_core_read_file(): reads until the end; a short file is no file.
LoadedWhole(t, off) == off = FsChunks
LoadFile(t) ==
    /\ th[t].pc = "body" /\ th[t].cmd = "load"
    /\ \/ th[t].off < FsChunks /\ Reachable /\ th' = [th EXCEPT ![t].off = @ + 1]
       \/ /\ LoadedWhole(t, th[t].off)
          /\ th' = [th EXCEPT ![t].pc = "ending", ![t].cmd = "loaded"]
       \/ Go(t, "ending")
    /\ UNCHANGED <<slotVars, mediaVars, fsBusy, activeOps, dirVars, lost, raced, cmds>>

\* do_ls(): the media's default directory is the listing's for its duration.
StartListing(t) ==
    /\ th[t].pc = "list" /\ dirLock = "none"
    /\ dirLock' = t
    /\ \/ listed' = t /\ Go(t, "listing")
       \/ UNCHANGED listed /\ Go(t, "unlisted")
    /\ UNCHANGED <<slotVars, mediaVars, fsBusy, activeOps, lost, raced, cmds>>

ListEntry(t) ==
    /\ th[t].pc = "listing"
    /\ \/ Go(t, "listing") /\ UNCHANGED listed
       \/ Go(t, "unlisted") /\ listed' \in {"root", listed}
    /\ UNCHANGED <<slotVars, mediaVars, fsBusy, activeOps, dirLock, lost, raced, cmds>>

\* Mutant: the early return forgets the lock.
UnlistLocked(t) ==
    /\ th[t].pc = "unlisted" /\ Go(t, "ending")
    /\ dirLock' = (IF listed = t THEN dirLock ELSE "none")
    /\ UNCHANGED <<slotVars, mediaVars, fsBusy, activeOps, listed, lost, raced, cmds>>

Unlist(t) ==
    /\ th[t].pc = "unlisted" /\ Go(t, "ending")
    /\ dirLock' = "none"
    /\ UNCHANGED <<slotVars, mediaVars, fsBusy, activeOps, listed, lost, raced, cmds>>

\* sd_op_end(), fs_op_end()
EndOp(t) ==
    /\ th[t].pc = "ending"
    /\ activeOps' = activeOps - 1 /\ th' = [th EXCEPT ![t] = Idle]
    /\ lost' = lost \ {t} /\ raced' = raced \ {t}
    /\ UNCHANGED <<slotVars, mediaVars, fsBusy, dirVars, cmds>>

------------------------------------------------------------------------------
\* sd_media_unmount(), fs_media_unmount(), for fs_core_umount() and a format:
\* `umount` only calls them on a mounted media.
Unmounts(t) ==
    /\ th[t].pc = "owner" /\ fsMounted' = FALSE
    /\ IF fsMounted THEN CloseUnder(t) ELSE UNCHANGED <<lost, raced>>
    /\ Go(t, IF th[t].cmd = "umount" THEN "releasing" ELSE "formatting")
    /\ UNCHANGED <<slotVars, known, volumes, fsBusy, activeOps, dirVars, cmds>>

UnmountCard(t) == medium = "sd" /\ Unmounts(t) /\ UNCHANGED lxOpen
UnmountFlash(t) ==
    /\ medium = "qspi" /\ Unmounts(t)
    /\ lxOpen' = (lxOpen /\ ~ fsMounted /\ th[t].cmd = "umount")

\* A format may end anywhere, the volume gone. cmd_sd_format() probes the card
\* and then formats it whole; cmd_fs_format() opens LevelX, on a flash it may
\* erase first, and the formatting closes it.
Formats(t) ==
    /\ th[t].pc = "formatting" /\ Go(t, "releasing")
    /\ UNCHANGED <<slotVars, fsMounted, fsBusy, activeOps, dirVars, lost, raced, cmds>>

FormatCard(t) ==
    /\ medium = "sd" /\ Formats(t) /\ UNCHANGED lxOpen
    /\ \/ inSlot # "none" /\ known' = inSlot /\ volumes' = volumes \cup {inSlot}
       \/ known' \in {known, inSlot} /\ volumes' \in {volumes, volumes \ {inSlot}}

FormatFlash(t) ==
    /\ medium = "qspi" /\ Formats(t) /\ UNCHANGED known
    /\ \/ volumes' = {inSlot} /\ lxOpen' = FALSE
       \/ volumes' \in {volumes, {}} /\ lxOpen' \in BOOLEAN

\* cmd_sd_info() and cmd_sd_read(), and cmd_qspi.c's erase and write.
Raws(t) ==
    /\ th[t].pc = "raw" /\ Go(t, "releasing")
    /\ UNCHANGED <<slotVars, lxOpen, fsMounted, fsBusy, activeOps, dirVars, lost, raced, cmds>>

RawCard(t) == medium = "sd" /\ Raws(t) /\ known' \in {known, inSlot} /\ UNCHANGED volumes
RawFlash(t) == medium = "qspi" /\ Raws(t) /\ volumes' \in {volumes, {}} /\ UNCHANGED known

\* sd_exclusive_end(), sd_raw_end(); a format goes on to mount its volume.
Release(t) ==
    /\ th[t].pc = "releasing"
    /\ fsBusy' = FALSE
    /\ \/ th[t].cmd = "format" /\ Go(t, "remount")
       \/ th' = [th EXCEPT ![t] = Idle]
    /\ UNCHANGED <<slotVars, mediaVars, activeOps, dirVars, lost, raced, cmds>>

FsStep(t) ==
    \/ AcquireCard(t) \/ AcquireFlash(t) \/ UseMedia(t) \/ LoadFile(t) \/ StartListing(t) \/ ListEntry(t) \/ Unlist(t)
    \/ EndOp(t) \/ UnmountCard(t) \/ UnmountFlash(t) \/ FormatCard(t) \/ FormatFlash(t)
    \/ RawCard(t) \/ RawFlash(t) \/ Release(t)
Finishes(t) == th[t].pc \in {"body", "listing"} /\ FsStep(t) /\ th'[t].pc \in {"ending", "unlisted"}

FsNext == Swap \/ \E t \in FsThreads : BeginOp(t) \/ BeginOwner(t) \/ FsStep(t)

\* Threads run, the user lets a command end, and whoever waits for the
\* directory mutex gets it.
FsFairness ==
    \A t \in FsThreads : WF_fsVars(FsStep(t)) /\ WF_fsVars(Finishes(t)) /\ SF_fsVars(StartListing(t))
FsSpec == FsInit /\ [][FsNext]_fsVars /\ FsFairness

------------------------------------------------------------------------------
FsTypeOK ==
    /\ inSlot \in FsCards \cup {"none", Flash} /\ known \in FsCards \cup {"none", Flash}
    /\ volumes \subseteq FsCards \cup {Flash}
    /\ {lxOpen, fsMounted, fsBusy} \subseteq BOOLEAN
    /\ activeOps \in 0 .. Cardinality(FsThreads)
    /\ dirLock \in FsThreads \cup {"none"} /\ listed \in FsThreads \cup {"root"}
    /\ lost \subseteq FsThreads /\ raced \subseteq FsThreads

\* Nobody closes the media under a command that uses it, but for the remount
\* after a format (EvictsAlone).
MediaStaysOpen == lost = {} /\ \A t \in Users : fsMounted \/ t \in raced

\* Formats and raw accesses run alone, and on unmounted media.
OwnerAlone ==
    \A t \in FsThreads : th[t].pc \in {"raw", "formatting"} => ~ fsMounted /\ Users = {}

\* An operation is only handed media whose card answered just then.
HandsOutLive == \A t \in Users : th[t].live

\* One listing at a time moves the default directory, and a load that
\* succeeds has read the whole file.
ListsAlone == \A t \in FsThreads : th[t].pc = "listing" => dirLock = t /\ listed = t
LoadsWhole == \A t \in FsThreads : th[t].cmd = "loaded" => th[t].off = FsChunks

FsSound == FsTypeOK /\ MediaStaysOpen /\ OwnerAlone /\ HandsOutLive /\ ListsAlone /\ LoadsWhole

\* Every command ends: no slot, owner flag or directory lock is left behind.
FsCommandsEnd == \A t \in FsThreads : th[t].pc # "idle" ~> th[t].pc = "idle"

\* sd_fs_glue.c evicts a card only when no other operation uses its media.
EvictsAlone == raced = {}

------------------------------------------------------------------------------
(* Why FsSound holds, for any number of threads. *)

InsidePlaces == {"begun", "body", "list", "listing", "unlisted", "ending"}
OwnerPlaces == {"owner", "formatting", "raw", "releasing"}
Inside == {t \in FsThreads : th[t].pc \in InsidePlaces}
Owners == {t \in FsThreads : th[t].pc \in OwnerPlaces}
ThreadTypes ==
    th \in [FsThreads -> [pc : InsidePlaces \cup OwnerPlaces \cup {"idle", "remount"},
                         cmd : {"none", "ls", "use", "load", "loaded", "umount", "format", "raw"},
                         off : Nat, live : BOOLEAN]]

\* Operations are counted, and an owner is alone with its flag set.
AdmissionInv ==
    /\ activeOps = Cardinality(Inside)
    /\ fsBusy <=> Owners # {}
    /\ \A t \in Owners : Owners = {t} /\ Inside = {}

\* An owner that writes below the file system finds it unmounted; and the
\* flash is always there.
MediaInv ==
    /\ \A t \in FsThreads : th[t].pc \in {"raw", "formatting"} => ~ fsMounted
    /\ medium \in {"sd", "qspi"} /\ (medium = "qspi" => inSlot = Flash /\ known = Flash)

DirInv ==
    /\ \A t \in FsThreads : th[t].pc \in {"listing", "unlisted"} => dirLock = t
    /\ ListsAlone

FsInv ==
    /\ FsTypeOK /\ ThreadTypes /\ AdmissionInv /\ MediaInv /\ MediaStaysOpen
    /\ HandsOutLive /\ DirInv /\ LoadsWhole
==============================================================================
