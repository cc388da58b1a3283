------------------------------- MODULE SdCard --------------------------------
(***************************************************************************)
(* port/sd/sd_card.c and the block driver port/filex/fx_sd_driver.c: block *)
(* transfers by DMA through one bounce buffer, with the card pulled,       *)
(* swapped, silent or slow at any point, and the partition window through  *)
(* which the file system sees the card.                                    *)
(*                                                                         *)
(* sd_lock admits one operation at a time, so one record stands for the    *)
(* thread inside; its steps interleave with the DMA's interrupts and the   *)
(* slot. Blocks carry no data: `landed` says which of the operation's      *)
(* blocks the DMA really moved, and of which card.                         *)
(*                                                                         *)
(* Abstracted: pins, clocks, DMA set-up, cache maintenance, the bus width  *)
(* and the BPB's fields (a boot sector is sane or it is not). The          *)
(* controller is external: an aborted transfer raises no interrupt, and a  *)
(* card that has not been identified since it went in does not answer.     *)
(***************************************************************************)
EXTENDS Integers, FiniteSets

CONSTANTS
    SdBlocks,       \* [card |-> its number of blocks]
    SdBounce,       \* SD_BOUNCE_BLOCKS
    SdMod,          \* 2^w of the counters' type
    SdMaxCount,     \* bound: blocks of a request
    SdMaxSwaps,     \* bound: how often a card goes in or out
    SdMaxOps        \* bound: operations

Cards == DOMAIN SdBlocks
NoCard == "none"

ASSUME SdAssumption ==
    /\ NoCard \notin Cards /\ SdBounce \in Nat \ {0} /\ SdMod \in Nat \ {0}
    /\ \A c \in Cards : SdBlocks[c] \in 1 .. SdMod - 1

VARIABLES
    slot, answers,      \* the card in the slot; it has been identified
    busy,               \* it is still programming what it was sent
    probed, info,       \* sd_probed, and the card `info` describes
    window,             \* sd_part_lba, sd_part_blocks
    sdMounted,          \* FileX has the media open
    sdOp,               \* the operation under sd_lock, with the driver request it serves
    dma,                \* the transfer under way: its blocks, and whether it erred
    xferActive, xferErr, sdDone,    \* sd_xfer_active, sd_xfer_err, the semaphore's count
    landed,             \* ghost: <<card, block>> moved for this operation
    swaps, sdOps        \* what was done, against the bounds

cardVars == <<slot, answers, swaps>>
drvVars == <<probed, info, window, sdMounted>>
irqVars == <<xferActive, xferErr, sdDone>>
sdVars == <<cardVars, busy, drvVars, sdOp, dma, irqVars, landed, sdOps>>

NoOp == [pc |-> "idle"]
NoDma == [blocks |-> {}, erred |-> FALSE]

SdInit ==
    /\ slot \in Cards /\ answers = FALSE /\ busy = FALSE /\ swaps = 0
    /\ probed = FALSE /\ info = NoCard /\ window = [lba |-> 0, blocks |-> 0]
    /\ sdMounted = FALSE /\ sdOp = NoOp /\ dma = NoDma
    /\ xferActive = FALSE /\ xferErr = FALSE /\ sdDone = 0
    /\ landed = {} /\ sdOps = 0

------------------------------------------------------------------------------
\* The slot: a card that goes takes its state with it.
CardOut ==
    /\ swaps < SdMaxSwaps /\ swaps' = swaps + 1
    /\ slot # NoCard /\ slot' = NoCard /\ answers' = FALSE /\ busy' = FALSE
    /\ UNCHANGED <<drvVars, sdOp, dma, irqVars, landed, sdOps>>

CardIn ==
    /\ swaps < SdMaxSwaps /\ swaps' = swaps + 1
    /\ slot = NoCard /\ slot' \in Cards
    /\ UNCHANGED <<answers, busy, drvVars, sdOp, dma, irqVars, landed, sdOps>>

CardReady ==
    /\ busy /\ busy' = FALSE
    /\ UNCHANGED <<cardVars, drvVars, sdOp, dma, irqVars, landed, sdOps>>

\* HAL_SD_RxCpltCallback(), HAL_SD_TxCpltCallback(), HAL_SD_ErrorCallback()
Post(err) ==
    IF xferActive
    THEN sdDone' = sdDone + 1 /\ xferErr' = (xferErr \/ err) /\ UNCHANGED xferActive
    ELSE UNCHANGED irqVars

DmaCompletes ==
    /\ dma.blocks # {} /\ ~ dma.erred /\ answers
    /\ landed' = landed \cup {<<slot, b>> : b \in dma.blocks}
    /\ dma' = NoDma /\ busy' = (sdOp.kind = "write")
    /\ Post(FALSE)
    /\ UNCHANGED <<cardVars, drvVars, sdOp, sdOps>>

\* The HAL may report an error twice: at the fault, and once its DMA stopped.
DmaFails ==
    /\ dma.blocks # {}
    /\ dma' = IF dma.erred THEN NoDma ELSE [dma EXCEPT !.erred = TRUE]
    /\ Post(TRUE)
    /\ UNCHANGED <<cardVars, busy, drvVars, sdOp, landed, sdOps>>

------------------------------------------------------------------------------
\* drain_done()
\* Mutant: the posts that an abort raced with are kept.
DrainedNot(n) == n
Drained(n) == 0

Answer(result) == sdOp' = [sdOp EXCEPT !.pc = result]
Start(kind, for, lba, n) ==
    /\ sdOps < SdMaxOps /\ sdOps' = sdOps + 1
    /\ sdOp.pc = "idle" /\ landed' = {}
    /\ sdOp' = [pc |-> "check", kind |-> kind, for |-> for, lba |-> lba, n |-> n, at |-> lba]
    /\ UNCHANGED <<cardVars, busy, drvVars, dma, irqVars>>

\* `sd read` and `sd info` hold the raw slot: the file system is unmounted.
RawRead ==
    /\ ~ sdMounted
    /\ \E lba \in 0 .. SdMod - 1, n \in 1 .. SdMaxCount : Start("read", "raw", lba, n)
RawProbe == ~ sdMounted /\ Start("probe", "raw", 0, 0)

\* sd_media_acquire() and a format open the media: FX_DRIVER_INIT.
DriverInit ==
    /\ ~ sdMounted
    /\ \E for \in {"init", "format"} : Start("probe", for, 0, 0)

\* bounds_ok()
BoundsOk(sector, n) ==
    /\ n > 0 /\ sector < window.blocks /\ n <= window.blocks - sector
    /\ sector <= SdMod - 1 - window.lba

\* FX_DRIVER_READ, _WRITE, _BOOT_READ, _BOOT_WRITE: refused out of the window.
DriverBlocks ==
    /\ sdMounted
    /\ \E kind \in {"read", "write"}, sector \in 0 .. SdMod - 1, n \in 1 .. SdMaxCount :
          /\ BoundsOk(sector, n)
          /\ Start(kind, "fs", (window.lba + sector) % SdMod, n)

\* fx_media_close(), fx_media_abort(): FX_DRIVER_UNINIT leaves the card probed;
\* an eviction calls sd_card_deinit() as well.
Unmount ==
    /\ sdMounted /\ sdOp.pc = "idle" /\ sdMounted' = FALSE
    /\ \/ UNCHANGED <<probed, answers>>
       \/ probed' = FALSE /\ answers' = FALSE
    /\ UNCHANGED <<slot, swaps, busy, info, window, sdOp, dma, irqVars, landed, sdOps>>

\* sd_card_probe() re-identifies from scratch.
Probe ==
    /\ sdOp.pc = "check" /\ sdOp.kind = "probe"
    /\ \/ slot = NoCard /\ Answer("failed") /\ UNCHANGED <<probed, info, answers>>
       \/ slot # NoCard /\ probed' = FALSE /\ answers' \in BOOLEAN /\ Answer("failed") /\ UNCHANGED info
       \/ slot # NoCard /\ probed' = TRUE /\ answers' = TRUE /\ info' = slot /\ Answer("ok")
    /\ busy' = FALSE
    /\ UNCHANGED <<slot, swaps, window, sdMounted, dma, irqVars, landed, sdOps>>

\* The checks of sd_card_read_blocks() and sd_card_write_blocks().
InRange(lba, n) == lba < SdBlocks[info] /\ n <= SdBlocks[info] - lba
Check ==
    /\ sdOp.pc = "check" /\ sdOp.kind # "probe"
    /\ Answer(IF probed /\ InRange(sdOp.lba, sdOp.n) /\ slot # NoCard THEN "state" ELSE "failed")
    /\ UNCHANGED <<cardVars, busy, drvVars, dma, irqVars, landed, sdOps>>

------------------------------------------------------------------------------
\* wait_transfer_state(), before every chunk and after the last write.
Tran == answers /\ ~ busy
StateGivesUp ==
    /\ sdOp.pc \in {"state", "final"} /\ ~ Tran
    /\ Answer("failed")
    /\ UNCHANGED <<cardVars, busy, drvVars, dma, irqVars, landed, sdOps>>

Chunk == LET left == sdOp.lba + sdOp.n - sdOp.at IN IF left > SdBounce THEN SdBounce ELSE left

\* Stale posts go, the transfer is armed and issued; the HAL may refuse it.
IssueChunk ==
    /\ sdOp.pc = "state" /\ Tran
    /\ sdDone' = Drained(sdDone) /\ xferErr' = FALSE
    /\ \/ /\ xferActive' = TRUE
          /\ dma' = [NoDma EXCEPT !.blocks = sdOp.at .. sdOp.at + Chunk - 1]
          /\ Answer("wait")
       \/ xferActive' = FALSE /\ dma' = NoDma /\ Answer("failed")
    /\ UNCHANGED <<cardVars, busy, drvVars, landed, sdOps>>

\* wait_done(): the semaphore, or its timeout, and then the flag that gates the callbacks.
\* Mutant: no timeout on the semaphore.
WaitForever ==
    /\ sdOp.pc = "wait" /\ sdDone > 0
    /\ sdDone' = sdDone - 1 /\ Answer("taken")
    /\ UNCHANGED <<cardVars, busy, drvVars, dma, xferActive, xferErr, landed, sdOps>>

Wait ==
    /\ sdOp.pc = "wait"
    /\ IF sdDone > 0
       THEN sdDone' = sdDone - 1 /\ Answer("taken")
       ELSE sdDone' = sdDone /\ Answer("late")
    /\ UNCHANGED <<cardVars, busy, drvVars, dma, xferActive, xferErr, landed, sdOps>>

WaitEnds ==
    /\ sdOp.pc \in {"taken", "late"}
    /\ xferActive' = FALSE
    /\ IF sdOp.pc = "late" \/ xferErr
       THEN dma' = NoDma /\ sdDone' = Drained(sdDone) /\ Answer("failed")
       ELSE /\ sdOp' = [sdOp EXCEPT !.at = @ + Chunk,
                          !.pc = IF sdOp.at + Chunk < sdOp.lba + sdOp.n THEN "state"
                                 ELSE IF sdOp.kind = "write" THEN "final" ELSE "ok"]
            /\ UNCHANGED <<dma, sdDone>>
    /\ UNCHANGED <<cardVars, busy, drvVars, xferErr, landed, sdOps>>

\* A write is durable once the card has programmed it.
Programmed ==
    /\ sdOp.pc = "final" /\ Tran
    /\ Answer("ok")
    /\ UNCHANGED <<cardVars, busy, drvVars, dma, irqVars, landed, sdOps>>

------------------------------------------------------------------------------
\* detect_partition(): block 0 is a boot sector, or its first entry is a
\* partition, or it says nothing that fits the card.
PartitionFits(first, size) ==
    first # 0 /\ size # 0 /\ first < SdBlocks[info] /\ size <= SdBlocks[info] - first

Opened(lba, blocks) == window' = [lba |-> lba, blocks |-> blocks] /\ sdMounted' = TRUE
Detect ==
    \/ Opened(0, SdBlocks[info])
    \/ \E first, size \in 0 .. SdMod - 1 : PartitionFits(first, size) /\ Opened(first, size)
    \/ window' = [lba |-> 0, blocks |-> 0] /\ UNCHANGED sdMounted

\* The operation returns; FX_DRIVER_INIT goes on from a probe to the detection.
SdReturn ==
    /\ sdOp.pc \in {"ok", "failed"}
    /\ IF sdOp.kind = "probe" /\ sdOp.for = "init" /\ sdOp.pc = "ok"
       THEN /\ sdOp' = [sdOp EXCEPT !.pc = "check", !.kind = "read", !.n = 1]
            /\ UNCHANGED <<window, sdMounted>>
       ELSE /\ sdOp' = NoOp
            /\ CASE sdOp.for = "format" /\ sdOp.pc = "ok" -> Opened(0, SdBlocks[info])
                 [] sdOp.for = "init" /\ sdOp.kind = "read" /\ sdOp.pc = "ok" -> Detect
                 [] sdOp.for = "init" /\ sdOp.kind = "read" /\ sdOp.pc = "failed" ->
                       window' = [lba |-> 0, blocks |-> 0] /\ UNCHANGED sdMounted
                 [] OTHER -> UNCHANGED <<window, sdMounted>>
    /\ landed' = {}
    /\ UNCHANGED <<cardVars, busy, probed, info, dma, irqVars, sdOps>>

SdThread == Probe \/ Check \/ StateGivesUp \/ IssueChunk \/ Wait \/ WaitEnds \/ Programmed \/ SdReturn
SdNext ==
    \/ CardOut \/ CardIn \/ CardReady \/ DmaCompletes \/ DmaFails
    \/ RawRead \/ RawProbe \/ DriverInit \/ DriverBlocks \/ Unmount \/ SdThread

\* The thread inside runs; its waits have timeouts. The card owes nothing.
SdFairness == WF_sdVars(SdThread)
SdSpec == SdInit /\ [][SdNext]_sdVars /\ SdFairness

------------------------------------------------------------------------------
SdTypeOK ==
    /\ slot \in Cards \cup {NoCard} /\ info \in Cards \cup {NoCard}
    /\ answers \in BOOLEAN /\ busy \in BOOLEAN /\ probed \in BOOLEAN /\ sdMounted \in BOOLEAN
    /\ xferActive \in BOOLEAN /\ xferErr \in BOOLEAN
    /\ window \in [lba : 0 .. SdMod - 1, blocks : 0 .. SdMod - 1]
    /\ sdOp.pc \in {"idle", "check", "state", "wait", "taken", "late", "final", "ok", "failed"}
    /\ dma.blocks \subseteq 0 .. SdMod - 1 /\ sdDone \in 0 .. 2
    /\ landed \subseteq Cards \X (0 .. SdMod - 1)

\* A transfer reports success only if the DMA moved each of its blocks, to or
\* from the one card that was probed: no completion of a transfer that timed
\* out, erred or was of another card counts for it.
SdOkIsMoved ==
    sdOp.pc = "ok" /\ sdOp.kind # "probe" =>
        landed = {info} \X (sdOp.lba .. sdOp.lba + sdOp.n - 1)

\* While the media is open its window lies on the card that was probed for it,
\* and what the file system asks for lies in the window.
WindowOnCard ==
    /\ sdMounted => window.blocks > 0 /\ window.lba + window.blocks <= SdBlocks[info]
    /\ sdOp.pc # "idle" /\ sdOp.for = "fs" =>
          sdOp.lba >= window.lba /\ sdOp.lba + sdOp.n <= window.lba + window.blocks

SdSound == SdTypeOK /\ SdOkIsMoved /\ WindowOnCard

\* Every operation returns, whatever the card does (SD_XFER_TIMEOUT_TICKS, SD_STATE_TIMEOUT_MS).
SdReturns == sdOp.pc # "idle" ~> sdOp.pc = "idle"

------------------------------------------------------------------------------
(* Why SdSound holds, for any cards, bounce buffer and counters. *)

SdOps == [pc : {"check", "state", "wait", "taken", "late", "final", "ok", "failed"},
          kind : {"read", "write", "probe"}, for : {"raw", "init", "format", "fs"},
          lba : 0 .. SdMod - 1, n : Nat, at : 0 .. SdMod - 1]
Transferring == sdOp.pc \in {"wait", "taken", "late"}
Moving == Transferring \/ sdOp.pc \in {"state", "final"} \/ (sdOp.pc = "ok" /\ sdOp.kind # "probe")
MovedTo(end) == {info} \X (sdOp.lba .. end - 1)

\* What the operation is, and the card it is about: once probed, a card that
\* answers is the one `info` describes.
OpInv ==
    /\ sdOp = NoOp \/ sdOp \in SdOps
    /\ sdOp.pc # "idle" =>
          /\ sdOp.for = "fs" <=> sdMounted
          /\ sdOp.kind = "probe" => sdOp.pc \in {"check", "ok", "failed"}
          /\ sdOp.kind = "probe" /\ sdOp.pc = "ok" => probed
          /\ sdOp.kind = "probe" => sdOp.for \in {"raw", "init", "format"}
          /\ sdOp.for = "format" => sdOp.kind = "probe"
          /\ sdOp.pc = "check" \/ sdOp.kind = "probe" => sdOp.at = sdOp.lba
          /\ sdOp.kind # "probe" => sdOp.n > 0
    /\ probed \/ sdMounted => info \in Cards
    /\ probed /\ answers => slot = info
    /\ Moving => probed /\ sdOp.kind # "probe" /\ sdOp.lba + sdOp.n <= SdBlocks[info]

\* A chunk is moved by its own transfer: its callbacks are listened to from its
\* issue to the end of its wait, and none of them is left for the next.
ChunkInv ==
    /\ xferActive <=> Transferring
    /\ ~ Transferring => dma = NoDma
    /\ sdOp.pc = "check" => landed = {}
    /\ sdOp.pc = "state" \/ Transferring => sdOp.at >= sdOp.lba /\ sdOp.at < sdOp.lba + sdOp.n
    /\ sdOp.pc = "state" => landed = MovedTo(sdOp.at)
    /\ sdOp.pc = "final" \/ (Moving /\ sdOp.pc = "ok") => landed = MovedTo(sdOp.lba + sdOp.n)
    /\ Transferring =>
          LET taken == IF sdOp.pc = "taken" THEN 1 ELSE 0 IN
          \/ /\ dma.blocks = sdOp.at .. sdOp.at + Chunk - 1 /\ ~ dma.erred /\ ~ xferErr
             /\ sdDone = 0 /\ taken = 0 /\ landed = MovedTo(sdOp.at)
          \/ /\ dma = NoDma /\ ~ xferErr /\ sdDone + taken = 1 /\ landed = MovedTo(sdOp.at + Chunk)
          \/ /\ xferErr /\ dma.blocks \in {{}, sdOp.at .. sdOp.at + Chunk - 1}
             /\ dma.blocks # {} => dma.erred /\ sdDone + taken = 1
             /\ dma.blocks = {} => dma = NoDma

SdInv == SdSound /\ OpInv /\ ChunkInv
==============================================================================
