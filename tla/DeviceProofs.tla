---------------------------- MODULE DeviceProofs -----------------------------
(***************************************************************************)
(* Proofs about the devices: storage first, then the panel. One lemma per  *)
(* action, one step per part of the inductive invariant.                   *)
(* SdCard, for any cards, any bounce buffer and any number of operations,  *)
(* swaps and errors: SdInv (OpInv: the operation and its card; ChunkInv:   *)
(* the transfer of one chunk). FsMedia, for any number of threads: FsInv   *)
(* (AdmissionInv counts the operations and leaves an owner alone, MediaInv *)
(* is about the mounted medium, DirInv about its one directory walk).      *)
(* QspiFlash, for any page: QfInv, how far a program has come is how much  *)
(* of the memory is filled.                                                *)
(* Dma2d, Touch and Display, for any number of transfers, presses, bus     *)
(* faults, commands and frames: D2Inv (ArmInv: the interrupt path serves   *)
(* one transfer; LockInv: so does the HAL's lock; EndInv: what was posted  *)
(* is how this transfer ended), ToInv (BusInv: a transfer posts once while *)
(* somebody listens; InputInv: what the wake is trusted for), DpInv        *)
(* (GuiInv: who owns the panel; UiInv and RectInv: what is dirty or stale, *)
(* and what shows the latest).                                             *)
(***************************************************************************)
EXTENDS SdCard, FsMedia, QspiFlash, Dma2d, Touch, Display,
        FiniteSetTheorems, SequenceTheorems, TLAPS
------------------------------------------------------------------------------
(* SdCard: success is blocks moved, on the card that was probed. *)

\* Blocks are on a card, and a card is in the range of the counters.
LEMMA BlocksOf ==
  ASSUME NEW c \in Cards
  PROVE  SdBlocks[c] \in Nat \ {0} /\ SdBlocks[c] < SdMod
BY SdAssumption

\* A window is a record of two numbers below SdMod.
LEMMA WindowOf ==
  ASSUME NEW lba \in 0 .. SdMod - 1, NEW blocks \in 0 .. SdMod - 1
  PROVE  [lba |-> lba, blocks |-> blocks] \in [lba : 0 .. SdMod - 1, blocks : 0 .. SdMod - 1]
OBVIOUS

\* A window that fits the card and is not empty, once opened.
LEMMA OpenedOf ==
  ASSUME info \in Cards, NEW lba \in Nat, NEW blocks \in Nat \ {0}, lba + blocks <= SdBlocks[info], Opened(lba, blocks)
  PROVE  /\ sdMounted' = TRUE /\ window' \in [lba : 0 .. SdMod - 1, blocks : 0 .. SdMod - 1]
         /\ window'.blocks > 0 /\ window'.lba + window'.blocks <= SdBlocks[info]
<1>1. SdBlocks[info] \in Nat /\ SdBlocks[info] < SdMod /\ SdMod \in Nat
  BY BlocksOf, SdAssumption
<1>2. lba \in 0 .. SdMod - 1 /\ blocks \in 0 .. SdMod - 1
  BY <1>1
<1>3. window' = [lba |-> lba, blocks |-> blocks] /\ sdMounted' = TRUE
  BY DEF Opened
<1>4. window' \in [lba : 0 .. SdMod - 1, blocks : 0 .. SdMod - 1]
  BY <1>2, <1>3, WindowOf
<1>5. window'.lba = lba /\ window'.blocks = blocks
  BY <1>3
<1> QED
  BY <1>3, <1>4, <1>5

\* A chunk is not empty and does not pass the end of the request.
LEMMA ChunkOf ==
  ASSUME sdOp \in SdOps, sdOp.at >= sdOp.lba, sdOp.at < sdOp.lba + sdOp.n
  PROVE  /\ sdOp.at \in Nat /\ sdOp.lba \in Nat /\ sdOp.n \in Nat
         /\ Chunk \in Nat \ {0} /\ sdOp.at + Chunk <= sdOp.lba + sdOp.n
BY SdAssumption DEF SdOps, Chunk

\* What a chunk adds to what was moved.
LEMMA MovedMore ==
  ASSUME NEW c, NEW lba \in Nat, NEW at \in Nat, NEW n \in Nat, at >= lba
  PROVE  ({c} \X (lba .. at - 1)) \cup {<<c, b>> : b \in at .. at + n - 1} = {c} \X (lba .. at + n - 1)
<1>1. lba .. at + n - 1 = (lba .. at - 1) \cup (at .. at + n - 1)
  OBVIOUS
<1> DEFINE old == lba .. at - 1
           new == at .. at + n - 1
<1>2. ({c} \X old) \cup {<<c, b>> : b \in new} = {c} \X (old \cup new)
  <2> HIDE DEF old, new
  <2> QED
    OBVIOUS
<1> QED
  BY <1>1, <1>2

\* The same blocks, said otherwise.
LEMMA SameMoved ==
  ASSUME NEW set, NEW c, NEW a, NEW b, set = {c} \X (a .. b - 1), NEW d, NEW e, NEW f, c = d, a = e, b = f
  PROVE  set = {d} \X (e .. f - 1)
OBVIOUS

\* A transfer whose record does not change ends as it did.
LEMMA SameEnd ==
  ASSUME NEW set, NEW c, NEW a, NEW x, set = {c} \X (a .. x), NEW y, x = y
  PROVE  set = {c} \X (a .. y)
OBVIOUS

\* What answering an operation leaves of it.
LEMMA AnswerOf ==
  ASSUME sdOp \in SdOps, NEW r \in {"check", "state", "wait", "taken", "late", "final", "ok", "failed"}, Answer(r)
  PROVE  /\ sdOp' \in SdOps /\ sdOp'.pc = r /\ sdOp'.kind = sdOp.kind /\ sdOp'.for = sdOp.for
         /\ sdOp'.lba = sdOp.lba /\ sdOp'.n = sdOp.n /\ sdOp'.at = sdOp.at
BY DEF Answer, SdOps

\* Who holds the card's lock.
LEMMA UnderLock ==
  ASSUME OpInv, sdOp.pc # "idle"
  PROVE  sdOp \in SdOps
BY DEF OpInv, NoOp

\* The slot and the card.
LEMMA OutKeeps ==
  ASSUME SdInv, CardOut
  PROVE  SdInv'
<1> USE SdAssumption DEF SdInv, SdSound, cardVars, drvVars, irqVars, Transferring, Moving, MovedTo, NoDma, NoOp
<1>1. SdTypeOK'
  BY DEF SdTypeOK, OpInv, ChunkInv, CardOut
<1>2. OpInv'
  BY DEF SdTypeOK, OpInv, WindowOnCard, CardOut
<1>3. ChunkInv'
  BY DEF SdTypeOK, OpInv, ChunkInv, Chunk, CardOut
<1>4. SdOkIsMoved'
  BY DEF SdTypeOK, OpInv, ChunkInv, SdOkIsMoved, CardOut
<1>5. WindowOnCard'
  BY DEF SdTypeOK, OpInv, WindowOnCard, CardOut
<1> QED
  BY <1>1, <1>2, <1>3, <1>4, <1>5

\* A card goes in: it has not been identified.
LEMMA InKeeps ==
  ASSUME SdInv, CardIn
  PROVE  SdInv'
<1> USE SdAssumption DEF SdInv, SdSound, cardVars, drvVars, irqVars, Transferring, Moving, MovedTo, NoDma, NoOp
<1>1. SdTypeOK'
  BY DEF SdTypeOK, OpInv, ChunkInv, CardIn
<1>2. OpInv'
  BY DEF SdTypeOK, OpInv, WindowOnCard, CardIn
<1>3. ChunkInv'
  BY DEF SdTypeOK, OpInv, ChunkInv, Chunk, CardIn
<1>4. SdOkIsMoved'
  BY DEF SdTypeOK, OpInv, ChunkInv, SdOkIsMoved, CardIn
<1>5. WindowOnCard'
  BY DEF SdTypeOK, OpInv, WindowOnCard, CardIn
<1> QED
  BY <1>1, <1>2, <1>3, <1>4, <1>5

\* The card has programmed what it was sent.
LEMMA ReadyKeeps ==
  ASSUME SdInv, CardReady
  PROVE  SdInv'
<1> USE SdAssumption DEF SdInv, SdSound, cardVars, drvVars, irqVars, Transferring, Moving, MovedTo, NoDma, NoOp
<1>1. SdTypeOK'
  BY DEF SdTypeOK, OpInv, ChunkInv, CardReady
<1>2. OpInv'
  BY DEF SdTypeOK, OpInv, WindowOnCard, CardReady
<1>3. ChunkInv'
  BY DEF SdTypeOK, OpInv, ChunkInv, Chunk, CardReady
<1>4. SdOkIsMoved'
  BY DEF SdTypeOK, OpInv, ChunkInv, SdOkIsMoved, CardReady
<1>5. WindowOnCard'
  BY DEF SdTypeOK, OpInv, WindowOnCard, CardReady
<1> QED
  BY <1>1, <1>2, <1>3, <1>4, <1>5

\* The DMA completes: what it moved is of the card in the slot.
LEMMA CompletesKeeps ==
  ASSUME SdInv, DmaCompletes
  PROVE  SdInv'
<1> USE SdAssumption DEF SdInv, SdSound, cardVars, drvVars, irqVars, Transferring, Moving, MovedTo, NoDma, NoOp
<1>1. SdTypeOK'
  BY DEF SdTypeOK, OpInv, ChunkInv, DmaCompletes, Post
<1>2. OpInv'
  BY DEF SdTypeOK, OpInv, WindowOnCard, DmaCompletes, Post
<1>3. ChunkInv'
  <2>1. Transferring /\ sdOp \in SdOps /\ info \in Cards /\ slot = info
    BY UnderLock DEF DmaCompletes, OpInv, ChunkInv
  <2>2. /\ sdOp.at >= sdOp.lba /\ sdOp.at < sdOp.lba + sdOp.n /\ sdOp.pc # "taken"
        /\ dma.blocks = sdOp.at .. sdOp.at + Chunk - 1 /\ ~ xferErr /\ sdDone = 0 /\ landed = MovedTo(sdOp.at)
        /\ xferActive
    BY <2>1 DEF DmaCompletes, ChunkInv
  <2>3. sdOp.at \in Nat /\ sdOp.lba \in Nat /\ Chunk \in Nat
    BY <2>1, <2>2, ChunkOf
  <2>4. landed' = MovedTo(sdOp.at + Chunk)
    <3>1. landed' = MovedTo(sdOp.at) \cup {<<info, b>> : b \in sdOp.at .. sdOp.at + Chunk - 1}
      BY <2>1, <2>2 DEF DmaCompletes
    <3> QED
      BY <2>2, <2>3, <3>1, MovedMore
  <2>5. /\ dma' = NoDma /\ sdDone' = 1 /\ xferErr' = FALSE /\ UNCHANGED <<xferActive, sdOp, info>>
    <3>1. Post(FALSE) /\ dma' = NoDma /\ UNCHANGED <<sdOp, info>>
      BY DEF DmaCompletes
    <3>2. sdDone' = sdDone + 1 /\ xferErr' = xferErr /\ UNCHANGED xferActive
      BY <2>2, <3>1 DEF Post, SdTypeOK
    <3> QED
      BY <2>2, <3>1, <3>2
  <2>6. Chunk' = Chunk
    BY <2>5 DEF Chunk
  <2> HIDE DEF MovedTo
  <2>7. MovedTo(sdOp.at + Chunk)' = MovedTo(sdOp.at + Chunk)
    BY <2>5, <2>6 DEF MovedTo
  <2> QED
    BY <2>1, <2>2, <2>4, <2>5, <2>6, <2>7 DEF ChunkInv
<1>4. SdOkIsMoved'
  BY DEF SdTypeOK, OpInv, ChunkInv, SdOkIsMoved, DmaCompletes, Post
<1>5. WindowOnCard'
  BY DEF SdTypeOK, OpInv, WindowOnCard, DmaCompletes, Post
<1> QED
  BY <1>1, <1>2, <1>3, <1>4, <1>5

\* The DMA fails, once or twice.
LEMMA FailsKeeps ==
  ASSUME SdInv, DmaFails
  PROVE  SdInv'
<1> USE SdAssumption DEF SdInv, SdSound, cardVars, drvVars, irqVars, Transferring, Moving, MovedTo, NoDma, NoOp
<1>1. SdTypeOK'
  BY DEF SdTypeOK, OpInv, ChunkInv, DmaFails, Post
<1>2. OpInv'
  BY DEF SdTypeOK, OpInv, WindowOnCard, DmaFails, Post
<1>3. ChunkInv'
  BY DEF SdTypeOK, OpInv, ChunkInv, Chunk, DmaFails, Post
<1>4. SdOkIsMoved'
  BY DEF SdTypeOK, OpInv, ChunkInv, SdOkIsMoved, DmaFails, Post
<1>5. WindowOnCard'
  BY DEF SdTypeOK, OpInv, WindowOnCard, DmaFails, Post
<1> QED
  BY <1>1, <1>2, <1>3, <1>4, <1>5

\* A raw read begins.
LEMMA RawReadKeeps ==
  ASSUME SdInv, RawRead
  PROVE  SdInv'
<1> USE SdAssumption DEF SdInv, SdSound, cardVars, drvVars, irqVars, Transferring, Moving, MovedTo, NoDma, NoOp
<1>1. SdTypeOK'
  BY DEF SdTypeOK, OpInv, ChunkInv, RawRead, Start, SdOps
<1>2. OpInv'
  BY DEF SdTypeOK, OpInv, WindowOnCard, RawRead, Start, SdOps
<1>3. ChunkInv'
  BY DEF SdTypeOK, OpInv, ChunkInv, Chunk, RawRead, Start, SdOps
<1>4. SdOkIsMoved'
  BY DEF SdTypeOK, OpInv, ChunkInv, SdOkIsMoved, RawRead, Start, SdOps
<1>5. WindowOnCard'
  BY DEF SdTypeOK, OpInv, WindowOnCard, RawRead, Start, SdOps
<1> QED
  BY <1>1, <1>2, <1>3, <1>4, <1>5

\* A raw probe begins.
LEMMA RawProbeKeeps ==
  ASSUME SdInv, RawProbe
  PROVE  SdInv'
<1> USE SdAssumption DEF SdInv, SdSound, cardVars, drvVars, irqVars, Transferring, Moving, MovedTo, NoDma, NoOp
<1>1. SdTypeOK'
  BY DEF SdTypeOK, OpInv, ChunkInv, RawProbe, Start, SdOps
<1>2. OpInv'
  BY DEF SdTypeOK, OpInv, WindowOnCard, RawProbe, Start, SdOps
<1>3. ChunkInv'
  BY DEF SdTypeOK, OpInv, ChunkInv, Chunk, RawProbe, Start, SdOps
<1>4. SdOkIsMoved'
  BY DEF SdTypeOK, OpInv, ChunkInv, SdOkIsMoved, RawProbe, Start, SdOps
<1>5. WindowOnCard'
  BY DEF SdTypeOK, OpInv, WindowOnCard, RawProbe, Start, SdOps
<1> QED
  BY <1>1, <1>2, <1>3, <1>4, <1>5

\* FX_DRIVER_INIT begins.
LEMMA DriverInitKeeps ==
  ASSUME SdInv, DriverInit
  PROVE  SdInv'
<1> USE SdAssumption DEF SdInv, SdSound, cardVars, drvVars, irqVars, Transferring, Moving, MovedTo, NoDma, NoOp
<1>1. SdTypeOK'
  BY DEF SdTypeOK, OpInv, ChunkInv, DriverInit, Start, SdOps
<1>2. OpInv'
  BY DEF SdTypeOK, OpInv, WindowOnCard, DriverInit, Start, SdOps
<1>3. ChunkInv'
  BY DEF SdTypeOK, OpInv, ChunkInv, Chunk, DriverInit, Start, SdOps
<1>4. SdOkIsMoved'
  BY DEF SdTypeOK, OpInv, ChunkInv, SdOkIsMoved, DriverInit, Start, SdOps
<1>5. WindowOnCard'
  BY DEF SdTypeOK, OpInv, WindowOnCard, DriverInit, Start, SdOps
<1> QED
  BY <1>1, <1>2, <1>3, <1>4, <1>5

\* FX_DRIVER_READ and _WRITE begin, in the window.
LEMMA DriverBlocksKeeps ==
  ASSUME SdInv, DriverBlocks
  PROVE  SdInv'
<1> USE SdAssumption DEF SdInv, SdSound, cardVars, drvVars, irqVars, Transferring, Moving, MovedTo, NoDma, NoOp
<1>1. SdTypeOK'
  BY DEF SdTypeOK, OpInv, ChunkInv, DriverBlocks, Start, SdOps, BoundsOk
<1>2. OpInv'
  BY DEF SdTypeOK, OpInv, WindowOnCard, DriverBlocks, Start, SdOps, BoundsOk
<1>3. ChunkInv'
  BY DEF SdTypeOK, OpInv, ChunkInv, Chunk, DriverBlocks, Start, SdOps, BoundsOk
<1>4. SdOkIsMoved'
  BY DEF SdTypeOK, OpInv, ChunkInv, SdOkIsMoved, DriverBlocks, Start, SdOps, BoundsOk
<1>5. WindowOnCard'
  BY DEF SdTypeOK, OpInv, WindowOnCard, DriverBlocks, Start, SdOps, BoundsOk
<1> QED
  BY <1>1, <1>2, <1>3, <1>4, <1>5

\* The media closes.
LEMMA UnmountKeeps ==
  ASSUME SdInv, Unmount
  PROVE  SdInv'
<1> USE SdAssumption DEF SdInv, SdSound, cardVars, drvVars, irqVars, Transferring, Moving, MovedTo, NoDma, NoOp
<1>1. SdTypeOK'
  BY DEF SdTypeOK, OpInv, ChunkInv, Unmount
<1>2. OpInv'
  BY DEF SdTypeOK, OpInv, WindowOnCard, Unmount
<1>3. ChunkInv'
  BY DEF SdTypeOK, OpInv, ChunkInv, Chunk, Unmount
<1>4. SdOkIsMoved'
  BY DEF SdTypeOK, OpInv, ChunkInv, SdOkIsMoved, Unmount
<1>5. WindowOnCard'
  BY DEF SdTypeOK, OpInv, WindowOnCard, Unmount
<1> QED
  BY <1>1, <1>2, <1>3, <1>4, <1>5

\* sd_card_probe().
LEMMA ProbeKeeps ==
  ASSUME SdInv, Probe
  PROVE  SdInv'
<1> USE SdAssumption DEF SdInv, SdSound, cardVars, drvVars, irqVars, Transferring, Moving, MovedTo, NoDma, NoOp
<1>0. sdOp \in SdOps
  BY UnderLock DEF Probe
<1>1. SdTypeOK'
  BY <1>0 DEF SdTypeOK, OpInv, ChunkInv, Probe, Answer, SdOps
<1>2. OpInv'
  BY <1>0 DEF SdTypeOK, OpInv, WindowOnCard, Probe, Answer, SdOps
<1>3. ChunkInv'
  BY <1>0 DEF SdTypeOK, OpInv, ChunkInv, Chunk, Probe, Answer, SdOps
<1>4. SdOkIsMoved'
  BY <1>0 DEF SdTypeOK, OpInv, ChunkInv, SdOkIsMoved, Probe, Answer, SdOps
<1>5. WindowOnCard'
  BY <1>0 DEF SdTypeOK, OpInv, WindowOnCard, Probe, Answer, SdOps
<1> QED
  BY <1>1, <1>2, <1>3, <1>4, <1>5

\* The checks of a transfer.
LEMMA CheckKeeps ==
  ASSUME SdInv, Check
  PROVE  SdInv'
<1> USE SdAssumption DEF SdInv, SdSound, cardVars, drvVars, irqVars, Transferring, Moving, MovedTo, NoDma, NoOp
<1>0. sdOp \in SdOps
  BY UnderLock DEF Check
<1>1. SdTypeOK'
  BY <1>0 DEF SdTypeOK, OpInv, ChunkInv, Check, Answer, SdOps, InRange
<1>2. OpInv'
  BY <1>0 DEF SdTypeOK, OpInv, WindowOnCard, Check, Answer, SdOps, InRange
<1>3. ChunkInv'
  BY <1>0 DEF SdTypeOK, OpInv, ChunkInv, Chunk, Check, Answer, SdOps, InRange
<1>4. SdOkIsMoved'
  BY <1>0 DEF SdTypeOK, OpInv, ChunkInv, SdOkIsMoved, Check, Answer, SdOps, InRange
<1>5. WindowOnCard'
  BY <1>0 DEF SdTypeOK, OpInv, WindowOnCard, Check, Answer, SdOps, InRange
<1> QED
  BY <1>1, <1>2, <1>3, <1>4, <1>5

\* wait_transfer_state() gives up.
LEMMA GivesUpKeeps ==
  ASSUME SdInv, StateGivesUp
  PROVE  SdInv'
<1> USE SdAssumption DEF SdInv, SdSound, cardVars, drvVars, irqVars, Transferring, Moving, MovedTo, NoDma, NoOp
<1>0. sdOp \in SdOps
  BY UnderLock DEF StateGivesUp
<1>1. SdTypeOK'
  BY <1>0 DEF SdTypeOK, OpInv, ChunkInv, StateGivesUp, Answer, SdOps, Tran
<1>2. OpInv'
  BY <1>0 DEF SdTypeOK, OpInv, WindowOnCard, StateGivesUp, Answer, SdOps, Tran
<1>3. ChunkInv'
  BY <1>0 DEF SdTypeOK, OpInv, ChunkInv, Chunk, StateGivesUp, Answer, SdOps, Tran
<1>4. SdOkIsMoved'
  BY <1>0 DEF SdTypeOK, OpInv, ChunkInv, SdOkIsMoved, StateGivesUp, Answer, SdOps, Tran
<1>5. WindowOnCard'
  BY <1>0 DEF SdTypeOK, OpInv, WindowOnCard, StateGivesUp, Answer, SdOps, Tran
<1> QED
  BY <1>1, <1>2, <1>3, <1>4, <1>5

\* A chunk is issued.
LEMMA IssueKeeps ==
  ASSUME SdInv, IssueChunk
  PROVE  SdInv'
<1> USE SdAssumption DEF SdInv, SdSound, cardVars, drvVars, irqVars, Transferring, Moving, MovedTo, NoDma, NoOp
<1>0. sdOp \in SdOps
  BY UnderLock DEF IssueChunk
<1>1. SdTypeOK'
  <2>1. sdOp.at >= sdOp.lba /\ sdOp.at < sdOp.lba + sdOp.n /\ sdOp.lba + sdOp.n <= SdBlocks[info] /\ info \in Cards
    BY <1>0 DEF IssueChunk, OpInv, ChunkInv
  <2>2. sdOp.at \in Nat /\ sdOp.lba \in Nat /\ sdOp.n \in Nat /\ Chunk \in Nat /\ sdOp.at + Chunk <= sdOp.lba + sdOp.n
    BY <1>0, <2>1, ChunkOf
  <2>3. SdBlocks[info] \in Nat /\ SdBlocks[info] < SdMod
    BY <2>1, BlocksOf
  <2>4. (sdOp.at .. sdOp.at + Chunk - 1) \subseteq 0 .. SdMod - 1
    BY <2>1, <2>2, <2>3
  <2>5. dma'.blocks \subseteq 0 .. SdMod - 1
    <3>1. dma'.blocks \in {{}, sdOp.at .. sdOp.at + Chunk - 1}
      BY DEF IssueChunk
    <3> QED
      BY <2>4, <3>1
  <2>6. sdOp'.pc \in {"wait", "failed"}
    BY <1>0, AnswerOf DEF IssueChunk
  <2> QED
    <3>1. /\ sdDone' = 0 /\ xferErr' = FALSE /\ xferActive' \in BOOLEAN
          /\ UNCHANGED <<slot, answers, swaps, busy, probed, info, window, sdMounted, landed>>
      BY DEF IssueChunk, Drained
    <3>2. xferErr' \in BOOLEAN
      BY <3>1, Zenon
    <3>3. sdDone' \in 0 .. 2
      BY <3>1
    <3> QED
      BY <2>5, <2>6, <3>1, <3>2, <3>3 DEF SdTypeOK
<1>2. OpInv'
  BY <1>0 DEF SdTypeOK, OpInv, WindowOnCard, IssueChunk, Answer, SdOps, Tran, Drained
<1>3. ChunkInv'
  <2>1. /\ sdOp'.lba = sdOp.lba /\ sdOp'.n = sdOp.n /\ sdOp'.at = sdOp.at /\ sdOp'.kind = sdOp.kind
        /\ \/ sdOp'.pc = "wait" /\ xferActive' = TRUE /\ dma' = [blocks |-> sdOp.at .. sdOp.at + Chunk - 1, erred |-> FALSE]
           \/ sdOp'.pc = "failed" /\ xferActive' = FALSE /\ dma' = NoDma
    BY <1>0, AnswerOf DEF IssueChunk
  <2>2. sdDone' = 0 /\ xferErr' = FALSE /\ UNCHANGED <<info, landed>>
    BY DEF IssueChunk, Drained
  <2>3. landed = MovedTo(sdOp.at) /\ sdOp.at >= sdOp.lba /\ sdOp.at < sdOp.lba + sdOp.n
    BY DEF IssueChunk, ChunkInv
  <2>4. Chunk' = Chunk
    BY <2>1 DEF Chunk
  <2> HIDE DEF MovedTo
  <2>5. MovedTo(sdOp.at)' = MovedTo(sdOp.at)
    BY <2>1, <2>2 DEF MovedTo
  <2>6. CASE sdOp'.pc = "wait"
    <3>1. dma'.blocks = sdOp.at .. sdOp.at + Chunk - 1 /\ dma'.erred = FALSE
      BY <2>1, <2>6
    <3> QED
      BY <2>1, <2>2, <2>3, <2>4, <2>5, <2>6, <3>1 DEF ChunkInv
  <2>7. CASE sdOp'.pc = "failed"
    BY <2>1, <2>7 DEF ChunkInv
  <2> QED
    BY <2>1, <2>6, <2>7
<1>4. SdOkIsMoved'
  BY <1>0 DEF SdTypeOK, OpInv, ChunkInv, SdOkIsMoved, IssueChunk, Answer, SdOps, Tran, Drained
<1>5. WindowOnCard'
  BY <1>0 DEF SdTypeOK, OpInv, WindowOnCard, IssueChunk, Answer, SdOps, Tran, Drained
<1> QED
  BY <1>1, <1>2, <1>3, <1>4, <1>5

\* wait_done().
LEMMA WaitKeeps ==
  ASSUME SdInv, Wait
  PROVE  SdInv'
<1> USE SdAssumption DEF SdInv, SdSound, cardVars, drvVars, irqVars, Transferring, Moving, MovedTo, NoDma, NoOp
<1>0. sdOp \in SdOps
  BY UnderLock DEF Wait
<1>1. SdTypeOK'
  BY <1>0 DEF SdTypeOK, OpInv, ChunkInv, Wait, Answer, SdOps
<1>2. OpInv'
  BY <1>0 DEF SdTypeOK, OpInv, WindowOnCard, Wait, Answer, SdOps
<1>3. ChunkInv'
  <2>1. /\ sdOp'.pc = (IF sdDone > 0 THEN "taken" ELSE "late")
        /\ sdOp'.lba = sdOp.lba /\ sdOp'.n = sdOp.n /\ sdOp'.at = sdOp.at /\ sdOp'.kind = sdOp.kind
    BY <1>0, AnswerOf DEF Wait
  <2>2. /\ sdDone' = (IF sdDone > 0 THEN sdDone - 1 ELSE sdDone) /\ sdDone \in Nat /\ sdOp.pc = "wait"
        /\ UNCHANGED <<info, dma, xferActive, xferErr, landed>>
    BY DEF Wait, SdTypeOK
  <2>3. Chunk' = Chunk
    BY <2>1 DEF Chunk
  <2> HIDE DEF MovedTo
  <2>4. MovedTo(sdOp.at)' = MovedTo(sdOp.at) /\ MovedTo(sdOp.at + Chunk)' = MovedTo(sdOp.at + Chunk)
    BY <2>1, <2>2, <2>3 DEF MovedTo
  <2> QED
    BY <2>1, <2>2, <2>3, <2>4 DEF ChunkInv
<1>4. SdOkIsMoved'
  BY <1>0 DEF SdTypeOK, OpInv, ChunkInv, SdOkIsMoved, Wait, Answer, SdOps
<1>5. WindowOnCard'
  BY <1>0 DEF SdTypeOK, OpInv, WindowOnCard, Wait, Answer, SdOps
<1> QED
  BY <1>1, <1>2, <1>3, <1>4, <1>5

\* The chunk's wait ends, well or not.
LEMMA WaitEndsKeeps ==
  ASSUME SdInv, WaitEnds
  PROVE  SdInv'
<1> USE SdAssumption DEF SdInv, SdSound, cardVars, drvVars, irqVars, Transferring, Moving, NoDma, NoOp
<1>0. sdOp \in SdOps /\ Transferring /\ sdOp.pc \in {"taken", "late"}
  BY UnderLock DEF WaitEnds
<1>1. /\ sdOp.at >= sdOp.lba /\ sdOp.at < sdOp.lba + sdOp.n /\ sdOp.at \in Nat /\ sdOp.lba \in Nat
      /\ sdOp.n \in Nat /\ Chunk \in Nat \ {0} /\ sdOp.at + Chunk <= sdOp.lba + sdOp.n
  BY <1>0, ChunkOf DEF ChunkInv
<1>2. info \in Cards /\ probed /\ sdOp.lba + sdOp.n <= SdBlocks[info] /\ SdBlocks[info] \in Nat /\ SdBlocks[info] < SdMod
  BY <1>0, BlocksOf DEF OpInv
<1>3. UNCHANGED <<slot, answers, swaps, busy, probed, info, window, sdMounted, xferErr, landed, sdOps>> /\ xferActive' = FALSE
  BY DEF WaitEnds
<1>4. CASE sdOp.pc = "late" \/ xferErr
  <2>1. /\ sdOp' \in SdOps /\ sdOp'.pc = "failed" /\ sdOp'.kind = sdOp.kind /\ sdOp'.for = sdOp.for
        /\ sdOp'.lba = sdOp.lba /\ sdOp'.n = sdOp.n
    BY <1>0, <1>4, AnswerOf DEF WaitEnds
  <2>2. dma' = NoDma /\ sdDone' = 0
    BY <1>4 DEF WaitEnds, Drained
  <2>3. SdTypeOK'
    <3>1. xferActive' \in BOOLEAN
      BY <1>3, Zenon
    <3> QED
      BY <1>3, <2>1, <2>2, <3>1 DEF SdTypeOK
  <2>4. OpInv'
    BY <1>0, <1>3, <2>1 DEF OpInv
  <2>5. ChunkInv' /\ SdOkIsMoved'
    BY <1>3, <2>1, <2>2 DEF ChunkInv, SdOkIsMoved
  <2>6. WindowOnCard'
    BY <1>0, <1>3, <2>1 DEF WindowOnCard
  <2> QED
    BY <2>3, <2>4, <2>5, <2>6
<1>5. CASE ~ (sdOp.pc = "late" \/ xferErr)
  <2> DEFINE next == IF sdOp.at + Chunk < sdOp.lba + sdOp.n THEN "state"
                     ELSE IF sdOp.kind = "write" THEN "final" ELSE "ok"
  <2>1. sdOp' = [sdOp EXCEPT !.at = @ + Chunk, !.pc = next] /\ UNCHANGED <<dma, sdDone>>
    BY <1>5 DEF WaitEnds
  <2>2. dma = NoDma /\ landed = MovedTo(sdOp.at + Chunk)
    BY <1>0, <1>5 DEF ChunkInv
  <2>3. /\ sdOp' \in SdOps /\ sdOp'.pc = next /\ sdOp'.kind = sdOp.kind /\ sdOp'.for = sdOp.for
        /\ sdOp'.lba = sdOp.lba /\ sdOp'.n = sdOp.n /\ sdOp'.at = sdOp.at + Chunk
    <3>1. sdOp.at + Chunk \in 0 .. SdMod - 1
      BY <1>1, <1>2
    <3>2. next \in {"state", "final", "ok"}
      OBVIOUS
    <3> HIDE DEF next
    <3> QED
      BY <1>0, <2>1, <3>1, <3>2 DEF SdOps
  <2>4. next # "state" => sdOp.at + Chunk = sdOp.lba + sdOp.n
    BY <1>1
  <2>5. next \in {"state", "final", "ok"}
    OBVIOUS
  <2> HIDE DEF next
  <2>6. SdTypeOK'
    BY <1>3, <2>1, <2>3, <2>5 DEF SdTypeOK
  <2>7. OpInv'
    BY <1>0, <1>1, <1>2, <1>3, <2>3, <2>5 DEF OpInv
  <2>8. sdOp'.pc # "state" => landed' = {info'} \X (sdOp'.lba .. (sdOp'.lba + sdOp'.n) - 1)
    <3>1. landed' = {info} \X (sdOp.lba .. (sdOp.at + Chunk) - 1)
      BY <1>3, <2>2 DEF MovedTo
    <3>2. info = info' /\ sdOp.lba = sdOp'.lba
      BY <1>3, <2>3
    <3>3. sdOp'.pc # "state" => sdOp.at + Chunk = sdOp'.lba + sdOp'.n
      BY <2>3, <2>4
    <3> QED
      BY <3>1, <3>2, <3>3, SameMoved
  <2>9. sdOp'.pc = "state" => /\ landed' = {info'} \X (sdOp'.lba .. sdOp'.at - 1)
                              /\ sdOp'.at >= sdOp'.lba /\ sdOp'.at < sdOp'.lba + sdOp'.n
    BY <1>1, <1>3, <2>2, <2>3 DEF MovedTo, next
  <2>10. ChunkInv'
    <3>1. sdOp'.pc # "state" => landed' = MovedTo(sdOp.lba + sdOp.n)'
      BY <2>8 DEF MovedTo
    <3>2. sdOp'.pc = "state" => landed' = MovedTo(sdOp.at)'
      BY <2>9 DEF MovedTo
    <3> HIDE DEF MovedTo
    <3>3. dma' = NoDma /\ xferActive' = FALSE
      BY <1>3, <2>1, <2>2
    <3> QED
      BY <2>3, <2>5, <2>9, <3>1, <3>2, <3>3 DEF ChunkInv
  <2>11. SdOkIsMoved'
    <3> SUFFICES ASSUME sdOp'.pc = "ok"
                 PROVE  landed' = {info'} \X (sdOp'.lba .. sdOp'.lba + sdOp'.n - 1)
      BY DEF SdOkIsMoved
    <3>1. (sdOp'.lba + sdOp'.n) - 1 = sdOp'.lba + sdOp'.n - 1
      BY <1>1, <2>3
    <3> QED
      BY <2>8, <3>1, SameEnd
  <2>12. WindowOnCard'
    BY <1>0, <1>3, <2>3 DEF WindowOnCard
  <2> QED
    BY <2>6, <2>7, <2>10, <2>11, <2>12
<1> QED
  BY <1>4, <1>5

\* A write is durable.
LEMMA ProgrammedKeeps ==
  ASSUME SdInv, Programmed
  PROVE  SdInv'
<1> USE SdAssumption DEF SdInv, SdSound, cardVars, drvVars, irqVars, Transferring, Moving, MovedTo, NoDma, NoOp
<1>0. sdOp \in SdOps
  BY UnderLock DEF Programmed
<1>1. SdTypeOK'
  BY <1>0 DEF SdTypeOK, OpInv, ChunkInv, Programmed, Answer, SdOps, Tran
<1>2. OpInv'
  BY <1>0 DEF SdTypeOK, OpInv, WindowOnCard, Programmed, Answer, SdOps, Tran
<1>3. ChunkInv'
  BY <1>0 DEF SdTypeOK, OpInv, ChunkInv, Chunk, Programmed, Answer, SdOps, Tran
<1>4. SdOkIsMoved'
  BY <1>0 DEF SdTypeOK, OpInv, ChunkInv, SdOkIsMoved, Programmed, Answer, SdOps, Tran
<1>5. WindowOnCard'
  BY <1>0 DEF SdTypeOK, OpInv, WindowOnCard, Programmed, Answer, SdOps, Tran
<1> QED
  BY <1>1, <1>2, <1>3, <1>4, <1>5

\* The operation returns, and FX_DRIVER_INIT goes on.
LEMMA ReturnKeeps ==
  ASSUME SdInv, SdReturn
  PROVE  SdInv'
<1> USE SdAssumption DEF SdInv, SdSound, cardVars, drvVars, irqVars, Transferring, Moving, NoOp
<1>0. sdOp \in SdOps /\ sdOp.pc \in {"ok", "failed"}
  BY UnderLock DEF SdReturn
<1>1. landed' = {} /\ UNCHANGED <<slot, answers, swaps, busy, probed, info, dma, xferActive, xferErr, sdDone, sdOps>>
  BY DEF SdReturn
<1>2. CASE sdOp.kind = "probe" /\ sdOp.for = "init" /\ sdOp.pc = "ok"
  <2>1. sdOp' = [sdOp EXCEPT !.pc = "check", !.kind = "read", !.n = 1] /\ UNCHANGED <<window, sdMounted>>
    BY <1>2 DEF SdReturn
  <2>2. /\ sdOp' \in SdOps /\ sdOp'.pc = "check" /\ sdOp'.kind = "read" /\ sdOp'.for = "init"
        /\ sdOp'.n = 1 /\ sdOp'.at = sdOp'.lba
    BY <1>0, <1>2, <2>1 DEF SdOps, OpInv
  <2>3. SdTypeOK'
    BY <1>1, <2>1, <2>2 DEF SdTypeOK
  <2>4. OpInv'
    BY <1>0, <1>1, <1>2, <2>1, <2>2 DEF OpInv
  <2>5. ChunkInv' /\ SdOkIsMoved'
    BY <1>0, <1>1, <2>2 DEF ChunkInv, SdOkIsMoved
  <2>6. WindowOnCard'
    BY <1>1, <2>1, <2>2 DEF WindowOnCard
  <2> QED
    BY <2>3, <2>4, <2>5, <2>6
<1>3. CASE ~ (sdOp.kind = "probe" /\ sdOp.for = "init" /\ sdOp.pc = "ok")
  <2>1. sdOp' = NoOp
    BY <1>3 DEF SdReturn
  <2>2. sdOp.for \in {"init", "format"} /\ sdOp.pc = "ok" => info \in Cards
    BY <1>0 DEF OpInv
  <2> DEFINE Fits == /\ info \in Cards /\ sdMounted' = TRUE
                     /\ window' \in [lba : 0 .. SdMod - 1, blocks : 0 .. SdMod - 1]
                     /\ window'.blocks > 0 /\ window'.lba + window'.blocks <= SdBlocks[info]
             None == window' = [lba |-> 0, blocks |-> 0] /\ UNCHANGED sdMounted /\ ~ sdMounted
  <2>3. UNCHANGED <<window, sdMounted>> \/ None \/ Fits
    <3>1. ASSUME info \in Cards, Opened(0, SdBlocks[info])
          PROVE  Fits
      <4>1. SdBlocks[info] \in Nat \ {0} /\ 0 \in Nat /\ 0 + SdBlocks[info] <= SdBlocks[info]
        BY <3>1, BlocksOf
      <4> QED
        BY <3>1, <4>1, OpenedOf
    <3> HIDE DEF Fits
    <3>2. CASE sdOp.for = "format" /\ sdOp.pc = "ok"
      BY <1>3, <2>2, <3>1, <3>2 DEF SdReturn
    <3>3. CASE sdOp.for = "init" /\ sdOp.kind = "read" /\ sdOp.pc = "ok"
      <4>1. Detect /\ info \in Cards /\ ~ sdMounted
        BY <1>0, <1>3, <2>2, <3>3 DEF SdReturn, OpInv
      <4>2. SdBlocks[info] \in Nat
        BY <4>1, BlocksOf
      <4>3. ASSUME NEW first \in 0 .. SdMod - 1, NEW size \in 0 .. SdMod - 1,
                   PartitionFits(first, size), Opened(first, size)
            PROVE  Fits
        <5>1. first \in Nat /\ size \in Nat \ {0} /\ first + size <= SdBlocks[info]
          BY <4>2, <4>3 DEF PartitionFits
        <5> QED
          BY <4>1, <4>3, <5>1, OpenedOf DEF Fits
      <4> QED
        BY <3>1, <4>1, <4>3 DEF Detect
    <3>4. CASE sdOp.for = "init" /\ sdOp.kind = "read" /\ sdOp.pc = "failed"
      BY <1>0, <1>3, <3>4 DEF SdReturn, OpInv
    <3>5. CASE /\ ~ (sdOp.for = "format" /\ sdOp.pc = "ok")
               /\ ~ (sdOp.for = "init" /\ sdOp.kind = "read" /\ sdOp.pc \in {"ok", "failed"})
      BY <1>3, <3>5 DEF SdReturn
    <3> QED
      BY <1>0, <3>2, <3>3, <3>4, <3>5
  <2>4. SdTypeOK'
    <3>1. window' \in [lba : 0 .. SdMod - 1, blocks : 0 .. SdMod - 1]
      <4>1. CASE UNCHANGED <<window, sdMounted>>
        BY <4>1 DEF SdTypeOK
      <4>2. CASE None
        <5>1. 0 \in 0 .. SdMod - 1
          OBVIOUS
        <5> QED
          BY <4>2, <5>1, WindowOf
      <4>3. CASE Fits
        BY <4>3
      <4> QED
        BY <2>3, <4>1, <4>2, <4>3
    <3>2. sdMounted' \in BOOLEAN
      <4>1. sdMounted' = sdMounted \/ sdMounted' = TRUE
        BY <2>3
      <4> QED
        BY <4>1, Zenon DEF SdTypeOK
    <3> QED
      BY <1>1, <2>1, <3>1, <3>2 DEF SdTypeOK
  <2>5. OpInv'
    BY <1>1, <2>1, <2>3 DEF OpInv
  <2>6. ChunkInv' /\ SdOkIsMoved'
    BY <1>0, <1>1, <2>1 DEF ChunkInv, SdOkIsMoved
  <2>7. WindowOnCard'
    BY <1>1, <2>1, <2>3 DEF WindowOnCard
  <2> QED
    BY <2>4, <2>5, <2>6, <2>7
<1> QED
  BY <1>2, <1>3

\* SdInv is inductive.
LEMMA SdInvHolds == SdSpec => []SdInv
<1>1. SdInit => SdInv
  <2> SUFFICES ASSUME SdInit
               PROVE  SdInv
    OBVIOUS
  <2>1. window \in [lba : 0 .. SdMod - 1, blocks : 0 .. SdMod - 1]
    BY SdAssumption DEF SdInit
  <2>2. /\ answers \in BOOLEAN /\ busy \in BOOLEAN /\ probed \in BOOLEAN /\ sdMounted \in BOOLEAN
        /\ xferActive \in BOOLEAN /\ xferErr \in BOOLEAN
    BY Zenon DEF SdInit
  <2>3. sdOp.pc = "idle" /\ dma.blocks = {} /\ sdDone = 0 /\ landed = {}
    BY DEF SdInit, NoOp, NoDma
  <2>4. SdTypeOK
    BY <2>1, <2>2, <2>3 DEF SdInit, SdTypeOK
  <2>5. OpInv /\ ChunkInv /\ SdOkIsMoved /\ WindowOnCard
    BY <2>3 DEF SdInit, OpInv, ChunkInv, SdOkIsMoved, WindowOnCard, Transferring, Moving
  <2> QED
    BY <2>4, <2>5 DEF SdInv, SdSound
<1>2. SdInv /\ [SdNext]_sdVars => SdInv'
  <2>1. SdInv /\ SdNext => SdInv'
    BY OutKeeps, InKeeps, ReadyKeeps, CompletesKeeps, FailsKeeps, RawReadKeeps,
       RawProbeKeeps, DriverInitKeeps, DriverBlocksKeeps, UnmountKeeps, ProbeKeeps, CheckKeeps,
       GivesUpKeeps, IssueKeeps, WaitKeeps, WaitEndsKeeps, ProgrammedKeeps, ReturnKeeps
       DEF SdNext, SdThread
  <2>2. SdInv /\ UNCHANGED sdVars => SdInv'
    BY DEF sdVars, cardVars, drvVars, irqVars, SdInv, SdSound, SdTypeOK, SdOkIsMoved, WindowOnCard, OpInv,
       ChunkInv, Transferring, Moving, MovedTo, Chunk
  <2> QED
    BY <2>1, <2>2
<1> QED
  BY <1>1, <1>2, PTL DEF SdSpec

\* sd_card_read_blocks() and sd_card_write_blocks() report success only for
\* blocks the DMA moved, on the card that was probed, whatever completions,
\* errors, timeouts and swaps do; and fx_sd_driver.c's window lies on that card
\* (SdSound, the invariant of the run), for any cards and bounce buffer.
THEOREM SuccessIsMoved == SdSpec => []SdSound
<1>1. SdInv => SdSound
  BY DEF SdInv
<1> QED
  BY <1>1, SdInvHolds, PTL

------------------------------------------------------------------------------
(* FsMedia: nobody loses the media in use, owners are alone with it. *)

\* What a step of thread t leaves alone.
Others(t) == \A u \in FsThreads : u # t => th'[u] = th[u]

\* A thread that only moves on.
LEMMA ThreadGoes ==
  ASSUME NEW t \in FsThreads, ThreadTypes, NEW pc \in InsidePlaces \cup OwnerPlaces \cup {"idle", "remount"}, Go(t, pc)
  PROVE  /\ ThreadTypes' /\ Others(t)
         /\ th'[t].pc = pc /\ th'[t].cmd = th[t].cmd /\ th'[t].off = th[t].off /\ th'[t].live = th[t].live
BY DEF ThreadTypes, Go, Others

\* A thread that is done with its command.
LEMMA ThreadRests ==
  ASSUME NEW t \in FsThreads, ThreadTypes, th' = [th EXCEPT ![t] = Idle]
  PROVE  ThreadTypes' /\ Others(t) /\ th'[t] = Idle /\ th'[t].pc = "idle" /\ th'[t].cmd = "none"
BY DEF ThreadTypes, Idle, Others, InsidePlaces, OwnerPlaces

\* A thread that begins a command.
LEMMA ThreadBegins ==
  ASSUME NEW t \in FsThreads, ThreadTypes, NEW pc \in {"begun", "owner", "raw"},
         NEW c \in {"ls", "use", "load", "umount", "format", "raw"}, Command(t, c, pc)
  PROVE  /\ ThreadTypes' /\ Others(t) /\ th[t].pc = "idle"
         /\ th'[t].pc = pc /\ th'[t].cmd = c
BY DEF ThreadTypes, Idle, Others, Command, InsidePlaces, OwnerPlaces

\* The operations under way are finitely many, before a step and after.
LEMMA InsideFinite ==
  IsFiniteSet(Inside) /\ Cardinality(Inside) \in 0 .. Cardinality(FsThreads) /\ Cardinality(FsThreads) \in Nat
<1>1. Inside \in SUBSET FsThreads /\ IsFiniteSet(FsThreads)
  BY FsAssumption DEF Inside
<1> QED
  BY <1>1, FS_Subset, FS_CardinalityType

LEMMA InsideFiniteNext ==
  IsFiniteSet(Inside') /\ Cardinality(Inside') \in 0 .. Cardinality(FsThreads)
<1>1. Inside' \in SUBSET FsThreads /\ IsFiniteSet(FsThreads)
  BY FsAssumption DEF Inside
<1> QED
  BY <1>1, FS_Subset, FS_CardinalityType

\* A step within an operation, or within an owner's or nobody's places.
LEMMA AdmissionStays ==
  ASSUME NEW t \in FsThreads, AdmissionInv, Others(t), UNCHANGED <<activeOps, fsBusy>>,
         th'[t].pc \in InsidePlaces <=> th[t].pc \in InsidePlaces,
         th'[t].pc \in OwnerPlaces <=> th[t].pc \in OwnerPlaces
  PROVE  AdmissionInv' /\ Inside' = Inside /\ Owners' = Owners
<1>1. Inside' = Inside /\ Owners' = Owners
  BY DEF Inside, Owners, Others
<1> QED
  BY <1>1 DEF AdmissionInv

\* One more operation is admitted while nobody owns the media.
LEMMA AdmissionBegins ==
  ASSUME NEW t \in FsThreads, AdmissionInv, Others(t), ~ fsBusy, fsBusy' = fsBusy, activeOps' = activeOps + 1,
         th[t].pc = "idle", th'[t].pc = "begun"
  PROVE  AdmissionInv'
<1>1. t \notin Inside /\ Inside' = Inside \cup {t} /\ Owners = {} /\ Owners' = Owners
  BY DEF AdmissionInv, Inside, Owners, Others, InsidePlaces, OwnerPlaces
<1>2. Cardinality(Inside') = Cardinality(Inside) + 1
  BY <1>1, InsideFinite, FS_AddElement
<1> QED
  BY <1>1, <1>2 DEF AdmissionInv

\* An operation that leaves is counted down.
LEMMA AdmissionEnds ==
  ASSUME NEW t \in FsThreads, AdmissionInv, Others(t), fsBusy' = fsBusy, activeOps' = activeOps - 1,
         th[t].pc = "ending", th'[t].pc = "idle"
  PROVE  AdmissionInv'
<1>1. t \in Inside /\ Inside' = Inside \ {t} /\ Owners = {} /\ Owners' = Owners
  BY DEF AdmissionInv, Inside, Owners, Others, InsidePlaces, OwnerPlaces
<1>2. Cardinality(Inside') = Cardinality(Inside) - 1
  BY <1>1, InsideFinite, FS_RemoveElement
<1> QED
  BY <1>1, <1>2 DEF AdmissionInv

\* An owner is admitted when nobody is inside.
LEMMA AdmissionOwns ==
  ASSUME NEW t \in FsThreads, AdmissionInv, Others(t), ~ fsBusy, fsBusy' = TRUE, activeOps = 0, UNCHANGED activeOps,
         th[t].pc = "idle", th'[t].pc \in {"owner", "raw"}
  PROVE  AdmissionInv'
<1>1. Owners = {} /\ Owners' = {t} /\ Inside' = Inside
  BY DEF AdmissionInv, Inside, Owners, Others, InsidePlaces, OwnerPlaces
<1>2. Inside = {}
  BY InsideFinite, FS_EmptySet DEF AdmissionInv
<1> QED
  BY <1>1, <1>2 DEF AdmissionInv

\* An owner that leaves clears its flag.
LEMMA AdmissionFrees ==
  ASSUME NEW t \in FsThreads, AdmissionInv, Others(t), fsBusy' = FALSE, UNCHANGED activeOps,
         th[t].pc = "releasing", th'[t].pc \in {"idle", "remount"}
  PROVE  AdmissionInv'
<1>1. Owners = {t}
  BY DEF AdmissionInv, Owners, OwnerPlaces
<1>2. Owners' = {} /\ Inside' = Inside
  BY <1>1 DEF Inside, Owners, Others, InsidePlaces, OwnerPlaces
<1> QED
  BY <1>2 DEF AdmissionInv

\* Where an operation holds the only slot nobody else uses the media; where
\* an owner is, nobody does.
LEMMA UsersAreInside == Users \subseteq Inside
BY DEF Users, Inside, InsidePlaces

\* With one operation counted, who is inside is alone.
LEMMA AloneInside ==
  ASSUME AdmissionInv, activeOps <= 1, NEW t \in Inside
  PROVE  Users \ {t} = {}
<1>1. \A u \in Inside : u = t
  <2> SUFFICES ASSUME NEW u \in Inside, u # t
               PROVE  FALSE
    OBVIOUS
  <2>1. IsFiniteSet(Inside) /\ IsFiniteSet(Inside \ {t}) /\ IsFiniteSet((Inside \ {t}) \ {u})
    BY InsideFinite, FS_RemoveElement
  <2>2. Cardinality(Inside \ {t}) = Cardinality(Inside) - 1
    BY <2>1, FS_RemoveElement
  <2>3. Cardinality((Inside \ {t}) \ {u}) = Cardinality(Inside \ {t}) - 1
    BY <2>1, FS_RemoveElement
  <2>4. Cardinality((Inside \ {t}) \ {u}) \in Nat
    BY <2>1, FS_CardinalityType
  <2> QED
    BY <2>2, <2>3, <2>4, InsideFinite DEF AdmissionInv
<1> QED
  BY <1>1, UsersAreInside

\* An owner sees no operation under way.
LEMMA OwnerSeesNone ==
  ASSUME AdmissionInv, NEW t \in Owners
  PROVE  Inside = {} /\ Users = {} /\ Owners = {t} /\ fsBusy
BY UsersAreInside DEF AdmissionInv

\* Commands that use the media.
LEMMA UseKeeps ==
  ASSUME NEW t \in FsThreads, FsInv, UseMedia(t) \/ StartListing(t) \/ ListEntry(t) \/ Unlist(t)
  PROVE  FsInv'
<1> USE DEF FsInv, slotVars, mediaVars, dirVars
<1>1. CASE UseMedia(t)
  <2>1. ThreadTypes' /\ Others(t) /\ th[t].pc = "body" /\ th'[t].pc \in {"body", "ending"}
            /\ th'[t].cmd = th[t].cmd /\ th'[t].off = th[t].off /\ th'[t].live = th[t].live
    BY <1>1, ThreadGoes DEF UseMedia, InsidePlaces, OwnerPlaces
  <2>2. AdmissionInv'
    BY <1>1, <2>1, AdmissionStays DEF UseMedia, InsidePlaces, OwnerPlaces
  <2>3. FsTypeOK'
    BY <1>1, <2>1, <2>2, InsideFiniteNext DEF FsTypeOK, AdmissionInv, UseMedia
  <2>4. MediaInv'
    BY <1>1, <2>1, <2>2 DEF MediaInv, Others, UseMedia
  <2>5. MediaStaysOpen' /\ HandsOutLive'
    BY <1>1, <2>1, <2>2 DEF MediaStaysOpen, HandsOutLive, Users, Others, UseMedia
  <2>6. DirInv' /\ LoadsWhole'
    BY <1>1, <2>1, <2>2 DEF DirInv, ListsAlone, LoadsWhole, Others, UseMedia
  <2> QED
    BY <2>1, <2>2, <2>3, <2>4, <2>5, <2>6 DEF FsInv
<1>2. CASE StartListing(t)
  <2>1. ThreadTypes' /\ Others(t) /\ th[t].pc = "list" /\ th'[t].pc \in {"listing", "unlisted"}
            /\ th'[t].cmd = th[t].cmd /\ th'[t].off = th[t].off /\ th'[t].live = th[t].live
            /\ "none" \notin FsThreads /\ dirLock = "none" /\ dirLock' = t /\ (th'[t].pc = "listing" => listed' = t)
    BY <1>2, ThreadGoes, FsAssumption DEF StartListing, InsidePlaces, OwnerPlaces
  <2>2. AdmissionInv'
    BY <1>2, <2>1, AdmissionStays DEF StartListing, InsidePlaces, OwnerPlaces
  <2>3. FsTypeOK'
    BY <1>2, <2>1, <2>2, InsideFiniteNext DEF FsTypeOK, AdmissionInv, StartListing
  <2>4. MediaInv'
    BY <1>2, <2>1, <2>2 DEF MediaInv, Others, StartListing
  <2>5. MediaStaysOpen' /\ HandsOutLive'
    BY <1>2, <2>1, <2>2 DEF MediaStaysOpen, HandsOutLive, Users, Others, StartListing
  <2>6. DirInv' /\ LoadsWhole'
    BY <1>2, <2>1, <2>2 DEF DirInv, ListsAlone, LoadsWhole, Others, StartListing
  <2> QED
    BY <2>1, <2>2, <2>3, <2>4, <2>5, <2>6 DEF FsInv
<1>3. CASE ListEntry(t)
  <2>1. ThreadTypes' /\ Others(t) /\ th[t].pc = "listing" /\ th'[t].pc \in {"listing", "unlisted"}
            /\ th'[t].cmd = th[t].cmd /\ th'[t].off = th[t].off /\ th'[t].live = th[t].live
            /\ dirLock' = dirLock /\ dirLock = t /\ (th'[t].pc = "listing" => listed' = listed)
    BY <1>3, ThreadGoes DEF ListEntry, DirInv, InsidePlaces, OwnerPlaces
  <2>2. AdmissionInv'
    BY <1>3, <2>1, AdmissionStays DEF ListEntry, InsidePlaces, OwnerPlaces
  <2>3. FsTypeOK'
    BY <1>3, <2>1, <2>2, InsideFiniteNext DEF FsTypeOK, AdmissionInv, ListEntry
  <2>4. MediaInv'
    BY <1>3, <2>1, <2>2 DEF MediaInv, Others, ListEntry
  <2>5. MediaStaysOpen' /\ HandsOutLive'
    BY <1>3, <2>1, <2>2 DEF MediaStaysOpen, HandsOutLive, Users, Others, ListEntry
  <2>6. DirInv' /\ LoadsWhole'
    BY <1>3, <2>1, <2>2 DEF DirInv, ListsAlone, LoadsWhole, Others, ListEntry
  <2> QED
    BY <2>1, <2>2, <2>3, <2>4, <2>5, <2>6 DEF FsInv
<1>4. CASE Unlist(t)
  <2>1. ThreadTypes' /\ Others(t) /\ th[t].pc = "unlisted" /\ th'[t].pc \in {"ending"}
            /\ th'[t].cmd = th[t].cmd /\ th'[t].off = th[t].off /\ th'[t].live = th[t].live
    BY <1>4, ThreadGoes DEF Unlist, InsidePlaces, OwnerPlaces
  <2>2. AdmissionInv'
    BY <1>4, <2>1, AdmissionStays DEF Unlist, InsidePlaces, OwnerPlaces
  <2>3. FsTypeOK'
    BY <1>4, <2>1, <2>2, InsideFiniteNext DEF FsTypeOK, AdmissionInv, Unlist
  <2>4. MediaInv'
    BY <1>4, <2>1, <2>2 DEF MediaInv, Others, Unlist
  <2>5. MediaStaysOpen' /\ HandsOutLive'
    BY <1>4, <2>1, <2>2 DEF MediaStaysOpen, HandsOutLive, Users, Others, Unlist
  <2>6. DirInv' /\ LoadsWhole'
    BY <1>4, <2>1, <2>2 DEF DirInv, ListsAlone, LoadsWhole, Others, Unlist
  <2> QED
    BY <2>1, <2>2, <2>3, <2>4, <2>5, <2>6 DEF FsInv
<1> QED
  BY <1>1, <1>2, <1>3, <1>4

\* One action after another.
LEMMA LoadKeeps ==
  ASSUME NEW t \in FsThreads, FsInv, LoadFile(t) \/ EndOp(t)
  PROVE  FsInv'
<1> USE DEF FsInv, slotVars, mediaVars, dirVars
<1>1. CASE LoadFile(t)
  <2>1. ThreadTypes' /\ Others(t) /\ th[t].pc = "body" /\ th'[t].pc \in {"body", "ending"} /\ th'[t].live = th[t].live
            /\ (th'[t].cmd = "loaded" => th'[t].off = FsChunks)
    BY <1>1, ThreadGoes, FsAssumption DEF LoadFile, LoadedWhole, LoadsWhole, ThreadTypes, Others, InsidePlaces, OwnerPlaces
  <2>2. AdmissionInv'
    BY <1>1, <2>1, AdmissionStays DEF LoadFile, InsidePlaces, OwnerPlaces
  <2>3. FsTypeOK'
    BY <1>1, <2>1, <2>2, InsideFiniteNext DEF FsTypeOK, AdmissionInv, LoadFile
  <2>4. MediaInv'
    BY <1>1, <2>1, <2>2 DEF MediaInv, Others, LoadFile
  <2>5. MediaStaysOpen' /\ HandsOutLive'
    BY <1>1, <2>1, <2>2 DEF MediaStaysOpen, HandsOutLive, Users, Others, LoadFile
  <2>6. DirInv' /\ LoadsWhole'
    BY <1>1, <2>1, <2>2 DEF DirInv, ListsAlone, LoadsWhole, Others, LoadFile
  <2> QED
    BY <2>1, <2>2, <2>3, <2>4, <2>5, <2>6 DEF FsInv
<1>2. CASE EndOp(t)
  <2>1. ThreadTypes' /\ Others(t) /\ th[t].pc = "ending" /\ th'[t].pc = "idle" /\ th'[t].cmd = "none"
    BY <1>2, ThreadRests DEF EndOp
  <2>2. AdmissionInv'
    BY <1>2, <2>1, AdmissionEnds DEF EndOp
  <2>3. FsTypeOK'
    BY <1>2, <2>1, <2>2, InsideFiniteNext DEF FsTypeOK, AdmissionInv, EndOp
  <2>4. MediaInv'
    BY <1>2, <2>1, <2>2 DEF MediaInv, Others, EndOp
  <2>5. MediaStaysOpen' /\ HandsOutLive'
    BY <1>2, <2>1, <2>2 DEF MediaStaysOpen, HandsOutLive, Users, Others, EndOp
  <2>6. DirInv' /\ LoadsWhole'
    BY <1>2, <2>1, <2>2 DEF DirInv, ListsAlone, LoadsWhole, Others, EndOp
  <2> QED
    BY <2>1, <2>2, <2>3, <2>4, <2>5, <2>6 DEF FsInv
<1> QED
  BY <1>1, <1>2

\* Commands that begin.
LEMMA BeginKeeps ==
  ASSUME NEW t \in FsThreads, FsInv, BeginOp(t) \/ BeginOwner(t)
  PROVE  FsInv'
<1> USE DEF FsInv, slotVars, mediaVars, dirVars
<1>1. CASE BeginOp(t)
  <2>1. ThreadTypes' /\ Others(t) /\ th[t].pc = "idle" /\ th'[t].pc = "begun" /\ th'[t].cmd \in {"ls", "use", "load"}
    BY <1>1, ThreadBegins DEF BeginOp
  <2>2. AdmissionInv'
    BY <1>1, <2>1, AdmissionBegins DEF BeginOp
  <2>3. FsTypeOK'
    BY <1>1, <2>1, <2>2, InsideFiniteNext DEF FsTypeOK, AdmissionInv, BeginOp
  <2>4. MediaInv'
    BY <1>1, <2>1, <2>2 DEF MediaInv, Others, BeginOp
  <2>5. MediaStaysOpen' /\ HandsOutLive'
    BY <1>1, <2>1, <2>2 DEF MediaStaysOpen, HandsOutLive, Users, Others, BeginOp
  <2>6. DirInv' /\ LoadsWhole'
    BY <1>1, <2>1, <2>2 DEF DirInv, ListsAlone, LoadsWhole, Others, BeginOp
  <2> QED
    BY <2>1, <2>2, <2>3, <2>4, <2>5, <2>6 DEF FsInv
<1>2. CASE BeginOwner(t)
  <2>1. ThreadTypes' /\ Others(t) /\ th[t].pc = "idle" /\ th'[t].pc \in {"owner", "raw"} /\ th'[t].cmd \in {"umount", "format", "raw"}
            /\ ~ fsBusy /\ activeOps = 0 /\ (th'[t].pc = "raw" => ~ fsMounted)
    BY <1>2, ThreadBegins DEF BeginOwner, OwnerFree
  <2>2. AdmissionInv'
    BY <1>2, <2>1, AdmissionOwns DEF BeginOwner
  <2>3. FsTypeOK'
    BY <1>2, <2>1, <2>2, InsideFiniteNext DEF FsTypeOK, AdmissionInv, BeginOwner
  <2>4. MediaInv'
    BY <1>2, <2>1, <2>2 DEF MediaInv, Others, BeginOwner
  <2>5. MediaStaysOpen' /\ HandsOutLive'
    BY <1>2, <2>1, <2>2 DEF MediaStaysOpen, HandsOutLive, Users, Others, BeginOwner
  <2>6. DirInv' /\ LoadsWhole'
    BY <1>2, <2>1, <2>2 DEF DirInv, ListsAlone, LoadsWhole, Others, BeginOwner
  <2> QED
    BY <2>1, <2>2, <2>3, <2>4, <2>5, <2>6 DEF FsInv
<1> QED
  BY <1>1, <1>2

\* Owners: nobody else is inside.
LEMMA OwnerKeeps ==
  ASSUME NEW t \in FsThreads, FsInv, UnmountCard(t) \/ UnmountFlash(t) \/ FormatCard(t) \/ FormatFlash(t) \/ RawCard(t) \/ RawFlash(t)
  PROVE  FsInv'
<1> USE DEF FsInv, slotVars, mediaVars, dirVars
<1>1. CASE UnmountCard(t)
  <2>1. ThreadTypes' /\ Others(t) /\ th[t].pc = "owner" /\ th'[t].pc \in {"releasing", "formatting"}
            /\ th'[t].cmd = th[t].cmd /\ th'[t].off = th[t].off /\ th'[t].live = th[t].live
            /\ t \in Owners /\ Users = {} /\ Inside = {}
    BY <1>1, ThreadGoes, OwnerSeesNone DEF UnmountCard, Unmounts, Owners, InsidePlaces, OwnerPlaces
  <2>2. AdmissionInv'
    BY <1>1, <2>1, AdmissionStays DEF UnmountCard, Unmounts, InsidePlaces, OwnerPlaces
  <2>3. FsTypeOK'
    BY <1>1, <2>1, <2>2, InsideFiniteNext DEF FsTypeOK, AdmissionInv, UnmountCard, Unmounts, CloseUnder
  <2>4. MediaInv'
    BY <1>1, <2>1, <2>2 DEF MediaInv, Others, UnmountCard, Unmounts, CloseUnder
  <2>5. MediaStaysOpen' /\ HandsOutLive'
    BY <1>1, <2>1, <2>2 DEF MediaStaysOpen, HandsOutLive, Users, Others, UnmountCard, Unmounts, CloseUnder
  <2>6. DirInv' /\ LoadsWhole'
    BY <1>1, <2>1, <2>2 DEF DirInv, ListsAlone, LoadsWhole, Others, UnmountCard, Unmounts, CloseUnder
  <2> QED
    BY <2>1, <2>2, <2>3, <2>4, <2>5, <2>6 DEF FsInv
<1>2. CASE UnmountFlash(t)
  <2>1. ThreadTypes' /\ Others(t) /\ th[t].pc = "owner" /\ th'[t].pc \in {"releasing", "formatting"}
            /\ th'[t].cmd = th[t].cmd /\ th'[t].off = th[t].off /\ th'[t].live = th[t].live
            /\ t \in Owners /\ Users = {} /\ Inside = {}
    BY <1>2, ThreadGoes, OwnerSeesNone DEF UnmountFlash, Unmounts, Owners, InsidePlaces, OwnerPlaces
  <2>2. AdmissionInv'
    BY <1>2, <2>1, AdmissionStays DEF UnmountFlash, Unmounts, InsidePlaces, OwnerPlaces
  <2>3. FsTypeOK'
    BY <1>2, <2>1, <2>2, InsideFiniteNext DEF FsTypeOK, AdmissionInv, UnmountFlash, Unmounts, CloseUnder
  <2>4. MediaInv'
    BY <1>2, <2>1, <2>2 DEF MediaInv, Others, UnmountFlash, Unmounts, CloseUnder
  <2>5. MediaStaysOpen' /\ HandsOutLive'
    BY <1>2, <2>1, <2>2 DEF MediaStaysOpen, HandsOutLive, Users, Others, UnmountFlash, Unmounts, CloseUnder
  <2>6. DirInv' /\ LoadsWhole'
    BY <1>2, <2>1, <2>2 DEF DirInv, ListsAlone, LoadsWhole, Others, UnmountFlash, Unmounts, CloseUnder
  <2> QED
    BY <2>1, <2>2, <2>3, <2>4, <2>5, <2>6 DEF FsInv
<1>3. CASE FormatCard(t)
  <2>1. ThreadTypes' /\ Others(t) /\ th[t].pc = "formatting" /\ th'[t].pc \in {"releasing"}
            /\ th'[t].cmd = th[t].cmd /\ th'[t].off = th[t].off /\ th'[t].live = th[t].live
            /\ t \in Owners /\ Users = {} /\ Inside = {}
    BY <1>3, ThreadGoes, OwnerSeesNone DEF FormatCard, Formats, Owners, InsidePlaces, OwnerPlaces
  <2>2. AdmissionInv'
    BY <1>3, <2>1, AdmissionStays DEF FormatCard, Formats, InsidePlaces, OwnerPlaces
  <2>3. FsTypeOK'
    BY <1>3, <2>1, <2>2, InsideFiniteNext DEF FsTypeOK, AdmissionInv, FormatCard, Formats, CloseUnder
  <2>4. MediaInv'
    BY <1>3, <2>1, <2>2 DEF MediaInv, Others, FormatCard, Formats, CloseUnder
  <2>5. MediaStaysOpen' /\ HandsOutLive'
    BY <1>3, <2>1, <2>2 DEF MediaStaysOpen, HandsOutLive, Users, Others, FormatCard, Formats, CloseUnder
  <2>6. DirInv' /\ LoadsWhole'
    BY <1>3, <2>1, <2>2 DEF DirInv, ListsAlone, LoadsWhole, Others, FormatCard, Formats, CloseUnder
  <2> QED
    BY <2>1, <2>2, <2>3, <2>4, <2>5, <2>6 DEF FsInv
<1>4. CASE FormatFlash(t)
  <2>1. ThreadTypes' /\ Others(t) /\ th[t].pc = "formatting" /\ th'[t].pc \in {"releasing"}
            /\ th'[t].cmd = th[t].cmd /\ th'[t].off = th[t].off /\ th'[t].live = th[t].live
            /\ t \in Owners /\ Users = {} /\ Inside = {}
    BY <1>4, ThreadGoes, OwnerSeesNone DEF FormatFlash, Formats, MediaInv, Owners, InsidePlaces, OwnerPlaces
  <2>2. AdmissionInv'
    BY <1>4, <2>1, AdmissionStays DEF FormatFlash, Formats, MediaInv, InsidePlaces, OwnerPlaces
  <2>3. FsTypeOK'
    BY <1>4, <2>1, <2>2, InsideFiniteNext DEF FsTypeOK, AdmissionInv, FormatFlash, Formats, MediaInv, CloseUnder
  <2>4. MediaInv'
    BY <1>4, <2>1, <2>2 DEF MediaInv, Others, FormatFlash, Formats, MediaInv, CloseUnder
  <2>5. MediaStaysOpen' /\ HandsOutLive'
    BY <1>4, <2>1, <2>2 DEF MediaStaysOpen, HandsOutLive, Users, Others, FormatFlash, Formats, MediaInv, CloseUnder
  <2>6. DirInv' /\ LoadsWhole'
    BY <1>4, <2>1, <2>2 DEF DirInv, ListsAlone, LoadsWhole, Others, FormatFlash, Formats, MediaInv, CloseUnder
  <2> QED
    BY <2>1, <2>2, <2>3, <2>4, <2>5, <2>6 DEF FsInv
<1>5. CASE RawCard(t)
  <2>1. ThreadTypes' /\ Others(t) /\ th[t].pc = "raw" /\ th'[t].pc \in {"releasing"}
            /\ th'[t].cmd = th[t].cmd /\ th'[t].off = th[t].off /\ th'[t].live = th[t].live
            /\ t \in Owners /\ Users = {} /\ Inside = {}
    BY <1>5, ThreadGoes, OwnerSeesNone DEF RawCard, Raws, Owners, InsidePlaces, OwnerPlaces
  <2>2. AdmissionInv'
    BY <1>5, <2>1, AdmissionStays DEF RawCard, Raws, InsidePlaces, OwnerPlaces
  <2>3. FsTypeOK'
    BY <1>5, <2>1, <2>2, InsideFiniteNext DEF FsTypeOK, AdmissionInv, RawCard, Raws, CloseUnder
  <2>4. MediaInv'
    BY <1>5, <2>1, <2>2 DEF MediaInv, Others, RawCard, Raws, CloseUnder
  <2>5. MediaStaysOpen' /\ HandsOutLive'
    BY <1>5, <2>1, <2>2 DEF MediaStaysOpen, HandsOutLive, Users, Others, RawCard, Raws, CloseUnder
  <2>6. DirInv' /\ LoadsWhole'
    BY <1>5, <2>1, <2>2 DEF DirInv, ListsAlone, LoadsWhole, Others, RawCard, Raws, CloseUnder
  <2> QED
    BY <2>1, <2>2, <2>3, <2>4, <2>5, <2>6 DEF FsInv
<1>6. CASE RawFlash(t)
  <2>1. ThreadTypes' /\ Others(t) /\ th[t].pc = "raw" /\ th'[t].pc \in {"releasing"}
            /\ th'[t].cmd = th[t].cmd /\ th'[t].off = th[t].off /\ th'[t].live = th[t].live
            /\ t \in Owners /\ Users = {} /\ Inside = {}
    BY <1>6, ThreadGoes, OwnerSeesNone DEF RawFlash, Raws, Owners, InsidePlaces, OwnerPlaces
  <2>2. AdmissionInv'
    BY <1>6, <2>1, AdmissionStays DEF RawFlash, Raws, InsidePlaces, OwnerPlaces
  <2>3. FsTypeOK'
    BY <1>6, <2>1, <2>2, InsideFiniteNext DEF FsTypeOK, AdmissionInv, RawFlash, Raws, CloseUnder
  <2>4. MediaInv'
    BY <1>6, <2>1, <2>2 DEF MediaInv, Others, RawFlash, Raws, CloseUnder
  <2>5. MediaStaysOpen' /\ HandsOutLive'
    BY <1>6, <2>1, <2>2 DEF MediaStaysOpen, HandsOutLive, Users, Others, RawFlash, Raws, CloseUnder
  <2>6. DirInv' /\ LoadsWhole'
    BY <1>6, <2>1, <2>2 DEF DirInv, ListsAlone, LoadsWhole, Others, RawFlash, Raws, CloseUnder
  <2> QED
    BY <2>1, <2>2, <2>3, <2>4, <2>5, <2>6 DEF FsInv
<1> QED
  BY <1>1, <1>2, <1>3, <1>4, <1>5, <1>6

LEMMA ReleaseKeeps ==
  ASSUME NEW t \in FsThreads, FsInv, Release(t)
  PROVE  FsInv'
<1> USE DEF FsInv, slotVars, mediaVars, dirVars
<1>1. CASE Release(t)
  <2>1. ThreadTypes' /\ Others(t) /\ th[t].pc = "releasing" /\ th'[t].pc \in {"idle", "remount"} /\ th'[t].cmd # "loaded"
            
    BY <1>1, ThreadGoes, ThreadRests DEF Release, InsidePlaces, OwnerPlaces
  <2>2. AdmissionInv'
    BY <1>1, <2>1, AdmissionFrees DEF Release
  <2>3. FsTypeOK'
    BY <1>1, <2>1, <2>2, InsideFiniteNext DEF FsTypeOK, AdmissionInv, Release
  <2>4. MediaInv'
    BY <1>1, <2>1, <2>2 DEF MediaInv, Others, Release
  <2>5. MediaStaysOpen' /\ HandsOutLive'
    BY <1>1, <2>1, <2>2 DEF MediaStaysOpen, HandsOutLive, Users, Others, Release
  <2>6. DirInv' /\ LoadsWhole'
    BY <1>1, <2>1, <2>2 DEF DirInv, ListsAlone, LoadsWhole, Others, Release
  <2> QED
    BY <2>1, <2>2, <2>3, <2>4, <2>5, <2>6 DEF FsInv
<1> QED
  BY <1>1

\* What a thread is after it asked for the media.
LEMMA GivenOrNot ==
  ASSUME NEW t \in FsThreads, FsInv, Acquires(t), Acquired(t) \/ Refused(t)
  PROVE  /\ ThreadTypes' /\ Others(t)
         /\ th[t].pc = "begun" => th'[t].pc \in {"list", "body", "ending"} /\ th'[t].cmd = th[t].cmd /\ th'[t].off = th[t].off
         /\ th[t].pc = "remount" => th'[t].pc = "idle" /\ th'[t].cmd = "none"
<1> USE DEF FsInv, ThreadTypes, Others, Idle, InsidePlaces, OwnerPlaces
<1>1. CASE Acquired(t)
  <2>1. CASE th[t].pc = "remount"
    BY <1>1, <2>1, ThreadRests DEF Acquired
  <2>2. CASE th[t].pc = "begun"
    <3> DEFINE r == [th[t] EXCEPT !.live = (known' = inSlot), !.pc = IF th[t].cmd = "ls" THEN "list" ELSE "body"]
    <3>1. th' = [th EXCEPT ![t] = r]
      BY <1>1, <2>2 DEF Acquired
    <3>2. r \in [pc : {"list", "body"}, cmd : {th[t].cmd}, off : {th[t].off}, live : BOOLEAN]
      OBVIOUS
    <3>3. th[t].cmd \in {"none", "ls", "use", "load", "loaded", "umount", "format", "raw"} /\ th[t].off \in Nat
      OBVIOUS
    <3> HIDE DEF r
    <3>4. /\ th'[t] = r /\ \A u \in FsThreads : u # t => th'[u] = th[u]
          /\ th' \in [FsThreads -> [pc : InsidePlaces \cup OwnerPlaces \cup {"idle", "remount"},
                         cmd : {"none", "ls", "use", "load", "loaded", "umount", "format", "raw"},
                         off : Nat, live : BOOLEAN]]
      BY <3>1, <3>2, <3>3
    <3> QED
      BY <3>2, <3>4, <2>2
  <2> QED
    BY <2>1, <2>2 DEF Acquires
<1>2. CASE Refused(t)
  <2>1. CASE th[t].pc = "remount"
    BY <1>2, <2>1 DEF Refused
  <2>2. CASE th[t].pc = "begun"
    BY <1>2, <2>2 DEF Refused
  <2> QED
    BY <2>1, <2>2 DEF Acquires
<1> QED
  BY <1>1, <1>2

LEMMA AdmissionOfAcquire ==
  ASSUME NEW t \in FsThreads, FsInv, Acquires(t), Acquired(t) \/ Refused(t), UNCHANGED <<activeOps, fsBusy>>
  PROVE  AdmissionInv'
BY GivenOrNot, AdmissionStays DEF FsInv, Acquires, InsidePlaces, OwnerPlaces

\* An operation that is handed the media, and the media it found before.
LEMMA HandedOut ==
  ASSUME NEW t \in FsThreads, FsInv, Acquires(t), Acquired(t) \/ Refused(t), th'[t].pc \in {"list", "body"}
  PROVE  Acquired(t) /\ th'[t].live = (known' = inSlot)
<1> USE DEF FsInv, ThreadTypes, Idle, InsidePlaces, OwnerPlaces
<1>1. th[t].pc = "begun"
  BY GivenOrNot DEF Acquires
<1>2. ~ Refused(t)
  BY <1>1 DEF Refused
<1>3. Acquired(t)
  BY <1>2
<1> QED
  BY <1>1, <1>3 DEF Acquired

\* The steps of an acquisition that leave the rest of the invariant to a few
\* facts: nobody else loses the media but as noted, and a media that is handed
\* out is open and answers.
LEMMA AcquireKeeps ==
  ASSUME NEW t \in FsThreads, FsInv, Acquires(t), AcquireUnchanged, Acquired(t) \/ Refused(t),
         known' \in FsCards \cup {"none", Flash}, volumes' = volumes, lxOpen' \in BOOLEAN, fsMounted' \in BOOLEAN,
         medium = "qspi" => known' = known,
         (fsMounted' = fsMounted) \/ ~ fsBusy,
         lost' = {}, raced \subseteq raced', raced' \subseteq FsThreads,
         \A u \in Users : u # t => fsMounted' \/ u \in raced',
         Acquired(t) /\ th[t].pc = "begun" => fsMounted' /\ known' = inSlot
  PROVE  FsInv'
<1> USE DEF FsInv, AcquireUnchanged, slotVars, dirVars
<1>1. /\ ThreadTypes' /\ Others(t)
      /\ th[t].pc = "begun" => th'[t].pc \in {"list", "body", "ending"} /\ th'[t].cmd = th[t].cmd /\ th'[t].off = th[t].off
      /\ th[t].pc = "remount" => th'[t].pc = "idle" /\ th'[t].cmd = "none"
      /\ th[t].pc \in {"begun", "remount"}
  BY GivenOrNot DEF Acquires
<1>2. AdmissionInv'
  BY AdmissionOfAcquire
<1>3. FsTypeOK'
  BY <1>1, <1>2, InsideFiniteNext DEF FsTypeOK, AdmissionInv
<1>4. MediaInv'
  <2>1. ASSUME NEW u \in FsThreads, th'[u].pc \in {"raw", "formatting"}
        PROVE  ~ fsMounted'
    <3>1. u # t /\ th[u].pc \in {"raw", "formatting"}
      BY <1>1, <2>1 DEF Others
    <3>2. fsBusy /\ ~ fsMounted
      BY <3>1, OwnerSeesNone DEF Owners, OwnerPlaces, MediaInv
    <3> QED
      BY <3>2
  <2> QED
    BY <2>1 DEF MediaInv
<1>5. t \in Users' => fsMounted' /\ th'[t].live
  BY <1>1, HandedOut DEF Users
<1>6. \A u \in Users' : u # t => u \in Users /\ th'[u] = th[u]
  BY <1>1 DEF Users, Others
<1>7. MediaStaysOpen' /\ HandsOutLive'
  BY <1>5, <1>6 DEF MediaStaysOpen, HandsOutLive
<1>8. DirInv' /\ LoadsWhole'
  BY <1>1 DEF DirInv, ListsAlone, LoadsWhole, Others
<1> QED
  BY <1>1, <1>2, <1>3, <1>4, <1>7, <1>8

\* What an eviction does to the others.
LEMMA Evicted ==
  ASSUME NEW t \in FsThreads, FsInv, Acquires(t), MayEvict, CloseUnder(t)
  PROVE  lost' = {} /\ raced \subseteq raced' /\ raced' \subseteq FsThreads /\ \A u \in Users : u # t => u \in raced'
<1> USE DEF FsInv, MediaStaysOpen, FsTypeOK
<1>1. Users \subseteq FsThreads
  BY DEF Users
<1>2. CASE th[t].pc = "remount"
  BY <1>1, <1>2 DEF CloseUnder
<1>3. CASE th[t].pc = "begun"
  <2>1. Users \ {t} = {}
    BY <1>3, AloneInside DEF MayEvict, Inside, InsidePlaces
  <2> QED
    BY <1>3, <2>1 DEF CloseUnder
<1> QED
  BY <1>2, <1>3 DEF Acquires

LEMMA AcquireCardKeeps ==
  ASSUME NEW t \in FsThreads, FsInv, AcquireCard(t)
  PROVE  FsInv'
<1>1. /\ known \in FsCards \cup {"none", Flash} /\ inSlot \in FsCards \cup {"none", Flash}
      /\ lxOpen \in BOOLEAN /\ fsMounted \in BOOLEAN /\ fsBusy \in BOOLEAN /\ lost = {} /\ raced \subseteq FsThreads
      /\ \A u \in Users : fsMounted \/ u \in raced
      /\ medium = "sd"
  BY DEF AcquireCard, FsInv, FsTypeOK, MediaStaysOpen
<1>2. PICK old \in BOOLEAN :
        /\ MayFindStale(old)
        /\ IF fsBusy \/ (old /\ ~ MayEvict)
           THEN Refused(t) /\ UNCHANGED <<mediaVars, lost, raced>>
           ELSE /\ IF old THEN CloseUnder(t) ELSE UNCHANGED <<lost, raced>>
                /\ CASE inSlot = "none" ->
                            /\ fsMounted' = FALSE /\ known' = (IF old THEN "none" ELSE known)
                            /\ UNCHANGED <<volumes, lxOpen>> /\ Refused(t)
                     [] inSlot # "none" /\ fsMounted /\ ~ old -> UNCHANGED mediaVars /\ Acquired(t)
                     [] OTHER -> OpenCard /\ Given(t)
  BY DEF AcquireCard
<1>3. Acquires(t) /\ AcquireUnchanged
  BY DEF AcquireCard
<1> USE <1>2, <1>3 DEF mediaVars
<1>4. CASE fsBusy \/ (old /\ ~ MayEvict)
  <2>1. ~ (Acquired(t) /\ th[t].pc = "begun")
    BY <1>4 DEF Acquired, Refused, FsInv, ThreadTypes
  <2> QED
    BY <1>1, <1>4, <2>1, AcquireKeeps
<1>5. CASE ~ fsBusy /\ (old => MayEvict)
  <2>1. /\ lost' = {} /\ raced \subseteq raced' /\ raced' \subseteq FsThreads
        /\ old => \A u \in Users : u # t => u \in raced'
    BY <1>1, <1>5, Evicted
  <2>2. ~ old => \A u \in Users : fsMounted \/ u \in raced'
    BY <1>1, <2>1
  <2>3. CASE inSlot = "none"
    <3>1. ~ old => ~ fsMounted
      BY <2>3 DEF MayFindStale, Reachable
    <3>2. /\ fsMounted' = FALSE /\ known' \in {"none", known} /\ volumes' = volumes /\ lxOpen' = lxOpen /\ Refused(t)
      BY <1>5, <2>3
    <3>3. ~ (Acquired(t) /\ th[t].pc = "begun")
      BY <3>2 DEF Acquired, Refused, FsInv, ThreadTypes
    <3>4. \A u \in Users : u # t => u \in raced'
      BY <2>1, <2>2, <3>1
    <3> QED
      BY <1>1, <1>5, <2>1, <3>2, <3>3, <3>4, AcquireKeeps
  <2>4. CASE inSlot # "none" /\ fsMounted /\ ~ old
    <3>1. UNCHANGED mediaVars /\ Acquired(t) /\ known' = inSlot
      BY <1>5, <2>4 DEF MayFindStale, Reachable
    <3> QED
      BY <1>1, <1>5, <2>1, <2>4, <3>1, AcquireKeeps
  <2>5. CASE inSlot # "none" /\ ~ (fsMounted /\ ~ old)
    <3>1. OpenCard /\ Given(t)
      BY <1>5, <2>5
    <3>2. \A u \in Users : u # t => u \in raced'
      BY <2>1, <2>2, <2>5
    <3>3. Acquired(t) /\ th[t].pc = "begun" => fsMounted'
      BY <3>1 DEF Given, Acquired, Refused, FsInv, ThreadTypes
    <3> QED
      BY <1>1, <1>5, <2>1, <3>1, <3>2, <3>3, AcquireKeeps DEF OpenCard, Given
  <2> QED
    BY <2>3, <2>4, <2>5
<1> QED
  BY <1>4, <1>5

LEMMA AcquireFlashKeeps ==
  ASSUME NEW t \in FsThreads, FsInv, AcquireFlash(t)
  PROVE  FsInv'
<1> USE DEF AcquireFlash, mediaVars
<1>1. /\ known = Flash /\ inSlot = Flash
      /\ lxOpen \in BOOLEAN /\ fsMounted \in BOOLEAN /\ fsBusy \in BOOLEAN /\ lost = {} /\ raced \subseteq FsThreads
      /\ \A u \in Users : fsMounted \/ u \in raced
  BY DEF FsInv, FsTypeOK, MediaStaysOpen, MediaInv
<1>2. CASE fsBusy
  <2>1. ~ (Acquired(t) /\ th[t].pc = "begun")
    BY <1>2 DEF Acquired, Refused, FsInv, ThreadTypes
  <2> QED
    BY <1>1, <1>2, <2>1, AcquireKeeps
<1>3. CASE ~ fsBusy /\ fsMounted
  BY <1>1, <1>3, AcquireKeeps
<1>4. CASE ~ fsBusy /\ ~ fsMounted
  <2>1. OpenFlash /\ Given(t)
    BY <1>4
  <2>2. Acquired(t) /\ th[t].pc = "begun" => fsMounted'
    BY <2>1 DEF Given, Acquired, Refused, FsInv, ThreadTypes
  <2> QED
    BY <1>1, <1>4, <2>1, <2>2, AcquireKeeps DEF OpenFlash, Given
<1> QED
  BY <1>1, <1>2, <1>3, <1>4

LEMMA SwapKeeps ==
  ASSUME FsInv, Swap
  PROVE  FsInv'
<1> USE DEF FsInv, Swap, dirVars
<1>1. FsTypeOK' /\ MediaInv'
  BY DEF FsTypeOK, MediaInv, Flash
<1>2. ThreadTypes' /\ AdmissionInv'
  BY DEF ThreadTypes, AdmissionInv, Inside, Owners
<1>3. MediaStaysOpen' /\ HandsOutLive' /\ DirInv' /\ LoadsWhole'
  BY DEF MediaStaysOpen, HandsOutLive, Users, DirInv, ListsAlone, LoadsWhole
<1> QED
  BY <1>1, <1>2, <1>3

LEMMA StutterKeepsFs ==
  ASSUME FsInv, UNCHANGED fsVars
  PROVE  FsInv'
<1> USE DEF FsInv, fsVars, slotVars, mediaVars, dirVars
<1>1. FsTypeOK' /\ MediaInv'
  BY DEF FsTypeOK, MediaInv
<1>2. ThreadTypes' /\ AdmissionInv'
  BY DEF ThreadTypes, AdmissionInv, Inside, Owners
<1>3. MediaStaysOpen' /\ HandsOutLive' /\ DirInv' /\ LoadsWhole'
  BY DEF MediaStaysOpen, HandsOutLive, Users, DirInv, ListsAlone, LoadsWhole
<1> QED
  BY <1>1, <1>2, <1>3

\* FsInv is inductive.
LEMMA FsInvHolds == FsSpec => []FsInv
<1>1. FsInit => FsInv
  <2> SUFFICES ASSUME FsInit
               PROVE  FsInv
    OBVIOUS
  <2> USE DEF FsInit, FsInv, Idle
  <2>1. Inside = {} /\ Owners = {} /\ Users = {} /\ Cardinality(Inside) = 0
    BY FS_EmptySet DEF Inside, Owners, Users, InsidePlaces, OwnerPlaces
  <2>2. FsTypeOK /\ MediaInv
    BY <2>1, InsideFinite, FsAssumption DEF FsTypeOK, MediaInv
  <2>3. ThreadTypes /\ AdmissionInv
    BY <2>1 DEF ThreadTypes, AdmissionInv
  <2>4. MediaStaysOpen /\ HandsOutLive /\ DirInv /\ LoadsWhole
    BY <2>1 DEF MediaStaysOpen, HandsOutLive, DirInv, ListsAlone, LoadsWhole
  <2> QED
    BY <2>2, <2>3, <2>4
<1>2. FsInv /\ [FsNext]_fsVars => FsInv'
  <2> SUFFICES ASSUME FsInv, [FsNext]_fsVars
               PROVE  FsInv'
    OBVIOUS
  <2>1. CASE Swap
    BY <2>1, SwapKeeps
  <2>2. ASSUME NEW t \in FsThreads, BeginOp(t) \/ BeginOwner(t) \/ FsStep(t)
        PROVE  FsInv'
    BY <2>2, BeginKeeps, UseKeeps, LoadKeeps, OwnerKeeps, ReleaseKeeps, AcquireCardKeeps, AcquireFlashKeeps DEF FsStep
  <2>3. CASE UNCHANGED fsVars
    BY <2>3, StutterKeepsFs
  <2> QED
    BY <2>1, <2>2, <2>3 DEF FsNext
<1> QED
  BY <1>1, <1>2, PTL DEF FsSpec

\* However commands of any number of threads and card swaps interleave,
\* nobody closes media in use but the remount after a format, formats and raw
\* accesses are alone, listings do not mix, and what is handed out answers.
THEOREM MediaStaysInHand == FsSpec => []FsSound
<1>1. FsInv => FsSound
  <2>1. ASSUME FsInv
        PROVE  OwnerAlone
    BY <2>1, OwnerSeesNone DEF FsInv, OwnerAlone, MediaInv, Owners, OwnerPlaces
  <2> QED
    BY <2>1 DEF FsInv, FsSound, DirInv
<1> QED
  BY <1>1, FsInvHolds, PTL

------------------------------------------------------------------------------
(* QspiFlash: what an operation that succeeds promises.                     *)

\* A division is the only one.
LEMMA UniqueQuotient ==
  ASSUME NEW p \in Nat \ {0}, NEW d \in Int, p * d < p, -p < p * d
  PROVE  d = 0
<1>1. CASE d >= 1
  <2>1. p * d >= p
    BY <1>1
  <2> QED
    BY <2>1
<1>2. CASE d <= -1
  <2>1. p * d <= -p
    BY <1>2
  <2> QED
    BY <2>1
<1> QED
  BY <1>1, <1>2

\* An offset within the rest of the page stays in it.
LEMMA OffsetInPage ==
  ASSUME NEW at \in Nat, NEW i \in Nat, i < QfPage - (at % QfPage)
  PROVE  (at \div QfPage) * QfPage + ((at + i) % QfPage) = at + i
<1> DEFINE q == at \div QfPage
           u == (at + i) \div QfPage
<1>1. QfPage \in Nat \ {0}
  BY QfAssumption
<1>2. q \in Int /\ at % QfPage \in Int /\ 0 <= at % QfPage /\ at = QfPage * q + (at % QfPage)
  BY <1>1
<1>3. u \in Int /\ (at + i) % QfPage \in 0 .. QfPage - 1 /\ at + i = QfPage * u + ((at + i) % QfPage)
  BY <1>1
<1> HIDE DEF q, u
<1>4. QfPage * (u - q) = QfPage * u - QfPage * q
  BY <1>1, <1>2, <1>3
<1>5. QfPage * (u - q) < QfPage /\ -QfPage < QfPage * (u - q)
  BY <1>1, <1>2, <1>3, <1>4
<1>6. u = q
  BY <1>1, <1>2, <1>3, <1>5, UniqueQuotient
<1>7. q * QfPage = QfPage * q
  BY <1>1, <1>2
<1> QED
  BY <1>1, <1>2, <1>3, <1>6, <1>7 DEF q

\* One page program covers its chunk, and no other cell.
LEMMA ChunkIsRange ==
  ASSUME NEW at \in Nat, NEW len \in Nat
  PROVE  /\ Chunk1(at, len) \in Nat /\ Chunk1(at, len) <= len
         /\ Wrapped(at, Chunk1(at, len)) = at .. at + Chunk1(at, len) - 1
<1> DEFINE n == Chunk1(at, len)
<1>1. QfPage \in Nat \ {0} /\ at % QfPage \in 0 .. QfPage - 1
  BY QfAssumption
<1>2. n \in Nat /\ n <= len /\ n <= QfPage - (at % QfPage)
  BY <1>1 DEF Chunk1
<1> HIDE DEF n
<1>3. \A i \in 0 .. n - 1 : (at \div QfPage) * QfPage + ((at + i) % QfPage) = at + i
  <2>1. \A i \in 0 .. n - 1 : i \in Nat /\ i < QfPage - (at % QfPage)
    BY <1>1, <1>2
  <2> QED
    BY <2>1, OffsetInPage
<1>4. Wrapped(at, n) = {at + i : i \in 0 .. n - 1}
  BY <1>3 DEF Wrapped
<1>5. {at + i : i \in 0 .. n - 1} = at .. at + n - 1
  <2>1. \A c \in at .. at + n - 1 : c - at \in 0 .. n - 1 /\ c = at + (c - at)
    BY <1>2
  <2>2. \A i \in 0 .. n - 1 : at + i \in at .. at + n - 1
    BY <1>2
  <2> QED
    BY <2>1, <2>2
<1> QED
  BY <1>2, <1>4, <1>5 DEF n

\* The types of the flash and of the operation under the lock.
QfKinds == {"program", "erase", "read", "quad", "default"}
QfPcs == {"wren", "wel", "cmd", "wait", "fsr", "verify", "end"}
QfOperations == [pc : QfPcs, kind : QfKinds, from : Nat, at : Nat, len : Nat, ok : BOOLEAN]
QfTypes ==
  /\ mem \in [Cells -> {"ff", "new", "old"}] /\ before \in [Cells -> {"ff", "new", "old"}]
  /\ wip.what \in {"no", "program", "erase", "vcr"}
  /\ wel \in BOOLEAN /\ fsr \in BOOLEAN /\ quad \in BOOLEAN /\ met \in BOOLEAN /\ left \in BOOLEAN
  /\ vcr \in {"quad", "default"} /\ qready \in {"booting", "yes", "off"}
  /\ qf = QfIdle \/ qf \in QfOperations

\* quad_setup() runs until the driver is up or off, and succeeds only with the
\* register as it wants it.
TimingInv ==
  /\ TimingKnown
  /\ qready = "booting" <=> (~ QfAt("idle") /\ SettingUp)
  /\ QfAt("verify") => qready = "booting"
  /\ QfAt("fsr") => qready # "booting"
  /\ qready = "off" => QfAt("idle")
  /\ qready = "booting" /\ QfAt("end") /\ qf.ok => vcr = qf.kind

\* Only an operation that waits has the device at work without anybody having
\* given up on it; one that met nobody's work has it for itself.
BusyInv ==
  /\ Working /\ ~ left => QfAt("wait")
  /\ ~ QfAt("idle") /\ qready = "yes" /\ ~ met =>
        /\ Working => QfAt("wait") \/ (QfAt("end") /\ ~ qf.ok)
        /\ (QfAt("wel") \/ QfAt("cmd")) /\ qf.kind # "read" => wel

\* The blank cells before k are filled, and nothing else has changed.
FilledTo(k) ==
  \A c \in Cells : IF c \in qf.from .. k - 1 THEN before[c] = "ff" => mem[c] = "new"
                                             ELSE mem[c] = before[c]
ChunkEnd == qf.at + Chunk1(qf.at, qf.len)

\* How far an operation that met nobody's work has come.
ProgressInv ==
  ~ QfAt("idle") /\ qready = "yes" /\ ~ met =>
    /\ qf.from <= qf.at
    /\ qf.kind = "read" => QfAt("cmd") \/ QfAt("end")
    /\ qf.kind = "program" =>
         /\ QfAt("wren") \/ QfAt("wel") \/ QfAt("cmd") => FilledTo(qf.at)
         /\ QfAt("wait") /\ Working => /\ wip.what = "program" /\ FilledTo(qf.at)
                                       /\ wip.cells = qf.at .. ChunkEnd - 1
         /\ (QfAt("wait") /\ ~ Working) \/ QfAt("fsr") => fsr \/ FilledTo(ChunkEnd)
         /\ QfAt("end") /\ qf.ok => FilledTo(qf.at + qf.len)
    /\ qf.kind = "erase" =>
         /\ QfAt("wait") /\ Working => wip.what = "erase" /\ wip.cells = Cells
         /\ (QfAt("wait") /\ ~ Working) \/ QfAt("fsr") => fsr \/ \A c \in Cells : mem[c] = "ff"
         /\ QfAt("end") /\ qf.ok => \A c \in Cells : mem[c] = "ff"

QfInv == QfTypes /\ TimingInv /\ BusyInv /\ ProgressInv

\* An operation that moves on, or ends, is the same operation.
LEMMA SameOperation ==
  ASSUME QfTypes, ~ QfAt("idle"), NEW p \in QfPcs, NEW ok \in BOOLEAN
  PROVE  /\ qf \in QfOperations
         /\ QfGo(p) => /\ qf'.pc = p /\ qf'.kind = qf.kind /\ qf'.from = qf.from /\ qf'.at = qf.at
                       /\ qf'.len = qf.len /\ qf'.ok = qf.ok
                       /\ qf' \in QfOperations
         /\ QfEnds(ok) => /\ qf'.pc = "end" /\ qf'.kind = qf.kind /\ qf'.from = qf.from /\ qf'.at = qf.at
                          /\ qf'.len = qf.len /\ qf'.ok = ok
                          /\ qf' \in QfOperations
<1>1. qf # QfIdle
  BY DEF QfAt, QfIdle
<1>2. qf \in QfOperations
  BY <1>1 DEF QfTypes, QfOperations
<1>3. ASSUME QfGo(p)
      PROVE  /\ qf'.pc = p /\ qf'.kind = qf.kind /\ qf'.from = qf.from /\ qf'.at = qf.at
             /\ qf'.len = qf.len /\ qf'.ok = qf.ok
             /\ qf' \in QfOperations
  BY <1>2, <1>3 DEF QfGo, QfOperations
<1>4. ASSUME QfEnds(ok)
      PROVE  /\ qf'.pc = "end" /\ qf'.kind = qf.kind /\ qf'.from = qf.from /\ qf'.at = qf.at
             /\ qf'.len = qf.len /\ qf'.ok = ok
             /\ qf' \in QfOperations
  BY <1>2, <1>4 DEF QfEnds, QfPcs, QfOperations
<1> QED
  BY <1>2, <1>3, <1>4

\* A fresh operation.
LEMMA FreshOperation ==
  ASSUME NEW k \in QfKinds, NEW at \in Nat, NEW len \in Nat
  PROVE  /\ NewOp(k, at, len).pc = "wren" /\ NewOp(k, at, len).kind = k /\ NewOp(k, at, len).from = at
         /\ NewOp(k, at, len).at = at /\ NewOp(k, at, len).len = len /\ NewOp(k, at, len).ok = FALSE
         /\ NewOp(k, at, len) \in QfOperations
BY DEF NewOp, QfPcs, QfOperations

LEMMA QfInitInv == QfInit => QfInv
<1> SUFFICES ASSUME QfInit PROVE QfInv
  OBVIOUS
<1>1. qf = NewOp("quad", 0, 0) /\ "quad" \in QfKinds
  BY DEF QfInit, QfKinds
<1>2. qf.pc = "wren" /\ qf.kind = "quad" /\ qf \in QfOperations
  BY <1>1 DEF NewOp, QfPcs, QfKinds, QfOperations
<1>3. QfTypes
  BY <1>2 DEF QfInit, QfTypes, QfPcs, NoWip, Wip
<1>4. TimingInv
  BY <1>2 DEF QfInit, TimingInv, TimingKnown, SettingUp, QfAt
<1>5. BusyInv
  BY <1>2 DEF QfInit, BusyInv, Working, NoWip, Wip
<1>6. ProgressInv
  BY DEF QfInit, ProgressInv
<1> QED
  BY <1>3, <1>4, <1>5, <1>6 DEF QfInv

\* An operation that gives up promises nothing, and says if the device works on.
LEMMA GivesUp ==
  ASSUME QfInv, ~ QfAt("idle"), QfEnds(FALSE), Leaves, UNCHANGED <<chipVars, readyVars, before>>,
         met' \in BOOLEAN, met => met'
  PROVE  QfInv'
<1> USE DEF QfInv
<1>1. /\ qf'.pc = "end" /\ qf'.kind = qf.kind /\ qf'.from = qf.from /\ qf'.at = qf.at /\ qf'.ok = FALSE
      /\ qf'.len = qf.len /\ qf' \in QfOperations
  BY SameOperation DEF QfPcs
<1>2. UNCHANGED <<mem, wip, wel, fsr, vcr, qready, quad, before>>
  BY DEF chipVars, readyVars
<1>3. QfTypes'
  BY <1>1, <1>2 DEF QfTypes, Working, Leaves
<1>4. TimingInv'
  BY <1>1, <1>2 DEF TimingInv, TimingKnown, SettingUp, QfAt
<1>5. BusyInv'
  BY <1>1, <1>2 DEF BusyInv, Working, QfAt, QfTypes, Leaves
<1>6. ProgressInv'
  BY <1>1, <1>2 DEF ProgressInv, FilledTo, Working, QfAt, QfTypes
<1> QED
  BY <1>3, <1>4, <1>5, <1>6

\* write_enable() sets the latch only of a device at rest ...
LEMMA WriteEnableQf == QfInv /\ WriteEnable => QfInv'
<1> SUFFICES ASSUME QfInv, WriteEnable PROVE QfInv'
  OBVIOUS
<1> USE DEF QfInv
<1>1. QfAt("wren") /\ ~ QfAt("idle")
  BY DEF WriteEnable, QfAt
<1>2. UNCHANGED <<mem, wip, fsr, vcr, qready, quad, before>>
  BY DEF WriteEnable, readyVars
<1>3. CASE QfGo("wel") /\ wel' = (wel \/ ~ Working) /\ met' = (met \/ Working) /\ UNCHANGED <<left, qfFaults>>
  <2>1. /\ qf'.pc = "wel" /\ qf'.kind = qf.kind /\ qf'.from = qf.from /\ qf'.at = qf.at
        /\ qf'.len = qf.len /\ qf' \in QfOperations
    BY <1>1, <1>3, SameOperation DEF QfPcs
  <2>2. QfTypes'
    BY <1>2, <1>3, <2>1 DEF QfTypes, Working
  <2>3. TimingInv'
    BY <1>1, <1>2, <2>1 DEF TimingInv, TimingKnown, SettingUp, QfAt
  <2>4. BusyInv'
    BY <1>1, <1>2, <1>3, <2>1 DEF BusyInv, Working, QfAt, QfTypes
  <2>5. ProgressInv'
    BY <1>1, <1>2, <1>3, <2>1 DEF ProgressInv, FilledTo, Working, QfAt, QfTypes
  <2> QED
    BY <2>2, <2>3, <2>4, <2>5
<1>4. CASE BusFails /\ QfEnds(FALSE) /\ Leaves /\ UNCHANGED <<wel, met>>
  BY <1>1, <1>2, <1>4, GivesUp DEF QfTypes, chipVars, readyVars
<1> QED
  BY <1>3, <1>4 DEF WriteEnable

\* ... and reads it back.
LEMMA ReadBackQf == QfInv /\ ReadBackWel => QfInv'
<1> SUFFICES ASSUME QfInv, ReadBackWel PROVE QfInv'
  OBVIOUS
<1> USE DEF QfInv
<1>1. QfAt("wel") /\ ~ QfAt("idle")
  BY DEF ReadBackWel, QfAt
<1>2. UNCHANGED <<mem, wip, wel, fsr, vcr, qready, quad, before, met>>
  BY DEF ReadBackWel, readyVars, chipVars
<1>3. CASE QfEnds(FALSE) /\ Leaves
  BY <1>1, <1>2, <1>3, GivesUp DEF QfTypes, chipVars, readyVars
<1>4. CASE wel /\ QfGo("cmd") /\ UNCHANGED left
  <2>1. /\ qf'.pc = "cmd" /\ qf'.kind = qf.kind /\ qf'.from = qf.from /\ qf'.at = qf.at
        /\ qf'.len = qf.len /\ qf' \in QfOperations
    BY <1>1, <1>4, SameOperation DEF QfPcs
  <2>2. QfTypes'
    BY <1>2, <1>4, <2>1 DEF QfTypes
  <2>3. TimingInv'
    BY <1>1, <1>2, <2>1 DEF TimingInv, TimingKnown, SettingUp, QfAt
  <2>4. BusyInv'
    BY <1>1, <1>2, <1>4, <2>1 DEF BusyInv, Working, QfAt
  <2>5. ProgressInv'
    BY <1>1, <1>2, <1>4, <2>1 DEF ProgressInv, FilledTo, Working, QfAt
  <2> QED
    BY <2>2, <2>3, <2>4, <2>5
<1> QED
  BY <1>3, <1>4 DEF ReadBackWel

\* The command of one chunk, to a device that is at rest and has the latch, or
\* else to one that ignores it.
LEMMA CommandQf == QfInv /\ QfCommand => QfInv'
<1> SUFFICES ASSUME QfInv, QfCommand PROVE QfInv'
  OBVIOUS
<1> USE DEF QfInv
<1>1. QfAt("cmd") /\ ~ QfAt("idle")
  BY DEF QfCommand, QfAt
<1>2. UNCHANGED <<mem, wel, fsr, qready, quad, before>> /\ met' = (met \/ Working)
  BY DEF QfCommand, readyVars
<1> DEFINE cells == IF qf.kind = "erase" THEN Cells
                    ELSE IF qf.kind = "program" THEN Wrapped(qf.at, Chunk1(qf.at, qf.len)) ELSE {}
           listens == ~ (Working \/ ~ wel \/ qf.kind = "read")
<1>3. CASE QfEnds(FALSE) /\ Leaves /\ UNCHANGED <<wip, vcr>>
  BY <1>1, <1>2, <1>3, GivesUp DEF QfTypes, chipVars, readyVars, Working
<1>4. CASE qf.kind = "read" /\ QfEnds(TRUE) /\ Leaves /\ UNCHANGED <<wip, vcr>>
  <2>1. /\ qf'.pc = "end" /\ qf'.kind = qf.kind /\ qf'.from = qf.from /\ qf'.at = qf.at
        /\ qf'.len = qf.len /\ qf' \in QfOperations
    BY <1>1, <1>4, SameOperation DEF QfPcs
  <2>2. QfTypes'
    BY <1>2, <1>4, <2>1 DEF QfTypes, Leaves, Working
  <2>3. TimingInv'
    BY <1>1, <1>2, <1>4, <2>1 DEF TimingInv, TimingKnown, SettingUp, QfAt
  <2>4. BusyInv'
    BY <1>1, <1>2, <1>4, <2>1 DEF BusyInv, Working, QfAt, Leaves, QfTypes
  <2>5. ProgressInv'
    BY <1>1, <1>2, <1>4, <2>1 DEF ProgressInv, QfAt, QfTypes
  <2> QED
    BY <2>2, <2>3, <2>4, <2>5
<1>5. CASE qf.kind # "read" /\ QfGo("wait") /\ UNCHANGED left /\ ~ listens /\ UNCHANGED <<wip, vcr>>
  <2>1. /\ qf'.pc = "wait" /\ qf'.kind = qf.kind /\ qf'.from = qf.from /\ qf'.at = qf.at
        /\ qf'.len = qf.len /\ qf' \in QfOperations
    BY <1>1, <1>5, SameOperation DEF QfPcs
  <2>2. QfTypes'
    BY <1>2, <1>5, <2>1 DEF QfTypes, Working
  <2>3. TimingInv'
    BY <1>1, <1>2, <1>5, <2>1 DEF TimingInv, TimingKnown, SettingUp, QfAt
  <2>4. BusyInv'
    BY <1>1, <1>2, <1>5, <2>1 DEF BusyInv, Working, QfAt, QfTypes
  <2>5. ProgressInv'
    BY <1>1, <1>2, <1>5, <2>1 DEF ProgressInv, BusyInv, Working, QfAt, QfTypes
  <2> QED
    BY <2>2, <2>3, <2>4, <2>5
<1>6. CASE /\ qf.kind # "read" /\ QfGo("wait") /\ UNCHANGED left /\ listens
           /\ wip' = Wip(IF SettingUp THEN "vcr" ELSE qf.kind, cells)
           /\ vcr' = IF SettingUp THEN qf.kind ELSE vcr
  <2>1. /\ qf'.pc = "wait" /\ qf'.kind = qf.kind /\ qf'.from = qf.from /\ qf'.at = qf.at
        /\ qf'.len = qf.len /\ qf' \in QfOperations
    BY <1>1, <1>6, SameOperation DEF QfPcs
  <2>2. qf \in QfOperations
    BY <1>1, SameOperation DEF QfPcs
  <2>3. wip'.what = (IF SettingUp THEN "vcr" ELSE qf.kind) /\ wip'.cells = cells
    BY <1>6 DEF Wip
  <2>4. Working' /\ wip'.what \in {"program", "erase", "vcr"}
    BY <1>6, <2>2, <2>3 DEF QfOperations, QfKinds, SettingUp, Working
  <2>5. QfTypes'
    BY <1>2, <1>6, <2>1, <2>2, <2>4 DEF QfTypes, Working, QfOperations, QfKinds, SettingUp
  <2>6. TimingInv'
    BY <1>1, <1>2, <1>6, <2>1 DEF TimingInv, TimingKnown, SettingUp, QfAt
  <2>7. BusyInv'
    BY <1>1, <1>2, <1>6, <2>1 DEF BusyInv, Working, QfAt
  <2>8. ProgressInv'
    <3>1. CASE qf.kind = "program"
      <4>0. qf.at \in Nat /\ qf.len \in Nat
        BY <2>2 DEF QfOperations
      <4>6. Wrapped(qf.at, Chunk1(qf.at, qf.len)) = qf.at .. ChunkEnd - 1
        <5>1. Wrapped(qf.at, Chunk1(qf.at, qf.len)) = qf.at .. qf.at + Chunk1(qf.at, qf.len) - 1
          BY <4>0, ChunkIsRange, Zenon
        <5>2. Chunk1(qf.at, qf.len) \in Nat
          BY <4>0, ChunkIsRange
        <5>3. ChunkEnd - 1 = qf.at + Chunk1(qf.at, qf.len) - 1
          BY <4>0, <5>2 DEF ChunkEnd
        <5> QED
          BY <5>1, <5>3
      <4>1. wip'.what = "program" /\ wip'.cells = qf.at .. ChunkEnd - 1
        BY <2>3, <3>1, <4>6 DEF SettingUp
      <4>2. ChunkEnd' = ChunkEnd
        BY <2>1 DEF ChunkEnd
      <4>3. FilledTo(qf.at)' <=> FilledTo(qf.at)
        BY <1>2, <2>1 DEF FilledTo
      <4>4. QfAt("wait")' /\ ~ QfAt("end")' /\ ~ QfAt("fsr")' /\ ~ QfAt("wren")' /\ ~ QfAt("wel")' /\ ~ QfAt("cmd")'
        BY <2>1 DEF QfAt
      <4>5. qready' = "yes" /\ ~ met' => qf.from <= qf.at /\ FilledTo(qf.at)
        BY <1>1, <1>2, <3>1 DEF ProgressInv, QfTypes
      <4> QED
        BY <2>1, <2>4, <3>1, <4>1, <4>2, <4>3, <4>4, <4>5 DEF ProgressInv
    <3>2. CASE qf.kind # "program"
      BY <1>1, <1>2, <1>6, <2>1, <2>3, <2>4, <3>2 DEF ProgressInv, SettingUp, QfAt, QfTypes
    <3> QED
      BY <3>1, <3>2
  <2> QED
    BY <2>5, <2>6, <2>7, <2>8
<1> QED
  BY <1>3, <1>4, <1>5, <1>6 DEF QfCommand
\* The device ends its work: what waits for it finds its chunk done, or the flag.
LEMMA DoneQf == QfInv /\ QfDone => QfInv'
<1> SUFFICES ASSUME QfInv, QfDone PROVE QfInv'
  OBVIOUS
<1> USE DEF QfInv
<1>1. UNCHANGED <<vcr, qready, quad, qf, before, met>> /\ Working /\ wip'.what = "no" /\ left' = FALSE /\ wel' = FALSE
  BY DEF QfDone, readyVars, NoWip, Wip
<1>2. ~ Working'
  BY <1>1 DEF Working
<1>3. /\ mem' \in [Cells -> {"ff", "new", "old"}] /\ fsr' \in BOOLEAN
      /\ \A c \in Cells : c \notin wip.cells => mem'[c] = mem[c]
      /\ ~ fsr' => \A c \in Cells : c \in wip.cells =>
            mem'[c] = IF wip.what = "erase" THEN "ff" ELSE IF mem[c] = "ff" THEN "new" ELSE "old"
  <2>1. CASE mem' = [c \in Cells |-> IF c \notin wip.cells THEN mem[c]
                                     ELSE IF wip.what = "erase" THEN "ff"
                                     ELSE IF mem[c] = "ff" THEN "new" ELSE "old"] /\ UNCHANGED fsr
    BY <2>1 DEF QfTypes
  <2>2. CASE fsr' = TRUE /\ mem' = [c \in Cells |-> IF c \in wip.cells THEN "old" ELSE mem[c]]
    BY <2>2 DEF QfTypes
  <2> QED
    BY <2>1, <2>2 DEF QfDone
<1>4. QfTypes'
  BY <1>1, <1>3 DEF QfTypes
<1>5. TimingInv'
  BY <1>1 DEF TimingInv, TimingKnown, SettingUp, QfAt
<1>6. ~ QfAt("idle") /\ qready = "yes" /\ ~ met => QfAt("wait") \/ (QfAt("end") /\ ~ qf.ok)
  BY <1>1 DEF BusyInv
<1>7. BusyInv'
  BY <1>1, <1>2, <1>6 DEF BusyInv, QfAt
<1>8. ASSUME ~ QfAt("idle"), qready = "yes", ~ met, QfAt("wait"), qf.kind = "program"
      PROVE  fsr' \/ FilledTo(ChunkEnd)'
  <2>1. FilledTo(qf.at) /\ wip.what = "program" /\ wip.cells = qf.at .. ChunkEnd - 1 /\ qf.from <= qf.at
    BY <1>1, <1>8 DEF ProgressInv
  <2>2. qf \in QfOperations /\ qf.from \in Nat /\ qf.at \in Nat /\ qf.len \in Nat
    BY <1>8, SameOperation DEF QfPcs, QfOperations
  <2>7. Chunk1(qf.at, qf.len) \in Nat
    BY <2>2, ChunkIsRange
  <2>3. ChunkEnd \in Nat /\ qf.at <= ChunkEnd
    BY <2>2, <2>7 DEF ChunkEnd
  <2>4. \A c \in Cells : c \in Int
    BY QfAssumption DEF Cells
  <2> HIDE DEF ChunkEnd
  <2>5. ASSUME ~ fsr', NEW c \in Cells
        PROVE  IF c \in qf.from .. ChunkEnd - 1 THEN before[c] = "ff" => mem'[c] = "new" ELSE mem'[c] = before[c]
    <3>1. CASE c \in qf.at .. ChunkEnd - 1
      BY <1>3, <2>1, <2>2, <2>3, <2>4, <2>5, <3>1 DEF FilledTo
    <3>2. CASE c \notin qf.at .. ChunkEnd - 1
      <4>1. mem'[c] = mem[c]
        BY <1>3, <2>1, <3>2
      <4>2. c \in qf.from .. ChunkEnd - 1 <=> c \in qf.from .. qf.at - 1
        BY <2>1, <2>2, <2>3, <2>4, <3>2
      <4> QED
        BY <2>1, <4>1, <4>2 DEF FilledTo
    <3> QED
      BY <3>1, <3>2
  <2>6. ChunkEnd' = ChunkEnd
    BY <1>1 DEF ChunkEnd
  <2> QED
    BY <1>1, <2>5, <2>6 DEF FilledTo
<1>9. ASSUME ~ QfAt("idle"), qready = "yes", ~ met, QfAt("wait"), qf.kind = "erase"
      PROVE  fsr' \/ \A c \in Cells : mem'[c] = "ff"
  BY <1>1, <1>3, <1>9 DEF ProgressInv
<1>10. QfTypes /\ (QfAt("idle")' <=> QfAt("idle")) /\ (QfAt("end")' <=> QfAt("end")) /\ (QfAt("cmd")' <=> QfAt("cmd"))
       /\ (QfAt("wait") => ~ QfAt("wren") /\ ~ QfAt("wel") /\ ~ QfAt("cmd") /\ ~ QfAt("fsr") /\ ~ QfAt("end"))
       /\ (QfAt("end") => ~ QfAt("wren") /\ ~ QfAt("wel") /\ ~ QfAt("cmd") /\ ~ QfAt("fsr") /\ ~ QfAt("wait"))
       /\ (QfAt("wait")' <=> QfAt("wait")) /\ (QfAt("fsr")' <=> QfAt("fsr"))
       /\ (QfAt("wren")' <=> QfAt("wren")) /\ (QfAt("wel")' <=> QfAt("wel"))
  BY <1>1 DEF QfAt
<1>11. ProgressInv'
  BY <1>1, <1>2, <1>6, <1>8, <1>9, <1>10 DEF ProgressInv
<1> QED
  BY <1>4, <1>5, <1>7, <1>11

\* wait_ready()
LEMMA WaitReadyQf == QfInv /\ WaitReady => QfInv'
<1> SUFFICES ASSUME QfInv, WaitReady PROVE QfInv'
  OBVIOUS
<1> USE DEF QfInv
<1>1. QfAt("wait") /\ ~ QfAt("idle")
  BY DEF WaitReady, QfAt
<1>2. UNCHANGED <<mem, wip, wel, fsr, vcr, qready, quad, before, met>>
  BY DEF WaitReady, readyVars, chipVars
<1>3. CASE QfEnds(FALSE) /\ Leaves
  BY <1>1, <1>2, <1>3, GivesUp DEF QfTypes, chipVars, readyVars
<1>4. CASE Ready /\ QfGo(IF SettingUp THEN "verify" ELSE "fsr") /\ UNCHANGED left
  <2> DEFINE p == IF SettingUp THEN "verify" ELSE "fsr"
  <2>1. /\ qf'.pc = p /\ qf'.kind = qf.kind /\ qf'.from = qf.from /\ qf'.at = qf.at
        /\ qf'.len = qf.len /\ qf' \in QfOperations
    BY <1>1, <1>4, SameOperation DEF QfPcs
  <2>2. ~ Working
    BY <1>4 DEF Ready
  <2>3. QfTypes'
    BY <1>2, <1>4, <2>1 DEF QfTypes
  <2>4. TimingInv'
    BY <1>1, <1>2, <2>1 DEF TimingInv, TimingKnown, SettingUp, QfAt
  <2>5. BusyInv'
    BY <1>1, <1>2, <2>1, <2>2 DEF BusyInv, Working, QfAt
  <2>6. ProgressInv'
    BY <1>1, <1>2, <2>1, <2>2 DEF ProgressInv, FilledTo, ChunkEnd, Working, QfAt
  <2> QED
    BY <2>3, <2>4, <2>5, <2>6
<1> QED
  BY <1>3, <1>4 DEF WaitReady

\* check_flag_status(): the next page follows, or the operation is done.
LEMMA CheckFlagsQf == QfInv /\ CheckFlags => QfInv'
<1> SUFFICES ASSUME QfInv, CheckFlags PROVE QfInv'
  OBVIOUS
<1> USE DEF QfInv
<1>1. QfAt("fsr") /\ ~ QfAt("idle")
  BY DEF CheckFlags, QfAt
<1>2. UNCHANGED <<mem, wip, wel, vcr, qready, quad, before, met>>
  BY DEF CheckFlags, readyVars
<1>3. qf \in QfOperations /\ qf.from \in Nat /\ qf.at \in Nat /\ qf.len \in Nat
  BY <1>1, SameOperation DEF QfPcs, QfOperations
<1> DEFINE n == Chunk1(qf.at, qf.len)
<1>4. n \in Nat /\ n <= qf.len /\ ChunkEnd = qf.at + n
  BY <1>3, ChunkIsRange DEF ChunkEnd
<1> HIDE DEF n
<1>5. CASE BusFails /\ QfEnds(FALSE) /\ Leaves /\ UNCHANGED fsr
  BY <1>1, <1>2, <1>5, GivesUp DEF QfTypes, chipVars, readyVars
<1>6. CASE fsr' = FALSE /\ ~ (~ fsr /\ qf.kind = "program" /\ n < qf.len) /\ QfEnds(~ fsr) /\ Leaves
  <2>1. fsr \in BOOLEAN
    BY DEF QfTypes
  <2>2. /\ qf'.pc = "end" /\ qf'.kind = qf.kind /\ qf'.from = qf.from /\ qf'.at = qf.at
        /\ qf'.len = qf.len /\ qf'.ok = ~ fsr /\ qf' \in QfOperations
    BY <1>1, <1>6, <2>1, SameOperation DEF QfPcs
  <2>3. QfTypes'
    BY <1>2, <1>6, <2>2 DEF QfTypes, Leaves, Working
  <2>4. TimingInv'
    BY <1>1, <1>2, <2>2 DEF TimingInv, TimingKnown, SettingUp, QfAt
  <2>5. BusyInv'
    BY <1>1, <1>2, <1>6, <2>2 DEF BusyInv, Working, QfAt, Leaves, QfTypes
  <2>6. qf.kind = "program" /\ ~ fsr => ChunkEnd = qf.at + qf.len
    BY <1>3, <1>4, <1>6
  <2>7. ProgressInv'
    BY <1>1, <1>2, <2>2, <2>6 DEF ProgressInv, FilledTo, QfAt
  <2> QED
    BY <2>3, <2>4, <2>5, <2>7
<1>7. CASE /\ fsr' = FALSE /\ ~ fsr /\ qf.kind = "program" /\ n < qf.len /\ UNCHANGED left
           /\ qf' = [qf EXCEPT !.pc = "wren", !.at = @ + n, !.len = @ - n]
  <2>0. qf.at + n \in Nat /\ qf.len - n \in Nat
    BY <1>3, <1>4
  <2>1. /\ qf'.pc = "wren" /\ qf'.kind = qf.kind /\ qf'.from = qf.from /\ qf'.at = qf.at + n
        /\ qf'.len = qf.len - n /\ qf' \in QfOperations
    BY <1>3, <1>7, <2>0 DEF QfOperations, QfPcs
  <2>2. QfTypes'
    BY <1>2, <1>7, <2>1 DEF QfTypes
  <2>3. TimingInv'
    BY <1>1, <1>2, <1>7, <2>1 DEF TimingInv, TimingKnown, SettingUp, QfAt
  <2>4. BusyInv'
    BY <1>1, <1>2, <1>7, <2>1 DEF BusyInv, Working, QfAt
  <2>5. ProgressInv'
    BY <1>1, <1>2, <1>3, <1>4, <1>7, <2>1 DEF ProgressInv, FilledTo, QfAt
  <2> QED
    BY <2>2, <2>3, <2>4, <2>5
<1> QED
  BY <1>5, <1>6, <1>7 DEF CheckFlags, n
\* The next operation, of a driver that is up.
LEMMA BeginQf == QfInv /\ QfBegin => QfInv'
<1> SUFFICES ASSUME QfInv, QfBegin PROVE QfInv'
  OBVIOUS
<1> USE DEF QfInv
<1>1. QfAt("idle") /\ qready = "yes"
  BY DEF QfBegin
<1>2. UNCHANGED <<wip, wel, fsr, vcr, qready, quad, left>> /\ met' = Working
  BY DEF QfBegin, readyVars
<1>3. /\ mem' \in [Cells -> {"ff", "new", "old"}] /\ before' = mem'
  BY DEF QfBegin, QfTypes
<1>4. /\ qf' \in QfOperations /\ qf'.kind \in {"program", "erase", "read"} /\ qf'.from = qf'.at
      /\ qf'.pc = IF qf'.kind = "read" THEN "cmd" ELSE "wren"
  <2>1. ASSUME NEW at \in Cells, NEW len \in 1 .. QfPage + 1, qf' = NewOp("program", at, len)
        PROVE  qf' \in QfOperations /\ qf'.kind = "program" /\ qf'.from = qf'.at /\ qf'.pc = "wren"
    <3>1. at \in Nat /\ len \in Nat
      BY QfAssumption DEF Cells
    <3> QED
      BY <2>1, <3>1 DEF NewOp, QfPcs, QfKinds, QfOperations
  <2>2. CASE qf' = NewOp("erase", 0, 0)
    BY <2>2 DEF NewOp, QfPcs, QfKinds, QfOperations
  <2>3. CASE qf' = [NewOp("read", 0, 0) EXCEPT !.pc = "cmd"]
    BY <2>3 DEF NewOp, QfPcs, QfKinds, QfOperations
  <2> QED
    BY <2>1, <2>2, <2>3 DEF QfBegin
<1>5. QfTypes'
  BY <1>2, <1>3, <1>4 DEF QfTypes, Working
<1>6. TimingInv'
  BY <1>1, <1>2, <1>4 DEF TimingInv, TimingKnown, SettingUp, QfAt
<1>7. BusyInv'
  BY <1>1, <1>2, <1>4 DEF BusyInv, Working, QfAt
<1>8. \A c \in Cells : c \in Int
  BY QfAssumption DEF Cells
<1>9. qf'.from \in Nat /\ qf'.at \in Nat
  BY <1>4 DEF QfOperations
<1>10. FilledTo(qf.at)'
  BY <1>3, <1>4, <1>8, <1>9 DEF FilledTo
<1>11. ProgressInv'
  BY <1>4, <1>9, <1>10 DEF ProgressInv, QfAt
<1> QED
  BY <1>5, <1>6, <1>7, <1>11

\* An operation returns; the work it left is somebody's.
LEMMA ReturnQf == QfInv /\ QfReturn => QfInv'
<1> SUFFICES ASSUME QfInv, QfReturn PROVE QfInv'
  OBVIOUS
<1> USE DEF QfInv
<1>1. QfAt("end") /\ ~ SettingUp /\ qf' = QfIdle /\ qf'.pc = "idle" /\ qf.pc # "idle"
  BY DEF QfReturn, QfIdle, QfAt
<1>2. UNCHANGED <<mem, wip, wel, fsr, vcr, qready, quad, before, met, left>>
  BY DEF QfReturn, readyVars, chipVars, ghostVars
<1>3. QfTypes'
  BY <1>1, <1>2 DEF QfTypes
<1>4. TimingInv'
  BY <1>1, <1>2 DEF TimingInv, TimingKnown, QfAt
<1>5. BusyInv'
  BY <1>1, <1>2 DEF BusyInv, Working, QfAt
<1>6. ProgressInv'
  BY <1>1 DEF ProgressInv, QfAt
<1> QED
  BY <1>3, <1>4, <1>5, <1>6

\* While quad_setup() runs only the timing is at stake.
LEMMA VerifyQf == QfInv /\ VerifyVcr => QfInv'
<1> SUFFICES ASSUME QfInv, VerifyVcr PROVE QfInv'
  OBVIOUS
<1> USE DEF QfInv
<1>1. QfAt("verify") /\ ~ QfAt("idle") /\ Leaves
  BY DEF VerifyVcr, QfAt
<1>2. UNCHANGED <<mem, wip, wel, fsr, vcr, qready, quad, before, met>>
  BY DEF VerifyVcr, readyVars, chipVars
<1>3. CASE QfEnds(FALSE)
  BY <1>1, <1>2, <1>3, GivesUp DEF QfTypes, chipVars, readyVars
<1>4. CASE QfEnds(Verified) /\ Verified
  <2>1. qf'.pc = "end" /\ qf'.kind = qf.kind /\ qf' \in QfOperations
    BY <1>1, <1>4, SameOperation DEF QfPcs
  <2>2. QfTypes'
    BY <1>1, <1>2, <2>1 DEF QfTypes, Leaves, Working
  <2>3. TimingInv'
    BY <1>1, <1>2, <1>4, <2>1 DEF TimingInv, TimingKnown, SettingUp, QfAt, Verified
  <2>4. qready # "yes"
    BY <1>1 DEF TimingInv
  <2>5. BusyInv'
    BY <1>1, <1>2, <2>1, <2>4 DEF BusyInv, Working, QfAt, Leaves, QfTypes
  <2>6. ProgressInv'
    BY <1>2, <2>4 DEF ProgressInv
  <2> QED
    BY <2>2, <2>3, <2>5, <2>6
<1>5. Verified \in BOOLEAN
  BY DEF Verified
<1> QED
  BY <1>3, <1>4, <1>5 DEF VerifyVcr

\* The driver comes up with the mode it verified, falls back, or stays off.
LEMMA SetupQf == QfInv /\ QuadSetup => QfInv'
<1> SUFFICES ASSUME QfInv, QuadSetup PROVE QfInv'
  OBVIOUS
<1> USE DEF QfInv
<1>1. QfAt("end") /\ SettingUp /\ qready = "booting" /\ qf \in QfOperations
  <2>1. QfAt("end") /\ SettingUp /\ ~ QfAt("idle")
    BY DEF QuadSetup, QfAt
  <2> QED
    BY <2>1, SameOperation DEF TimingInv, QfPcs
<1>2. UNCHANGED <<mem, wip, wel, fsr, vcr, before, met, left>>
  BY DEF QuadSetup, chipVars, ghostVars
<1>3. Working => left
  BY <1>1 DEF BusyInv, QfAt, QfTypes
<1>4. CASE qf.ok /\ qready' = "yes" /\ quad' = (qf.kind = "quad") /\ qf' = QfIdle
  <2>1. qf'.pc = "idle"
    BY <1>4 DEF QfIdle
  <2>2. QfTypes'
    BY <1>2, <1>4 DEF QfTypes
  <2>3. TimingInv'
    BY <1>1, <1>2, <1>4, <2>1 DEF TimingInv, TimingKnown, QfAt, SettingUp
  <2>4. BusyInv' /\ ProgressInv'
    BY <1>2, <1>3, <2>1 DEF BusyInv, ProgressInv, Working, QfAt
  <2> QED
    BY <2>2, <2>3, <2>4
<1>5. CASE qf.kind = "quad" /\ qf' = NewOp("default", 0, 0) /\ UNCHANGED readyVars
  <2>1. qf'.pc = "wren" /\ qf'.kind = "default" /\ qf' \in QfOperations
    BY <1>5 DEF NewOp, QfPcs, QfKinds, QfOperations
  <2>2. QfTypes'
    BY <1>2, <1>5, <2>1 DEF QfTypes, readyVars
  <2>3. TimingInv'
    BY <1>1, <1>2, <1>5, <2>1 DEF TimingInv, TimingKnown, QfAt, SettingUp, readyVars
  <2>4. BusyInv' /\ ProgressInv'
    BY <1>1, <1>2, <1>3, <1>5 DEF BusyInv, ProgressInv, Working, readyVars
  <2> QED
    BY <2>2, <2>3, <2>4
<1>6. CASE qready' = "off" /\ qf' = QfIdle /\ UNCHANGED quad
  <2>1. qf'.pc = "idle"
    BY <1>6 DEF QfIdle
  <2>2. QfTypes'
    BY <1>2, <1>6 DEF QfTypes
  <2>3. TimingInv'
    BY <1>6, <2>1 DEF TimingInv, TimingKnown, QfAt
  <2>4. BusyInv' /\ ProgressInv'
    BY <1>2, <1>3, <2>1 DEF BusyInv, ProgressInv, Working, QfAt
  <2> QED
    BY <2>2, <2>3, <2>4
<1> QED
  BY <1>4, <1>5, <1>6 DEF QuadSetup

\* A warm reset forgets everything but the device.
LEMMA ResetQf == QfInv /\ QfReset => QfInv'
<1> SUFFICES ASSUME QfInv, QfReset PROVE QfInv'
  OBVIOUS
<1> USE DEF QfInv
<1>1. UNCHANGED <<mem, wip, wel, fsr, vcr>> /\ qready' = "booting" /\ quad' = FALSE /\ met' = FALSE /\ before' = mem
      /\ Leaves /\ qf' = NewOp("quad", 0, 0)
  BY DEF QfReset, chipVars
<1>2. qf'.pc = "wren" /\ qf'.kind = "quad" /\ qf' \in QfOperations
  BY <1>1 DEF NewOp, QfPcs, QfKinds, QfOperations
<1>3. QfTypes'
  BY <1>1, <1>2 DEF QfTypes, Leaves, Working
<1>4. TimingInv'
  BY <1>1, <1>2 DEF TimingInv, TimingKnown, QfAt, SettingUp
<1>5. BusyInv' /\ ProgressInv'
  BY <1>1 DEF BusyInv, ProgressInv, Working, Leaves, QfTypes
<1> QED
  BY <1>3, <1>4, <1>5

LEMMA StutterQf == QfInv /\ UNCHANGED qfVars => QfInv'
<1> SUFFICES ASSUME QfInv, UNCHANGED qfVars PROVE QfInv'
  OBVIOUS
<1>1. UNCHANGED <<mem, wip, wel, fsr, vcr, qready, quad, qf, before, met, left>>
  BY DEF qfVars, chipVars, readyVars, ghostVars
<1> QED
  BY <1>1 DEF QfInv, QfTypes, TimingInv, TimingKnown, BusyInv, ProgressInv, FilledTo, ChunkEnd, Working, QfAt,
              SettingUp

LEMMA QfInvariance == QfSpec => []QfInv
<1>1. QfInv /\ [QfNext]_qfVars => QfInv'
  BY DoneQf, BeginQf, WriteEnableQf, ReadBackQf, CommandQf, WaitReadyQf, CheckFlagsQf, ReturnQf, VerifyQf,
     SetupQf, ResetQf, StutterQf DEF QfNext, QfDriver
<1> QED
  BY <1>1, QfInitInv, PTL DEF QfSpec

(* A flash operation that succeeds has done what it was asked for, page by    *)
(* page and nowhere else, for any page size and any faults and resets; the    *)
(* driver is never up with the wrong dummy cycles; and work of the device     *)
(* that nobody waits for is work that an operation gave up on.                *)
THEOREM SuccessIsWritten == QfSpec => []QspiSound
<1>1. QfInv => QspiSound
  <2> SUFFICES ASSUME QfInv PROVE QspiSound
    OBVIOUS
  <2> USE DEF QfInv
  <2>1. QfTypeOK /\ TimingKnown
    BY DEF QfTypes, TimingInv, QfTypeOK
  <2>2. QfAt("idle") /\ Working => left
    BY DEF BusyInv, QfAt
  <2>3. ASSUME QfAt("end"), qf.ok, ~ met, ~ SettingUp
        PROVE  /\ qf.kind = "erase" => \A c \in Cells : mem[c] = "ff"
               /\ qf.kind = "program" => FilledTo(qf.at + qf.len)
    <3>1. ~ QfAt("idle")
      BY <2>3 DEF QfAt
    <3>2. qready = "yes"
      BY <2>3, <3>1 DEF TimingInv, QfTypes
    <3> QED
      BY <2>3, <3>1, <3>2 DEF ProgressInv
  <2>4. SettingUp => qf.kind \notin {"erase", "program"}
    BY DEF SettingUp
  <2>5. ASSUME QfAt("end"), qf.ok, ~ met, qf.kind = "program", NEW c \in Cells
        PROVE  IF c \in qf.from .. qf.at + qf.len - 1 THEN before[c] = "ff" => mem[c] = "new"
                                                     ELSE mem[c] = before[c]
    <3>1. qf.at \in Nat /\ qf.len \in Nat /\ qf.from \in Nat
      BY <2>5, SameOperation DEF QfPcs, QfOperations, QfAt
    <3>2. FilledTo(qf.at + qf.len)
      BY <2>3, <2>4, <2>5
    <3> QED
      BY <3>1, <3>2 DEF FilledTo
  <2>6. QfPromise
    BY <2>2, <2>3, <2>4, <2>5 DEF QfPromise
  <2> QED
    BY <2>1, <2>6 DEF QspiSound
<1> QED
  BY <1>1, QfInvariance, PTL
------------------------------------------------------------------------------
(* Dma2d: a transfer is answered by its own completion. *)

\* What moving a transfer on, and answering it, leave of it.
LEMMA StepOf ==
  ASSUME d2 \in Transfers, NEW p \in {"arm", "start", "wait", "poll", "disarm", "end"}, Step(p)
  PROVE  d2' \in Transfers /\ d2'.pc = p /\ d2'.h = d2.h /\ d2'.big = d2.big /\ d2'.got = d2.got /\ d2'.ok = d2.ok
BY DEF Step, Transfers

LEMMA ReturnOf ==
  ASSUME d2 \in Transfers, NEW b \in BOOLEAN, Return(b)
  PROVE  d2' \in Transfers /\ d2'.pc = "end" /\ d2'.h = d2.h /\ d2'.big = d2.big /\ d2'.got = d2.got /\ d2'.ok = b
BY DEF Return, Transfers

\* What a transfer under way is.
LEMMA UnderWay ==
  ASSUME ArmInv, d2.pc # "idle"
  PROVE  d2 \in Transfers /\ d2.h \in Handles /\ d2.big \in BOOLEAN /\ d2.blend \in BOOLEAN
BY DEF ArmInv, D2Idle, Transfers

\* The engine ends a transfer.
LEMMA EngineKeeps ==
  ASSUME D2Inv, EngineEnds
  PROVE  D2Inv'
<1> USE DEF D2Inv, ArmInv, At, InFlight, D2Idle, Transfers, Handles, halVars, engineVars, EngineEnds
<1>1. D2TypeOK'
  BY DEF Dma2dOwn, D2TypeOK
<1>2. ArmInv'
  BY DEF Dma2dOwn, D2TypeOK
<1>3. LockInv'
  BY DEF Dma2dOwn, D2TypeOK, LockInv
<1>4. EndInv'
  BY DEF Dma2dOwn, D2TypeOK, LockInv, EndInv
<1>5. Dma2dOwn'
  BY <1>1, <1>2, <1>3, <1>4 DEF Dma2dOwn, LockInv, EndInv
<1> QED
  BY <1>2, <1>3, <1>4, <1>5

\* The interrupt.
LEMMA IrqKeeps ==
  ASSUME D2Inv, D2Irq
  PROVE  D2Inv'
<1> USE DEF D2Inv, At, InFlight, halVars
<1>1. InFlight /\ flag \in {"tc", "te"} /\ d2.h \in Handles /\ active = d2.h /\ active # "none"
  <2>1. InFlight /\ flag \in {"tc", "te"} /\ active = d2.h
    BY DEF D2Irq, ArmInv, Dma2dOwn, D2TypeOK
  <2> QED
    BY <2>1, UnderWay DEF Handles
<1>2. /\ flag' = "none" /\ itOn' = itOn \ {flag} /\ d2Done' = d2Done + 1
      /\ locked' = [locked EXCEPT ![d2.h] = FALSE]
      /\ ready' = [ready EXCEPT ![d2.h] = (flag = "tc")]
      /\ UNCHANGED <<d2, running, finished, active, excuse, abandoned, d2Ops>>
  BY <1>1 DEF D2Irq
<1>3. ArmInv'
  BY <1>1, <1>2 DEF Dma2dOwn, D2TypeOK, ArmInv
<1>4. D2TypeOK'
  BY <1>1, <1>2 DEF Dma2dOwn, D2TypeOK, ArmInv
<1>5. LockInv'
  BY <1>1, <1>2 DEF Dma2dOwn, D2TypeOK, LockInv
<1>6. EndInv'
  <2>1. ready'[d2.h] = (flag = "tc")
    BY <1>1, <1>2 DEF Dma2dOwn, D2TypeOK
  <2>2. CASE d2.pc = "wait" /\ ~ abandoned
    <3>1. running = "none" /\ finished = flag /\ d2Done = 0
      BY <1>1, <2>2 DEF EndInv
    <3>2. finished' # "no" /\ (ready'[d2.h] <=> finished' = "tc")
      BY <1>1, <1>2, <2>1, <3>1
    <3> QED
      BY <1>1, <1>2, <2>2, <3>1, <3>2 DEF EndInv
  <2>3. CASE d2.pc # "wait" \/ abandoned
    BY <1>1, <1>2, <2>3 DEF EndInv
  <2> QED
    BY <2>2, <2>3
<1>7. Dma2dOwn'
  BY <1>1, <1>2, <1>4 DEF Dma2dOwn
<1> QED
  BY <1>3, <1>5, <1>6, <1>7

\* A drawing call.
LEMMA TransferBeginKeeps ==
  ASSUME D2Inv, D2Begin
  PROVE  D2Inv'
<1> USE DEF D2Inv, ArmInv, At, InFlight, D2Idle, Transfers, Handles, halVars, engineVars, D2Begin
<1>1. D2TypeOK'
  BY DEF Dma2dOwn, D2TypeOK
<1>2. ArmInv'
  BY DEF Dma2dOwn, D2TypeOK
<1>3. LockInv'
  BY DEF Dma2dOwn, D2TypeOK, LockInv
<1>4. EndInv'
  BY DEF Dma2dOwn, D2TypeOK, LockInv, EndInv
<1>5. Dma2dOwn'
  BY <1>1, <1>2, <1>3, <1>4 DEF Dma2dOwn, LockInv, EndInv
<1> QED
  BY <1>2, <1>3, <1>4, <1>5

\* HAL_DMA2D_Init() and HAL_DMA2D_ConfigLayer().
LEMMA ConfigureKeeps ==
  ASSUME D2Inv, D2Configure
  PROVE  D2Inv'
<1> USE DEF D2Inv, At, InFlight, halVars, engineVars
<1>0. /\ d2 \in Transfers /\ d2.h \in Handles /\ d2.big \in BOOLEAN /\ d2.pc = "init"
      /\ d2' \in Transfers /\ d2'.h = d2.h /\ d2'.big = d2.big /\ d2'.got = d2.got
      /\ \/ d2'.pc = (IF d2.big THEN "arm" ELSE "start") /\ d2'.ok = d2.ok /\ UNCHANGED excuse
         \/ d2'.pc = "end" /\ d2'.ok = FALSE /\ excuse' = TRUE
  <2>1. d2 \in Transfers /\ d2.h \in Handles /\ d2.big \in BOOLEAN /\ d2.pc = "init"
    BY UnderWay DEF D2Configure
  <2>2. CASE Step(IF d2.big THEN "arm" ELSE "start") /\ UNCHANGED excuse
    <3>1. (IF d2.big THEN "arm" ELSE "start") \in {"arm", "start", "wait", "poll", "disarm", "end"}
      OBVIOUS
    <3> QED
      BY <2>1, <2>2, <3>1, StepOf
  <2>3. CASE Return(FALSE) /\ excuse' = TRUE
    BY <2>1, <2>3, ReturnOf
  <2> QED
    BY <2>1, <2>2, <2>3 DEF D2Configure
<1>a. /\ ready' = [ready EXCEPT ![d2.h] = TRUE]
      /\ UNCHANGED <<locked, engineVars, active, d2Done, abandoned, d2Ops>>
  BY DEF D2Configure
<1>1. D2TypeOK'
  BY <1>0, <1>a DEF Handles, Dma2dOwn, D2TypeOK
<1>2. ArmInv'
  BY <1>0, <1>a DEF Handles, Dma2dOwn, D2TypeOK, ArmInv
<1>3. LockInv'
  BY <1>0, <1>a DEF Handles, Dma2dOwn, D2TypeOK, ArmInv, LockInv
<1>4. EndInv'
  BY <1>0, <1>a DEF Handles, Dma2dOwn, D2TypeOK, LockInv, EndInv
<1>5. Dma2dOwn'
  BY <1>0, <1>a, <1>1, <1>2, <1>3, <1>4 DEF Handles, Dma2dOwn, LockInv, EndInv
<1> QED
  BY <1>2, <1>3, <1>4, <1>5

\* ltdc_dma2d_arm_it().
LEMMA ArmKeeps ==
  ASSUME D2Inv, Arm
  PROVE  D2Inv'
<1> USE DEF D2Inv, ArmInv, At, InFlight, D2Idle, Transfers, Handles, halVars, engineVars, Arm, Step
<1>1. D2TypeOK'
  BY DEF Dma2dOwn, D2TypeOK
<1>2. ArmInv'
  BY DEF Dma2dOwn, D2TypeOK
<1>3. LockInv'
  BY DEF Dma2dOwn, D2TypeOK, LockInv
<1>4. EndInv'
  BY DEF Dma2dOwn, D2TypeOK, LockInv, EndInv
<1>5. Dma2dOwn'
  BY <1>1, <1>2, <1>3, <1>4 DEF Dma2dOwn, LockInv, EndInv
<1> QED
  BY <1>2, <1>3, <1>4, <1>5

\* The transfer starts.
LEMMA StartKeeps ==
  ASSUME D2Inv, StartTransfer
  PROVE  D2Inv'
<1> USE DEF D2Inv, At, InFlight, halVars, engineVars
<1>0. /\ d2 \in Transfers /\ d2.h \in Handles /\ d2.big \in BOOLEAN /\ d2.pc = "start"
      /\ d2' \in Transfers /\ d2'.h = d2.h /\ d2'.big = d2.big /\ d2'.got = d2.got
      /\ d2'.pc = (IF d2.big THEN "wait" ELSE "poll") /\ d2'.ok = d2.ok
  <2>1. d2 \in Transfers /\ d2.h \in Handles /\ d2.big \in BOOLEAN /\ d2.pc = "start"
    BY UnderWay DEF StartTransfer
  <2>2. (IF d2.big THEN "wait" ELSE "poll") \in {"arm", "start", "wait", "poll", "disarm", "end"}
    OBVIOUS
  <2> QED
    BY <2>1, <2>2, StepOf DEF StartTransfer
<1>a. /\ running' = IF running = "none" THEN "this" ELSE running
      /\ locked' = [locked EXCEPT ![d2.h] = TRUE] /\ ready' = [ready EXCEPT ![d2.h] = FALSE]
      /\ itOn' = IF d2.big THEN {"tc", "te"} ELSE itOn
      /\ UNCHANGED <<flag, finished, active, d2Done, excuse, abandoned, d2Ops>>
  BY DEF StartTransfer
<1>1. D2TypeOK'
  BY <1>0, <1>a DEF Handles, Dma2dOwn, D2TypeOK
<1>2. ArmInv'
  BY <1>0, <1>a DEF Handles, Dma2dOwn, D2TypeOK, ArmInv
<1>3. LockInv'
  BY <1>0, <1>a DEF Handles, Dma2dOwn, D2TypeOK, ArmInv, LockInv
<1>4. EndInv'
  <2>1. CASE ~ abandoned
    <3>1. running = "none" /\ flag = "none" /\ finished = "no"
      BY <1>0, <2>1 DEF EndInv
    <3>2. d2'.pc = "wait" => d2Done = 0
      BY <1>0 DEF ArmInv
    <3> QED
      BY <1>0, <1>a, <2>1, <3>1, <3>2 DEF EndInv
  <2>2. CASE abandoned
    BY <1>0, <1>a, <2>2 DEF EndInv
  <2> QED
    BY <2>1, <2>2
<1>5. Dma2dOwn'
  BY <1>0, <1>a, <1>1, <1>2, <1>3, <1>4 DEF Handles, Dma2dOwn, LockInv, EndInv
<1> QED
  BY <1>2, <1>3, <1>4, <1>5

\* The HAL refuses.
LEMMA RefusalKeeps ==
  ASSUME D2Inv, StartRefused
  PROVE  D2Inv'
<1> USE DEF D2Inv, At, InFlight, halVars, engineVars
<1>0. /\ d2 \in Transfers /\ d2.h \in Handles /\ d2.big \in BOOLEAN /\ d2.pc = "start"
      /\ d2' \in Transfers /\ d2'.h = d2.h /\ d2'.big = d2.big /\ d2'.got = d2.got
      /\ d2'.pc = (IF d2.big THEN "disarm" ELSE "end")
      /\ d2'.ok = FALSE
  <2>1. d2 \in Transfers /\ d2.h \in Handles /\ d2.big \in BOOLEAN /\ d2.pc = "start"
    BY UnderWay DEF StartRefused
  <2>2. d2.ok = FALSE
    BY <2>1 DEF LockInv, Transfers
  <2>3. CASE d2.big
    BY <2>1, <2>2, <2>3, StepOf DEF StartRefused
  <2>4. CASE ~ d2.big
    BY <2>1, <2>2, <2>4, ReturnOf DEF StartRefused
  <2> QED
    BY <2>1, <2>3, <2>4
<1>a. excuse' = TRUE /\ UNCHANGED <<halVars, engineVars, active, d2Done, abandoned, d2Ops>>
  BY DEF StartRefused
<1>1. D2TypeOK'
  BY <1>0, <1>a DEF Handles, Dma2dOwn, D2TypeOK
<1>2. ArmInv'
  BY <1>0, <1>a DEF Handles, Dma2dOwn, D2TypeOK, ArmInv
<1>3. LockInv'
  BY <1>0, <1>a DEF Handles, Dma2dOwn, D2TypeOK, ArmInv, LockInv
<1>4. EndInv'
  BY <1>0, <1>a DEF Handles, Dma2dOwn, D2TypeOK, LockInv, EndInv
<1>5. Dma2dOwn'
  BY <1>0, <1>a, <1>1, <1>2, <1>3, <1>4 DEF Handles, Dma2dOwn, LockInv, EndInv
<1> QED
  BY <1>2, <1>3, <1>4, <1>5

\* ltdc_dma2d_wait_it().
LEMMA TransferWaitKeeps ==
  ASSUME D2Inv, WaitIt
  PROVE  D2Inv'
<1> USE DEF D2Inv, At, InFlight, halVars, engineVars
<1> DEFINE got == d2Done > 0
           ok == got /\ ready[d2.h]
<1>0. /\ d2 \in Transfers /\ d2.h \in Handles /\ d2.pc = "wait"
      /\ d2' \in Transfers /\ d2'.h = d2.h /\ d2'.big = d2.big
      /\ d2'.pc = "disarm" /\ d2'.got = got /\ d2'.ok = ok
  <2>1. d2 \in Transfers /\ d2.h \in Handles /\ d2.pc = "wait"
    BY UnderWay DEF WaitIt
  <2>2. d2' = [d2 EXCEPT !.pc = "disarm", !.got = got, !.ok = ok]
    BY DEF WaitIt, WentWell
  <2>3. got \in BOOLEAN /\ ok \in BOOLEAN
    BY DEF Dma2dOwn, D2TypeOK
  <2> HIDE DEF got, ok
  <2> QED
    BY <2>1, <2>2, <2>3 DEF Transfers
<1>a. /\ d2Done' = IF got THEN d2Done - 1 ELSE 0
      /\ excuse' = (excuse \/ ~ got)
      /\ UNCHANGED <<halVars, engineVars, active, abandoned, d2Ops>>
  BY DEF WaitIt
<1>1. D2TypeOK'
  BY <1>0, <1>a DEF Handles, Dma2dOwn, D2TypeOK
<1>2. ArmInv'
  BY <1>0, <1>a DEF Handles, Dma2dOwn, D2TypeOK, ArmInv
<1>3. LockInv'
  BY <1>0, <1>a DEF Handles, Dma2dOwn, D2TypeOK, ArmInv, LockInv
<1>4. EndInv'
  <2>1. CASE ~ abandoned /\ ok
    <3>1. running = "none" /\ finished = "tc"
      BY <1>0, <2>1 DEF EndInv
    <3> QED
      BY <1>0, <1>a, <2>1, <3>1 DEF EndInv
  <2>2. CASE ~ abandoned /\ ~ ok
    <3>1. got => excuse
      BY <1>0, <2>2 DEF EndInv
    <3>2. excuse' = TRUE
      BY <1>a, <2>2, <3>1 DEF EndInv
    <3> QED
      BY <1>0, <1>a, <2>2, <3>2 DEF EndInv
  <2>3. CASE abandoned
    BY <1>0, <1>a, <2>3 DEF EndInv
  <2> QED
    BY <2>1, <2>2, <2>3
<1>5. Dma2dOwn'
  BY <1>0, <1>a, <1>1, <1>2, <1>3, <1>4 DEF Handles, Dma2dOwn, LockInv, EndInv
<1> QED
  BY <1>2, <1>3, <1>4, <1>5

\* dma2d_disarm().
LEMMA DisarmKeeps ==
  ASSUME D2Inv, Disarm
  PROVE  D2Inv'
<1> USE DEF D2Inv, At, InFlight, halVars, engineVars
<1>0. /\ d2 \in Transfers /\ d2.h \in Handles /\ d2.pc = "disarm"
      /\ d2' \in Transfers /\ d2'.h = d2.h /\ d2'.big = d2.big /\ d2'.got = d2.got
      /\ d2'.pc = "end" /\ d2'.ok = d2.ok
  <2>1. d2 \in Transfers /\ d2.h \in Handles /\ d2.pc = "disarm"
    BY UnderWay DEF Disarm
  <2> QED
    BY <2>1, StepOf DEF Disarm
<1>a. /\ itOn' = {} /\ active' = "none" /\ flag' = "none"
      /\ running' = "none"
      /\ UNCHANGED <<finished, d2Done, excuse, abandoned, d2Ops>>
  BY DEF Disarm, MustAbort
<1>b. \/ locked' = [locked EXCEPT ![d2.h] = FALSE] /\ ready' = [ready EXCEPT ![d2.h] = TRUE]
      \/ d2.got /\ locked' = locked /\ ready' = ready
  <2>1. d2.got \in BOOLEAN
    BY <1>0 DEF Transfers
  <2>2. CASE MustAbort(d2.got)
    BY <2>2 DEF Disarm
  <2>3. CASE ~ MustAbort(d2.got)
    BY <2>1, <2>3 DEF Disarm, MustAbort
  <2> QED
    BY <2>2, <2>3
<1>1. D2TypeOK'
  <2>1. locked' \in [Handles -> BOOLEAN] /\ ready' \in [Handles -> BOOLEAN]
    BY <1>0, <1>b DEF Dma2dOwn, D2TypeOK
  <2> QED
    BY <1>0, <1>a, <2>1 DEF Dma2dOwn, D2TypeOK
<1>2. ArmInv'
  BY <1>0, <1>a DEF Handles, Dma2dOwn, D2TypeOK, ArmInv
<1>3. LockInv'
  BY <1>0, <1>a, <1>b DEF Handles, Dma2dOwn, D2TypeOK, LockInv
<1>4. EndInv'
  BY <1>0, <1>a DEF EndInv
<1>5. Dma2dOwn'
  BY <1>0, <1>1, <1>4 DEF Dma2dOwn, EndInv
<1> QED
  BY <1>2, <1>3, <1>4, <1>5

\* HAL_DMA2D_PollForTransfer().
LEMMA PollKeeps ==
  ASSUME D2Inv, Poll
  PROVE  D2Inv'
<1> USE DEF D2Inv, At, InFlight, halVars, engineVars
<1>0. /\ d2 \in Transfers /\ d2.h \in Handles /\ d2.big = FALSE /\ d2.pc = "poll"
      /\ d2' \in Transfers /\ d2'.h = d2.h /\ d2'.big = d2.big /\ d2'.pc = "end"
      /\ d2'.ok = (flag = "tc")
  <2>1. d2 \in Transfers /\ d2.h \in Handles /\ d2.big = FALSE /\ d2.pc = "poll"
    BY UnderWay DEF Poll, ArmInv
  <2>2. flag # "none" => Return(flag = "tc")
    BY DEF Poll
  <2>3. flag = "none" => Return(FALSE)
    BY DEF Poll
  <2>4. (flag = "tc") \in BOOLEAN
    OBVIOUS
  <2>5. CASE flag # "none"
    BY <2>1, <2>2, <2>4, <2>5, ReturnOf
  <2>6. CASE flag = "none"
    BY <2>1, <2>3, <2>6, ReturnOf
  <2> QED
    BY <2>5, <2>6
<1>a. /\ locked' = [locked EXCEPT ![d2.h] = FALSE] /\ ready' = [ready EXCEPT ![d2.h] = TRUE]
      /\ flag' = "none"
      /\ IF flag # "none" THEN UNCHANGED <<running, excuse, abandoned>>
         ELSE /\ excuse' = TRUE
              /\ \/ running' = "none" /\ UNCHANGED abandoned
                 \/ /\ running' = IF running = "this" THEN "old" ELSE running
                    /\ abandoned' = (abandoned \/ running # "none")
      /\ UNCHANGED <<itOn, finished, active, d2Done, d2Ops>>
  BY DEF Poll
<1>1. D2TypeOK'
  BY <1>0, <1>a DEF Handles, Dma2dOwn, D2TypeOK
<1>2. ArmInv'
  BY <1>0, <1>a DEF Handles, Dma2dOwn, D2TypeOK, ArmInv
<1>3. LockInv'
  BY <1>0, <1>a DEF Handles, Dma2dOwn, D2TypeOK, ArmInv, LockInv
<1>4. EndInv'
  BY <1>0, <1>a DEF Handles, Dma2dOwn, D2TypeOK, LockInv, EndInv
<1>5. Dma2dOwn'
  BY <1>0, <1>a, <1>1, <1>2, <1>3, <1>4 DEF Handles, Dma2dOwn, LockInv, EndInv
<1> QED
  BY <1>2, <1>3, <1>4, <1>5

\* The call returns.
LEMMA TransferReturnKeeps ==
  ASSUME D2Inv, D2Return
  PROVE  D2Inv'
<1> USE DEF D2Inv, ArmInv, At, InFlight, D2Idle, Transfers, Handles, halVars, engineVars, D2Return
<1>1. D2TypeOK'
  BY DEF Dma2dOwn, D2TypeOK
<1>2. ArmInv'
  BY DEF Dma2dOwn, D2TypeOK
<1>3. LockInv'
  BY DEF Dma2dOwn, D2TypeOK, LockInv
<1>4. EndInv'
  BY DEF Dma2dOwn, D2TypeOK, LockInv, EndInv
<1>5. Dma2dOwn'
  BY <1>1, <1>2, <1>3, <1>4 DEF Dma2dOwn, LockInv, EndInv
<1> QED
  BY <1>2, <1>3, <1>4, <1>5

\* D2Inv is inductive.
LEMMA D2InvHolds == D2Spec => []D2Inv
<1>1. D2Init => D2Inv
  BY DEF D2Init, D2Inv, Dma2dOwn, D2TypeOK, ArmInv, LockInv, EndInv, At, InFlight, D2Idle, Handles
<1>2. D2Inv /\ [D2Next]_d2Vars => D2Inv'
  <2>1. D2Inv /\ D2Next => D2Inv'
    BY EngineKeeps, IrqKeeps, TransferBeginKeeps, ConfigureKeeps, ArmKeeps,
       StartKeeps, RefusalKeeps, TransferWaitKeeps, DisarmKeeps, PollKeeps, TransferReturnKeeps
       DEF D2Next, D2Thread
  <2>2. D2Inv /\ UNCHANGED d2Vars => D2Inv'
    BY DEF d2Vars, halVars, engineVars, D2Inv, Dma2dOwn, D2TypeOK, ArmInv, LockInv, EndInv, At, InFlight
  <2> QED
    BY <2>1, <2>2
<1> QED
  BY <1>1, <1>2, PTL DEF D2Spec

\* A transfer that reports success was completed by the engine and one that
\* reports failure failed, however completions, posts and timeouts fall, and
\* between transfers the engine is silent and unlocked (Dma2dOwn, the
\* invariant of the run) for any number of transfers.
THEOREM TransfersAreAnswered == D2Spec => []Dma2dOwn
<1>1. D2Inv => Dma2dOwn
  BY DEF D2Inv
<1> QED
  BY <1>1, D2InvHolds, PTL

------------------------------------------------------------------------------
(* Touch: success is the panel's, and the wake is not trusted in vain. *)

BusRecs == [by : Callers, txn : Txns, pc : {"wait", "late", "done"}, ok : BOOLEAN]

\* What the bus was, for a transaction under way.
LEMMA BusTaken ==
  ASSUME ToInv, bus # Free
  PROVE  bus \in BusRecs /\ bus.by \in Callers
BY DEF ToInv, BusInv, BusRecs

\* Nobody holds the free bus.
LEMMA BusFreeBy == Free.by = "none"
BY DEF Free

\* A transaction begins.
LEMMA BeginKeepsBus ==
  ASSUME NEW who \in Callers, NEW txn \in Txns, ToInv, Begin(who, txn)
  PROVE  /\ BusInv' /\ i2cDone' \in 0 .. 2 /\ bus'.by \in Callers \cup {"none"}
         /\ ~ (bus' # Free /\ bus'.pc = "done" /\ bus'.ok)
<1>1. bus' = [by |-> who, txn |-> txn, pc |-> "wait", ok |-> FALSE]
  BY DEF Begin
<1>2. bus' \in [by : Callers, txn : Txns, pc : {"wait", "late", "done"}, ok : BOOLEAN]
  BY <1>1
<1>3. bus'.by = who /\ bus'.pc = "wait" /\ bus'.ok = FALSE
  BY <1>1
<1> QED
  BY <1>2, <1>3 DEF Begin, BusInv

\* A transaction ends: the bus is free, the wire as it was.
LEMMA EndKeepsBus ==
  ASSUME ToInv, bus' = Free, UNCHANGED <<i2cActive, i2cErr, i2cDone, wire>>
  PROVE  /\ BusInv' /\ i2cDone' \in 0 .. 2 /\ bus'.by \in Callers \cup {"none"}
BY BusFreeBy DEF ToInv, BusInv

\* Nothing moves on the bus.
LEMMA StillBus ==
  ASSUME ToInv, UNCHANGED i2cVars
  PROVE  /\ BusInv' /\ i2cDone' \in 0 .. 2 /\ bus'.by \in Callers \cup {"none"}
         /\ bus' # Free /\ bus'.pc = "done" /\ bus'.ok => wire' = "ok"
BY DEF ToInv, BusInv, TouchSound, ToTypeOK, i2cVars

\* The panel and the shell.
LEMMA PanelKeeps ==
  ASSUME ToInv, Press \/ Lift \/ TouchStart \/ TouchStop \/ TouchKick \/ CommandBegins \/ CommandEnds
  PROVE  ToInv'
<1>1. CASE Press
  <2>1. BusInv' /\ i2cDone' \in 0 .. 2 /\ bus'.by \in Callers \cup {"none"}
        /\ (bus' # Free /\ bus'.pc = "done" /\ bus'.ok => wire' = "ok")
    BY <1>1, StillBus DEF Press
  <2> QED
    BY <1>1, <2>1, TouchAssumption DEF ToInv, TouchSound, ToTypeOK, InputInv, panelVars, inputVars, Press
<1>2. CASE Lift
  <2>1. BusInv' /\ i2cDone' \in 0 .. 2 /\ bus'.by \in Callers \cup {"none"}
        /\ (bus' # Free /\ bus'.pc = "done" /\ bus'.ok => wire' = "ok")
    BY <1>2, StillBus DEF Lift
  <2> QED
    BY <1>2, <2>1, TouchAssumption DEF ToInv, TouchSound, ToTypeOK, InputInv, panelVars, inputVars, Lift
<1>3. CASE TouchStart
  <2>1. BusInv' /\ i2cDone' \in 0 .. 2 /\ bus'.by \in Callers \cup {"none"}
        /\ (bus' # Free /\ bus'.pc = "done" /\ bus'.ok => wire' = "ok")
    BY <1>3, StillBus DEF TouchStart
  <2> QED
    BY <1>3, <2>1, TouchAssumption DEF ToInv, TouchSound, ToTypeOK, InputInv, panelVars, inputVars, TouchStart
<1>4. CASE TouchStop
  <2>1. BusInv' /\ i2cDone' \in 0 .. 2 /\ bus'.by \in Callers \cup {"none"}
        /\ (bus' # Free /\ bus'.pc = "done" /\ bus'.ok => wire' = "ok")
    BY <1>4, StillBus DEF TouchStop
  <2> QED
    BY <1>4, <2>1, TouchAssumption DEF ToInv, TouchSound, ToTypeOK, InputInv, panelVars, inputVars, TouchStop
<1>5. CASE TouchKick
  <2>1. BusInv' /\ i2cDone' \in 0 .. 2 /\ bus'.by \in Callers \cup {"none"}
        /\ (bus' # Free /\ bus'.pc = "done" /\ bus'.ok => wire' = "ok")
    BY <1>5, StillBus DEF TouchKick
  <2> QED
    BY <1>5, <2>1, TouchAssumption DEF ToInv, TouchSound, ToTypeOK, InputInv, panelVars, inputVars, TouchKick
<1>6. CASE CommandBegins
  <2>1. BusInv' /\ i2cDone' \in 0 .. 2 /\ bus'.by \in Callers \cup {"none"}
        /\ (bus' # Free /\ bus'.pc = "done" /\ bus'.ok => wire' = "ok")
    BY <1>6, BeginKeepsBus DEF Callers, Txns, CommandBegins
  <2> QED
    BY <1>6, <2>1, TouchAssumption DEF ToInv, TouchSound, ToTypeOK, InputInv, panelVars, inputVars, CommandBegins
<1>7. CASE CommandEnds
  <2>1. BusInv' /\ i2cDone' \in 0 .. 2 /\ bus'.by \in Callers \cup {"none"}
        /\ (bus' # Free /\ bus'.pc = "done" /\ bus'.ok => wire' = "ok")
    BY <1>7, EndKeepsBus DEF CommandEnds
  <2> QED
    BY <1>7, <2>1, TouchAssumption DEF ToInv, TouchSound, ToTypeOK, InputInv, panelVars, inputVars, CommandEnds
<1> QED
  BY <1>1, <1>2, <1>3, <1>4, <1>5, <1>6, <1>7

\* The transfer.
LEMMA TransferKeeps ==
  ASSUME ToInv, I2cIrq \/ I2cWait \/ I2cRecover
  PROVE  ToInv'
<1> USE DEF panelVars, inputVars
<1>1. CASE I2cIrq
  <2>5. wire' = "err" /\ i2cActive => i2cErr'
    BY <1>1, Zenon DEF I2cIrq
  <2>1. i2cDone = 0 /\ i2cDone' \in 0 .. 1 /\ wire' \in {"ok", "err"} /\ bus' = bus /\ i2cActive' = i2cActive
    BY <1>1 DEF I2cIrq, ToInv, BusInv
  <2>2. ~ (bus # Free /\ bus.pc = "done" /\ bus.ok)
    BY <1>1 DEF I2cIrq, ToInv, TouchSound
  <2>3. BusInv'
    BY <2>1, <2>5, BusTaken DEF ToInv, BusInv, BusRecs
  <2> QED
    BY <1>1, <2>1, <2>2, <2>3 DEF I2cIrq, ToInv, TouchSound, ToTypeOK, InputInv
<1>2. CASE I2cWait
  <2>1. bus # Free /\ bus.pc = "wait" /\ bus \in BusRecs /\ ~ bus.ok /\ UNCHANGED <<i2cErr, wire>>
    BY <1>2, BusTaken DEF I2cWait, ToInv, BusInv
  <2>2. CASE i2cDone > 0 /\ bus' = [bus EXCEPT !.pc = "done", !.ok = Verdict]
             /\ i2cDone' = (IF i2cErr THEN 0 ELSE i2cDone - 1) /\ i2cActive' = FALSE
    <3>1. bus' \in BusRecs /\ bus'.pc = "done" /\ bus'.by = bus.by /\ (bus'.ok => ~ i2cErr)
      BY <2>1, <2>2 DEF BusRecs, Verdict
    <3>2. i2cDone' = 0 /\ wire \in {"ok", "err"} /\ (wire = "err" => i2cErr)
      BY <2>1, <2>2 DEF ToInv, BusInv
    <3>3. BusInv'
      BY <2>1, <3>1, <3>2 DEF BusInv, BusRecs
    <3> QED
      BY <1>2, <2>1, <3>1, <3>2, <3>3 DEF I2cWait, ToInv, TouchSound, ToTypeOK, InputInv
  <2>3. CASE i2cDone = 0 /\ bus' = [bus EXCEPT !.pc = "late"] /\ UNCHANGED <<i2cDone, i2cActive>>
    <3>1. bus' \in BusRecs /\ bus'.pc = "late" /\ bus'.by = bus.by /\ bus'.ok = bus.ok
      BY <2>1, <2>3 DEF BusRecs
    <3>2. BusInv'
      BY <2>1, <2>3, <3>1 DEF ToInv, BusInv, BusRecs
    <3> QED
      BY <1>2, <2>1, <2>3, <3>1, <3>2 DEF I2cWait, ToInv, TouchSound, ToTypeOK, InputInv
  <2> QED
    BY <1>2, <2>2, <2>3 DEF I2cWait
<1>3. CASE I2cRecover
  <2>1. bus # Free /\ bus.pc = "late" /\ bus \in BusRecs /\ ~ bus.ok
    BY <1>3, BusTaken DEF I2cRecover, ToInv, BusInv
  <2>2. bus' \in BusRecs /\ bus'.pc = "done" /\ bus'.by = bus.by /\ bus'.ok = bus.ok
    BY <1>3, <2>1 DEF I2cRecover, BusRecs
  <2>3. BusInv'
    BY <1>3, <2>1, <2>2 DEF I2cRecover, BusInv, BusRecs
  <2> QED
    BY <1>3, <2>1, <2>2, <2>3 DEF I2cRecover, ToInv, TouchSound, ToTypeOK, InputInv
<1> QED
  BY <1>1, <1>2, <1>3

\* The input thread.
LEMMA InputKeeps ==
  ASSUME ToInv, Parks \/ Arms \/ ToIdle \/ Wakes \/ ReadsStatus \/ Touched \/ Untouched
  PROVE  ToInv'
<1>1. CASE Parks
  <2>1. BusInv' /\ i2cDone' \in 0 .. 2 /\ bus'.by \in Callers \cup {"none"}
        /\ (bus' # Free /\ bus'.pc = "done" /\ bus'.ok => wire' = "ok")
    BY <1>1, StillBus DEF Parks
  <2> QED
    BY <1>1, <2>1, TouchAssumption DEF ToInv, TouchSound, ToTypeOK, InputInv, panelVars, inputVars, Parks
<1>2. CASE Arms
  <2>1. BusInv' /\ i2cDone' \in 0 .. 2 /\ bus'.by \in Callers \cup {"none"}
        /\ (bus' # Free /\ bus'.pc = "done" /\ bus'.ok => wire' = "ok")
    BY <1>2, BeginKeepsBus DEF Callers, Txns, Arms
  <2> QED
    BY <1>2, <2>1, TouchAssumption DEF ToInv, TouchSound, ToTypeOK, InputInv, panelVars, inputVars, Arms, DrainEvents, Begin
<1>3. CASE ToIdle
  <2>1. BusInv' /\ i2cDone' \in 0 .. 2 /\ bus'.by \in Callers \cup {"none"}
        /\ (bus' # Free /\ bus'.pc = "done" /\ bus'.ok => wire' = "ok")
    BY <1>3, StillBus DEF ToIdle
  <2> QED
    BY <1>3, <2>1, TouchAssumption DEF ToInv, TouchSound, ToTypeOK, InputInv, panelVars, inputVars, ToIdle
<1>4. CASE Wakes
  <2>1. BusInv' /\ i2cDone' \in 0 .. 2 /\ bus'.by \in Callers \cup {"none"}
        /\ (bus' # Free /\ bus'.pc = "done" /\ bus'.ok => wire' = "ok")
    BY <1>4, StillBus DEF Wakes
  <2> QED
    BY <1>4, <2>1, TouchAssumption DEF ToInv, TouchSound, ToTypeOK, InputInv, panelVars, inputVars, Wakes
<1>5. CASE ReadsStatus
  <2>1. BusInv' /\ i2cDone' \in 0 .. 2 /\ bus'.by \in Callers \cup {"none"}
        /\ (bus' # Free /\ bus'.pc = "done" /\ bus'.ok => wire' = "ok")
    BY <1>5, BeginKeepsBus DEF Callers, Txns, ReadsStatus
  <2> QED
    BY <1>5, <2>1, TouchAssumption DEF ToInv, TouchSound, ToTypeOK, InputInv, panelVars, inputVars, ReadsStatus
<1>6. CASE Touched
  <2>1. BusInv' /\ i2cDone' \in 0 .. 2 /\ bus'.by \in Callers \cup {"none"}
        /\ (bus' # Free /\ bus'.pc = "done" /\ bus'.ok => wire' = "ok")
    BY <1>6, EndKeepsBus DEF Touched
  <2> QED
    BY <1>6, <2>1, TouchAssumption DEF ToInv, TouchSound, ToTypeOK, InputInv, panelVars, inputVars, Touched
<1>7. CASE Untouched
  <2>1. BusInv' /\ i2cDone' \in 0 .. 2 /\ bus'.by \in Callers \cup {"none"}
        /\ (bus' # Free /\ bus'.pc = "done" /\ bus'.ok => wire' = "ok")
    BY <1>7, EndKeepsBus DEF Untouched
  <2> QED
    BY <1>7, <2>1, TouchAssumption DEF ToInv, TouchSound, ToTypeOK, InputInv, panelVars, inputVars, Untouched
<1> QED
  BY <1>1, <1>2, <1>3, <1>4, <1>5, <1>6, <1>7

\* The answer of the panel that was told to give edges.
LEMMA ArmedKeeps ==
  ASSUME ToInv, Armed
  PROVE  ToInv'
<1>1. BusInv' /\ i2cDone' \in 0 .. 2 /\ bus'.by \in Callers \cup {"none"} /\ bus' = Free
  BY EndKeepsBus DEF Armed
<1>2. bus.ok => wire = "ok"
  BY BusFreeBy DEF Armed, Answers, ToInv, TouchSound
<1>3. wire = "ok" => trigger'
  BY Zenon DEF Armed
<1>4. irqReady' = bus.ok /\ irqArmed' = bus.ok
  BY DEF Armed, Wakeable
<1>5. irqReady' => trigger' /\ irqArmed'
  BY <1>2, <1>3, <1>4
<1> QED
  BY <1>1, <1>5 DEF Armed, ToInv, TouchSound, ToTypeOK, InputInv

\* The second transaction of a read, under the same lock.
LEMMA PointKeeps ==
  ASSUME ToInv, ReadsPoint
  PROVE  ToInv'
<1>1. bus # Free /\ bus \in BusRecs
  BY BusTaken, BusFreeBy DEF ReadsPoint, Answers
<1>2. bus' \in BusRecs /\ bus'.pc = "wait" /\ bus'.by = bus.by /\ bus'.ok = FALSE
  BY <1>1 DEF ReadsPoint, BusRecs, Txns
<1>3. BusInv'
  BY <1>2 DEF ReadsPoint, BusInv, BusRecs
<1> QED
  BY <1>1, <1>2, <1>3 DEF ReadsPoint, ToInv, TouchSound, ToTypeOK, InputInv, panelVars, BusRecs

\* ToInv is inductive.
LEMMA ToInvHolds == ToSpec => []ToInv
<1>1. ToInit => ToInv
  BY TouchAssumption, BusFreeBy DEF ToInit, ToInv, TouchSound, ToTypeOK, BusInv, InputInv
<1>2. ToInv /\ [ToNext]_toVars => ToInv'
  <2> SUFFICES ASSUME ToInv, [ToNext]_toVars
               PROVE  ToInv'
    OBVIOUS
  <2>1. CASE UNCHANGED toVars
    BY <2>1, StillBus DEF toVars, panelVars, inputVars, ToInv, TouchSound, ToTypeOK, InputInv
  <2> QED
    BY <2>1, PanelKeeps, TransferKeeps, InputKeeps, ArmedKeeps, PointKeeps DEF ToNext, InputThread, Shell
<1> QED
  BY <1>1, <1>2, PTL DEF ToSpec

\* A transaction that reports success was completed by the panel, and the
\* input thread waits only for edges it was promised, for any presses, faults
\* and stops (TouchSound).
THEOREM TouchesAreHeard == ToSpec => []TouchSound
<1>1. ToInv => TouchSound
  BY DEF ToInv
<1> QED
  BY <1>1, ToInvHolds, PTL

------------------------------------------------------------------------------
(* Display: who owns the panel, and what the buffers show.                   *)

DpEvents == {"FRAME", "GEOM", "AUTOSTART"}
GuiPcs == {"idle", "take", "canvas", "up", "autostart", "unsubscribe", "drain", "hide", "blank", "release"}
Contents == {"latest", "old", "other"}
LtdcTypes == guiOwned \in BOOLEAN /\ scanOff \in BOOLEAN /\ vbrFault \in BOOLEAN /\ front \in Bufs
BufTypes ==
  ui \in [Bufs -> Contents] /\ rect \in [Bufs -> Contents] /\ stale \in [Bufs -> BOOLEAN]
CamTypes == camVisible \in BOOLEAN /\ camActive \in BOOLEAN /\ geo \in Bufs /\ viewGeo \in Bufs
UiTypes ==
  /\ curRes \in Bufs /\ redrawPending \in BOOLEAN /\ sink \in {"off", "idle", "attached"}
  /\ base \subseteq Bufs /\ storing \in BOOLEAN /\ inSettings \in BOOLEAN
GlueTypes ==
  canvas \in Bufs /\ inited \in BOOLEAN /\ guiActive \in BOOLEAN /\ shown \in BOOLEAN /\ stopReq \in BOOLEAN
GxTypes ==
  events \in Seq(DpEvents) /\ dirty \subseteq {"cam", "rest"} /\ gx \in {"idle", "subscribe", "cam", "toggle"}
DpTypes ==
  LtdcTypes /\ BufTypes /\ CamTypes /\ UiTypes /\ GlueTypes /\ GxTypes /\ gui \in GuiPcs /\ torn \in BOOLEAN

\* The root is shown from the start of GUIX until it is stopped, only then does
\* GUIX draw, and only into the back buffer of a display it owns.
GuiInv ==
  /\ gui \in {"take", "canvas", "up"} => ~ guiActive
  /\ gui \in {"autostart", "hide", "blank", "release"} => guiActive
  /\ shown <=> ((guiActive /\ gui \notin {"blank", "release"}) \/ gui = "up")
  /\ guiActive \/ gui \in {"canvas", "up"} => guiOwned
  /\ guiOwned => ~ scanOff \/ vbrFault
  /\ gx \in {"cam", "toggle"} => shown
  /\ shown => canvas = Back \/ vbrFault

\* What is drawn is what was dirty; where nothing is, the buffers agree.
UiInv ==
  /\ gx \in {"cam", "toggle"} => dirty # {}
  /\ shown /\ ~ torn /\ ~ vbrFault =>
       /\ "rest" \notin dirty => \A b \in Bufs : ui[b] = "latest"
       /\ gx \in {"cam", "toggle"} => ui[canvas] = "latest"

\* GUIX has seen the last AUTOSTART, and shows the preview.
Previewing ==
  /\ camVisible /\ shown /\ gui = "idle" /\ ~ vbrFault
  /\ \A k \in 1 .. Len(events) : events[k] # "AUTOSTART"

\* A camera rectangle that the root is drawn over is stale, but for the one
\* drawn since.
RectInv ==
  /\ inSettings => ~ camVisible
  /\ Previewing =>
       /\ curRes = geo /\ viewGeo = geo => \A b \in Bufs : ~ stale[b] => rect[b] = "latest"
       /\ "rest" \in dirty => /\ gx # "toggle" => \A b \in Bufs : stale[b]
                              /\ gx = "toggle" => stale[front]

DpInv == DpTypes /\ GuiInv /\ UiInv /\ RectInv

LEMMA DpInitInv == DpInit => DpInv
<1> SUFFICES ASSUME DpInit PROVE DpInv
  OBVIOUS
<1>1. DpTypes
  BY DEF DpInit, DpTypes, LtdcTypes, BufTypes, CamTypes, UiTypes, GlueTypes, GxTypes, Bufs, Contents, GuiPcs
<1>2. GuiInv
  BY DEF DpInit, GuiInv
<1>3. UiInv /\ RectInv
  BY DEF DpInit, UiInv, RectInv, Previewing
<1> QED
  BY <1>1, <1>2, <1>3 DEF DpInv

\* What an action leaves alone keeps its type.
LEMMA TypesStay ==
  ASSUME DpTypes
  PROVE  /\ UNCHANGED ltdcVars => LtdcTypes'
         /\ UNCHANGED bufVars => BufTypes'
         /\ UNCHANGED camVars => CamTypes'
         /\ UNCHANGED uiVars => UiTypes'
         /\ UNCHANGED glueVars => GlueTypes'
         /\ UNCHANGED gxVars => GxTypes'
<1> USE DEF DpTypes
<1>1. UNCHANGED ltdcVars => LtdcTypes'
  BY DEF LtdcTypes, ltdcVars
<1>2. UNCHANGED bufVars => BufTypes'
  BY DEF BufTypes, bufVars
<1>3. UNCHANGED camVars => CamTypes'
  BY DEF CamTypes, camVars
<1>4. UNCHANGED uiVars => UiTypes'
  BY DEF UiTypes, uiVars
<1>5. UNCHANGED glueVars => GlueTypes'
  BY DEF GlueTypes, glueVars
<1>6. UNCHANGED gxVars => GxTypes'
  BY DEF GxTypes, gxVars
<1> QED
  BY <1>1, <1>2, <1>3, <1>4, <1>5, <1>6

\* The two buffers, and what is painted or ages in them.
LEMMA OtherBuf ==
  ASSUME NEW b \in Bufs
  PROVE  1 - b \in Bufs
BY DEF Bufs

LEMMA BackOf ==
  ASSUME front \in Bufs
  PROVE  /\ Back \in Bufs /\ Back # front /\ 1 - Back = front
         /\ \A b \in Bufs : b = front \/ b = Back
BY DEF Bufs, Back

LEMMA Painted ==
  ASSUME NEW area \in [Bufs -> Contents], NEW b \in Bufs, NEW what \in Contents
  PROVE  [area EXCEPT ![b] = what] \in [Bufs -> Contents]
OBVIOUS

LEMMA AgedContents ==
  ASSUME NEW area \in [Bufs -> Contents]
  PROVE  /\ Aged(area) \in [Bufs -> Contents]
         /\ \A b \in Bufs : Aged(area)[b] # "latest"
BY DEF Aged, Contents

LEMMA FlipTypes ==
  ASSUME DpTypes, Flip
  PROVE  /\ front' \in Bufs /\ vbrFault' \in BOOLEAN /\ (vbrFault => vbrFault')
         /\ ~ vbrFault' /\ ~ scanOff => front' = Back
         /\ ~ CanFlip => front' = front /\ vbrFault' = vbrFault
BY BackOf DEF Flip, CanFlip, DpTypes, LtdcTypes

\* What leaves the owner, the canvas and the command alone.
LEMMA QuietGui ==
  ASSUME GuiInv, UNCHANGED <<guiOwned, scanOff, vbrFault, front, canvas, guiActive, shown, gui>>,
         gx' \in {"cam", "toggle"} => gx \in {"cam", "toggle"} \/ shown
  PROVE  GuiInv'
BY DEF GuiInv, Back

\* What leaves the drawing alone.
LEMMA QuietUi ==
  ASSUME UiInv, UNCHANGED <<torn, vbrFault, ui, canvas>>, shown' => shown, dirty' = dirty,
         gx' \in {"cam", "toggle"} => gx \in {"cam", "toggle"}
  PROVE  UiInv'
BY DEF UiInv

\* What dirties the root, or only the camera icon.
LEMMA RedrawUi ==
  ASSUME DpTypes, UiInv, NEW what \in {{"cam"}, {"cam", "rest"}}, Redraw(what),
         UNCHANGED <<torn, vbrFault, canvas, shown>>, gx' \notin {"cam", "toggle"}
  PROVE  /\ UiInv'
         /\ ui' \in [Bufs -> Contents] /\ dirty' \subseteq {"cam", "rest"}
<1>1. ui' \in [Bufs -> Contents] /\ dirty' \subseteq {"cam", "rest"}
  BY AgedContents DEF Redraw, DpTypes, BufTypes, GxTypes
<1>2. CASE what = {"cam"}
  <2>1. ui' = ui /\ ("rest" \in dirty' <=> "rest" \in dirty)
    BY <1>2 DEF Redraw
  <2> QED
    BY <1>1, <2>1 DEF UiInv
<1>3. CASE what = {"cam", "rest"}
  <2>1. "rest" \in dirty'
    BY <1>3 DEF Redraw
  <2> QED
    BY <1>1, <2>1 DEF UiInv
<1> QED
  BY <1>2, <1>3

\* What leaves the rectangles and their flags alone.
LEMMA QuietRect ==
  ASSUME RectInv, UNCHANGED <<inSettings, curRes, geo, viewGeo, stale, rect, front>>,
         gx' = "toggle" <=> gx = "toggle", "rest" \in dirty' <=> "rest" \in dirty,
         camVisible' => camVisible, Previewing' => Previewing
  PROVE  RectInv'
BY DEF RectInv

\* While both rectangles are stale, nothing is said of them.
LEMMA AllStale ==
  ASSUME \A b \in Bufs : stale'[b], front' \in Bufs, inSettings' => ~ camVisible'
  PROVE  RectInv'
BY DEF RectInv

\* Nor while GUIX does not show the preview, or has an AUTOSTART to follow.
LEMMA NotPreviewing ==
  ASSUME ~ Previewing', inSettings' => ~ camVisible'
  PROVE  RectInv'
BY DEF RectInv

\* The queue of GUIX.
LEMMA EventsAppend ==
  ASSUME DpTypes, NEW e \in DpEvents
  PROVE  /\ Append(events, e) \in Seq(DpEvents)
         /\ (\A k \in 1 .. Len(Append(events, e)) : Append(events, e)[k] # "AUTOSTART")
               => e # "AUTOSTART" /\ \A k \in 1 .. Len(events) : events[k] # "AUTOSTART"
<1>1. events \in Seq(DpEvents) /\ Len(events) \in Nat
  BY LenProperties DEF DpTypes, GxTypes
<1>2. /\ Append(events, e) \in Seq(DpEvents) /\ Len(Append(events, e)) = Len(events) + 1
      /\ \A i \in 1 .. Len(events) : Append(events, e)[i] = events[i]
      /\ Append(events, e)[Len(events) + 1] = e
  BY <1>1, AppendProperties
<1>3. \A k \in 1 .. Len(events) + 1 : k \in 1 .. Len(events) \/ k = Len(events) + 1
  BY <1>1
<1>4. Len(events) + 1 \in 1 .. Len(events) + 1 /\ \A k \in 1 .. Len(events) : k \in 1 .. Len(events) + 1
  BY <1>1
<1> QED
  BY <1>2, <1>4

LEMMA EventsTail ==
  ASSUME DpTypes, events # <<>>
  PROVE  /\ Tail(events) \in Seq(DpEvents)
         /\ Head(events) # "AUTOSTART" /\ (\A k \in 1 .. Len(Tail(events)) : Tail(events)[k] # "AUTOSTART")
               => \A k \in 1 .. Len(events) : events[k] # "AUTOSTART"
<1>1. events \in Seq(DpEvents) /\ Len(events) \in Nat /\ Head(events) = events[1]
  BY LenProperties DEF DpTypes, GxTypes
<1>2. /\ Tail(events) \in Seq(DpEvents) /\ Len(Tail(events)) = Len(events) - 1
      /\ \A i \in 1 .. Len(Tail(events)) : Tail(events)[i] = events[i + 1]
  BY <1>1, HeadTailProperties
<1>3. ASSUME NEW k \in 1 .. Len(events), Head(events) # "AUTOSTART",
             \A i \in 1 .. Len(Tail(events)) : Tail(events)[i] # "AUTOSTART"
      PROVE  events[k] # "AUTOSTART"
  <2>1. CASE k = 1
    BY <1>1, <1>3, <2>1
  <2>2. CASE k # 1
    <3>1. k - 1 \in 1 .. Len(Tail(events)) /\ (k - 1) + 1 = k
      BY <1>1, <1>2, <1>3, <2>2
    <3> QED
      BY <1>2, <1>3, <3>1
  <2> QED
    BY <2>1, <2>2
<1> QED
  BY <1>2, <1>3

\* A step that changes nothing of what the invariant is about.
LEMMA StutterKeepsDp ==
  ASSUME DpInv, UNCHANGED <<ltdcVars, bufVars, camVars, uiVars, glueVars, gxVars, gui, torn>>
  PROVE  DpInv'
<1>1. DpTypes'
  BY TypesStay DEF DpInv, DpTypes
<1>2. GuiInv'
  BY QuietGui DEF DpInv, ltdcVars, glueVars, gxVars
<1>3. UiInv'
  BY QuietUi DEF DpInv, ltdcVars, bufVars, glueVars, gxVars
<1>4. Previewing' => Previewing
  BY DEF Previewing, ltdcVars, camVars, glueVars, gxVars
<1>5. RectInv'
  BY <1>4, QuietRect DEF DpInv, ltdcVars, bufVars, camVars, uiVars, gxVars
<1> QED
  BY <1>1, <1>2, <1>3, <1>5 DEF DpInv

\* The `lcd` commands draw only while GUIX does not own the display.
LEMMA LcdPresentKeeps == DpInv /\ LcdPresent => DpInv'
<1> SUFFICES ASSUME DpInv, LcdPresent PROVE DpInv'
  OBVIOUS
<1> USE DEF DpInv
<1>1. UNCHANGED <<guiOwned, scanOff, stale, camVars, uiVars, glueVars, gxVars, gui, torn>>
  BY DEF LcdPresent
<1>2. CASE ~ LcdMayDraw
  <2>1. UNCHANGED <<ui, rect, front, vbrFault>>
    BY <1>2 DEF LcdPresent
  <2> QED
    BY <1>1, <2>1, StutterKeepsDp DEF ltdcVars, bufVars
<1>3. CASE LcdMayDraw
  <2>1. ~ shown /\ ~ guiOwned /\ ~ guiActive /\ gui \notin {"canvas", "up"} /\ gx \notin {"cam", "toggle"}
    BY <1>3 DEF LcdMayDraw, GuiInv
  <2>2. /\ ui' = [ui EXCEPT ![Back] = "other"] /\ rect' = [rect EXCEPT ![Back] = "other"]
        /\ Flip
    BY <1>3 DEF LcdPresent
  <2>3. front' \in Bufs /\ vbrFault' \in BOOLEAN
    BY <2>2, FlipTypes
  <2>4. ui' \in [Bufs -> Contents] /\ rect' \in [Bufs -> Contents]
    BY <2>2, BackOf, Painted DEF DpTypes, LtdcTypes, BufTypes, Contents
  <2>5. LtdcTypes' /\ BufTypes'
    BY <1>1, <2>3, <2>4 DEF DpTypes, LtdcTypes, BufTypes
  <2>6. DpTypes'
    BY <1>1, <2>5, TypesStay DEF DpTypes
  <2>7. GuiInv'
    BY <1>1, <2>1 DEF GuiInv, glueVars, gxVars
  <2>8. UiInv'
    BY <1>1, <2>1 DEF UiInv, glueVars, gxVars
  <2>9. RectInv'
    BY <1>1, <2>1, NotPreviewing DEF RectInv, Previewing, camVars, uiVars, glueVars
  <2> QED
    BY <2>6, <2>7, <2>8, <2>9
<1> QED
  BY <1>2, <1>3

LEMMA LcdKeeps == DpInv /\ LcdThread => DpInv'
<1> SUFFICES ASSUME DpInv, LcdThread PROVE DpInv'
  OBVIOUS
<1> USE DEF DpInv
<1>1. CASE LcdDraw
  BY <1>1, StutterKeepsDp DEF LcdDraw
<1>2. CASE SetScanout
  <2>1. UNCHANGED <<guiOwned, vbrFault, front, bufVars, camVars, uiVars, glueVars, gxVars, gui, torn>>
        /\ ~ guiOwned /\ scanOff' \in BOOLEAN
    BY <1>2 DEF SetScanout
  <2>2. LtdcTypes'
    BY <2>1 DEF DpTypes, LtdcTypes
  <2>3. DpTypes'
    BY <2>1, <2>2, TypesStay DEF DpTypes
  <2>4. GuiInv'
    BY <2>1 DEF GuiInv, Back, glueVars, gxVars
  <2>5. UiInv'
    BY <2>1, QuietUi DEF bufVars, glueVars, gxVars
  <2>6. Previewing' => Previewing
    BY <2>1 DEF Previewing, camVars, glueVars, gxVars
  <2>7. RectInv'
    BY <2>1, <2>6, QuietRect DEF bufVars, camVars, uiVars, gxVars
  <2> QED
    BY <2>3, <2>4, <2>5, <2>7
<1>3. CASE LcdPresent
  BY <1>3, LcdPresentKeeps
<1> QED
  BY <1>1, <1>2, <1>3 DEF LcdThread

\* `gui start`: nothing is shown until the display is taken, and what is then
\* shown is drawn afresh.
LEMMA TakeKeeps == DpInv /\ (GuiStart \/ GuiTake) => DpInv'
<1> SUFFICES ASSUME DpInv, GuiStart \/ GuiTake PROVE DpInv'
  OBVIOUS
<1> USE DEF DpInv
<1>1. UNCHANGED <<scanOff, vbrFault, front, bufVars, camVars, uiVars, glueVars, gxVars, torn>>
      /\ guiOwned' \in BOOLEAN
  BY DEF GuiStart, GuiTake, ltdcVars, DpTypes, LtdcTypes
<1>2. LtdcTypes' /\ gui' \in GuiPcs
  BY <1>1 DEF GuiStart, GuiTake, DpTypes, LtdcTypes, GuiPcs
<1>3. DpTypes'
  BY <1>1, <1>2, TypesStay DEF DpTypes
<1>4. GuiInv'
  <2>1. CASE GuiStart
    <3>1. UNCHANGED guiOwned /\ gui = "idle" /\ gui' = IF guiActive THEN "autostart" ELSE "take"
      BY <2>1 DEF GuiStart, ltdcVars
    <3> QED
      BY <1>1, <3>1 DEF GuiInv, Back, glueVars, gxVars
  <2>2. CASE GuiTake
    <3>1. /\ gui = "take"
          /\ \/ gui' = "idle" /\ guiOwned' = guiOwned
             \/ gui' = "canvas" /\ guiOwned' = TRUE /\ ~ scanOff
      BY <2>2 DEF GuiTake
    <3>2. ~ guiActive /\ ~ shown
      BY <3>1 DEF GuiInv
    <3> QED
      BY <1>1, <3>1, <3>2 DEF GuiInv, Back, glueVars, gxVars
  <2> QED
    BY <2>1, <2>2
<1>5. UiInv'
  BY <1>1, QuietUi DEF bufVars, glueVars, gxVars
<1>6. Previewing' => Previewing
  <2>1. CASE GuiStart
    BY <1>1, <2>1 DEF GuiStart, Previewing, camVars, glueVars, gxVars
  <2>2. CASE GuiTake
    <3>1. ~ shown
      BY <2>2 DEF GuiTake, GuiInv
    <3> QED
      BY <1>1, <3>1 DEF Previewing, glueVars
  <2> QED
    BY <2>1, <2>2
<1>7. RectInv'
  BY <1>1, <1>6, QuietRect DEF bufVars, camVars, uiVars, gxVars
<1> QED
  BY <1>3, <1>4, <1>5, <1>7

LEMMA CanvasKeeps == DpInv /\ GuiCanvas => DpInv'
<1> SUFFICES ASSUME DpInv, GuiCanvas PROVE DpInv'
  OBVIOUS
<1> USE DEF DpInv
<1>1. UNCHANGED <<scanOff, vbrFault, front, rect, stale, camVars, uiVars, guiActive, stopReq, events, gx, torn>>
      /\ gui = "canvas"
  BY DEF GuiCanvas
<1>2. ~ guiActive /\ ~ shown /\ guiOwned /\ gx \notin {"cam", "toggle"} /\ (~ scanOff \/ vbrFault)
  BY <1>1 DEF GuiInv
<1>3. CASE /\ canvas' = CanvasOnStart /\ inited' = TRUE
           /\ shown' = TRUE /\ dirty' = {"cam", "rest"} /\ ui' = Aged(ui)
           /\ gui' = "up" /\ UNCHANGED guiOwned
  <2>1. canvas' = Back' /\ canvas' \in Bufs
    BY <1>1, <1>3, BackOf DEF CanvasOnStart, Back, DpTypes, LtdcTypes
  <2>2. ui' \in [Bufs -> Contents]
    BY <1>3, AgedContents DEF DpTypes, BufTypes
  <2>3. LtdcTypes' /\ BufTypes'
    BY <1>1, <1>3, <2>2 DEF DpTypes, LtdcTypes, BufTypes
  <2>4. GlueTypes' /\ GxTypes' /\ gui' \in GuiPcs
    BY <1>1, <1>3, <2>1 DEF DpTypes, GlueTypes, GxTypes, GuiPcs
  <2>5. DpTypes'
    BY <1>1, <2>3, <2>4, TypesStay DEF DpTypes
  <2>6. GuiInv'
    BY <1>1, <1>2, <1>3, <2>1 DEF GuiInv
  <2>7. UiInv'
    BY <1>1, <1>2, <1>3 DEF UiInv
  <2>8. RectInv'
    BY <1>1, <1>3, NotPreviewing DEF RectInv, Previewing, camVars, uiVars
  <2> QED
    BY <2>5, <2>6, <2>7, <2>8
<1>4. CASE /\ gui' = "idle" /\ guiOwned' = vbrFault /\ UNCHANGED <<canvas, inited, shown, dirty, ui>>
  <2>1. LtdcTypes' /\ gui' \in GuiPcs
    BY <1>1, <1>4 DEF DpTypes, LtdcTypes, GuiPcs
  <2>2. DpTypes'
    BY <1>1, <1>4, <2>1, TypesStay DEF DpTypes, bufVars, glueVars, gxVars
  <2>3. GuiInv'
    BY <1>1, <1>2, <1>4 DEF GuiInv
  <2>4. UiInv'
    BY <1>1, <1>4, QuietUi
  <2>5. RectInv'
    BY <1>1, <1>2, <1>4, NotPreviewing DEF RectInv, Previewing, camVars, uiVars
  <2> QED
    BY <2>2, <2>3, <2>4, <2>5
<1> QED
  BY <1>3, <1>4 DEF GuiCanvas

LEMMA UpKeeps == DpInv /\ (GuiUp \/ GuiAutostart) => DpInv'
<1> SUFFICES ASSUME DpInv, GuiUp \/ GuiAutostart PROVE DpInv'
  OBVIOUS
<1> USE DEF DpInv
<1>1. UNCHANGED <<ltdcVars, bufVars, camVars, uiVars, canvas, inited, shown, dirty, gx, torn>>
      /\ gui' \in GuiPcs
  BY DEF GuiUp, GuiAutostart, gxVars, GuiPcs
<1>2. GlueTypes'
  <2>1. guiActive' \in BOOLEAN /\ stopReq' \in BOOLEAN
    BY DEF GuiUp, GuiAutostart, DpTypes, GlueTypes
  <2> QED
    BY <1>1, <2>1 DEF DpTypes, GlueTypes
<1>3. events' \in Seq(DpEvents)
  BY EventsAppend DEF GuiUp, GuiAutostart, gxVars, DpEvents, DpTypes, GxTypes
<1>4. GxTypes'
  BY <1>1, <1>3 DEF DpTypes, GxTypes
<1>5. DpTypes'
  BY <1>1, <1>2, <1>4, TypesStay DEF DpTypes
<1>6. GuiInv'
  <2>1. CASE GuiUp
    <3>1. gui = "up" /\ gui' = "autostart" /\ guiActive' = TRUE
      BY <2>1 DEF GuiUp
    <3> QED
      BY <1>1, <3>1 DEF GuiInv, Back, ltdcVars
  <2>2. CASE GuiAutostart
    <3>1. gui = "autostart" /\ gui' = "idle" /\ guiActive' = guiActive
      BY <2>2 DEF GuiAutostart
    <3> QED
      BY <1>1, <3>1 DEF GuiInv, Back, ltdcVars
  <2> QED
    BY <2>1, <2>2
<1>7. UiInv'
  BY <1>1, QuietUi DEF ltdcVars, bufVars
<1>8. ~ Previewing'
  <2>1. CASE GuiUp
    BY <2>1 DEF GuiUp, Previewing
  <2>2. CASE GuiAutostart
    BY <2>2, EventsAppend DEF GuiAutostart, Previewing, DpEvents
  <2> QED
    BY <2>1, <2>2
<1>9. RectInv'
  BY <1>1, <1>8, NotPreviewing DEF RectInv, camVars, uiVars
<1> QED
  BY <1>5, <1>6, <1>7, <1>9

\* `gui stop`: the root is hidden before the panel is blanked, and the display
\* given back last.
LEMMA StopKeeps == DpInv /\ (GuiStop \/ GuiUnsubscribe \/ GuiTeardown) => DpInv'
<1> SUFFICES ASSUME DpInv, GuiStop \/ GuiUnsubscribe \/ GuiTeardown PROVE DpInv'
  OBVIOUS
<1> USE DEF DpInv
<1>1. UNCHANGED <<ltdcVars, bufVars, geo, viewGeo, curRes, base, storing, inSettings,
                  canvas, inited, guiActive, shown, gxVars, torn>>
  BY DEF GuiStop, GuiUnsubscribe, GuiTeardown, camVars, uiVars, glueVars
<1>2. CamTypes' /\ UiTypes'
  <2>1. camVisible' \in BOOLEAN /\ camActive' \in BOOLEAN
    BY DEF GuiStop, GuiUnsubscribe, GuiTeardown, camVars, DpTypes, CamTypes
  <2>2. redrawPending' \in BOOLEAN /\ sink' \in {"off", "idle", "attached"}
    BY DEF GuiStop, GuiUnsubscribe, GuiTeardown, uiVars, DpTypes, UiTypes
  <2> QED
    BY <1>1, <2>1, <2>2 DEF DpTypes, CamTypes, UiTypes
<1>3. GlueTypes' /\ gui' \in GuiPcs
  <2>1. stopReq' \in BOOLEAN
    BY DEF GuiStop, GuiUnsubscribe, GuiTeardown, glueVars, DpTypes, GlueTypes
  <2>2. gui' \in GuiPcs
    BY DEF GuiStop, GuiUnsubscribe, GuiTeardown, GuiPcs
  <2> QED
    BY <1>1, <2>1, <2>2 DEF DpTypes, GlueTypes
<1>4. DpTypes'
  BY <1>1, <1>2, <1>3, TypesStay DEF DpTypes
<1>5. \/ gui \in {"idle", "unsubscribe"} /\ gui' \in {"unsubscribe", "drain"}
      \/ gui = "drain" /\ gui' = IF guiActive THEN "hide" ELSE "idle"
  BY DEF GuiStop, GuiUnsubscribe, GuiTeardown
<1>6. GuiInv'
  BY <1>1, <1>5 DEF GuiInv, Back, ltdcVars, gxVars
<1>7. UiInv'
  BY <1>1, QuietUi DEF ltdcVars, bufVars, gxVars
<1>8. ~ Previewing' /\ (camVisible' => camVisible)
  BY DEF GuiStop, GuiUnsubscribe, GuiTeardown, Previewing, camVars
<1>9. RectInv'
  BY <1>1, <1>8, NotPreviewing DEF RectInv
<1> QED
  BY <1>4, <1>6, <1>7, <1>9

LEMMA HideKeeps == DpInv /\ (GuiHide \/ GuiRelease) => DpInv'
<1> SUFFICES ASSUME DpInv, GuiHide \/ GuiRelease PROVE DpInv'
  OBVIOUS
<1> USE DEF DpInv
<1>1. UNCHANGED <<scanOff, vbrFault, front, bufVars, camVars, uiVars, canvas, inited, stopReq, gxVars, torn>>
  BY DEF GuiHide, GuiRelease, ltdcVars
<1>2. /\ guiOwned' \in BOOLEAN /\ guiActive' \in BOOLEAN /\ shown' \in BOOLEAN
      /\ gui' \in GuiPcs /\ ~ shown'
  <2>1. CASE GuiHide
    BY <2>1 DEF GuiHide, ltdcVars, GuiPcs, DpTypes, LtdcTypes, GlueTypes
  <2>2. CASE GuiRelease
    <3>1. ~ shown
      BY <2>2 DEF GuiRelease, GuiInv
    <3> QED
      BY <2>2, <3>1 DEF GuiRelease, GuiPcs, DpTypes, LtdcTypes, GlueTypes
  <2> QED
    BY <2>1, <2>2
<1>3. LtdcTypes' /\ GlueTypes'
  BY <1>1, <1>2 DEF DpTypes, LtdcTypes, GlueTypes
<1>4. DpTypes'
  BY <1>1, <1>2, <1>3, TypesStay DEF DpTypes
<1>5. GuiInv'
  <2>1. CASE GuiHide
    <3>1. gui = "hide" /\ gui' = "blank" /\ UNCHANGED <<guiOwned, guiActive>> /\ gx \notin {"cam", "toggle"}
      BY <2>1 DEF GuiHide, ltdcVars
    <3> QED
      BY <1>1, <1>2, <3>1 DEF GuiInv, gxVars
  <2>2. CASE GuiRelease
    <3>1. /\ gui = "release" /\ gui' = "idle" /\ ~ guiActive'
          /\ guiOwned' => vbrFault
      BY <2>2 DEF GuiRelease
    <3>2. ~ shown
      BY <3>1 DEF GuiInv
    <3> QED
      BY <1>1, <1>2, <3>1, <3>2 DEF GuiInv, gxVars
  <2> QED
    BY <2>1, <2>2
<1>6. UiInv'
  BY <1>1, <1>2 DEF UiInv, gxVars
<1>7. RectInv'
  BY <1>1, <1>2, NotPreviewing DEF RectInv, Previewing, camVars, uiVars
<1> QED
  BY <1>4, <1>5, <1>6, <1>7

LEMMA BlankKeeps == DpInv /\ GuiBlank => DpInv'
<1> SUFFICES ASSUME DpInv, GuiBlank PROVE DpInv'
  OBVIOUS
<1> USE DEF DpInv
<1>1. UNCHANGED <<guiOwned, scanOff, stale, camVars, uiVars, inited, guiActive, shown, stopReq, gxVars, torn>>
      /\ gui = "blank" /\ gui' = "release"
  BY DEF GuiBlank
<1>2. ui' = [ui EXCEPT ![Back] = "other"] /\ rect' = [rect EXCEPT ![Back] = "other"]
      /\ Flip /\ canvas' = 1 - front'
  BY DEF GuiBlank
<1>3. front' \in Bufs /\ vbrFault' \in BOOLEAN /\ (vbrFault => vbrFault')
  BY <1>2, FlipTypes
<1>4. ui' \in [Bufs -> Contents] /\ rect' \in [Bufs -> Contents] /\ canvas' \in Bufs
  <2>1. ui' \in [Bufs -> Contents] /\ rect' \in [Bufs -> Contents]
    BY <1>2, BackOf, Painted DEF DpTypes, LtdcTypes, BufTypes, Contents
  <2>2. canvas' \in Bufs
    BY <1>2, <1>3, OtherBuf
  <2> QED
    BY <2>1, <2>2
<1>5. LtdcTypes' /\ BufTypes' /\ GlueTypes' /\ gui' \in GuiPcs
  BY <1>1, <1>3, <1>4 DEF DpTypes, LtdcTypes, BufTypes, GlueTypes, GuiPcs
<1>6. DpTypes'
  BY <1>1, <1>5, TypesStay DEF DpTypes
<1>7. ~ shown
  BY <1>1 DEF GuiInv
<1>8. GuiInv'
  BY <1>1, <1>3, <1>7 DEF GuiInv, gxVars
<1>9. UiInv'
  BY <1>1, <1>7 DEF UiInv, gxVars
<1>10. RectInv'
  BY <1>1, <1>7, NotPreviewing DEF RectInv, Previewing, camVars, uiVars
<1> QED
  BY <1>6, <1>8, <1>9, <1>10

\* What attaches the sink makes the rectangles stale.
LEMMA Attached ==
  ASSUME DpTypes, NEW g \in Bufs, Attach(g)
  PROVE  /\ sink' = "attached" /\ geo' = g /\ camActive' = TRUE /\ \A b \in Bufs : stale'[b]
         /\ stale' \in [Bufs -> BOOLEAN] /\ events' \in Seq(DpEvents)
BY EventsAppend DEF Attach, MarkStale, DpEvents, DpTypes, GxTypes

\* The base starts and stops, a frame is stored and posted.
LEMMA CameraKeeps == DpInv /\ Camera => DpInv'
<1> SUFFICES ASSUME DpInv, Camera PROVE DpInv'
  OBVIOUS
<1> USE DEF DpInv
<1>1. UNCHANGED <<ltdcVars, ui, camVisible, curRes, inSettings, glueVars, dirty, gx, gui, torn>>
  BY DEF Camera, BaseStarts, BaseStops, SinkStores, SinkPosts, bufVars, camVars, gxVars
<1>2. GuiInv'
  BY <1>1, QuietGui DEF ltdcVars, glueVars
<1>3. UiInv'
  BY <1>1, QuietUi DEF ltdcVars, glueVars
<1>4. LtdcTypes' /\ GlueTypes' /\ gui' \in GuiPcs /\ torn' \in BOOLEAN
  BY <1>1, TypesStay DEF DpTypes
<1>5. front' \in Bufs /\ (inSettings' => ~ camVisible')
  BY <1>1, <1>4 DEF LtdcTypes, RectInv
<1>6. CASE BaseStarts
  <2>1. PICK g \in Bufs : /\ base' = {g}
                          /\ IF sink = "idle" THEN Attach(g) ELSE UNCHANGED <<sink, geo, camActive, stale, events>>
    BY <1>6 DEF BaseStarts
  <2>2. UNCHANGED <<rect, viewGeo, redrawPending, storing>>
    BY <1>6 DEF BaseStarts
  <2>3. /\ sink' \in {"off", "idle", "attached"} /\ geo' \in Bufs /\ camActive' \in BOOLEAN
        /\ stale' \in [Bufs -> BOOLEAN] /\ events' \in Seq(DpEvents)
    BY <2>1, Attached DEF DpTypes, BufTypes, CamTypes, UiTypes, GxTypes
  <2>4. BufTypes' /\ CamTypes' /\ UiTypes' /\ GxTypes'
    BY <1>1, <2>1, <2>2, <2>3 DEF DpTypes, BufTypes, CamTypes, UiTypes, GxTypes
  <2>5. RectInv'
    <3>1. CASE Attach(g)
      BY <1>5, <3>1, Attached, AllStale
    <3>2. CASE UNCHANGED <<sink, geo, camActive, stale, events>>
      <4>1. Previewing' => Previewing
        BY <1>1, <3>2 DEF Previewing, ltdcVars, glueVars
      <4> QED
        BY <1>1, <2>2, <3>2, <4>1, QuietRect DEF ltdcVars
    <3> QED
      BY <2>1, <3>1, <3>2
  <2> QED
    BY <1>2, <1>3, <1>4, <2>4, <2>5 DEF DpTypes
<1>7. CASE BaseStops
  <2>1. UNCHANGED <<bufVars, camVars, redrawPending, storing, gxVars>>
        /\ base' = {} /\ sink' \in {"idle", sink}
    BY <1>7 DEF BaseStops
  <2>2. UiTypes'
    BY <1>1, <2>1 DEF DpTypes, UiTypes
  <2>3. DpTypes'
    BY <1>4, <2>1, <2>2, TypesStay DEF DpTypes
  <2>4. Previewing' => Previewing
    BY <1>1, <2>1 DEF Previewing, ltdcVars, camVars, glueVars, gxVars
  <2>5. RectInv'
    BY <1>1, <2>1, <2>4, QuietRect DEF ltdcVars, bufVars, camVars, gxVars
  <2> QED
    BY <1>2, <1>3, <2>3, <2>5
<1>8. CASE SinkStores
  <2>1. UNCHANGED <<camActive, geo, redrawPending, sink, base, gxVars>>
        /\ storing' = TRUE /\ rect' = Aged(rect) /\ stale' = MarkStale /\ viewGeo' = geo
    BY <1>8 DEF SinkStores
  <2>2. rect' \in [Bufs -> Contents] /\ stale' \in [Bufs -> BOOLEAN] /\ \A b \in Bufs : stale'[b]
    BY <2>1, AgedContents DEF MarkStale, DpTypes, BufTypes
  <2>3. BufTypes' /\ CamTypes' /\ UiTypes'
    BY <1>1, <2>1, <2>2 DEF DpTypes, BufTypes, CamTypes, UiTypes
  <2>4. DpTypes'
    BY <1>4, <2>1, <2>3, TypesStay DEF DpTypes
  <2>5. RectInv'
    BY <1>5, <2>2, AllStale
  <2> QED
    BY <1>2, <1>3, <2>4, <2>5
<1>9. CASE SinkPosts
  <2>1. UNCHANGED <<bufVars, camVars, sink, base>> /\ storing' = FALSE
    BY <1>9 DEF SinkPosts
  <2>2. redrawPending' \in BOOLEAN /\ (events' = events \/ events' = Append(events, "FRAME"))
    BY <1>9 DEF SinkPosts, DpTypes, UiTypes
  <2>3. events' \in Seq(DpEvents)
    BY <2>2, EventsAppend DEF DpEvents, DpTypes, GxTypes
  <2>4. UiTypes' /\ GxTypes'
    BY <1>1, <2>1, <2>2, <2>3 DEF DpTypes, UiTypes, GxTypes
  <2>5. DpTypes'
    BY <1>4, <2>1, <2>4, TypesStay DEF DpTypes
  <2>6. Previewing' => Previewing
    BY <1>1, <2>2, EventsAppend DEF Previewing, DpEvents, ltdcVars, glueVars
  <2>7. RectInv'
    BY <1>1, <2>1, <2>6, QuietRect DEF ltdcVars, bufVars, camVars
  <2> QED
    BY <1>2, <1>3, <2>5, <2>7
<1> QED
  BY <1>6, <1>7, <1>8, <1>9 DEF Camera

\* GUIX takes an event out of its queue, or the user's tap.
LEMMA Dequeued ==
  ASSUME DpTypes, NEW e, Event(e)
  PROVE  /\ events' \in Seq(DpEvents) /\ gx = "idle"
         /\ e # "AUTOSTART" =>
              ((\A k \in 1 .. Len(events') : events'[k] # "AUTOSTART")
                 => \A k \in 1 .. Len(events) : events[k] # "AUTOSTART")
BY EventsTail DEF Event

LEMMA Visible ==
  ASSUME DpTypes, NEW on \in BOOLEAN, SetVisible(on)
  PROVE  /\ camVisible' = on /\ stale' \in [Bufs -> BOOLEAN]
         /\ on => \A b \in Bufs : stale'[b]
BY DEF SetVisible, MarkStale, DpTypes, BufTypes

LEMMA FrameKeeps == DpInv /\ GxFrame => DpInv'
<1> SUFFICES ASSUME DpInv, GxFrame PROVE DpInv'
  OBVIOUS
<1> USE DEF DpInv
<1>1. UNCHANGED <<ltdcVars, camVars, curRes, sink, base, storing, inSettings, glueVars, gx, gui, torn>>
      /\ Event("FRAME")
  BY DEF GxFrame
<1>2. events' \in Seq(DpEvents) /\ gx = "idle" /\ (Previewing' => Previewing)
  <2>1. /\ events' \in Seq(DpEvents) /\ gx = "idle"
        /\ (\A k \in 1 .. Len(events') : events'[k] # "AUTOSTART")
              => \A k \in 1 .. Len(events) : events[k] # "AUTOSTART"
    BY <1>1, Dequeued
  <2> QED
    BY <1>1, <2>1 DEF Previewing, ltdcVars, camVars, glueVars
<1>3. redrawPending' \in BOOLEAN
  BY DEF GxFrame, DpTypes, UiTypes
<1>4. UiTypes'
  BY <1>1, <1>3 DEF DpTypes, UiTypes
<1>5. GuiInv'
  BY <1>1, QuietGui DEF ltdcVars, glueVars
<1>6. CASE inSettings
  <2>1. UNCHANGED <<bufVars, dirty>>
    BY <1>6 DEF GxFrame
  <2>2. GxTypes'
    BY <1>1, <1>2, <2>1 DEF DpTypes, GxTypes
  <2>3. DpTypes'
    BY <1>1, <1>4, <2>1, <2>2, TypesStay DEF DpTypes
  <2>4. UiInv'
    BY <1>1, <2>1, QuietUi DEF ltdcVars, bufVars, glueVars
  <2>5. RectInv'
    BY <1>1, <1>2, <2>1, QuietRect DEF ltdcVars, bufVars, camVars
  <2> QED
    BY <1>5, <2>3, <2>4, <2>5
<1>7. CASE ~ inSettings
  <2>1. Redraw({"cam"}) /\ (\/ rect' = Aged(rect) /\ stale' = MarkStale
                            \/ UNCHANGED <<rect, stale>>)
    BY <1>7 DEF GxFrame
  <2>2. UiInv' /\ ui' \in [Bufs -> Contents] /\ dirty' \subseteq {"cam", "rest"}
    BY <1>1, <1>2, <2>1, RedrawUi DEF ltdcVars, glueVars
  <2>3. rect' \in [Bufs -> Contents] /\ stale' \in [Bufs -> BOOLEAN]
    BY <2>1, AgedContents DEF MarkStale, DpTypes, BufTypes
  <2>4. BufTypes' /\ GxTypes'
    BY <1>1, <1>2, <2>2, <2>3 DEF DpTypes, BufTypes, GxTypes
  <2>5. DpTypes'
    BY <1>1, <1>4, <2>4, TypesStay DEF DpTypes
  <2>6. RectInv'
    <3>1. CASE stale' = MarkStale
      <4>1. \A b \in Bufs : stale'[b]
        BY <3>1 DEF MarkStale
      <4>2. front' \in Bufs /\ (inSettings' => ~ camVisible')
        BY <1>1, <1>7, <2>5 DEF DpTypes, LtdcTypes
      <4> QED
        BY <4>1, <4>2, AllStale
    <3>2. CASE UNCHANGED <<rect, stale>>
      <4>1. "rest" \in dirty' <=> "rest" \in dirty
        BY <2>1 DEF Redraw
      <4> QED
        BY <1>1, <1>2, <3>2, <4>1, QuietRect DEF ltdcVars, camVars
    <3> QED
      BY <2>1, <3>1, <3>2
  <2> QED
    BY <1>5, <2>2, <2>5, <2>6
<1> QED
  BY <1>6, <1>7

LEMMA GeomKeeps == DpInv /\ GxGeom => DpInv'
<1> SUFFICES ASSUME DpInv, GxGeom PROVE DpInv'
  OBVIOUS
<1> USE DEF DpInv
<1>1. UNCHANGED <<ltdcVars, rect, camActive, geo, viewGeo, redrawPending, sink, base, storing, inSettings,
                  glueVars, gx, gui, torn>>
      /\ Event("GEOM")
  BY DEF GxGeom
<1>2. /\ events' \in Seq(DpEvents) /\ gx = "idle"
      /\ (\A k \in 1 .. Len(events') : events'[k] # "AUTOSTART")
            => \A k \in 1 .. Len(events) : events[k] # "AUTOSTART"
  BY <1>1, Dequeued
<1>3. GuiInv'
  BY <1>1, QuietGui DEF ltdcVars, glueVars
<1>4. CASE geo # curRes
  <2>1. curRes' = geo /\ SetVisible(~ inSettings) /\ Redraw({"cam", "rest"})
    BY <1>4 DEF GxGeom
  <2>2. UiInv' /\ ui' \in [Bufs -> Contents] /\ dirty' \subseteq {"cam", "rest"}
    BY <1>1, <1>2, <2>1, RedrawUi DEF ltdcVars, glueVars
  <2>3. inSettings \in BOOLEAN /\ (~ inSettings) \in BOOLEAN
    BY DEF DpTypes, UiTypes
  <2>4. /\ camVisible' = ~ inSettings /\ stale' \in [Bufs -> BOOLEAN]
        /\ ~ inSettings => \A b \in Bufs : stale'[b]
    BY <2>1, <2>3, Visible
  <2>5. BufTypes' /\ CamTypes' /\ UiTypes' /\ GxTypes'
    BY <1>1, <1>2, <2>1, <2>2, <2>3, <2>4 DEF DpTypes, BufTypes, CamTypes, UiTypes, GxTypes
  <2>6. DpTypes'
    BY <1>1, <2>5, TypesStay DEF DpTypes
  <2>7. RectInv'
    <3>1. CASE inSettings
      BY <1>1, <2>4, <3>1, NotPreviewing DEF Previewing
    <3>2. CASE ~ inSettings
      BY <1>1, <2>4, <2>6, <3>2, AllStale DEF DpTypes, LtdcTypes
    <3> QED
      BY <3>1, <3>2
  <2> QED
    BY <1>3, <2>2, <2>6, <2>7
<1>5. CASE geo = curRes
  <2>1. UNCHANGED <<curRes, camVisible, stale, dirty, ui>>
    BY <1>5 DEF GxGeom
  <2>2. BufTypes' /\ CamTypes' /\ UiTypes' /\ GxTypes'
    BY <1>1, <1>2, <2>1 DEF DpTypes, BufTypes, CamTypes, UiTypes, GxTypes
  <2>3. DpTypes'
    BY <1>1, <2>2, TypesStay DEF DpTypes
  <2>4. UiInv'
    BY <1>1, <2>1, QuietUi DEF ltdcVars, glueVars
  <2>5. Previewing' => Previewing
    BY <1>1, <1>2, <2>1 DEF Previewing, ltdcVars, glueVars
  <2>6. RectInv'
    BY <1>1, <2>1, <2>5, QuietRect DEF ltdcVars
  <2> QED
    BY <1>3, <2>3, <2>4, <2>6
<1> QED
  BY <1>4, <1>5

LEMMA AutostartKeeps == DpInv /\ GxAutostart => DpInv'
<1> SUFFICES ASSUME DpInv, GxAutostart PROVE DpInv'
  OBVIOUS
<1> USE DEF DpInv
<1>1. UNCHANGED <<ltdcVars, rect, camActive, geo, viewGeo, curRes, sink, base, storing, glueVars, gui, torn>>
      /\ Event("AUTOSTART") /\ inSettings' = FALSE /\ Redraw({"cam", "rest"})
  BY DEF GxAutostart
<1>2. events' \in Seq(DpEvents) /\ gx = "idle"
  BY <1>1, Dequeued
<1>3. PICK on \in BOOLEAN : SetVisible(on)
  BY DEF GxAutostart, PreviewRunning
<1>4. gx' \in {"idle", "subscribe"} /\ redrawPending' \in BOOLEAN
  BY <1>2 DEF GxAutostart, DpTypes, UiTypes
<1>5. UiInv' /\ ui' \in [Bufs -> Contents] /\ dirty' \subseteq {"cam", "rest"}
  BY <1>1, <1>4, RedrawUi DEF ltdcVars, glueVars
<1>6. camVisible' = on /\ stale' \in [Bufs -> BOOLEAN] /\ (on => \A b \in Bufs : stale'[b])
  BY <1>3, Visible
<1>7. BufTypes' /\ CamTypes' /\ UiTypes' /\ GxTypes'
  BY <1>1, <1>2, <1>4, <1>5, <1>6 DEF DpTypes, BufTypes, CamTypes, UiTypes, GxTypes
<1>8. DpTypes'
  BY <1>1, <1>7, TypesStay DEF DpTypes
<1>9. GuiInv'
  BY <1>1, <1>4, QuietGui DEF ltdcVars, glueVars
<1>10. RectInv'
  <2>1. CASE on
    BY <1>1, <1>6, <1>8, <2>1, AllStale DEF DpTypes, LtdcTypes
  <2>2. CASE ~ on
    BY <1>6, <2>2, NotPreviewing DEF Previewing
  <2> QED
    BY <2>1, <2>2
<1> QED
  BY <1>5, <1>8, <1>9, <1>10

LEMMA SubscribeKeeps == DpInv /\ GxSubscribe => DpInv'
<1> SUFFICES ASSUME DpInv, GxSubscribe PROVE DpInv'
  OBVIOUS
<1> USE DEF DpInv
<1>1. UNCHANGED <<ltdcVars, ui, rect, viewGeo, curRes, redrawPending, base, storing, inSettings,
                  glueVars, dirty, gui, torn>>
      /\ gx = "subscribe" /\ gx' = "idle"
  BY DEF GxSubscribe
<1>2. GuiInv'
  BY <1>1, QuietGui DEF ltdcVars, glueVars
<1>3. UiInv'
  BY <1>1, QuietUi DEF ltdcVars, glueVars
<1>4. \/ (\E g \in base : Attach(g)) /\ UNCHANGED camVisible
      \/ /\ sink' \in {"idle", sink} /\ UNCHANGED <<geo, camActive, stale, events>>
         /\ (camVisible' = FALSE \/ UNCHANGED camVisible)
  BY DEF GxSubscribe
<1>5. CASE (\E g \in base : Attach(g)) /\ UNCHANGED camVisible
  <2>1. PICK g \in Bufs : Attach(g)
    BY <1>5 DEF DpTypes, UiTypes
  <2>2. /\ sink' = "attached" /\ geo' = g /\ camActive' = TRUE /\ \A b \in Bufs : stale'[b]
        /\ stale' \in [Bufs -> BOOLEAN] /\ events' \in Seq(DpEvents)
    BY <2>1, Attached
  <2>3. BufTypes' /\ CamTypes' /\ UiTypes' /\ GxTypes'
    BY <1>1, <1>5, <2>2 DEF DpTypes, BufTypes, CamTypes, UiTypes, GxTypes
  <2>4. DpTypes'
    BY <1>1, <2>3, TypesStay DEF DpTypes
  <2>5. inSettings' => ~ camVisible'
    BY <1>1, <1>5 DEF RectInv
  <2>6. RectInv'
    BY <2>2, <2>4, <2>5, AllStale DEF DpTypes, LtdcTypes
  <2> QED
    BY <1>2, <1>3, <2>4, <2>6
<1>6. CASE /\ sink' \in {"idle", sink} /\ UNCHANGED <<geo, camActive, stale, events>>
           /\ (camVisible' = FALSE \/ UNCHANGED camVisible)
  <2>1. BufTypes' /\ CamTypes' /\ UiTypes' /\ GxTypes'
    BY <1>1, <1>6 DEF DpTypes, BufTypes, CamTypes, UiTypes, GxTypes
  <2>2. DpTypes'
    BY <1>1, <2>1, TypesStay DEF DpTypes
  <2>3. (Previewing' => Previewing) /\ (camVisible' => camVisible)
    BY <1>1, <1>6 DEF Previewing, ltdcVars, glueVars
  <2>4. RectInv'
    BY <1>1, <1>6, <2>3, QuietRect DEF ltdcVars
  <2> QED
    BY <1>2, <1>3, <2>2, <2>4
<1> QED
  BY <1>4, <1>5, <1>6

LEMMA TapKeeps == DpInv /\ GxTap => DpInv'
<1> SUFFICES ASSUME DpInv, GxTap PROVE DpInv'
  OBVIOUS
<1> USE DEF DpInv
<1>1. UNCHANGED <<ltdcVars, rect, camActive, geo, viewGeo, curRes, redrawPending, sink, base, storing,
                  glueVars, events, gx, gui, torn>>
      /\ Redraw({"cam", "rest"}) /\ gx = "idle"
  BY DEF GxTap
<1>2. UiInv' /\ ui' \in [Bufs -> Contents] /\ dirty' \subseteq {"cam", "rest"}
  BY <1>1, RedrawUi DEF ltdcVars, glueVars
<1>3. GuiInv'
  BY <1>1, QuietGui DEF ltdcVars, glueVars
<1>4. \/ inSettings' = TRUE /\ SetVisible(FALSE)
      \/ inSettings' = FALSE /\ SetVisible(PreviewRunning)
      \/ inSettings /\ UNCHANGED <<inSettings, camVisible, stale>>
  BY DEF GxTap
<1>5. /\ inSettings' \in BOOLEAN /\ camVisible' \in BOOLEAN /\ stale' \in [Bufs -> BOOLEAN]
      /\ ~ camVisible' \/ (~ inSettings' /\ \A b \in Bufs : stale'[b])
  <2>1. CASE inSettings' = TRUE /\ SetVisible(FALSE)
    BY <2>1, Visible
  <2>2. CASE inSettings' = FALSE /\ SetVisible(PreviewRunning)
    <3>1. PreviewRunning \in BOOLEAN
      BY DEF PreviewRunning
    <3> QED
      BY <2>2, <3>1, Visible
  <2>3. CASE inSettings /\ UNCHANGED <<inSettings, camVisible, stale>>
    BY <2>3 DEF RectInv, DpTypes, BufTypes, CamTypes, UiTypes
  <2> QED
    BY <1>4, <2>1, <2>2, <2>3
<1>6. BufTypes' /\ CamTypes' /\ UiTypes' /\ GxTypes'
  BY <1>1, <1>2, <1>5 DEF DpTypes, BufTypes, CamTypes, UiTypes, GxTypes
<1>7. DpTypes'
  BY <1>1, <1>6, TypesStay DEF DpTypes
<1>8. RectInv'
  <2>1. CASE ~ camVisible'
    BY <2>1, NotPreviewing DEF Previewing
  <2>2. CASE ~ inSettings' /\ \A b \in Bufs : stale'[b]
    BY <1>7, <2>2, AllStale DEF DpTypes, LtdcTypes
  <2> QED
    BY <1>5, <2>1, <2>2
<1> QED
  BY <1>2, <1>3, <1>7, <1>8

LEMMA ResolutionKeeps == DpInv /\ GxResolution => DpInv'
<1> SUFFICES ASSUME DpInv, GxResolution PROVE DpInv'
  OBVIOUS
<1> USE DEF DpInv
<1>1. UNCHANGED <<ltdcVars, rect, camVisible, viewGeo, redrawPending, storing, inSettings, glueVars,
                  events, gx, gui, torn>>
      /\ Redraw({"cam", "rest"}) /\ gx = "idle" /\ inSettings
  BY DEF GxResolution
<1>2. UiInv' /\ ui' \in [Bufs -> Contents] /\ dirty' \subseteq {"cam", "rest"}
  BY <1>1, RedrawUi DEF ltdcVars, glueVars
<1>3. GuiInv'
  BY <1>1, QuietGui DEF ltdcVars, glueVars
<1>4. 1 - curRes \in Bufs
  BY DEF Bufs, DpTypes, UiTypes
<1>5. /\ curRes' \in Bufs /\ base' \subseteq Bufs /\ sink' \in {"off", "idle", "attached"}
      /\ geo' \in Bufs /\ camActive' \in BOOLEAN /\ stale' \in [Bufs -> BOOLEAN]
  BY <1>4 DEF GxResolution, MarkStale, DpTypes, BufTypes, CamTypes, UiTypes
<1>6. BufTypes' /\ CamTypes' /\ UiTypes' /\ GxTypes'
  BY <1>1, <1>2, <1>5 DEF DpTypes, BufTypes, CamTypes, UiTypes, GxTypes
<1>7. DpTypes'
  BY <1>1, <1>6, TypesStay DEF DpTypes
<1>8. RectInv'
  BY <1>1, NotPreviewing DEF RectInv, Previewing
<1> QED
  BY <1>2, <1>3, <1>7, <1>8

\* GUIX draws what is dirty into the back buffer ...
LEMMA DrawKeeps == DpInv /\ GxDraw => DpInv'
<1> SUFFICES ASSUME DpInv, GxDraw PROVE DpInv'
  OBVIOUS
<1> USE DEF DpInv
<1>1. UNCHANGED <<ltdcVars, stale, camVars, uiVars, glueVars, events, dirty, gui, torn>>
      /\ gx = "idle" /\ shown /\ dirty # {} /\ gx' = (IF inSettings THEN "toggle" ELSE "cam")
  BY DEF GxDraw
<1>2. canvas \in Bufs /\ ui \in [Bufs -> Contents] /\ rect \in [Bufs -> Contents]
  BY DEF DpTypes, GlueTypes, BufTypes
<1>3. IF "rest" \in dirty THEN ui' = [ui EXCEPT ![canvas] = "latest"] /\ rect' = [rect EXCEPT ![canvas] = "other"]
                          ELSE UNCHANGED <<ui, rect>>
  BY DEF GxDraw, Paint
<1>4. ui' \in [Bufs -> Contents] /\ rect' \in [Bufs -> Contents]
  BY <1>2, <1>3, Painted DEF Contents
<1>5. BufTypes' /\ GxTypes'
  BY <1>1, <1>4 DEF DpTypes, BufTypes, GxTypes
<1>6. DpTypes'
  BY <1>1, <1>5, TypesStay DEF DpTypes
<1>7. GuiInv'
  BY <1>1, QuietGui DEF ltdcVars, glueVars
<1>8. UiInv'
  <2>1. UNCHANGED <<shown, torn, vbrFault, canvas, dirty>> /\ dirty # {}
    BY <1>1 DEF ltdcVars, glueVars
  <2>2. "rest" \in dirty => ui'[canvas] = "latest"
    BY <1>2, <1>3
  <2>3. "rest" \notin dirty => ui' = ui
    BY <1>3
  <2> QED
    BY <1>2, <2>1, <2>2, <2>3 DEF UiInv
<1>9. RectInv'
  <2>1. UNCHANGED <<inSettings, curRes, geo, viewGeo, stale, dirty, front, camVisible>>
    BY <1>1 DEF ltdcVars, camVars, uiVars
  <2>2. Previewing' => Previewing /\ gx' = "cam"
    BY <1>1 DEF Previewing, RectInv, ltdcVars, camVars, uiVars, glueVars
  <2>3. "rest" \notin dirty => rect' = rect
    BY <1>3
  <2> QED
    BY <1>1, <2>1, <2>2, <2>3 DEF RectInv
<1> QED
  BY <1>6, <1>7, <1>8, <1>9

\* ... the camera icon over it, which repaints a stale rectangle ...
LEMMA DrawCameraKeeps == DpInv /\ GxDrawCamera => DpInv'
<1> SUFFICES ASSUME DpInv, GxDrawCamera PROVE DpInv'
  OBVIOUS
<1> USE DEF DpInv
<1>1. UNCHANGED <<ltdcVars, ui, camVars, uiVars, glueVars, events, dirty, gui, torn>>
      /\ gx = "cam" /\ gx' = "toggle"
  BY DEF GxDrawCamera
<1>2. PICK ok \in BOOLEAN :
        /\ rect' = [rect EXCEPT ![canvas] = IF curRes = viewGeo /\ (ok \/ rect[canvas] = "latest")
                                            THEN "latest" ELSE "other"]
        /\ stale' = IF Repaints(ok) THEN [stale EXCEPT ![Back] = FALSE] ELSE stale
  BY DEF GxDrawCamera, Paint
<1>3. /\ canvas \in Bufs /\ front \in Bufs /\ Back \in Bufs /\ Back # front
      /\ rect \in [Bufs -> Contents] /\ stale \in [Bufs -> BOOLEAN]
  BY BackOf DEF DpTypes, LtdcTypes, GlueTypes, BufTypes
<1>4. rect' \in [Bufs -> Contents] /\ stale' \in [Bufs -> BOOLEAN]
  BY <1>2, <1>3, Painted DEF Contents
<1>5. BufTypes' /\ GxTypes'
  BY <1>1, <1>4 DEF DpTypes, BufTypes, GxTypes
<1>6. DpTypes'
  BY <1>1, <1>5, TypesStay DEF DpTypes
<1>7. GuiInv'
  BY <1>1, QuietGui DEF ltdcVars, glueVars
<1>8. UiInv'
  BY <1>1, QuietUi DEF ltdcVars, glueVars
<1>9. ASSUME Previewing'
      PROVE  RectInv'
  <2>1. Previewing /\ UNCHANGED <<inSettings, curRes, geo, viewGeo, dirty, front, camVisible>>
    BY <1>1, <1>9 DEF Previewing, ltdcVars, camVars, uiVars, glueVars
  <2>2. canvas = Back
    BY <2>1 DEF GuiInv, Previewing
  <2>3. ASSUME curRes = geo, viewGeo = geo, NEW b \in Bufs, ~ stale'[b]
        PROVE  rect'[b] = "latest"
    <3>1. CASE b = canvas
      <4>1. Repaints(ok) \/ ~ stale[b]
        BY <1>2, <2>3
      <4>2. ok \/ rect[canvas] = "latest"
        BY <2>1, <2>3, <3>1, <4>1 DEF Repaints, RectInv
      <4> QED
        BY <1>2, <1>3, <2>3, <3>1, <4>2
    <3>2. CASE b # canvas
      <4>1. ~ stale[b] /\ rect'[b] = rect[b]
        BY <1>2, <1>3, <2>2, <2>3, <3>2
      <4> QED
        BY <2>1, <2>3, <4>1 DEF RectInv
    <3> QED
      BY <3>1, <3>2
  <2>4. "rest" \in dirty => stale'[front]
    BY <1>1, <1>2, <1>3, <2>1 DEF RectInv
  <2> QED
    BY <1>1, <2>1, <2>3, <2>4 DEF RectInv
<1>10. inSettings' => ~ camVisible'
  BY <1>1 DEF RectInv, camVars, uiVars
<1>11. RectInv'
  BY <1>9, <1>10, NotPreviewing
<1> QED
  BY <1>6, <1>7, <1>8, <1>11

\* ... and the buffers toggle: what is still stale in the one that is shown is
\* copied there, and what was dirty is copied on to the other.
LEMMA ToggleKeeps == DpInv /\ GxToggle => DpInv'
<1> SUFFICES ASSUME DpInv, GxToggle PROVE DpInv'
  OBVIOUS
<1> USE DEF DpInv
<1>1. UNCHANGED <<guiOwned, scanOff, camVars, uiVars, inited, guiActive, shown, stopReq, events, gui>>
      /\ gx = "toggle" /\ gx' = "idle" /\ dirty' = {}
  BY DEF GxToggle
<1>2. /\ canvas \in Bufs /\ front \in Bufs /\ Back \in Bufs /\ Back # front /\ 1 - Back = front
      /\ \A b \in Bufs : b = front \/ b = Back
  BY BackOf DEF DpTypes, LtdcTypes, GlueTypes
<1>3. ui \in [Bufs -> Contents] /\ rect \in [Bufs -> Contents] /\ stale \in [Bufs -> BOOLEAN]
  BY DEF DpTypes, BufTypes
<1>4. /\ shown /\ guiOwned /\ dirty # {} /\ (~ scanOff \/ vbrFault)
      /\ inSettings' => ~ camVisible'
  BY <1>1 DEF GuiInv, UiInv, RectInv, camVars, uiVars
<1>5. GxTypes'
  BY <1>1 DEF DpTypes, GxTypes
<1>6. CASE canvas # Back \/ vbrFault
  <2>1. UNCHANGED <<front, vbrFault, canvas, bufVars, torn>>
    BY <1>6 DEF GxToggle
  <2>2. LtdcTypes' /\ GlueTypes'
    BY <1>1, <2>1 DEF DpTypes, LtdcTypes, GlueTypes
  <2>3. DpTypes'
    BY <1>1, <1>5, <2>1, <2>2, TypesStay DEF DpTypes
  <2>4. GuiInv'
    BY <1>1, <2>1, QuietGui
  <2>5. vbrFault'
    BY <1>4, <1>6, <2>1 DEF GuiInv
  <2>6. UiInv' /\ RectInv'
    BY <1>1, <1>4, <2>5, NotPreviewing DEF UiInv, Previewing
  <2> QED
    BY <2>3, <2>4, <2>6
<1>7. CASE canvas = Back /\ ~ vbrFault
  <2>1. PICK ok \in BOOLEAN :
          LET due == camVisible /\ stale[canvas] /\ camActive
              here == IF due THEN IF ok /\ viewGeo = geo THEN "latest" ELSE "other" ELSE rect[canvas]
          IN /\ stale' = [stale EXCEPT ![canvas] = @ /\ ~ (due /\ ok)]
             /\ Flip /\ canvas' = 1 - front'
             /\ IF vbrFault' \/ RectInCam
                THEN rect' = [rect EXCEPT ![canvas] = here] /\ UNCHANGED <<ui, torn>>
                ELSE /\ rect' = [rect EXCEPT ![canvas] = here, ![front] = IF ok THEN here ELSE "other"]
                     /\ ui' = IF ok /\ "rest" \in dirty THEN Paint(ui, front, ui[canvas]) ELSE ui
                     /\ torn' = (torn \/ ~ ok)
    BY <1>7 DEF GxToggle
  <2> DEFINE due == camVisible /\ stale[canvas] /\ camActive
             here == IF due THEN IF ok /\ viewGeo = geo THEN "latest" ELSE "other" ELSE rect[canvas]
  <2>2. stale' = [stale EXCEPT ![canvas] = @ /\ ~ (due /\ ok)] /\ Flip /\ canvas' = 1 - front'
    BY <2>1
  <2>3. vbrFault' \/ RectInCam => rect' = [rect EXCEPT ![canvas] = here] /\ UNCHANGED <<ui, torn>>
    BY <2>1
  <2>4. ~ (vbrFault' \/ RectInCam) =>
          /\ rect' = [rect EXCEPT ![canvas] = here, ![front] = IF ok THEN here ELSE "other"]
          /\ ui' = IF ok /\ "rest" \in dirty THEN [ui EXCEPT ![front] = ui[canvas]] ELSE ui
          /\ torn' = (torn \/ ~ ok)
    BY <2>1 DEF Paint
  <2>5. /\ due = TRUE => camVisible /\ stale[canvas] /\ camActive
        /\ here \in Contents /\ due \in BOOLEAN
        /\ ~ due => here = rect[canvas]
        /\ due /\ ok /\ viewGeo = geo => here = "latest"
    BY <1>2, <1>3 DEF Contents, DpTypes, CamTypes
  <2>6. ~ stale[canvas] => ~ due
    BY <2>5
  <2> HIDE DEF due, here
  <2>7. /\ front' \in Bufs /\ vbrFault' \in BOOLEAN
        /\ ~ vbrFault' => front' = Back
    BY <1>4, <1>7, <2>2, FlipTypes
  <2>8. canvas' \in Bufs
    BY <2>2, <2>7, OtherBuf
  <2>9. stale' \in [Bufs -> BOOLEAN]
    BY <1>2, <1>3, <2>2
  <2>10. rect' \in [Bufs -> Contents]
    <3>1. [rect EXCEPT ![canvas] = here] \in [Bufs -> Contents]
      BY <1>2, <1>3, <2>5
    <3>2. [rect EXCEPT ![canvas] = here, ![front] = IF ok THEN here ELSE "other"] \in [Bufs -> Contents]
      <4>1. (IF ok THEN here ELSE "other") \in Contents
        BY <2>5 DEF Contents
      <4> QED
        BY <1>2, <1>3, <2>5, <4>1
    <3> QED
      BY <2>3, <2>4, <3>1, <3>2
  <2>11. ui' \in [Bufs -> Contents] /\ torn' \in BOOLEAN
    <3>1. ui[canvas] \in Contents /\ torn \in BOOLEAN
      BY <1>2, <1>3 DEF DpTypes
    <3> QED
      BY <1>2, <1>3, <2>3, <2>4, <3>1
  <2>12. LtdcTypes' /\ BufTypes' /\ GlueTypes'
    BY <1>1, <2>7, <2>8, <2>9, <2>10, <2>11 DEF DpTypes, LtdcTypes, BufTypes, GlueTypes
  <2>13. DpTypes'
    BY <1>1, <1>5, <2>11, <2>12, TypesStay DEF DpTypes
  <2>14. GuiInv'
    <3>1. canvas' = Back'
      BY <2>2 DEF Back
    <3> QED
      BY <1>1, <1>4, <1>7, <3>1 DEF GuiInv
  <2>15. CASE vbrFault'
    <3>1. UiInv' /\ RectInv'
      BY <1>1, <1>4, <2>15, NotPreviewing DEF UiInv, Previewing
    <3> QED
      BY <2>13, <2>14, <3>1
  <2>16. CASE ~ vbrFault'
    <3>1. UiInv'
      <4>1. ASSUME ~ torn', NEW b \in Bufs
            PROVE  ui'[b] = "latest"
        <5>1. ~ torn /\ ui[canvas] = "latest" /\ ("rest" \notin dirty => ui[b] = "latest")
          <6>1. ~ torn
            BY <2>3, <2>4, <4>1
          <6> QED
            BY <1>1, <1>4, <1>7, <6>1 DEF UiInv
        <5>2. CASE RectInCam
          BY <2>3, <5>1, <5>2 DEF RectInCam
        <5>3. CASE ~ RectInCam
          <6>1. ok /\ ui' = IF "rest" \in dirty THEN [ui EXCEPT ![front] = ui[canvas]] ELSE ui
            BY <2>4, <2>16, <4>1, <5>3
          <6>2. CASE "rest" \in dirty
            <7>1. b = front \/ b = canvas
              BY <1>2, <1>7
            <7> QED
              BY <1>2, <1>3, <5>1, <6>1, <6>2, <7>1
          <6>3. CASE "rest" \notin dirty
            BY <5>1, <6>1, <6>3
          <6> QED
            BY <6>2, <6>3
        <5> QED
          BY <5>2, <5>3
      <4> QED
        BY <1>1, <4>1 DEF UiInv
    <3>2. ASSUME Previewing'
          PROVE  RectInv'
      <4>1. Previewing
        BY <1>1, <1>4, <1>7, <3>2 DEF Previewing, camVars
      <4>2. ASSUME curRes = geo, viewGeo = geo, NEW b \in Bufs, ~ stale'[b]
            PROVE  rect'[b] = "latest"
        <5>1. CASE b = canvas
          <6>1. here = "latest"
            <7>1. CASE stale[canvas]
              BY <1>2, <1>3, <2>2, <2>5, <4>2, <5>1, <7>1
            <7>2. CASE ~ stale[canvas]
              BY <1>2, <2>5, <2>6, <4>1, <4>2, <7>2 DEF RectInv
            <7> QED
              BY <7>1, <7>2
          <6>2. rect'[canvas] = here
            BY <1>2, <1>3, <1>7, <2>3, <2>4
          <6> QED
            BY <5>1, <6>1, <6>2
        <5>2. CASE b # canvas
          <6>1. b = front /\ ~ stale[front]
            BY <1>2, <1>3, <1>7, <2>2, <4>2, <5>2
          <6>2. rect[front] = "latest" /\ "rest" \notin dirty
            BY <1>1, <1>2, <4>1, <4>2, <6>1 DEF RectInv
          <6>3. RectInCam
            <7>1. camVisible
              BY <4>1 DEF Previewing
            <7>2. dirty = {"cam"}
              BY <1>4, <6>2 DEF DpTypes, GxTypes
            <7>3. curRes <= geo
              BY <4>2 DEF DpTypes, CamTypes, Bufs
            <7> QED
              BY <7>1, <7>2, <7>3 DEF RectInCam
          <6> QED
            BY <1>2, <1>3, <2>3, <5>2, <6>1, <6>2, <6>3
        <5> QED
          BY <5>1, <5>2
      <4>3. "rest" \notin dirty'
        BY <1>1
      <4>4. curRes' = geo' /\ viewGeo' = geo' => curRes = geo /\ viewGeo = geo
        BY <1>1 DEF camVars, uiVars
      <4> QED
        BY <1>4, <4>2, <4>3, <4>4 DEF RectInv
    <3>3. RectInv'
      BY <1>4, <3>2, NotPreviewing
    <3> QED
      BY <2>13, <2>14, <3>1, <3>3
  <2> QED
    BY <2>15, <2>16
<1> QED
  BY <1>6, <1>7

LEMMA DpInvariance == DpSpec => []DpInv
<1>1. DpInv /\ [DpNext]_dpVars => DpInv'
  <2> SUFFICES ASSUME DpInv, [DpNext]_dpVars PROVE DpInv'
    OBVIOUS
  <2>1. CASE GuixThread
    BY <2>1, FrameKeeps, GeomKeeps, AutostartKeeps, SubscribeKeeps, DrawKeeps, DrawCameraKeeps, ToggleKeeps
    DEF GuixThread
  <2>2. CASE GuiCommand
    BY <2>2, TakeKeeps, CanvasKeeps, UpKeeps, StopKeeps, HideKeeps, BlankKeeps DEF GuiCommand
  <2>3. CASE LcdThread \/ GuiStart \/ GuiStop \/ Camera \/ GxTap \/ GxResolution
    BY <2>3, LcdKeeps, TakeKeeps, StopKeeps, CameraKeeps, TapKeeps, ResolutionKeeps
  <2>4. CASE UNCHANGED dpVars
    BY <2>4, StutterKeepsDp DEF dpVars
  <2> QED
    BY <2>1, <2>2, <2>3, <2>4 DEF DpNext
<1> QED
  BY <1>1, DpInitInv, PTL DEF DpSpec

\* GUIX draws only into the back buffer of a display it owns, whatever the
\* `lcd` and `gui` commands, the camera and the taps do meanwhile; once drawn,
\* both buffers agree; a camera rectangle that is not marked stale shows the
\* latest stored frame.
THEOREM PanelIsSound == DpSpec => []DisplaySound
<1>1. DpInv => DisplaySound
  <2> SUFFICES ASSUME DpInv PROVE DisplaySound
    OBVIOUS
  <2> USE DEF DpInv
  <2>1. DpTypeOK
    BY DEF DpTypeOK, DpTypes, LtdcTypes, BufTypes, CamTypes, UiTypes, GlueTypes, GxTypes, Contents
  <2>2. OwnedByGuix
    <3>1. gx \in {"cam", "toggle"} => guiOwned /\ (canvas = Back \/ vbrFault)
      BY DEF GuiInv
    <3>2. guiOwned => ~ scanOff \/ vbrFault
      BY DEF GuiInv
    <3>3. shown /\ gx = "idle" /\ dirty = {} /\ ~ torn /\ ~ vbrFault => \A b \in Bufs : ui[b] = "latest"
      BY DEF UiInv
    <3> QED
      BY <3>1, <3>2, <3>3 DEF OwnedByGuix
  <2>3. RectFresh
    <3> SUFFICES ASSUME camVisible, shown, gui = "idle", events \in Seq({"FRAME"}), curRes = geo, viewGeo = geo,
                        ~ vbrFault, NEW b \in Bufs, ~ stale[b]
                 PROVE  rect[b] = "latest"
      BY DEF RectFresh
    <3>1. \A k \in 1 .. Len(events) : events[k] \in {"FRAME"}
      BY ElementOfSeq
    <3>2. Previewing
      BY <3>1 DEF Previewing
    <3> QED
      BY <3>2 DEF RectInv
  <2> QED
    BY <2>1, <2>2, <2>3 DEF DisplaySound
<1> QED
  BY <1>1, DpInvariance, PTL
==============================================================================
