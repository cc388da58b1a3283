-------------------------------- MODULE LogRing ------------------------------
(***************************************************************************)
(* svc/log.c: the RAM log, a ring of records that survives a reset, with   *)
(* its readers (shell/cmds/cmd_dmesg.c) and the fault handler that writes  *)
(* to it (src/fault.c).                                                    *)
(*                                                                         *)
(* log_vwrite() runs with interrupts masked, but neither a fault nor a     *)
(* reset is masked: either may fall between any two stores.  A step is     *)
(* therefore one store that the boot walk could find made or not made: an  *)
(* eviction, the SKIP word, the move over it, a word of the record, the    *)
(* sequence number, the commit of head.  RingOffsets run free modulo OffMod,   *)
(* as the 32-bit ones of the code do.  A record is a header word, its      *)
(* sequence number and text words that name their record.  Abstracted: the *)
(* text, tags and times, and the level filter (a filtered write returns    *)
(* before it touches anything).                                            *)
(***************************************************************************)
EXTENDS Integers, Sequences

CONSTANTS
    RingSize,       \* LOG_RING_DATA_SIZE, in words
    RecMin, RecMax, \* LOG_REC_MIN, LOG_REC_MAX, in words
    OffMod,         \* 2^32, in words
    Starts,         \* the offsets an earlier run may have left the ring at
    MaxSeq,         \* bound: records written
    MaxResets       \* bound: resets, power losses included

ASSUME LogAssumption ==
    /\ RecMin \in Nat \ {0, 1} /\ RecMax \in Nat /\ RecMin <= RecMax
    /\ RingSize \in Nat /\ RingSize >= 2 * RecMax
    /\ OffMod \in Nat /\ OffMod % RingSize = 0 /\ OffMod >= 4 * RingSize
    /\ MaxSeq \in Nat /\ MaxResets \in Nat
    /\ Starts \subseteq 0 .. OffMod - 1

RingOffsets == 0 .. OffMod - 1
Nil == [kind |-> "none", n |-> 0]    \* a word that is no header
Word(kind, n) == [kind |-> kind, n |-> n]

VARIABLES
    data, head, tail, seq,  \* g_log
    header,     \* how many of magic, version and size hold; 3 when valid
    ready,      \* log_ready
    step,       \* where log_vwrite() or log_init() is; "idle" outside
    rec,        \* the record being written: [len, seq, put (words stored)]
    dying,      \* records the fault handler still has to write; -1: no fault
    resets,
    it,         \* dmesg's iterator: [on, pos, end]
    shown,      \* what dmesg has printed in this pass, by seq
    began       \* ghost: the records there were when the pass began

ringVars == <<data, head, tail, seq, header>>
readVars == <<it, shown, began>>
logVars == <<ringVars, ready, step, rec, dying, resets, readVars>>

Plus(a, b) == (a + b) % OffMod
Minus(a, b) == (a - b) % OffMod
Precedes(a, b) == Minus(a, b) >= OffMod \div 2      \* (int32_t)(a - b) < 0
At(off) == off % RingSize
NoRec == [len |-> 0, seq |-> 0, put |-> 0]

\* The record at off passes the checks of the boot walk and of the iterator.
Plausible(off) ==
    LET w == data[At(off)] IN
        \/ w.kind = "skip" /\ At(off) + w.n = RingSize
        \/ w.kind = "rec" /\ w.n \in RecMin .. RecMax /\ At(off) + w.n <= RingSize

\* Where the boot walk stops, with at most n records to go.
Walk[n \in 0 .. RingSize] == [off \in RingOffsets |->
    IF n = 0 \/ off = head \/ Minus(head, off) > RingSize \/ ~ Plausible(off)
    THEN off ELSE Walk[n - 1][Plus(off, data[At(off)].n)]]
WalkEnd == Walk[RingSize][tail]

\* The record at off, as a reader sees it; its text must be its own.
RecordAt(off) ==
    [seq |-> data[At(off) + 1].n,
     whole |-> /\ data[At(off) + 1].kind = "seq"
               /\ \A k \in 2 .. data[At(off)].n - 1 :
                     data[At(off) + k] = Word("text", data[At(off) + 1].n)]

\* The records from an offset to head, SKIPs left out, at most n of both.
Records[n \in 0 .. RingSize] == [off \in RingOffsets |->
    IF n = 0 \/ off = head \/ ~ Plausible(off) THEN <<>>
    ELSE (IF data[At(off)].kind = "rec" THEN <<RecordAt(off)>> ELSE <<>>)
         \o Records[n - 1][Plus(off, data[At(off)].n)]]

Contents == IF header = 3 THEN Records[RingSize][tail] ELSE <<>>

------------------------------------------------------------------------------
NoPass == [on |-> FALSE, pos |-> 0, end |-> 0]

LogInit ==
    /\ data = [k \in 0 .. RingSize - 1 |-> Nil]
    /\ \E o \in Starts : head = o /\ tail = o
    /\ seq = 0 /\ header \in {0, 3} /\ ready = FALSE
    /\ step = "boot" /\ rec = NoRec /\ dying = -1 /\ resets = 0
    /\ it = NoPass /\ shown = <<>> /\ began = {}

BeginWrite(len) ==
    /\ seq < MaxSeq
    /\ rec' = [len |-> len, seq |-> seq, put |-> 0] /\ step' = "evict"

\* Mutant: the numbering is not kept with the ring.
BootValidRenumbers ==
    /\ step = "boot" /\ header = 3
    /\ head' = WalkEnd /\ ready' = TRUE /\ seq' = 0
    /\ rec' = [len |-> RecMin, seq |-> 0, put |-> 0] /\ step' = "evict"
    /\ UNCHANGED <<data, tail, header, dying, resets, readVars>>

\* log_init() on a ring that survived: head is cut at the first bad record.
BootValid ==
    /\ step = "boot" /\ header = 3
    /\ head' = WalkEnd /\ ready' = TRUE
    /\ BeginWrite(RecMin)
    /\ UNCHANGED <<data, tail, seq, header, dying, resets, readVars>>

\* ... and on one that did not: cleared, then stamped field by field.
BootInvalid ==
    /\ step = "boot" /\ header < 3
    /\ data' = [k \in 0 .. RingSize - 1 |-> Nil]
    /\ head' = 0 /\ tail' = 0 /\ seq' = 0 /\ header' = 0 /\ step' = "stamp"
    /\ UNCHANGED <<ready, rec, dying, resets, readVars>>

BootStamp ==
    /\ step = "stamp" /\ header < 3
    /\ header' = header + 1
    /\ UNCHANGED <<data, head, tail, seq, ready, step, rec, dying, resets, readVars>>

BootStamped ==
    /\ step = "stamp" /\ header = 3
    /\ ready' = TRUE /\ BeginWrite(RecMin)
    /\ UNCHANGED <<ringVars, dying, resets, readVars>>

\* log_vwrite() from a thread or an interrupt handler.
Write ==
    /\ step = "idle" /\ dying = -1 /\ ready
    /\ \E len \in RecMin .. RecMax : BeginWrite(len)
    /\ UNCHANGED <<ringVars, ready, dying, resets, readVars>>

SkipLen == IF At(head) + rec.len > RingSize THEN RingSize - At(head) ELSE 0
Need == SkipLen + rec.len
\* Mutant: room is made for the record alone.
FitsUnpadded == RingSize - Minus(head, tail) >= rec.len \/ tail = head
Fits == RingSize - Minus(head, tail) >= Need \/ tail = head

\* One turn of the eviction loop: a whole record goes, or all if it is corrupt.
Evict ==
    /\ step = "evict" /\ ~ Fits
    /\ LET w == data[At(tail)]
       IN tail' = IF w.kind \in {"rec", "skip"} THEN Plus(tail, w.n) ELSE head
    /\ UNCHANGED <<data, head, seq, header, ready, step, rec, dying, resets, readVars>>

PutSkip ==
    /\ step = "evict" /\ Fits /\ SkipLen > 0
    /\ data' = [data EXCEPT ![At(head)] = Word("skip", SkipLen)]
    /\ step' = "skip"
    /\ UNCHANGED <<head, tail, seq, header, ready, rec, dying, resets, readVars>>

PassSkip ==
    /\ step = "skip"
    /\ head' = Plus(head, SkipLen) /\ step' = "put"
    /\ UNCHANGED <<data, tail, seq, header, ready, rec, dying, resets, readVars>>

NoSkip ==
    /\ step = "evict" /\ Fits /\ SkipLen = 0
    /\ step' = "put"
    /\ UNCHANGED <<ringVars, ready, rec, dying, resets, readVars>>

PutWord ==
    /\ step = "put" /\ rec.put < rec.len
    /\ data' = [data EXCEPT ![At(Plus(head, rec.put))] =
                   CASE rec.put = 0 -> Word("rec", rec.len)
                     [] rec.put = 1 -> Word("seq", rec.seq)
                     [] OTHER -> Word("text", rec.seq)]
    /\ rec' = [rec EXCEPT !.put = @ + 1]
    /\ UNCHANGED <<head, tail, seq, header, ready, step, dying, resets, readVars>>

\* seq before head: a reset in between leaves a gap, never a duplicate.
BumpSeq ==
    /\ step = "put" /\ rec.put = rec.len
    /\ seq' = rec.seq + 1 /\ step' = "commit"
    /\ UNCHANGED <<data, head, tail, header, ready, rec, dying, resets, readVars>>

Commit ==
    /\ step = "commit"
    /\ head' = Plus(head, rec.len) /\ rec' = NoRec
    /\ dying' = IF dying > 0 THEN dying - 1 ELSE dying
    /\ step' = IF dying > 0 THEN "fault" ELSE "idle"
    /\ UNCHANGED <<data, tail, seq, header, ready, resets, readVars>>

------------------------------------------------------------------------------
\* A fault abandons whatever was under way and writes two records of its own;
\* before log_init() is done they are dropped.
Fault ==
    /\ dying = -1 /\ step # "fault"
    /\ dying' = IF ready THEN 2 ELSE 0
    /\ step' = "fault" /\ rec' = NoRec /\ it' = NoPass /\ shown' = <<>> /\ began' = {}
    /\ UNCHANGED <<ringVars, ready, resets>>

FaultWrites ==
    /\ step = "fault" /\ dying > 0
    /\ BeginWrite(RecMax)
    /\ UNCHANGED <<ringVars, ready, dying, resets, readVars>>

Restart ==
    /\ resets < MaxResets /\ resets' = resets + 1
    /\ ready' = FALSE /\ step' = "boot" /\ rec' = NoRec /\ dying' = -1
    /\ it' = NoPass /\ shown' = <<>> /\ began' = {}

\* The watchdog, a pin or the `reboot` command: RAM keeps its content.
Reset == Restart /\ UNCHANGED ringVars

\* Power goes: the noinit section comes back as garbage.
PowerLoss ==
    /\ Restart
    /\ header' = 0 /\ data' = [k \in 0 .. RingSize - 1 |-> Word("text", 0)]
    /\ UNCHANGED <<head, tail, seq>>

------------------------------------------------------------------------------
Quiet == step = "idle" /\ dying = -1

IterStart ==
    /\ Quiet /\ ready /\ ~ it.on
    /\ it' = [on |-> TRUE, pos |-> tail, end |-> head]
    /\ shown' = <<>>
    /\ began' = {Contents[k].seq : k \in DOMAIN Contents}
    /\ UNCHANGED <<ringVars, ready, step, rec, dying, resets>>

Resynced == IF Precedes(it.pos, tail) THEN tail ELSE it.pos

\* The next record from off, over the SKIPs: none at the snapshot's end.
Readable(off) == Precedes(off, it.end) /\ Plausible(off)
OverSkip(off) ==
    IF Readable(off) /\ data[At(off)].kind = "skip" THEN Plus(off, data[At(off)].n) ELSE off
NextRecord(off) ==
    {o \in {OverSkip(OverSkip(off))} : Readable(o) /\ data[At(o)].kind = "rec"}

IterNext ==
    /\ Quiet /\ it.on
    /\ \E o \in NextRecord(Resynced) :
          /\ it' = [it EXCEPT !.pos = Plus(o, data[At(o)].n)]
          /\ shown' = Append(shown, RecordAt(o))
    /\ UNCHANGED <<ringVars, ready, step, rec, dying, resets, began>>

\* The pass is over; `dmesg -c` then clears what came since, too.
IterEnd ==
    /\ Quiet /\ it.on /\ NextRecord(Resynced) = {}
    /\ it' = NoPass /\ shown' = <<>> /\ began' = {}
    /\ tail' \in {tail, head}
    /\ UNCHANGED <<data, head, seq, header, ready, step, rec, dying, resets>>

\* `dmesg -c` from the other shell, once it has printed.
LogClear ==
    /\ Quiet /\ ready
    /\ tail' = head
    /\ UNCHANGED <<data, head, seq, header, ready, step, rec, dying, resets, readVars>>

Writing ==
    \/ BootValid \/ BootInvalid \/ BootStamp \/ BootStamped \/ Write
    \/ Evict \/ PutSkip \/ PassSkip \/ NoSkip \/ PutWord \/ BumpSeq \/ Commit
LogNext ==
    \/ Writing \/ Fault \/ FaultWrites \/ Reset \/ PowerLoss
    \/ IterStart \/ IterNext \/ IterEnd \/ LogClear
LogSpec == LogInit /\ [][LogNext]_logVars

------------------------------------------------------------------------------
LogTypeOK ==
    /\ head \in 0 .. OffMod - 1 /\ tail \in 0 .. OffMod - 1 /\ seq \in 0 .. MaxSeq
    /\ DOMAIN data = 0 .. RingSize - 1 /\ header \in 0 .. 3 /\ ready \in BOOLEAN
    /\ rec.put \in 0 .. rec.len /\ rec.len \in 0 .. RecMax /\ dying \in -1 .. 2

\* Wherever a write stands, a boot walk would go over whole records and SKIPs
\* only, and end at head: a reset between two stores of log_vwrite() costs no
\* record but the one being written, and padding and eviction leave no piece
\* of a record behind.
RingWhole ==
    header = 3 =>
        /\ Minus(head, tail) <= RingSize /\ WalkEnd = head
        /\ \A k \in DOMAIN Contents : Contents[k].whole

\* A pass of dmesg shows whole records in the order they were written, none
\* twice, however many writes and evictions overtake it; at its end it has
\* shown every record of its beginning that is still in the ring.
DmesgFaithful ==
    it.on =>
        /\ \A k \in DOMAIN shown :
              shown[k].whole /\ (k > 1 => shown[k - 1].seq < shown[k].seq)
        /\ Quiet /\ NextRecord(Resynced) = {} =>
              \A k \in DOMAIN Contents :
                 Contents[k].seq \in began => \E j \in DOMAIN shown : shown[j] = Contents[k]

\* The records of the RAM log can be relied on: the ring is whole at every
\* instant a reset may come, and dmesg is faithful to it.
LogSound == LogTypeOK /\ RingWhole /\ DmesgFaithful

Lossy == INSTANCE LossyLog
    WITH log <- Contents, Record <- [seq : 0 .. MaxSeq, whole : {TRUE}]

\* The ring implements the lossy log: a write appends one record whose number
\* was never there before, an eviction takes the oldest, and a reset, a fault
\* and the boot walk of a ring that survived lose nothing.
LogLossy ==
    /\ Lossy!Spec
    /\ [][Reset \/ Fault \/ BootValid => Contents' = Contents]_logVars
=============================================================================
