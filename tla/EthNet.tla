-------------------------------- MODULE EthNet ---------------------------------
(***************************************************************************)
(* The network interface: port/eth/eth_link.c and eth_phy.c (the link      *)
(* thread), port/netxduo/nx_eth_driver.c (MAC start and stop, zero-copy    *)
(* receive and transmit). A region under eth_lock is one step.             *)
(* Abstracted: addresses, header bytes, checksums, counters, fragments.    *)
(* External: the PHY, the HAL's descriptor rings, and NetX: its event      *)
(* flags, its protection mutex and TCP's retransmit queue.                 *)
(***************************************************************************)
EXTENDS Integers, FiniteSets

CONSTANTS Pool,         \* packets of the shared pool
          RxDescs,      \* ETH_RX_DESC_CNT
          TxDescs,      \* ETH_TX_DESC_CNT
          TxPackets,    \* identities of the packets being sent
          Links,        \* what eth_phy_get_link() reports
          MaxStartFails \* bound: HAL_ETH_Start_IT() fails this often
ASSUME EthAssumption ==
    /\ Pool \in Nat /\ RxDescs \in 1 .. Pool /\ TxDescs \in Nat \ {0}
    /\ IsFiniteSet(TxPackets) /\ "none" \notin TxPackets
    /\ Links \subseteq {"down", "unresolved", "10", "100"} /\ "down" \in Links /\ MaxStartFails \in Nat

LinkUp(l) == l # "down"
\* map_speed(), and apply_mac_state()'s: what is not 100 is run at 10. A link's
\* duplex, compared and applied along with its speed, is part of this value.
SpeedOf(l) == IF l = "100" THEN "100" ELSE "10"

VARIABLES
    phy,                    \* the cable and the PHY: external
    linkPc, polled, changed,\* eth_link_entry(): where it is, its `l`, the change it saw
    ethCb, linkKnown, phyLink, started, mac,  \* eth_cb; g of the driver, mac = running at a speed
    armed, filled, held,    \* receive buffers: in descriptors, with a frame, in NetX
    tx, txPc,               \* packets being sent; who is inside eth_tx()
    evLink, evDeferred, ip, ifUp,             \* NetX: event flags, the IP thread, nx_interface_link_up
    startFails

linkVars == <<linkPc, polled, changed>>
drvVars == <<ethCb, linkKnown, phyLink, started, mac>>
rxVars == <<armed, filled, held>>
txVars == <<tx, txPc>>
netxVars == <<evLink, evDeferred, ip, ifUp>>
enVars == <<phy, linkVars, drvVars, rxVars, txVars, netxVars, startFails>>

Unsent == [at |-> "none", l2 |-> FALSE, tcp |-> FALSE]
InPool == Pool - armed - filled - held - Cardinality({p \in TxPackets : tx[p].at # "none"})
Stopped == [run |-> FALSE, speed |-> "10"]

EnInit ==
    /\ phy = "down" /\ linkPc = "sleep" /\ polled = "down" /\ changed = FALSE
    /\ ethCb = FALSE /\ linkKnown = FALSE /\ phyLink = "down" /\ started = FALSE /\ mac = Stopped
    /\ armed = 0 /\ filled = 0 /\ held = 0 /\ tx = [p \in TxPackets |-> Unsent] /\ txPc = "none"
    /\ evLink = FALSE /\ evDeferred = FALSE /\ ip = "boot" /\ ifUp = TRUE
    /\ startFails = 0

PhyChanges ==
    /\ \E l \in Links \ {phy} : phy' = l
    /\ UNCHANGED <<linkVars, drvVars, rxVars, txVars, netxVars, startFails>>

------------------------------------------------------------------------------
(* The MAC. *)

MinOf(a, b) == IF a < b THEN a ELSE b
\* HAL_ETH_Start_IT() and HAL_ETH_ReadData() fill the empty descriptors while
\* HAL_ETH_RxAllocateCallback() finds packets.
Refilled(a, f, free) == a + MinOf(RxDescs - a - f, free)

\* apply_mac_state(), after phyLink' and started'.
\* Mutant: a MAC that runs is left at its speed.
MustStartOnce(up, speed) == up /\ ~ mac.run
MustStart(up, speed) == up /\ (~ mac.run \/ mac.speed # speed)
ApplyMac(enabled, l) ==
    LET want == enabled /\ LinkUp(l) IN
    \/ /\ MustStart(want, SpeedOf(l)) /\ mac' = [run |-> TRUE, speed |-> SpeedOf(l)]
       /\ armed' = Refilled(armed, filled, InPool) /\ UNCHANGED startFails
    \/ /\ MustStart(want, SpeedOf(l)) /\ startFails < MaxStartFails /\ startFails' = startFails + 1
       /\ mac' = [mac EXCEPT !.run = FALSE] /\ UNCHANGED armed
    \/ /\ ~ MustStart(want, SpeedOf(l)) /\ mac' = [mac EXCEPT !.run = mac.run /\ want]
       /\ UNCHANGED <<armed, startFails>>

------------------------------------------------------------------------------
(* eth_link_entry(): one poll every 200 ms, then nx_eth_on_link(). *)

LinkPoll ==
    /\ linkPc = "sleep" /\ ethCb /\ polled' = phy /\ linkPc' = "notify"
    /\ UNCHANGED <<phy, changed, drvVars, rxVars, txVars, netxVars, startFails>>

LinkNotify ==
    /\ linkPc = "notify" /\ linkPc' = "kick"
    /\ changed' = (~ linkKnown \/ polled # phyLink)
    /\ linkKnown' = TRUE /\ phyLink' = polled /\ ApplyMac(started, polled)
    /\ UNCHANGED <<phy, polled, ethCb, started, filled, held, txVars, netxVars>>

\* Mutant: deferred processing is kicked by changes only.
KicksOnChange == changed
Kicks == TRUE
LinkKick ==
    /\ linkPc = "kick" /\ linkPc' = "sleep"
    /\ evLink' = (evLink \/ changed) /\ evDeferred' = (evDeferred \/ Kicks)
    /\ UNCHANGED <<phy, polled, changed, drvVars, rxVars, txVars, ip, ifUp, startFails>>

------------------------------------------------------------------------------
(* The IP thread, under NetX's protection mutex. *)

\* NX_LINK_INITIALIZE: the interface is down until a poll.
EthInitialize ==
    /\ ip = "boot" /\ ip' = "enable" /\ ethCb' = TRUE /\ ifUp' = FALSE
    /\ UNCHANGED <<phy, linkVars, linkKnown, phyLink, started, mac, rxVars, txVars, evLink, evDeferred,
                   startFails>>

EthEnable ==
    /\ ip = "enable" /\ ip' = "wait" /\ started' = TRUE /\ ApplyMac(TRUE, phyLink)
    /\ UNCHANGED <<phy, linkVars, ethCb, linkKnown, phyLink, filled, held, txVars, evLink, evDeferred, ifUp>>

\* nx_link_status_cb(), told what NX_LINK_GET_STATUS reports.
LinkStatus ==
    /\ ip = "wait" /\ txPc = "none" /\ evLink /\ evLink' = FALSE
    /\ ifUp' = LinkUp(phyLink)
    /\ UNCHANGED <<phy, linkVars, drvVars, rxVars, txVars, evDeferred, ip, startFails>>

\* eth_deferred(): the frames, one at a time, then what was transmitted.
DeferredBegins ==
    /\ ip = "wait" /\ txPc = "none" /\ evDeferred /\ evDeferred' = FALSE /\ ip' = "drain"
    /\ UNCHANGED <<phy, linkVars, drvVars, rxVars, txVars, evLink, ifUp, startFails>>

DrainFrame ==
    /\ ip = "drain" /\ mac.run /\ filled > 0
    /\ filled' = filled - 1 /\ armed' = Refilled(armed, filled - 1, InPool)
    /\ held' \in {held, held + 1}      \* dropped for its type, or NetX's
    /\ UNCHANGED <<phy, linkVars, drvVars, txVars, netxVars, startFails>>

DrainEnds ==
    /\ ip = "drain" /\ ~ (mac.run /\ filled > 0) /\ ip' = "reclaim"
    /\ armed' = (IF mac.run THEN Refilled(armed, filled, InPool) ELSE armed)
    /\ UNCHANGED <<phy, linkVars, drvVars, filled, held, txVars, evLink, evDeferred, ifUp, startFails>>

\* eth_tx_unprepend() and _nx_packet_transmit_release(): TCP keeps its packets.
HeaderAfter(r) == FALSE
Released(r) == IF r.tcp THEN [r EXCEPT !.at = "kept", !.l2 = HeaderAfter(r)] ELSE Unsent

Reclaim ==
    /\ ip = "reclaim" /\ ip' = "wait"
    /\ tx' = [p \in TxPackets |-> IF tx[p].at = "sent" THEN Released(tx[p]) ELSE tx[p]]
    /\ UNCHANGED <<phy, linkVars, drvVars, rxVars, txPc, evLink, evDeferred, ifUp, startFails>>

------------------------------------------------------------------------------
(* eth_tx(), called under the protection mutex by the IP thread or a socket's. *)

InRing == {p \in TxPackets : tx[p].at \in {"ring", "sent"}}

TxChecks(p) ==
    /\ ip = "wait" /\ txPc = "none" /\ tx[p].at = "new"
    /\ IF mac.run THEN txPc' = p /\ tx' = [tx EXCEPT ![p].l2 = TRUE]
                  ELSE tx' = [tx EXCEPT ![p] = Released(@)] /\ UNCHANGED txPc
    /\ UNCHANGED <<phy, linkVars, drvVars, rxVars, netxVars, startFails>>

\* HAL_ETH_Transmit_IT() refuses without a free descriptor or a MAC that
\* runs; a chain too long to be copied is dropped before.
TxPosts ==
    /\ txPc # "none" /\ txPc' = "none"
    /\ \/ mac.run /\ Cardinality(InRing) < TxDescs /\ tx' = [tx EXCEPT ![txPc].at = "ring"]
       \/ tx' = [tx EXCEPT ![txPc] = Released(@)]
    /\ UNCHANGED <<phy, linkVars, drvVars, rxVars, netxVars, startFails>>

------------------------------------------------------------------------------
(* External: the DMA and its interrupts, which post the deferred event, and  *)
(* the users of packets.                                                     *)

FrameArrives ==
    /\ mac.run /\ LinkUp(phy) /\ armed > 0 /\ armed' = armed - 1 /\ filled' = filled + 1 /\ evDeferred' = TRUE
    /\ UNCHANGED <<phy, linkVars, drvVars, held, txVars, evLink, ip, ifUp, startFails>>

FrameSent ==
    /\ mac.run /\ evDeferred' = TRUE
    /\ \E p \in TxPackets : tx[p].at = "ring" /\ tx' = [tx EXCEPT ![p].at = "sent"]
    /\ UNCHANGED <<phy, linkVars, drvVars, rxVars, txPc, evLink, ip, ifUp, startFails>>

UserReleases ==
    /\ held > 0 /\ held' = held - 1
    /\ UNCHANGED <<phy, linkVars, drvVars, armed, filled, txVars, netxVars, startFails>>

UserSends(p) ==
    /\ \/ tx[p].at = "none" /\ InPool > 0 /\ \E t \in BOOLEAN : tx' = [tx EXCEPT ![p] = [at |-> "new", l2 |-> FALSE, tcp |-> t]]
       \/ tx[p].at = "kept" /\ tx' = [tx EXCEPT ![p].at = "new"]   \* TCP retransmits
    /\ UNCHANGED <<phy, linkVars, drvVars, rxVars, txPc, netxVars, startFails>>

Acknowledged(p) ==
    /\ tx[p].tcp /\ tx[p].at # "new" /\ txPc # p
    /\ tx' = [tx EXCEPT ![p] = IF @.at = "kept" THEN Unsent ELSE [@ EXCEPT !.tcp = FALSE]]
    /\ UNCHANGED <<phy, linkVars, drvVars, rxVars, txPc, netxVars, startFails>>

LinkThread == LinkPoll \/ LinkNotify \/ LinkKick
IpThread == EthInitialize \/ EthEnable \/ LinkStatus \/ DeferredBegins \/ DrainFrame \/ DrainEnds \/ Reclaim
Sender == TxPosts \/ \E p \in TxPackets : TxChecks(p)
NetUser == UserReleases \/ \E p \in TxPackets : UserSends(p) \/ Acknowledged(p)
EnNext == PhyChanges \/ LinkThread \/ IpThread \/ Sender \/ FrameArrives \/ FrameSent \/ NetUser
EnSpec == EnInit /\ [][EnNext]_enVars
          /\ WF_enVars(LinkThread) /\ WF_enVars(Sender)
          /\ SF_enVars(EthInitialize \/ EthEnable) /\ SF_enVars(LinkStatus) /\ SF_enVars(DeferredBegins)
          /\ WF_enVars(DrainFrame \/ DrainEnds \/ Reclaim)

------------------------------------------------------------------------------
EnTypeOK ==
    /\ {phy, polled, phyLink} \subseteq Links /\ InPool \in 0 .. Pool /\ armed + filled \in 0 .. RxDescs
    /\ Cardinality(InRing) \in 0 .. TxDescs

\* The MAC runs only over a link the last poll found up, and at its speed; a
\* packet carries an Ethernet header exactly while the driver has it, so that
\* TCP retransmits what it queued (issue #79).
EthSound ==
    /\ EnTypeOK
    /\ mac.run => started /\ LinkUp(phyLink) /\ mac.speed = SpeedOf(phyLink)
    /\ \A p \in TxPackets : tx[p].l2 <=> p \in InRing \/ txPc = p

\* Unless frames arrive as fast as eth_deferred(), which has no budget, takes
\* them: the link the cable keeps is the one the MAC runs and NetX believes
\* in, and starved receive descriptors are filled again once packets are free.
LinkFollows ==
    []<>(ip # "drain") =>
        /\ \A l \in Links : <>[](phy = l) =>
              <>[](ifUp = LinkUp(l) /\ mac.run = LinkUp(l) /\ (mac.run => mac.speed = SpeedOf(l)))
        /\ []<>(armed + filled > 0 \/ InPool = 0 \/ ~ mac.run)

------------------------------------------------------------------------------
(* Why EthSound holds, for any pool, descriptors and packets. *)

MacInv ==
    /\ {phy, polled, phyLink} \subseteq Links /\ mac \in [run : BOOLEAN, speed : {"10", "100"}]
    /\ mac.run => started /\ LinkUp(phyLink) /\ mac.speed = SpeedOf(phyLink)

\* Who is inside eth_tx() has a packet that is not queued yet.
TxInv ==
    /\ tx \in [TxPackets -> [at : {"none", "new", "ring", "sent", "kept"}, l2 : BOOLEAN, tcp : BOOLEAN]]
    /\ txPc \in TxPackets \cup {"none"} /\ (txPc # "none" => tx[txPc].at = "new")
    /\ \A p \in TxPackets : tx[p].l2 <=> p \in InRing \/ txPc = p
    /\ Cardinality(InRing) \in 0 .. TxDescs

\* Every packet is in one place: the pool, a descriptor, or with a user.
PoolInv ==
    /\ armed \in Nat /\ filled \in Nat /\ held \in Nat
    /\ armed + filled \in 0 .. RxDescs /\ InPool \in 0 .. Pool

EnInv == MacInv /\ TxInv /\ PoolInv
==============================================================================
